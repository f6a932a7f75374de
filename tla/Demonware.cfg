\* One server, two sockets, two packets.  The process stops when pre_destroy is
\* done and when pre_destroy and the thread wait for each other.
SPECIFICATION FairSpec
CONSTANTS
  Server = {lobby}
  Packet <- MCPacket
  ReplyLength = 2
  MaxPackets = 2
  Socket = {a, b}
  None = none
  MaxRead = 2
INVARIANTS AnswersInOrder SoleReaderFindsBytes QuietWhenDestroyed
PROPERTIES RequestsHandled BlockingRecvReturns JoinReturnsBetweenFrames
CHECK_DEADLOCK FALSE
