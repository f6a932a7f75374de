\* The list alone: three servers, answers in any order, refreshes between them;
\* fair frames and clock, so that the queue drains.
SPECIFICATION FairSpec
CONSTANTS
  s1 = s1
  s2 = s2
  s3 = s3
  Address = {s1, s2, s3}
  Host = {}
  Master = master
  NoHost = nohost
  Info <- ListInfo
  Timeout = 2
  QueryLimit = 2
  Page = 1
  MaxConnects = 0
  MaxAccepts = 0
INVARIANTS OncePerRefresh DrawnRight
PROPERTIES QueueDrains
