----------------------------- MODULE MCDemonware -----------------------------
(***************************************************************************)
(* Instances of Demonware for TLC.                                         *)
(***************************************************************************)
EXTENDS Demonware

\* Two answers in one packet, with a message that gets none between them and
\* one behind the end; and a packet that is never answered.
MCPacket == {<<"service", "hello", "connection", "service">>, <<"throws", "service">>}
=============================================================================
