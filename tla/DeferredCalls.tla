---------------------------- MODULE DeferredCalls ----------------------------
(***************************************************************************)
(* What the scheduler promises to the code that hands it callbacks, with   *)
(* no queue, lock, vector or iterator in sight.                            *)
(*                                                                         *)
(* A call is submitted once and stays pending until its delay has passed;  *)
(* it then fires on the pipeline it was submitted to, where at most one    *)
(* handler runs at a time.  A handler either asks to be called again,      *)
(* after its delay has passed once more, or is finished for good.  The     *)
(* call behind on_game_initialized finishes by submitting its callback.    *)
(***************************************************************************)
EXTENDS Naturals

CONSTANTS
  Id,         \* identities of submitted calls
  Pipeline,   \* scheduler::pipeline
  Main,       \* pipeline::main
  Delay,      \* the delays callers pass
  MaxAge      \* ages are not told apart beyond this one

VARIABLES
  status,     \* [Id -> Status]
  call,       \* [Id -> Call], what was asked for
  age         \* [Id -> 0..MaxAge], since submission or since the last firing

vars == <<status, call, age>>

Status == {"unused", "pending", "running", "finished"}
Form   == {"once", "loop", "schedule", "on_game_initialized"}
Call   == [form : Form, pipeline : Pipeline, delay : Delay]

\* on_game_initialized polls on the main pipeline in every frame; pipeline and
\* delay are those of the callback it will submit.
Home(c) == IF c.form = "on_game_initialized" THEN Main ELSE c.pipeline
Wait(c) == IF c.form = "on_game_initialized" THEN 0 ELSE c.delay

Older(a) == IF a < MaxAge THEN a + 1 ELSE a
-----------------------------------------------------------------------------
Init ==
  /\ status = [i \in Id |-> "unused"]
  /\ call \in [Id -> Call]
  /\ age = [i \in Id |-> 0]

\* A caller submits a call; its clock may have been read a little earlier.
Submit(i) ==
  /\ status[i] = "unused"
  /\ status' = [status EXCEPT ![i] = "pending"]
  /\ \E c \in Call : call' = [call EXCEPT ![i] = c]
  /\ \E a \in 0..MaxAge : age' = [age EXCEPT ![i] = a]

\* Time passes for the calls that are not finished.
Tick ==
  /\ age' = [i \in Id |-> IF status[i] \in {"pending", "running"}
                          THEN Older(age[i]) ELSE age[i]]
  /\ UNCHANGED <<status, call>>

Fire(i) ==
  /\ status[i] = "pending"
  /\ age[i] >= Wait(call[i])
  /\ \A j \in Id : status[j] = "running" => Home(call[j]) # Home(call[i])
  /\ status' = [status EXCEPT ![i] = "running"]
  /\ age' = [age EXCEPT ![i] = 0]
  /\ UNCHANGED call

Finish(i) ==
  /\ status[i] = "running"
  /\ call[i].form \in {"once", "schedule"}
  /\ status' = [status EXCEPT ![i] = "finished"]
  /\ UNCHANGED <<call, age>>

Repeat(i) ==
  /\ status[i] = "running"
  /\ call[i].form # "once"
  /\ status' = [status EXCEPT ![i] = "pending"]
  /\ UNCHANGED <<call, age>>

HandOver(i, j) ==
  /\ status[i] = "running"
  /\ status[j] = "unused"
  /\ call[i].form = "on_game_initialized"
  /\ status' = [status EXCEPT ![i] = "finished", ![j] = "pending"]
  /\ call' = [call EXCEPT ![j] = [call[i] EXCEPT !.form = "once"]]
  /\ age' = [age EXCEPT ![j] = 0]

Next ==
  \/ Tick
  \/ \E i \in Id :
       \/ Submit(i)
       \/ Fire(i)
       \/ Finish(i)
       \/ Repeat(i)
       \/ \E j \in Id : HandOver(i, j)

Spec == Init /\ [][Next]_vars
=============================================================================
