----------------------------- MODULE MCScheduler -----------------------------
(***************************************************************************)
(* Instances of Scheduler for TLC: an async and a main pipeline and the    *)
(* calls that tell the cases of the scheduler apart.                       *)
(***************************************************************************)
EXTENDS Scheduler

CONSTANTS async, main

MCPipeline == {async, main}

Request(f, p, d) == [form |-> f, pipeline |-> p, delay |-> d]

\* Calls with and without delay on both pipelines, repeating and ending.
SafetyRequests ==
  { Request("once", main, 0), Request("once", async, 1), Request("loop", main, 1),
    Request("schedule", async, 0), Request("on_game_initialized", main, 0) }

\* Loops that repeat in every pass next to calls that must not starve.
LivenessRequests ==
  { Request("once", async, 1), Request("loop", main, 0),
    Request("on_game_initialized", main, 1) }
=============================================================================
