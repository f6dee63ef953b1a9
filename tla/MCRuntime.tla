------------------------------- MODULE MCRuntime -------------------------------
(***************************************************************************)
(* The instances of Orchestration and Scheduler that TLC checks: work that *)
(* the engine runs turn by turn, and work that it runs in batches.  They   *)
(* share nothing: part tells which one moves.                              *)
(***************************************************************************)
EXTENDS Orchestration, Scheduler

VARIABLE part

-----------------------------------------------------------------------------
\* The scheduler's inputs: requests of three priorities, two phases and two models,
\* with and without deadlines.
Shape(priority, phase, model, due, tokens) ==
  [priority |-> priority, phase |-> phase, model |-> model, due |-> due, tokens |-> tokens]

MCShapes ==
  {Shape(100, "prefill", "m", 0, 1), Shape(80, "prefill", "m", 0, 2),
   Shape(30, "prefill", "m", 600001, 1), Shape(80, "decode", "n", 1000, 1)}

MCWaits == {600000}

-----------------------------------------------------------------------------
MCInit ==
  /\ part \in {"runs", "batches"}
  /\ Init /\ SchedulerInit
  /\ part = "batches" =>
       /\ ask = [r \in Runs |-> CHOOSE any \in Asks : TRUE]
       /\ enabled = [r \in Runs |-> Roles]

MCNext ==
  \/ part = "runs" /\ Next /\ UNCHANGED <<part, schedulerVars>>
  \/ part = "batches" /\ SchedulerNext /\ UNCHANGED <<part, vars>>

MCSpec == MCInit /\ [][MCNext]_<<part, vars, schedulerVars>> /\ SchedulerFairness

=============================================================================
