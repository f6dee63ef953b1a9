---------------------------- MODULE Orchestration ----------------------------
(***************************************************************************)
(* Model collaboration runs (openagent_engine/runtime.py,                  *)
(* orchestrate_models) over the engine's store (storage.py): each write is *)
(* a transaction of its own, and an audit event is one more.  Any of them  *)
(* may raise, the gateway may raise, and the process may die between two.  *)
(*                                                                         *)
(* Abstractions.  The content of a turn is named by the turn's number;     *)
(* what is kept of a review is whether it approves.  The rows of several   *)
(* runs share nothing but the store.                                       *)
(***************************************************************************)
EXTENDS Integers, Sequences, FiniteSets, SequencesExt

CONSTANTS
  Runs,        \* calls of orchestrate_models
  Roles,       \* the roles a caller may list
  MaxRounds,   \* max_rounds is at most this
  MaxTurns,    \* of a list of roles at most this many are run (eight)
  MaxList      \* bound: a list of roles is at most this long

Required == {"reasoning", "code", "supervisor"}

ASSUME OrchestrationAssumption ==
  /\ Required \subseteq Roles
  /\ MaxRounds \in Nat \ {0} /\ MaxTurns \in Nat \ {0} /\ MaxList \in Nat \ {0}

VARIABLES
  row,      \* row[r]: the run's row in adaptive_orchestration_runs
  turns,    \* turns[r]: its rows in adaptive_orchestration_turns
  audit,    \* audit[r]: its audit events, but for those of the turns
  pc,       \* step of the call
  ask,      \* ask[r]: mode, roles and max_rounds of the call
  enabled,  \* enabled[r]: the roles configured when the call began
  local,    \* local[r]: the local variables turns (their number), rounds,
            \* approved and final_output
  broken    \* history: calls whose first audit event or last update failed

vars == <<row, turns, audit, pc, ask, enabled, local, broken>>

Steps == {"new", "start", "role", "turn", "finish", "complete", "failing", "failed",
          "returned", "raised", "dead"}
Lists == UNION {[1..n -> Roles] : n \in 1..MaxList}
Asks == [mode : {"supervised-code"}, list : {<<>>}, limit : 1..MaxRounds]
          \cup [mode : {"sequence"}, list : Lists, limit : {1}]

NoRow == [status |-> "none", rounds |-> 0, approved |-> FALSE, output |-> 0]
Fresh == [turns |-> 0, rounds |-> 0, approved |-> FALSE, output |-> 0]

Init ==
  /\ row = [r \in Runs |-> NoRow]
  /\ turns = [r \in Runs |-> <<>>]
  /\ audit = [r \in Runs |-> {}]
  /\ pc = [r \in Runs |-> "new"]
  /\ ask \in [Runs -> Asks]
  /\ enabled \in [Runs -> SUBSET Roles]
  /\ local = [r \in Runs |-> Fresh]
  /\ broken = {}

-----------------------------------------------------------------------------
Goto(r, step) == pc' = [pc EXCEPT ![r] = step]
Supervised(r) == ask[r].mode = "supervised-code"

\* _insert_orchestration_run, the row: it may raise, and there is no run.
Insert(r) ==
  /\ pc[r] = "new"
  /\ \/ /\ row' = [row EXCEPT ![r].status = "running"]
        /\ Goto(r, "start")
     \/ /\ Goto(r, "raised")
        /\ UNCHANGED row
  /\ UNCHANGED <<turns, audit, ask, enabled, local, broken>>

\* ... and its audit event, which is not yet inside the try block.  A
\* supervised run needs its three roles.
AuditStart(r) ==
  /\ pc[r] = "start"
  /\ \/ /\ audit' = [audit EXCEPT ![r] = @ \cup {"start"}]
        /\ Goto(r, IF Supervised(r) /\ ~(Required \subseteq enabled[r])
                   THEN "failing" ELSE "role")
        /\ UNCHANGED broken
     \/ /\ broken' = broken \cup {r}
        /\ Goto(r, "raised")
        /\ UNCHANGED audit
  /\ UNCHANGED <<row, turns, ask, enabled, local>>

\* The roles of a sequence: the first of its list, without a word of the others.
FirstRoles(r) == SubSeq(ask[r].list, 1, Min({Len(ask[r].list), MaxTurns}))

\* The role whose turn it is: a plan, a candidate, then reviews and revisions.
RoleOf(r) ==
  IF ~Supervised(r) THEN FirstRoles(r)[local[r].turns + 1]
  ELSE CASE local[r].turns = 0 -> "reasoning"
         [] local[r].turns % 2 = 1 -> "code"
         [] OTHER -> "supervisor"

\* _run_role: the model is asked and the turn stored.  A review of a
\* supervised run opens a round.
AskRole(r) ==
  /\ pc[r] = "role"
  /\ LET role == RoleOf(r)
         round == IF Supervised(r) /\ role = "supervisor" THEN 1 ELSE 0
     IN  /\ local' = [local EXCEPT ![r].rounds = @ + round]
         /\ \/ /\ role \in enabled[r]
               /\ \E verdict \in (IF role = "supervisor" THEN BOOLEAN ELSE {FALSE}) :
                    turns' = [turns EXCEPT ![r] =
                                Append(@, [role |-> role, approves |-> verdict])]
               /\ Goto(r, "turn")
            \/ /\ Goto(r, "failing")
               /\ UNCHANGED turns
  /\ UNCHANGED <<row, audit, ask, enabled, broken>>

\* Faulty variant: the round limit is looked at one round too late.
OverLate(r, turn) ==
  IF Supervised(r)
  THEN turn.role = "supervisor" /\ (turn.approves \/ local[r].rounds > ask[r].limit)
  ELSE local[r].turns + 1 = Len(FirstRoles(r))

\* Was this the last turn?
Over(r, turn) ==
  IF Supervised(r)
  THEN turn.role = "supervisor" /\ (turn.approves \/ local[r].rounds >= ask[r].limit)
  ELSE local[r].turns + 1 = Len(FirstRoles(r))

\* The local variables after a turn.  The output of a supervised run is the
\* code model's last; a sequence has its results at the end.
AfterSupervised(r, turn) ==
  [local[r] EXCEPT !.turns = @ + 1,
                   !.approved = IF turn.role = "supervisor" THEN turn.approves ELSE @,
                   !.output = IF turn.role = "code" THEN local[r].turns + 1 ELSE @]

AfterListed(r, turn) ==
  IF Over(r, turn)
  THEN [turns |-> local[r].turns + 1, rounds |-> 1, output |-> local[r].turns + 1,
        approved |-> turn.role = "supervisor" => turn.approves]
  ELSE [local[r] EXCEPT !.turns = @ + 1]

\* The turn is audited and the call goes on with its content.
AuditTurn(r) ==
  /\ pc[r] = "turn"
  /\ \/ LET turn == Last(turns[r]) IN
        /\ local' = [local EXCEPT ![r] =
             IF Supervised(r) THEN AfterSupervised(r, turn) ELSE AfterListed(r, turn)]
        /\ Goto(r, IF Over(r, turn) THEN "finish" ELSE "role")
     \/ /\ Goto(r, "failing")
        /\ UNCHANGED local
  /\ UNCHANGED <<row, turns, audit, ask, enabled, broken>>

\* _finish_orchestration_run, with completed ...
Finish(r) ==
  /\ pc[r] = "finish"
  /\ \/ /\ row' = [row EXCEPT ![r] = [status |-> "completed", rounds |-> local[r].rounds,
                      approved |-> local[r].approved, output |-> local[r].output]]
        /\ Goto(r, "complete")
     \/ /\ Goto(r, "failing")
        /\ UNCHANGED row
  /\ UNCHANGED <<turns, audit, ask, enabled, local, broken>>

\* ... and its audit event; if that raises, the run fails after all.
AuditComplete(r) ==
  /\ pc[r] = "complete"
  /\ \/ /\ audit' = [audit EXCEPT ![r] = @ \cup {"complete"}]
        /\ Goto(r, "returned")
     \/ /\ Goto(r, "failing")
        /\ UNCHANGED audit
  /\ UNCHANGED <<row, turns, ask, enabled, local, broken>>

\* Faulty variant of the handler: a run that has completed is left alone.
FailRunning(r) ==
  /\ pc[r] = "failing"
  /\ row' = IF row[r].status = "completed" THEN row
            ELSE [row EXCEPT ![r] = [status |-> "failed", rounds |-> local[r].rounds,
                                     approved |-> FALSE, output |-> local[r].output]]
  /\ Goto(r, "failed")
  /\ UNCHANGED <<turns, audit, ask, enabled, local, broken>>

\* The handler updates the row whatever it says; that may raise as well.
Fail(r) ==
  /\ pc[r] = "failing"
  /\ \/ /\ row' = [row EXCEPT ![r] = [status |-> "failed", rounds |-> local[r].rounds,
                      approved |-> FALSE, output |-> local[r].output]]
        /\ Goto(r, "failed")
        /\ UNCHANGED broken
     \/ /\ broken' = broken \cup {r}
        /\ Goto(r, "raised")
        /\ UNCHANGED row
  /\ UNCHANGED <<turns, audit, ask, enabled, local>>

AuditFail(r) ==
  /\ pc[r] = "failed"
  /\ \/ audit' = [audit EXCEPT ![r] = @ \cup {"fail"}]
     \/ UNCHANGED audit
  /\ Goto(r, "raised")
  /\ UNCHANGED <<row, turns, ask, enabled, local, broken>>

\* The process dies; nothing looks at its rows when another starts.
Crash ==
  /\ \E r \in Runs : pc[r] \notin {"new", "returned", "raised", "dead"}
  /\ pc' = [r \in Runs |-> IF pc[r] \in {"new", "returned", "raised"} THEN pc[r] ELSE "dead"]
  /\ UNCHANGED <<row, turns, audit, ask, enabled, local, broken>>

RunStep(r) ==
  \/ Insert(r) \/ AuditStart(r) \/ AskRole(r) \/ AuditTurn(r)
  \/ Finish(r) \/ AuditComplete(r) \/ Fail(r) \/ AuditFail(r)

Next == Crash \/ \E r \in Runs : RunStep(r)

Spec == Init /\ [][Next]_vars

-----------------------------------------------------------------------------
\* Every variable has its type.
TypeOK ==
  /\ \A r \in Runs :
       /\ row[r].status \in {"none", "running", "completed", "failed"}
       /\ row[r].rounds \in 0..MaxRounds /\ row[r].approved \in BOOLEAN
       /\ turns[r] \in Seq([role : Roles, approves : BOOLEAN])
       /\ audit[r] \subseteq {"start", "complete", "fail"}
       /\ pc[r] \in Steps
       /\ ask[r] \in Asks /\ enabled[r] \subseteq Roles
       /\ local[r].turns \in 0..Len(turns[r]) /\ local[r].rounds \in 0..MaxRounds
  /\ broken \subseteq Runs

TurnsOf(r, role) == {i \in DOMAIN turns[r] : turns[r][i].role = role}

\* A run recorded as completed went the whole way (orchestrate_models): a
\* supervised one ends with a review of the very candidate it gives out, made
\* in a round the caller allowed; it is approved exactly if that review says
\* so, no review before it did.  A sequence ran the first MaxTurns roles of its
\* list in the order given, and is approved unless the last of these is a
\* supervisor that does not approve: a reviewer listed further on is not asked.
Reviewed ==
  \A r \in Runs : row[r].status = "completed" =>
    LET last == Len(turns[r]) IN
    IF Supervised(r)
    THEN /\ turns[r][1].role = "reasoning"
         /\ turns[r][last].role = "supervisor"
         /\ row[r].output = last - 1 /\ turns[r][last - 1].role = "code"
         /\ row[r].rounds = Cardinality(TurnsOf(r, "supervisor"))
         /\ row[r].rounds <= ask[r].limit
         /\ row[r].approved = turns[r][last].approves
         /\ \A i \in 1..last - 1 : ~turns[r][i].approves
         /\ row[r].approved \/ row[r].rounds = ask[r].limit
    ELSE /\ [i \in 1..last |-> turns[r][i].role] = FirstRoles(r)
         /\ row[r].output = last
         /\ row[r].approved = (turns[r][last].role = "supervisor" => turns[r][last].approves)

\* What the caller was told, what the row says and what the audit says agree,
\* although they are written one after the other and each write may raise: a
\* result is returned for a completed run, an exception leaves a failed one,
\* unless the first audit event or the last update raised.
OutcomeRecorded ==
  /\ TypeOK
  /\ \A r \in Runs :
       /\ pc[r] = "returned" => row[r].status = "completed"
       /\ pc[r] = "raised" /\ r \notin broken => row[r].status \in {"failed", "none"}
       /\ "complete" \in audit[r] => row[r].status = "completed" /\ "fail" \notin audit[r]
       /\ "fail" \in audit[r] => row[r].status = "failed"
       /\ row[r].status = "failed" => ~row[r].approved
=============================================================================
