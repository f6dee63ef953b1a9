---------------------------- MODULE RuntimeProofs ----------------------------
(***************************************************************************)
(* Proofs about Orchestration, for any runs, roles, round limit and length *)
(* of lists that OrchestrationAssumption allows; and about Scheduler, for  *)
(* any requests, hosts, batch size and reserve that SchedulerAssumption    *)
(* allows.                                                                 *)
(***************************************************************************)
EXTENDS Orchestration, Scheduler, FiniteSetTheorems, SequenceTheorems,
        WellFoundedInduction, TLAPS

Rows == [status : {"none", "running", "completed", "failed"}, rounds : 0..MaxRounds,
         approved : BOOLEAN, output : Nat]
Turns == [role : Roles, approves : BOOLEAN]
Locals == [turns : Nat, rounds : 0..MaxRounds, approved : BOOLEAN, output : Nat]

Types ==
  /\ row \in [Runs -> Rows] /\ turns \in [Runs -> Seq(Turns)]
  /\ audit \in [Runs -> SUBSET {"start", "complete", "fail"}]
  /\ pc \in [Runs -> Steps] /\ ask \in [Runs -> Asks] /\ enabled \in [Runs -> SUBSET Roles]
  /\ local \in [Runs -> Locals] /\ broken \subseteq Runs

-----------------------------------------------------------------------------
(***************************************************************************)
(* The inductive invariant.                                                *)
(***************************************************************************)
\* What the row and the audit say at each step of the call.
StatusOk(r) ==
  /\ pc[r] = "new" => row[r].status = "none"
  /\ pc[r] \in {"start", "role", "turn", "finish"} => row[r].status = "running"
  /\ pc[r] \in {"complete", "returned"} => row[r].status = "completed"
  /\ pc[r] = "failing" => row[r].status \in {"running", "completed"}
  /\ pc[r] = "failed" => row[r].status = "failed"
  /\ pc[r] = "raised" /\ r \notin broken => row[r].status \in {"failed", "none"}
  /\ "complete" \in audit[r] => pc[r] = "returned" /\ "fail" \notin audit[r]
  /\ "fail" \in audit[r] => pc[r] = "raised" /\ row[r].status = "failed"
  /\ row[r].status = "failed" => ~row[r].approved

Reviews(r) == Cardinality(TurnsOf(r, "supervisor"))
RolesSoFar(r) == [i \in 1..Len(turns[r]) |-> turns[r][i].role]

\* A collaboration went the whole way, with these rounds, verdict and output.
Whole(r, rounds, approved, output) ==
  LET last == Len(turns[r]) IN
  IF Supervised(r)
  THEN /\ turns[r][1].role = "reasoning"
       /\ turns[r][last].role = "supervisor"
       /\ output = last - 1 /\ turns[r][last - 1].role = "code"
       /\ rounds = Reviews(r)
       /\ rounds <= ask[r].limit
       /\ approved = turns[r][last].approves
       /\ \A i \in 1..last - 1 : ~turns[r][i].approves
       /\ approved \/ rounds = ask[r].limit
  ELSE /\ RolesSoFar(r) = FirstRoles(r)
       /\ output = last
       /\ approved = (turns[r][last].role = "supervisor" => turns[r][last].approves)

\* The first n turns of a supervised run: no review has approved, and before a
\* review the output is the code of the turn before.
Drafted(r, n) ==
  /\ \A i \in 1..n : ~turns[r][i].approves
  /\ n # 0 => turns[r][1].role = "reasoning"
  /\ n # 0 /\ n % 2 # 1 => local[r].output = n /\ turns[r][n].role = "code"

\* ... and of a sequence.
Listed(r, n) == n <= Len(FirstRoles(r)) /\ \A i \in 1..n : turns[r][i].role = FirstRoles(r)[i]

\* A role is about to be asked.
AtRole(r) ==
  LET n == local[r].turns IN
  /\ Len(turns[r]) = n
  /\ Supervised(r) => /\ Drafted(r, n)
                      /\ local[r].rounds = Reviews(r) /\ local[r].rounds < ask[r].limit
  /\ ~Supervised(r) => Listed(r, n) /\ n # Len(FirstRoles(r))

\* The last turn is stored and not yet part of the local variables.
AtTurn(r) ==
  LET n == local[r].turns IN
  /\ Len(turns[r]) = n + 1
  /\ turns[r][n + 1].role = RoleOf(r)
  /\ Supervised(r) =>
       /\ Drafted(r, n)
       /\ local[r].rounds = Reviews(r) /\ local[r].rounds <= ask[r].limit
       /\ turns[r][n + 1].role # "supervisor" =>
            ~turns[r][n + 1].approves /\ local[r].rounds < ask[r].limit
  /\ ~Supervised(r) => Listed(r, n + 1)

ProgressOk(r) ==
  /\ local[r].turns <= Len(turns[r])
  /\ pc[r] \in {"new", "start"} => turns[r] = <<>> /\ local[r] = Fresh
  /\ pc[r] = "role" => AtRole(r)
  /\ pc[r] = "turn" => AtTurn(r)
  /\ pc[r] = "finish" => Whole(r, local[r].rounds, local[r].approved, local[r].output)
  /\ row[r].status = "completed" => Whole(r, row[r].rounds, row[r].approved, row[r].output)

RunsInv == Types /\ \A r \in Runs : StatusOk(r) /\ ProgressOk(r)

-----------------------------------------------------------------------------
(***************************************************************************)
(* What the steps say of one run.                                          *)
(***************************************************************************)
\* The least of two numbers and of three.
LEMMA MinFacts ==
  ASSUME NEW a \in Nat, NEW b \in Nat, NEW c \in Nat
  PROVE  /\ Min({a, b}) = Smaller(a, b)
         /\ Min({a, b, c}) = Smaller(a, Smaller(b, c))
<1>1. Min({a, b}) = Smaller(a, b)
  <2>1. Smaller(a, b) \in {a, b} /\ \A y \in {a, b} : Smaller(a, b) <= y
    BY DEF Smaller
  <2>2. \A x \in {a, b} : (\A y \in {a, b} : x <= y) => x = Smaller(a, b)
    BY DEF Smaller
  <2>. QED
    BY <2>1, <2>2 DEF Min
<1>2. Min({a, b, c}) = Smaller(a, Smaller(b, c))
  <2> DEFINE m == Smaller(a, Smaller(b, c))
  <2>1. m \in {a, b, c} /\ \A y \in {a, b, c} : m <= y
    BY DEF Smaller
  <2>2. \A x \in {a, b, c} : (\A y \in {a, b, c} : x <= y) => x = m
    BY DEF Smaller
  <2>. QED
    BY <2>1, <2>2 DEF Min
<1>. QED
  BY <1>1, <1>2

\* What a call asks for: a supervised run has a round limit, a sequence has a
\* list of at least one role (runtime.py, orchestrate_models).
LEMMA AskedFor ==
  ASSUME Types, NEW r \in Runs
  PROVE  /\ ask[r].limit \in Nat /\ ask[r].limit >= 1 /\ ask[r].limit <= MaxRounds
         /\ MaxRounds \in Nat
         /\ ~Supervised(r) => /\ FirstRoles(r) \in Seq(Roles) /\ Len(FirstRoles(r)) >= 1
                              /\ DOMAIN FirstRoles(r) = 1..Len(FirstRoles(r))
<1>1. MaxRounds \in Nat /\ MaxList \in Nat /\ MaxRounds >= 1
  BY OrchestrationAssumption
<1>2. ask[r] \in Asks
  BY DEF Types
<1>3. CASE ask[r] \in [mode : {"supervised-code"}, list : {<<>>}, limit : 1..MaxRounds]
  BY <1>1, <1>3 DEF Supervised
<1>4. CASE ask[r] \in [mode : {"sequence"}, list : Lists, limit : {1}]
  <2>1. ask[r].list \in Lists /\ ask[r].limit = 1
    BY <1>4
  <2>2. PICK n \in 1..MaxList : ask[r].list \in [1..n -> Roles]
    BY <2>1 DEF Lists
  <2>3. ask[r].list \in Seq(Roles) /\ Len(ask[r].list) = n /\ n >= 1 /\ n \in Nat
    BY <1>1, <2>2
  <2> DEFINE m == Min({n, MaxTurns})
  <2>4. m \in 1..n /\ m \in Int /\ \A i \in 1..m : ask[r].list[i] \in Roles
    BY <2>2, <2>3, MinFacts, OrchestrationAssumption DEF Smaller
  <2>5. FirstRoles(r) = SubSeq(ask[r].list, 1, m)
    BY <2>3 DEF FirstRoles
  <2> HIDE DEF m
  <2>6. FirstRoles(r) \in Seq(Roles) /\ Len(FirstRoles(r)) = m
    BY <2>3, <2>4, <2>5, SubSeqProperties
  <2> QED
    BY <1>1, <2>1, <2>4, <2>6
<1> QED
  BY <1>2, <1>3, <1>4 DEF Asks

\* Nothing of run u that the invariant reads has changed but, perhaps, its
\* step, its row, its audit events and its failure.
SameWork(u) ==
  turns'[u] = turns[u] /\ ask'[u] = ask[u] /\ local'[u] = local[u]

SameRun(u) ==
  /\ SameWork(u) /\ pc'[u] = pc[u] /\ row'[u] = row[u] /\ audit'[u] = audit[u]
  /\ (u \in broken') = (u \in broken)

\* A step that leaves a run's turns and local variables alone leaves alone what
\* is said of its progress (runtime.py, orchestrate_models).
LEMMA WorkKept ==
  ASSUME NEW u, SameWork(u)
  PROVE  /\ Supervised(u)' = Supervised(u) /\ Reviews(u)' = Reviews(u)
         /\ RolesSoFar(u)' = RolesSoFar(u) /\ FirstRoles(u)' = FirstRoles(u)
         /\ (AtRole(u) => AtRole(u)') /\ (AtTurn(u) => AtTurn(u)')
<1> USE DEF SameWork
<1>1. Supervised(u)' = Supervised(u)
  BY DEF Supervised
<1>2. TurnsOf(u, "supervisor")' = TurnsOf(u, "supervisor")
  BY DEF TurnsOf
<1>3. Reviews(u)' = Reviews(u)
  BY <1>2 DEF Reviews
<1>4. RolesSoFar(u)' = RolesSoFar(u)
  BY DEF RolesSoFar
<1>5. FirstRoles(u)' = FirstRoles(u)
  BY DEF FirstRoles
<1>6. ASSUME AtRole(u) PROVE AtRole(u)'
  BY <1>1, <1>3, <1>5, <1>6 DEF AtRole, Drafted, Listed
<1>7. RoleOf(u)' = RoleOf(u)
  BY <1>1, <1>5 DEF RoleOf
<1>8. ASSUME AtTurn(u) PROVE AtTurn(u)'
  BY <1>1, <1>3, <1>5, <1>7, <1>8 DEF AtTurn, Drafted, Listed
<1> QED
  BY <1>1, <1>3, <1>4, <1>5, <1>6, <1>8

\* A run no step touches keeps what holds of it.
LEMMA RunKept ==
  ASSUME NEW u, SameRun(u), StatusOk(u), ProgressOk(u)
  PROVE  StatusOk(u)' /\ ProgressOk(u)'
<1>1. StatusOk(u)'
  BY DEF SameRun, SameWork, StatusOk
<1>2. SameWork(u)
  BY DEF SameRun
<1>3. /\ Supervised(u)' = Supervised(u) /\ Reviews(u)' = Reviews(u)
      /\ RolesSoFar(u)' = RolesSoFar(u) /\ FirstRoles(u)' = FirstRoles(u)
      /\ (AtRole(u) => AtRole(u)') /\ (AtTurn(u) => AtTurn(u)')
  BY <1>2, WorkKept
<1>4. ProgressOk(u)'
  BY <1>3 DEF SameRun, SameWork, ProgressOk, Whole
<1> QED
  BY <1>1, <1>4

\* A step of run r is the only thing that touches run r.
LEMMA OthersKept ==
  ASSUME Types, NEW r \in Runs, RunStep(r), NEW u \in Runs, u # r
  PROVE  SameRun(u)
<1> USE DEF SameRun, SameWork, Types, Goto
<1>1. CASE Insert(r) BY <1>1 DEF Insert
<1>2. CASE AuditStart(r) BY <1>2 DEF AuditStart
<1>3. CASE AskRole(r) BY <1>3 DEF AskRole
<1>4. CASE AuditTurn(r) BY <1>4 DEF AuditTurn
<1>5. CASE Finish(r) BY <1>5 DEF Finish
<1>6. CASE AuditComplete(r) BY <1>6 DEF AuditComplete
<1>7. CASE Fail(r) BY <1>7 DEF Fail
<1>8. CASE AuditFail(r) BY <1>8 DEF AuditFail
<1> QED
  BY <1>1, <1>2, <1>3, <1>4, <1>5, <1>6, <1>7, <1>8 DEF RunStep

\* What row and audit say keeps agreeing with the step of the call.
LEMMA StatusNext ==
  ASSUME Types, NEW r \in Runs, RunStep(r), StatusOk(r)
  PROVE  StatusOk(r)'
<1> USE DEF StatusOk, Types, Goto
<1>1. CASE Insert(r)
  <2>1. row[r] \in Rows /\ audit' = audit /\ broken' = broken /\ pc[r] = "new"
    BY <1>1 DEF Insert
  <2>2. CASE row' = [row EXCEPT ![r].status = "running"] /\ pc' = [pc EXCEPT ![r] = "start"]
    <3>1. row'[r].status = "running" /\ pc'[r] = "start"
      BY <2>1, <2>2 DEF Rows
    <3> QED
      BY <2>1, <3>1
  <2>3. CASE row' = row /\ pc' = [pc EXCEPT ![r] = "raised"]
    BY <2>1, <2>3
  <2> QED
    BY <1>1, <2>2, <2>3 DEF Insert
<1>2. CASE AuditStart(r) BY <1>2 DEF AuditStart
<1>3. CASE AskRole(r)
  <2>1. /\ row' = row /\ audit' = audit /\ broken' = broken /\ pc[r] = "role"
        /\ pc'[r] \in {"turn", "failing"}
    BY <1>3 DEF AskRole
  <2> QED
    BY <2>1
<1>4. CASE AuditTurn(r)
  <2>1. /\ row' = row /\ audit' = audit /\ broken' = broken /\ pc[r] = "turn"
        /\ pc'[r] \in {"finish", "role", "failing"}
    BY <1>4 DEF AuditTurn
  <2> QED
    BY <2>1
<1>5. CASE Finish(r) BY <1>5 DEF Finish
<1>6. CASE AuditComplete(r) BY <1>6 DEF AuditComplete
<1>7. CASE Fail(r) BY <1>7 DEF Fail
<1>8. CASE AuditFail(r) BY <1>8 DEF AuditFail
<1> QED
  BY <1>1, <1>2, <1>3, <1>4, <1>5, <1>6, <1>7, <1>8 DEF RunStep

-----------------------------------------------------------------------------
(***************************************************************************)
(* Types.                                                                  *)
(***************************************************************************)
\* The verdict, the rounds and the output of a turn have their types.
LEMMA AfterTyped ==
  ASSUME Types, NEW r \in Runs, NEW turn \in Turns
  PROVE  AfterSupervised(r, turn) \in Locals /\ AfterListed(r, turn) \in Locals
<1>1. local[r] \in Locals /\ MaxRounds \in Nat /\ MaxRounds >= 1
  BY OrchestrationAssumption DEF Types
<1>2. AfterSupervised(r, turn) \in Locals
  <2> DEFINE n == local[r].turns + 1
             a == IF turn.role = "supervisor" THEN turn.approves ELSE local[r].approved
             o == IF turn.role = "code" THEN n ELSE local[r].output
  <2>1. n \in Nat /\ a \in BOOLEAN /\ o \in Nat /\ local[r].rounds \in 0..MaxRounds
    BY <1>1 DEF Locals, Turns
  <2>2. AfterSupervised(r, turn)
          = [local[r] EXCEPT !.turns = n, !.approved = a, !.output = o]
    BY <1>1 DEF AfterSupervised, Locals
  <2> HIDE DEF n, a, o
  <2> QED
    BY <1>1, <2>1, <2>2 DEF Locals
<1>3. AfterListed(r, turn) \in Locals
  BY <1>1 DEF AfterListed, Locals, Turns
<1> QED
  BY <1>2, <1>3

\* A step of a run keeps the types.
LEMMA TypesNext ==
  ASSUME Types, NEW r \in Runs, RunStep(r), ProgressOk(r)
  PROVE  Types'
<1>0. MaxRounds \in Nat
  BY OrchestrationAssumption
<1>1. CASE Insert(r)
  <2> DEFINE written == [row[r] EXCEPT !.status = "running"]
  <2>0. written \in Rows
    BY DEF Types, Rows
  <2>1. row' \in [Runs -> Rows]
    <3>1. row' = row \/ row' = [row EXCEPT ![r] = written]
      BY <1>1 DEF Insert
    <3> QED
      BY <2>0, <3>1 DEF Types
  <2>2. pc' \in [Runs -> Steps]
    BY <1>1 DEF Insert, Types, Goto, Steps
  <2> QED
    BY <1>1, <2>1, <2>2 DEF Insert, Types
<1>2. CASE AuditStart(r)
  <2>1. pc' \in [Runs -> Steps]
    BY <1>2 DEF AuditStart, Types, Goto, Steps
  <2>2. audit' \in [Runs -> SUBSET {"start", "complete", "fail"}]
    BY <1>2 DEF AuditStart, Types
  <2>3. broken' \subseteq Runs
    BY <1>2 DEF AuditStart, Types
  <2> QED
    BY <1>2, <2>1, <2>2, <2>3 DEF AuditStart, Types
<1>3. CASE AskRole(r)
  <2>1. AtRole(r) /\ pc[r] = "role"
    BY <1>3 DEF AskRole, ProgressOk
  <2>2. local' \in [Runs -> Locals]
    <3>1. PICK k \in {0, 1} : /\ local' = [local EXCEPT ![r].rounds = @ + k]
                              /\ k = 1 => Supervised(r)
      <4> DEFINE round == IF Supervised(r) /\ RoleOf(r) = "supervisor" THEN 1 ELSE 0
      <4>1. local' = [local EXCEPT ![r].rounds = @ + round]
        BY <1>3 DEF AskRole
      <4>2. round \in {0, 1} /\ (round = 1 => Supervised(r))
        OBVIOUS
      <4> HIDE DEF round
      <4> QED
        BY <4>1, <4>2
    <3>2. local[r].rounds + k \in 0..MaxRounds
      BY <1>0, <2>1, <3>1, AskedFor DEF AtRole, Types, Locals
    <3> QED
      BY <3>1, <3>2 DEF Types, Locals
  <2>3. turns' \in [Runs -> Seq(Turns)]
    <3>1. CASE turns' = turns
      BY <3>1 DEF Types
    <3>2. CASE RoleOf(r) \in enabled[r] /\ \E verdict \in BOOLEAN :
                 turns' = [turns EXCEPT ![r] =
                             Append(@, [role |-> RoleOf(r), approves |-> verdict])]
      <4>1. PICK verdict \in BOOLEAN : turns' = [turns EXCEPT ![r] =
                             Append(@, [role |-> RoleOf(r), approves |-> verdict])]
        BY <3>2
      <4>2. [role |-> RoleOf(r), approves |-> verdict] \in Turns
        BY <3>2 DEF Turns, Types
      <4>3. Append(turns[r], [role |-> RoleOf(r), approves |-> verdict]) \in Seq(Turns)
        BY <4>2 DEF Types
      <4> QED
        BY <4>1, <4>3 DEF Types
    <3> QED
      BY <1>3, <3>1, <3>2 DEF AskRole
  <2>4. pc' \in [Runs -> Steps]
    BY <1>3 DEF AskRole, Types, Goto, Steps
  <2> QED
    BY <1>3, <2>2, <2>3, <2>4 DEF AskRole, Types
<1>4. CASE AuditTurn(r)
  <2>1. AtTurn(r)
    BY <1>4 DEF AuditTurn, ProgressOk
  <2>2. Last(turns[r]) \in Turns
    BY <2>1 DEF AtTurn, Types, Locals, Last
  <2>3. local' \in [Runs -> Locals]
    <3> DEFINE turn == Last(turns[r])
               written == IF Supervised(r) THEN AfterSupervised(r, turn) ELSE AfterListed(r, turn)
    <3>1. written \in Locals
      BY <2>2, AfterTyped
    <3>2. local' = local \/ local' = [local EXCEPT ![r] = written]
      BY <1>4 DEF AuditTurn
    <3> HIDE DEF written
    <3> QED
      BY <3>1, <3>2 DEF Types
  <2>4. pc' \in [Runs -> Steps]
    BY <1>4 DEF AuditTurn, Types, Goto, Steps
  <2> QED
    BY <1>4, <2>3, <2>4 DEF AuditTurn, Types
<1>5. CASE Finish(r)
  <2> DEFINE written == [status |-> "completed", rounds |-> local[r].rounds,
                           approved |-> local[r].approved, output |-> local[r].output]
  <2>1. written \in Rows
    BY DEF Types, Locals, Rows
  <2>2. row' = row \/ row' = [row EXCEPT ![r] = written]
    BY <1>5 DEF Finish
  <2>3. row' \in [Runs -> Rows]
    BY <2>1, <2>2 DEF Types
  <2>4. pc' \in [Runs -> Steps]
    BY <1>5 DEF Finish, Types, Goto, Steps
  <2> QED
    BY <1>5, <2>3, <2>4 DEF Finish, Types
<1>6. CASE AuditComplete(r)
  <2>1. audit' \in [Runs -> SUBSET {"start", "complete", "fail"}]
    <3> DEFINE written == audit[r] \cup {"complete"}
    <3>1. written \in SUBSET {"start", "complete", "fail"}
      BY DEF Types
    <3>2. audit' = audit \/ audit' = [audit EXCEPT ![r] = written]
      BY <1>6 DEF AuditComplete
    <3> HIDE DEF written
    <3> QED
      BY <3>1, <3>2 DEF Types
  <2>2. pc' \in [Runs -> Steps]
    BY <1>6 DEF AuditComplete, Types, Goto, Steps
  <2> QED
    BY <1>6, <2>1, <2>2 DEF AuditComplete, Types
<1>7. CASE Fail(r)
  <2> DEFINE written == [status |-> "failed", rounds |-> local[r].rounds,
                           approved |-> FALSE, output |-> local[r].output]
  <2>1. written \in Rows
    BY DEF Types, Locals, Rows
  <2>2. row' = row \/ row' = [row EXCEPT ![r] = written]
    BY <1>7 DEF Fail
  <2>3. row' \in [Runs -> Rows]
    BY <2>1, <2>2 DEF Types
  <2>4. pc' \in [Runs -> Steps]
    BY <1>7 DEF Fail, Types, Goto, Steps
  <2> QED
    BY <1>7, <2>3, <2>4 DEF Fail, Types
<1>8. CASE AuditFail(r)
  <2>1. audit' \in [Runs -> SUBSET {"start", "complete", "fail"}]
    <3> DEFINE written == audit[r] \cup {"fail"}
    <3>1. written \in SUBSET {"start", "complete", "fail"}
      BY DEF Types
    <3>2. audit' = audit \/ audit' = [audit EXCEPT ![r] = written]
      BY <1>8 DEF AuditFail
    <3> HIDE DEF written
    <3> QED
      BY <3>1, <3>2 DEF Types
  <2>2. pc' \in [Runs -> Steps]
    BY <1>8 DEF AuditFail, Types, Goto, Steps
  <2> QED
    BY <1>8, <2>1, <2>2 DEF AuditFail, Types
<1> QED
  BY <1>1, <1>2, <1>3, <1>4, <1>5, <1>6, <1>7, <1>8 DEF RunStep

-----------------------------------------------------------------------------
(***************************************************************************)
(* A role is asked.                                                        *)
(***************************************************************************)
\* The turn of the role that was asked is the one the run is at, and a review
\* opens the round it is made in (runtime.py, _run_role and its callers).
LEMMA RoleAsked ==
  ASSUME Types, NEW r \in Runs, AtRole(r),
         NEW verdict \in BOOLEAN, RoleOf(r) # "supervisor" => ~verdict, RoleOf(r) \in Roles,
         ask' = ask,
         turns' = [turns EXCEPT ![r] =
                     Append(@, [role |-> RoleOf(r), approves |-> verdict])],
         local' = [local EXCEPT ![r].rounds =
                     @ + IF Supervised(r) /\ RoleOf(r) = "supervisor" THEN 1 ELSE 0]
  PROVE  AtTurn(r)'
<1> DEFINE n == local[r].turns
           review == Supervised(r) /\ RoleOf(r) = "supervisor"
<1>1. PICK role : role = RoleOf(r)
  OBVIOUS
<1>2. PICK t : t = [role |-> role, approves |-> verdict]
  OBVIOUS
<1>3. t \in Turns /\ t.role = role /\ t.approves = verdict
  BY <1>1, <1>2 DEF Turns
<1>4. n \in Nat /\ Len(turns[r]) = n /\ turns[r] \in Seq(Turns)
  BY DEF AtRole, Types, Locals
<1>5. turns'[r] = Append(turns[r], t)
  BY <1>1, <1>2 DEF Types
<1>6. /\ Len(turns'[r]) = n + 1 /\ turns'[r][n + 1] = t
      /\ \A i \in 1..n : turns'[r][i] = turns[r][i]
  BY <1>3, <1>4, <1>5
<1>7. /\ local'[r].turns = n /\ local'[r].output = local[r].output
      /\ local'[r].rounds = local[r].rounds + IF review THEN 1 ELSE 0
  <2>1. local'[r] = [local[r] EXCEPT !.rounds = @ + IF review THEN 1 ELSE 0]
    BY DEF Types
  <2> HIDE DEF review
  <2> QED
    BY <2>1 DEF Types, Locals
<1>8. Supervised(r)' = Supervised(r) /\ FirstRoles(r)' = FirstRoles(r)
  BY DEF Supervised, FirstRoles
<1>9. RoleOf(r)' = role
  BY <1>1, <1>7, <1>8 DEF RoleOf
<1>10. Supervised(r) => Reviews(r)' = Reviews(r) + IF review THEN 1 ELSE 0
  <2> DEFINE T == TurnsOf(r, "supervisor")
  <2>0. DOMAIN turns[r] = 1..n /\ DOMAIN turns'[r] = 1..(n + 1)
    BY <1>3, <1>4, <1>5
  <2>1. T = {i \in 1..n : turns[r][i].role = "supervisor"}
    BY <2>0 DEF TurnsOf
  <2>2. TurnsOf(r, "supervisor")' = {i \in 1..(n + 1) : turns'[r][i].role = "supervisor"}
    BY <2>0 DEF TurnsOf
  <2>3. IsFiniteSet(T)
    <3>1. IsFiniteSet(1..n)
      <4>1. \A k \in Nat : 1 \in Int /\ k \in Int
        OBVIOUS
      <4>2. \A k \in Nat : IsFiniteSet(1..k)
        BY <4>1, FS_Interval
      <4> QED
        BY <1>4, <4>2
    <3>2. T \subseteq 1..n
      BY <2>1
    <3> HIDE DEF T, n
    <3> QED
      BY <3>1, <3>2, FS_Subset
  <2>4. n + 1 \notin T
    BY <1>4, <2>1
  <2>5. CASE role = "supervisor"
    <3>1. TurnsOf(r, "supervisor")' = T \cup {n + 1}
      BY <1>3, <1>4, <1>6, <2>1, <2>2, <2>5
    <3>2. Cardinality(T \cup {n + 1}) = Cardinality(T) + 1
      BY <2>3, <2>4, FS_AddElement
    <3> QED
      BY <1>1, <2>5, <3>1, <3>2 DEF Reviews
  <2>6. CASE role # "supervisor"
    <3>1. TurnsOf(r, "supervisor")' = T
      <4>1. \A i \in 1..n : i \in 1..(n + 1) /\ i # n + 1
        BY <1>4
      <4>2. \A i \in 1..(n + 1) : i \in 1..n \/ i = n + 1
        BY <1>4
      <4>3. \A i \in TurnsOf(r, "supervisor")' : i \in T
        BY <1>3, <1>6, <2>1, <2>2, <2>6, <4>2
      <4>4. \A i \in T : i \in TurnsOf(r, "supervisor")'
        BY <1>6, <2>1, <2>2, <4>1
      <4> QED
        BY <4>3, <4>4
    <3>2. Cardinality(T) \in Nat
      BY <2>3, FS_CardinalityType
    <3>3. Reviews(r)' = Reviews(r) /\ Reviews(r) \in Nat
      BY <3>1, <3>2 DEF Reviews
    <3> QED
      BY <1>1, <2>6, <3>3
  <2> QED
    BY <2>5, <2>6
<1>11. /\ ask[r].limit \in Nat /\ local[r].rounds \in Nat
       /\ Supervised(r) => local[r].rounds < ask[r].limit /\ local[r].rounds = Reviews(r)
  BY AskedFor, OrchestrationAssumption DEF AtRole, Types, Locals
<1>12. ASSUME Supervised(r)
       PROVE  /\ Drafted(r, n)'
              /\ (local[r].rounds = Reviews(r) /\ local[r].rounds <= ask[r].limit)'
              /\ role # "supervisor" => ~verdict /\ (local[r].rounds < ask[r].limit)'
  <2>1. Drafted(r, n)
    BY <1>12 DEF AtRole
  <2>2. Drafted(r, n)'
    BY <1>4, <1>6, <1>7, <2>1 DEF Drafted
  <2>3. (local[r].rounds = Reviews(r) /\ local[r].rounds <= ask[r].limit)'
    BY <1>7, <1>10, <1>11, <1>12
  <2>4. role # "supervisor" => ~verdict /\ (local[r].rounds < ask[r].limit)'
    BY <1>1, <1>7, <1>11, <1>12
  <2> QED
    BY <2>2, <2>3, <2>4
<1>13. ASSUME ~Supervised(r) PROVE Listed(r, n + 1)'
  <2>1. Listed(r, n) /\ n # Len(FirstRoles(r)) /\ Len(FirstRoles(r)) \in Nat
    BY <1>13, AskedFor DEF AtRole
  <2>2. role = FirstRoles(r)[n + 1]
    BY <1>1, <1>13 DEF RoleOf
  <2>3. n + 1 <= Len(FirstRoles(r))
    BY <1>4, <2>1 DEF Listed
  <2>4. \A i \in 1..(n + 1) : turns'[r][i].role = FirstRoles(r)[i]
    BY <1>3, <1>4, <1>6, <2>1, <2>2 DEF Listed
  <2> QED
    BY <1>7, <2>3, <2>4 DEF Listed, FirstRoles
<1> HIDE DEF review
<1> QED
  BY <1>3, <1>6, <1>7, <1>8, <1>9, <1>12, <1>13 DEF AtTurn

-----------------------------------------------------------------------------
(***************************************************************************)
(* A turn is over.                                                         *)
(***************************************************************************)
\* The role that is asked follows from the number of turns before it, and it
\* is the parity of that number that decides (runtime.py, orchestrate_models).
LEMMA WhoseTurn ==
  ASSUME Types, NEW r \in Runs, Supervised(r)
  PROVE  LET n == local[r].turns IN
         /\ n \in Nat
         /\ n = 0 => RoleOf(r) = "reasoning"
         /\ n # 0 /\ n % 2 = 1 => RoleOf(r) = "code"
         /\ n # 0 /\ n % 2 # 1 => RoleOf(r) = "supervisor" /\ (n + 1) % 2 = 1
<1>1. PICK n \in Nat : n = local[r].turns
  BY DEF Types, Locals
<1>2. n % 2 # 1 => (n + 1) % 2 = 1
  OBVIOUS
<1>3. n = 0 => n % 2 = 0
  OBVIOUS
<1> QED
  BY <1>1, <1>2, <1>3 DEF RoleOf

\* After a turn that is not the last the next role is asked; after the last
\* the collaboration went the whole way (runtime.py, orchestrate_models).
LEMMA TurnOver ==
  ASSUME Types, NEW r \in Runs, AtTurn(r), NEW turn,
         turn = Last(turns[r]), turns' = turns, ask' = ask,
         local' = [local EXCEPT ![r] =
           IF Supervised(r) THEN AfterSupervised(r, turn) ELSE AfterListed(r, turn)]
  PROVE  /\ ~Over(r, turn) => AtRole(r)'
         /\ Over(r, turn) =>
              Whole(r, local[r].rounds, local[r].approved, local[r].output)'
         /\ local'[r].turns = local[r].turns + 1
<1>1. PICK n \in Nat : n = local[r].turns
  BY DEF Types, Locals
<1>2. PICK l \in Locals : l = local[r]
  BY DEF Types
<1>3. PICK seq \in Seq(Turns) : seq = turns[r]
  BY DEF Types
<1>4. PICK limit : limit = ask[r].limit
  OBVIOUS
<1>5. limit \in Nat
  BY <1>4, AskedFor
<1>6. Len(seq) = n + 1 /\ seq[n + 1] = turn /\ turn \in Turns /\ turn.role = RoleOf(r)
  <2>1. Len(seq) = n + 1
    BY <1>1, <1>3 DEF AtTurn
  <2>2. turn = seq[n + 1]
    BY <1>3, <2>1 DEF Last
  <2>3. n + 1 \in 1..(n + 1)
    OBVIOUS
  <2> QED
    BY <1>1, <1>3, <2>1, <2>2, <2>3 DEF AtTurn
<1>7. Supervised(r)' = Supervised(r)
  BY DEF Supervised
<1>8. Reviews(r)' = Reviews(r)
  BY DEF Reviews, TurnsOf
<1>9. RolesSoFar(r)' = [i \in 1..(n + 1) |-> seq[i].role]
  BY <1>3, <1>6 DEF RolesSoFar
<1>10. CASE Supervised(r)
  <2> DEFINE approved == IF turn.role = "supervisor" THEN turn.approves ELSE l.approved
             output == IF turn.role = "code" THEN n + 1 ELSE l.output
  <2>1. local'[r] = [l EXCEPT !.turns = n + 1, !.approved = approved, !.output = output]
    BY <1>1, <1>2, <1>10 DEF AfterSupervised, Types, Locals
  <2>2. /\ local'[r].turns = n + 1 /\ local'[r].rounds = l.rounds
        /\ local'[r].approved = approved /\ local'[r].output = output
    <3> HIDE DEF approved, output
    <3> QED
      BY <2>1 DEF Locals
  <2>3. /\ \A i \in 1..n : ~seq[i].approves
        /\ n # 0 => seq[1].role = "reasoning"
        /\ n # 0 /\ n % 2 # 1 => l.output = n /\ seq[n].role = "code"
    BY <1>1, <1>2, <1>3, <1>10 DEF AtTurn, Drafted
  <2>4. l.rounds = Reviews(r) /\ l.rounds <= limit /\ l.rounds \in Nat
    <3>1. l.rounds \in Nat
      BY <1>2, OrchestrationAssumption DEF Locals
    <3> QED
      BY <1>2, <1>4, <1>10, <3>1 DEF AtTurn
  <2>5. turn.role # "supervisor" => ~turn.approves /\ l.rounds < limit
    BY <1>1, <1>2, <1>3, <1>4, <1>6, <1>10 DEF AtTurn
  <2>6. /\ n = 0 => turn.role = "reasoning"
        /\ n # 0 /\ n % 2 = 1 => turn.role = "code"
        /\ n # 0 /\ n % 2 # 1 => turn.role = "supervisor" /\ (n + 1) % 2 = 1
    BY <1>1, <1>6, <1>10, WhoseTurn
  <2>7. Over(r, turn) <=> turn.role = "supervisor" /\ (turn.approves \/ l.rounds >= limit)
    BY <1>2, <1>4, <1>10 DEF Over
  <2>8. ASSUME ~Over(r, turn) PROVE AtRole(r)'
    <3>1. ~turn.approves /\ l.rounds < limit
      BY <1>5, <2>4, <2>5, <2>7, <2>8
    <3>2. \A i \in 1..(n + 1) : ~seq[i].approves
      BY <1>6, <2>3, <3>1
    <3>3. seq[1].role = "reasoning"
      BY <1>6, <2>3, <2>6
    <3>4. (n + 1) % 2 # 1 => output = n + 1 /\ seq[n + 1].role = "code"
      <4>1. (n + 1) % 2 # 1 => n # 0 /\ n % 2 = 1
        BY <2>6
      <4> QED
        BY <1>6, <2>6, <4>1
    <3>5. Len(turns'[r]) = local'[r].turns
      BY <1>3, <1>6, <2>2
    <3>6. Drafted(r, local[r].turns)'
      BY <1>1, <1>3, <2>2, <3>2, <3>3, <3>4 DEF Drafted
    <3>7. (local[r].rounds = Reviews(r) /\ local[r].rounds < ask[r].limit)'
      BY <1>4, <1>8, <2>2, <2>4, <3>1
    <3> QED
      BY <1>7, <1>10, <3>5, <3>6, <3>7 DEF AtRole
  <2>9. ASSUME Over(r, turn)
        PROVE  Whole(r, local[r].rounds, local[r].approved, local[r].output)'
    <3>1. turn.role = "supervisor" /\ (turn.approves \/ l.rounds >= limit)
      BY <2>7, <2>9
    <3>2. n # 0 /\ n % 2 # 1
      BY <2>6, <3>1
    <3>3. approved = turn.approves /\ output = n
      BY <2>3, <3>1, <3>2
    <3>4. l.rounds = Reviews(r)' /\ (turn.approves \/ l.rounds = limit)
      BY <1>5, <1>8, <2>4, <3>1
    <3>5. /\ turns'[r] = seq /\ Len(seq) = n + 1 /\ n + 1 - 1 = n /\ ask'[r].limit = limit
          /\ local'[r].rounds = l.rounds /\ local'[r].approved = turn.approves
          /\ local'[r].output = n
      BY <1>3, <1>4, <1>6, <2>2, <3>3
    <3> HIDE DEF approved, output
    <3>6. /\ turns'[r][1].role = "reasoning"
          /\ turns'[r][Len(turns'[r])].role = "supervisor"
          /\ local'[r].output = Len(turns'[r]) - 1
          /\ turns'[r][Len(turns'[r]) - 1].role = "code"
      BY <1>6, <2>3, <3>1, <3>2, <3>5
    <3>7. /\ local'[r].rounds = Reviews(r)' /\ local'[r].rounds <= ask'[r].limit
          /\ local'[r].approved = turns'[r][Len(turns'[r])].approves
          /\ local'[r].approved \/ local'[r].rounds = ask'[r].limit
      BY <1>6, <2>4, <3>4, <3>5
    <3>8. \A i \in 1..Len(turns'[r]) - 1 : ~turns'[r][i].approves
      BY <2>3, <3>5
    <3> QED
      BY <1>7, <1>10, <3>6, <3>7, <3>8 DEF Whole
  <2> QED
    BY <1>1, <2>2, <2>8, <2>9
<1>11. CASE ~Supervised(r)
  <2>1. PICK list \in Seq(Roles) : list = FirstRoles(r)
    BY <1>11, AskedFor
  <2>2. n + 1 <= Len(list) /\ \A i \in 1..(n + 1) : seq[i].role = list[i]
    BY <1>1, <1>3, <1>11, <2>1 DEF AtTurn, Listed
  <2>3. Over(r, turn) <=> n + 1 = Len(list)
    BY <1>1, <1>11, <2>1 DEF Over
  <2>4. ASSUME ~Over(r, turn) PROVE AtRole(r)' /\ local'[r].turns = n + 1
    <3>1. local'[r] = [l EXCEPT !.turns = n + 1]
      BY <1>1, <1>2, <1>11, <2>4 DEF AfterListed, Types, Locals
    <3>2. local'[r].turns = n + 1
      BY <3>1 DEF Locals
    <3>3. n + 1 # Len(list) /\ FirstRoles(r)' = list /\ turns'[r] = seq
      BY <1>3, <2>1, <2>3, <2>4 DEF FirstRoles
    <3>4. Listed(r, local[r].turns)'
      BY <2>2, <3>2, <3>3 DEF Listed
    <3> QED
      BY <1>6, <1>7, <1>11, <3>2, <3>3, <3>4 DEF AtRole
  <2>5. ASSUME Over(r, turn)
        PROVE  /\ Whole(r, local[r].rounds, local[r].approved, local[r].output)'
               /\ local'[r].turns = n + 1
    <3>1. local'[r] = [turns |-> n + 1, rounds |-> 1, output |-> n + 1,
                       approved |-> turn.role = "supervisor" => turn.approves]
      BY <1>1, <1>11, <2>5 DEF AfterListed, Types
    <3>2. /\ local'[r].turns = n + 1 /\ local'[r].output = n + 1
          /\ local'[r].approved = (turn.role = "supervisor" => turn.approves)
      BY <3>1
    <3>3. list = [i \in 1..Len(list) |-> list[i]]
      OBVIOUS
    <3>4. RolesSoFar(r)' = list
      BY <1>9, <2>2, <2>3, <2>5, <3>3
    <3>5. turns'[r] = seq /\ FirstRoles(r)' = list
      BY <1>3, <2>1 DEF FirstRoles
    <3> QED
      BY <1>6, <1>7, <1>11, <3>2, <3>4, <3>5 DEF Whole
  <2> QED
    BY <1>1, <2>4, <2>5
<1> QED
  BY <1>10, <1>11

-----------------------------------------------------------------------------
(***************************************************************************)
(* Every step.                                                             *)
(***************************************************************************)
\* A step of a run keeps what is known of its progress.
LEMMA ProgressNext ==
  ASSUME Types, NEW r \in Runs, RunStep(r), StatusOk(r), ProgressOk(r)
  PROVE  ProgressOk(r)'
<1>1. ASSUME SameWork(r)
      PROVE  /\ Supervised(r)' = Supervised(r) /\ Reviews(r)' = Reviews(r)
             /\ RolesSoFar(r)' = RolesSoFar(r) /\ FirstRoles(r)' = FirstRoles(r)
  BY <1>1, WorkKept
<1>2. CASE Insert(r)
  <2>1. row[r] \in Rows /\ row[r].status = "none" /\ pc[r] = "new" /\ SameWork(r)
    BY <1>2 DEF Insert, Types, StatusOk, SameWork
  <2>2. row'[r].status # "completed" /\ pc'[r] \in {"start", "raised"}
    <3>1. CASE row' = [row EXCEPT ![r].status = "running"] /\ pc' = [pc EXCEPT ![r] = "start"]
      <4>1. row'[r] = [row[r] EXCEPT !.status = "running"]
        BY <3>1 DEF Types
      <4> QED
        BY <2>1, <3>1, <4>1 DEF Types, Rows
    <3>2. CASE row' = row /\ pc' = [pc EXCEPT ![r] = "raised"]
      BY <2>1, <3>2 DEF Types
    <3> QED
      BY <1>2, <3>1, <3>2 DEF Insert, Goto
  <2> QED
    BY <2>1, <2>2 DEF ProgressOk, SameWork
<1>3. CASE AuditStart(r)
  <2>1. /\ row[r].status = "running" /\ row' = row /\ SameWork(r)
        /\ turns[r] = <<>> /\ local[r] = Fresh /\ pc'[r] \in {"role", "failing", "raised"}
    BY <1>3 DEF AuditStart, Goto, Types, StatusOk, ProgressOk, SameWork
  <2>2. AtRole(r)
    <3>1. Len(turns[r]) = 0 /\ DOMAIN turns[r] = {} /\ local[r].turns = 0 /\ local[r].rounds = 0
      BY <2>1 DEF Fresh
    <3>2. TurnsOf(r, "supervisor") = {}
      BY <3>1 DEF TurnsOf
    <3>3. Reviews(r) = 0
      BY <3>2, FS_EmptySet DEF Reviews
    <3>4. Drafted(r, 0)
      BY DEF Drafted
    <3>5. /\ ask[r].limit \in Nat /\ ask[r].limit >= 1
          /\ ~Supervised(r) => Len(FirstRoles(r)) \in Nat /\ Len(FirstRoles(r)) >= 1
      BY AskedFor
    <3>6. ~Supervised(r) => Listed(r, 0)
      BY <3>5 DEF Listed
    <3> QED
      BY <3>1, <3>3, <3>4, <3>5, <3>6 DEF AtRole
  <2>3. AtRole(r)'
    BY <2>1, <2>2, WorkKept
  <2> QED
    BY <2>1, <2>3 DEF ProgressOk, SameWork, Fresh
<1>4. CASE AskRole(r)
  <2>1. /\ row[r].status = "running" /\ row' = row /\ ask' = ask /\ AtRole(r)
        /\ local[r].turns <= Len(turns[r])
    BY <1>4 DEF AskRole, StatusOk, ProgressOk
  <2>2. local' = [local EXCEPT ![r].rounds =
                    @ + IF Supervised(r) /\ RoleOf(r) = "supervisor" THEN 1 ELSE 0]
    BY <1>4 DEF AskRole
  <2>3. local'[r].turns = local[r].turns
    <3> DEFINE round == IF Supervised(r) /\ RoleOf(r) = "supervisor" THEN 1 ELSE 0
    <3>1. local' = [local EXCEPT ![r].rounds = @ + round]
      BY <2>2
    <3> HIDE DEF round
    <3> QED
      BY <3>1 DEF Types, Locals
  <2>4. CASE pc' = [pc EXCEPT ![r] = "failing"] /\ turns' = turns
    <3>1. pc'[r] = "failing"
      BY <2>4 DEF Types
    <3> QED
      BY <2>1, <2>3, <2>4, <3>1 DEF ProgressOk
  <2>5. CASE /\ RoleOf(r) \in enabled[r] /\ pc' = [pc EXCEPT ![r] = "turn"]
             /\ \E verdict \in (IF RoleOf(r) = "supervisor" THEN BOOLEAN ELSE {FALSE}) :
                  turns' = [turns EXCEPT ![r] =
                              Append(@, [role |-> RoleOf(r), approves |-> verdict])]
    <3>1. PICK verdict \in BOOLEAN :
            /\ RoleOf(r) # "supervisor" => ~verdict
            /\ turns' = [turns EXCEPT ![r] =
                           Append(@, [role |-> RoleOf(r), approves |-> verdict])]
      BY <2>5
    <3>2. RoleOf(r) \in Roles /\ pc'[r] = "turn"
      BY <2>5 DEF Types
    <3>3. AtTurn(r)'
      BY <2>1, <2>2, <3>1, <3>2, RoleAsked
    <3>4. local[r].turns \in Nat
      BY DEF Types, Locals
    <3>5. Len(turns'[r]) = local'[r].turns + 1
      BY <3>3 DEF AtTurn
    <3> QED
      BY <2>1, <2>3, <3>2, <3>3, <3>4, <3>5 DEF ProgressOk
  <2> QED
    BY <1>4, <2>4, <2>5 DEF AskRole, Goto
<1>5. CASE AuditTurn(r)
  <2>1. /\ row[r].status = "running" /\ row' = row /\ ask' = ask /\ turns' = turns /\ AtTurn(r)
        /\ local[r].turns <= Len(turns[r])
    BY <1>5 DEF AuditTurn, StatusOk, ProgressOk
  <2>2. CASE pc' = [pc EXCEPT ![r] = "failing"] /\ local' = local
    <3>1. pc'[r] = "failing"
      BY <2>2 DEF Types
    <3> QED
      BY <2>1, <2>2, <3>1 DEF ProgressOk
  <2>3. CASE /\ local' = [local EXCEPT ![r] = IF Supervised(r)
                                              THEN AfterSupervised(r, Last(turns[r]))
                                              ELSE AfterListed(r, Last(turns[r]))]
             /\ pc' = [pc EXCEPT ![r] = IF Over(r, Last(turns[r])) THEN "finish" ELSE "role"]
    <3>1. PICK turn : turn = Last(turns[r])
      OBVIOUS
    <3>2. /\ ~Over(r, turn) => AtRole(r)'
          /\ Over(r, turn) =>
               Whole(r, local[r].rounds, local[r].approved, local[r].output)'
          /\ local'[r].turns = local[r].turns + 1
      BY <2>1, <2>3, <3>1, TurnOver
    <3>3. /\ Over(r, turn) => pc'[r] = "finish"
          /\ ~Over(r, turn) => pc'[r] = "role"
      BY <2>3, <3>1 DEF Types
    <3>4. local'[r].turns <= Len(turns'[r])
      <4>1. Len(turns[r]) = local[r].turns + 1 /\ local[r].turns \in Nat
        BY <2>1 DEF AtTurn, Types, Locals
      <4> QED
        BY <2>1, <3>2, <4>1
    <3> QED
      BY <2>1, <3>2, <3>3, <3>4 DEF ProgressOk
  <2> QED
    BY <1>5, <2>2, <2>3 DEF AuditTurn, Goto
<1>6. CASE Finish(r)
  <2>1. SameWork(r) /\ Whole(r, local[r].rounds, local[r].approved, local[r].output)
    BY <1>6 DEF Finish, ProgressOk, SameWork
  <2>2. /\ Supervised(r)' = Supervised(r) /\ Reviews(r)' = Reviews(r)
        /\ RolesSoFar(r)' = RolesSoFar(r) /\ FirstRoles(r)' = FirstRoles(r)
    BY <1>1, <2>1
  <2>3. CASE /\ pc' = [pc EXCEPT ![r] = "complete"]
             /\ row' = [row EXCEPT ![r] = [status |-> "completed",
                          rounds |-> local[r].rounds, approved |-> local[r].approved,
                          output |-> local[r].output]]
    <3>1. /\ pc'[r] = "complete" /\ row'[r].rounds = local[r].rounds
          /\ row'[r].approved = local[r].approved /\ row'[r].output = local[r].output
      BY <2>3 DEF Types
    <3>2. Whole(r, row[r].rounds, row[r].approved, row[r].output)'
      BY <2>1, <2>2, <3>1 DEF Whole, SameWork
    <3> QED
      BY <2>1, <3>1, <3>2 DEF ProgressOk, SameWork
  <2>4. CASE pc' = [pc EXCEPT ![r] = "failing"] /\ row' = row
    <3>1. pc'[r] = "failing" /\ row[r].status = "running"
      BY <1>6, <2>4 DEF Types, Finish, StatusOk
    <3> QED
      BY <2>1, <2>4, <3>1 DEF ProgressOk, SameWork
  <2> QED
    BY <1>6, <2>3, <2>4 DEF Finish, Goto
<1>7. CASE AuditComplete(r) \/ Fail(r) \/ AuditFail(r)
  <2>1. SameWork(r) /\ pc'[r] \in {"returned", "failing", "failed", "raised"}
    BY <1>7 DEF AuditComplete, Fail, AuditFail, Goto, Types, SameWork
  <2>2. /\ Supervised(r)' = Supervised(r) /\ Reviews(r)' = Reviews(r)
        /\ RolesSoFar(r)' = RolesSoFar(r) /\ FirstRoles(r)' = FirstRoles(r)
    BY <1>1, <2>1
  <2>3. row'[r] = row[r] \/ row'[r].status = "failed"
    BY <1>7 DEF AuditComplete, Fail, AuditFail, Types
  <2>4. CASE row'[r] = row[r]
    <3>1. row'[r].status = "completed" =>
            Whole(r, row[r].rounds, row[r].approved, row[r].output)'
      BY <2>1, <2>2, <2>4 DEF ProgressOk, Whole, SameWork
    <3> QED
      BY <2>1, <3>1 DEF ProgressOk, SameWork
  <2>5. CASE row'[r].status = "failed"
    BY <2>1, <2>5 DEF ProgressOk, SameWork
  <2> QED
    BY <2>3, <2>4, <2>5
<1> QED
  BY <1>2, <1>3, <1>4, <1>5, <1>6, <1>7 DEF RunStep

\* When the process dies every run keeps its rows, and no step is left.
LEMMA CrashKept ==
  ASSUME RunsInv, Crash
  PROVE  RunsInv'
<1>1. Types'
  BY DEF Crash, RunsInv, Types, Steps
<1>2. ASSUME NEW u \in Runs PROVE StatusOk(u)' /\ ProgressOk(u)'
  <2>0. \/ pc'[u] = pc[u]
        \/ pc'[u] = "dead" /\ pc[u] \notin {"new", "returned", "raised"}
    BY DEF Crash
  <2>1. /\ SameWork(u) /\ row' = row /\ audit' = audit /\ broken' = broken
        /\ StatusOk(u) /\ ProgressOk(u)
    BY DEF Crash, RunsInv, SameWork
  <2>2. CASE pc'[u] = pc[u]
    <3>1. SameRun(u)
      BY <2>1, <2>2 DEF SameRun
    <3> QED
      BY <2>1, <3>1, RunKept
  <2>3. CASE pc'[u] = "dead" /\ pc[u] \notin {"new", "returned", "raised"}
    <3>1. StatusOk(u)'
      BY <2>1, <2>3 DEF StatusOk
    <3>2. /\ Supervised(u)' = Supervised(u) /\ Reviews(u)' = Reviews(u)
          /\ RolesSoFar(u)' = RolesSoFar(u) /\ FirstRoles(u)' = FirstRoles(u)
      BY <2>1, WorkKept
    <3>3. ProgressOk(u)'
      BY <2>1, <2>3, <3>2 DEF ProgressOk, Whole, SameWork
    <3> QED
      BY <3>1, <3>3
  <2> QED
    BY <2>0, <2>2, <2>3
<1> QED
  BY <1>1, <1>2 DEF RunsInv

\* No call has begun.
LEMMA RunsInit ==
  ASSUME Init
  PROVE  RunsInv
<1>1. MaxRounds \in Nat
  BY OrchestrationAssumption
<1>2. Types
  <2>1. row \in [Runs -> Rows] /\ local \in [Runs -> Locals]
    BY <1>1 DEF Init, NoRow, Fresh, Rows, Locals
  <2>2. turns \in [Runs -> Seq(Turns)]
    BY DEF Init
  <2> QED
    BY <2>1, <2>2 DEF Init, Types, Steps
<1>3. ASSUME NEW u \in Runs PROVE StatusOk(u) /\ ProgressOk(u)
  BY DEF Init, NoRow, Fresh, StatusOk, ProgressOk
<1> QED
  BY <1>2, <1>3 DEF RunsInv

\* Every step keeps the invariant.
LEMMA RunsNext ==
  ASSUME RunsInv, [Next]_vars
  PROVE  RunsInv'
<1>1. CASE Crash
  BY <1>1, CrashKept
<1>2. ASSUME NEW r \in Runs, RunStep(r) PROVE RunsInv'
  <2>1. Types /\ StatusOk(r) /\ ProgressOk(r)
    BY DEF RunsInv
  <2>2. Types'
    BY <1>2, <2>1, TypesNext
  <2>3. StatusOk(r)' /\ ProgressOk(r)'
    BY <1>2, <2>1, StatusNext, ProgressNext
  <2>4. ASSUME NEW u \in Runs, u # r PROVE StatusOk(u)' /\ ProgressOk(u)'
    <3>1. SameRun(u)
      BY <1>2, <2>1, <2>4, OthersKept
    <3> QED
      BY <3>1, RunKept DEF RunsInv
  <2> QED
    BY <2>2, <2>3, <2>4 DEF RunsInv
<1>3. CASE UNCHANGED vars
  <2>1. Types'
    BY <1>3 DEF RunsInv, Types, vars
  <2>2. ASSUME NEW u \in Runs PROVE StatusOk(u)' /\ ProgressOk(u)'
    <3>1. SameRun(u)
      BY <1>3 DEF vars, SameRun, SameWork
    <3> QED
      BY <3>1, RunKept DEF RunsInv
  <2> QED
    BY <2>1, <2>2 DEF RunsInv
<1> QED
  BY <1>1, <1>2, <1>3 DEF Next

-----------------------------------------------------------------------------
\* A run recorded as completed went the whole way: its last turn is the review
\* of the candidate it gives out, in a round the caller allowed, and it is
\* approved as that review says (runtime.py, orchestrate_models).
THEOREM CompletedRunsReviewed == Spec => []Reviewed
<1>1. Init => RunsInv
  BY RunsInit
<1>2. RunsInv /\ [Next]_vars => RunsInv'
  BY RunsNext
<1>3. RunsInv => Reviewed
  BY DEF RunsInv, ProgressOk, Whole, Reviewed, Reviews, RolesSoFar
<1> QED
  BY <1>1, <1>2, <1>3, PTL DEF Spec

\* What the caller is told, the row and the audit events tell one outcome,
\* whichever of the writes raises (runtime.py, orchestrate_models).
THEOREM OutcomesAgree == Spec => []OutcomeRecorded
<1>1. Init => RunsInv
  BY RunsInit
<1>2. RunsInv /\ [Next]_vars => RunsInv'
  BY RunsNext
<1>3. RunsInv => OutcomeRecorded
  <2> SUFFICES ASSUME RunsInv PROVE OutcomeRecorded
    OBVIOUS
  <2>1. ASSUME NEW r \in Runs
        PROVE  local[r].turns \in 0..Len(turns[r])
    <3>1. local[r].turns \in Nat /\ Len(turns[r]) \in Nat /\ local[r].turns <= Len(turns[r])
      BY DEF RunsInv, Types, Locals, ProgressOk
    <3> QED
      BY <3>1
  <2>2. TypeOK
    BY <2>1 DEF TypeOK, RunsInv, Types, Rows, Locals, Turns
  <2> QED
    BY <2>2 DEF RunsInv, StatusOk, OutcomeRecorded
<1> QED
  BY <1>1, <1>2, <1>3, PTL DEF Spec
-----------------------------------------------------------------------------
(***************************************************************************)
(* The scheduler.                                                          *)
(***************************************************************************)
Priorities == {10, 30, 50, 80, 100}
Requests ==
  [priority : Priorities, phase : {s.phase : s \in Shapes}, model : {s.model : s \in Shapes},
   deadline : Nat, remaining : Nat \ {0}, submitted : Nat, sequence : Nat]

\* What is queued or about to be is a request; no two that are queued have the
\* same number.
Numbered ==
  /\ \A r \in Queued : queue[r] \in Requests
  /\ \A c \in DOMAIN arriving : arriving[c] \in Requests
  /\ \A a, b \in Queued : a # b => queue[a].sequence # queue[b].sequence

SchedulerInv == SchedulerTypeOK /\ Numbered

\* At first nothing is queued.
LEMMA SchedulerInitial == SchedulerInit => SchedulerInv
BY SchedulerAssumption DEF SchedulerInit, SchedulerInv, SchedulerTypeOK, Numbered, Queued, Dated

\* While what is queued, the numbers and the hosts' work stay, the rest need
\* only keep its types.
LEMMA QueueKept ==
  ASSUME SchedulerInv, UNCHANGED <<queue, sequence>>,
         now' \in 0..MaxTime, now <= now',
         DOMAIN arriving' \subseteq Callers,
         \A c \in DOMAIN arriving' : (arriving[c] \in Requests /\ Dated(arriving[c]))',
         DOMAIN asking' \subseteq Hosts, \A h \in DOMAIN asking' : asking'[h] \in 0..now',
         held' \in [Hosts -> SUBSET (1..sequence)]
  PROVE  SchedulerInv'
<1>1. now \in Nat /\ now' \in Nat /\ 0..now \subseteq 0..now'
  BY SchedulerAssumption DEF SchedulerInv, SchedulerTypeOK
<1>2. Queued' = Queued
  BY DEF Queued
<1>3. SchedulerTypeOK'
  BY <1>1, <1>2 DEF SchedulerInv, SchedulerTypeOK, Dated
<1>4. Numbered'
  BY <1>2 DEF SchedulerInv, Numbered, Requests
<1>. QED
  BY <1>3, <1>4 DEF SchedulerInv

\* Everything but the queue is as it was, or as its step left it.
LEMMA SameRest ==
  ASSUME SchedulerInv, UNCHANGED now
  PROVE  /\ now \in Nat /\ now' \in 0..MaxTime /\ now <= now' /\ sequence \in Nat
         /\ DOMAIN arriving \subseteq Callers /\ DOMAIN asking \subseteq Hosts
         /\ \A c \in DOMAIN arriving : arriving[c] \in Requests /\ Dated(arriving[c])
         /\ \A h \in DOMAIN asking : asking[h] \in 0..now
         /\ held \in [Hosts -> SUBSET (1..sequence)]
BY SchedulerAssumption DEF SchedulerInv, SchedulerTypeOK, Numbered

\* A request is built.
LEMMA QueueRequestKeeps ==
  ASSUME SchedulerInv, NEW c \in Callers, QueueRequest(c)
  PROVE  SchedulerInv'
<1>1. PICK s \in Shapes :
        arriving' = With(arriving, c,
          [priority |-> s.priority, phase |-> s.phase, model |-> s.model,
           deadline |-> IF s.due = 0 THEN 0 ELSE now + s.due, remaining |-> s.tokens,
           submitted |-> now, sequence |-> 0])
  BY DEF QueueRequest
<1> DEFINE new == [priority |-> s.priority, phase |-> s.phase, model |-> s.model,
                   deadline |-> IF s.due = 0 THEN 0 ELSE now + s.due, remaining |-> s.tokens,
                   submitted |-> now, sequence |-> 0]
<1>2. now' = now /\ UNCHANGED <<queue, sequence, asking, held>>
  BY DEF QueueRequest
<1>3. now \in Nat /\ now \in 0..now
  BY <1>2, SameRest
<1>4. new \in Requests /\ new.remaining \in Nat \ {0} /\ new.submitted = now
  BY <1>3, SchedulerAssumption DEF Requests, Priorities
<1> HIDE DEF new
<1>5. /\ DOMAIN arriving' = DOMAIN arriving \cup {c} /\ arriving'[c] = new
      /\ \A d \in DOMAIN arriving : d # c => arriving'[d] = arriving[d]
  BY <1>1 DEF With, new
<1>6. \A d \in DOMAIN arriving' : (arriving[d] \in Requests /\ Dated(arriving[d]))'
  BY <1>2, <1>3, <1>4, <1>5, SameRest DEF Dated
<1>. QED
  BY <1>2, <1>5, <1>6, SameRest, QueueKept

\* A request that is submitted gets a number that none had before.
LEMMA SubmitKeeps ==
  ASSUME SchedulerInv, NEW c \in Callers, Submit(c)
  PROVE  SchedulerInv'
<1>1. PICK r \in (1..sequence + 1) \ Queued :
        queue' = With(queue, r, [arriving[c] EXCEPT !.sequence = sequence + 1])
  BY DEF Submit
<1> DEFINE new == [arriving[c] EXCEPT !.sequence = sequence + 1]
<1>2. /\ c \in DOMAIN arriving /\ sequence' = sequence + 1 /\ now' = now
      /\ asking' = asking /\ held' = held /\ arriving' = Without(arriving, c)
  BY DEF Submit
<1>3. sequence \in Nat /\ now \in Nat /\ arriving[c] \in Requests /\ Dated(arriving[c])
  BY <1>2, SameRest
<1>4. /\ new \in Requests /\ new.sequence = sequence + 1 /\ new.submitted \in 0..now
      /\ new.remaining \in Nat \ {0}
  BY <1>3 DEF Requests, Dated
<1> HIDE DEF new
<1>5. /\ Queued' = Queued \cup {r} /\ r \notin Queued /\ r \in 1..sequence + 1
      /\ \A q \in Queued : queue'[q] = queue[q]
      /\ queue'[r] = new
  BY <1>1 DEF With, Without, Queued, new
<1>6. /\ DOMAIN arriving' \subseteq DOMAIN arriving
      /\ \A d \in DOMAIN arriving' : arriving'[d] = arriving[d]
  BY <1>2 DEF With, Without
<1>7. SchedulerTypeOK'
  <2>1. 1..sequence \subseteq 1..sequence' /\ sequence + 1 \in 1..sequence' /\ sequence' \in Nat
    BY <1>2, <1>3
  <2>2. ASSUME NEW q \in Queued'
        PROVE  Dated(queue[q])' /\ queue'[q].sequence \in 1..sequence'
    <3>1. CASE q = r
      BY <3>1, <2>1, <1>2, <1>4, <1>5 DEF Dated
    <3>2. CASE q \in Queued
      BY <3>2, <2>1, <1>2, <1>5 DEF SchedulerInv, SchedulerTypeOK, Dated
    <3>. QED
      BY <3>1, <3>2, <1>5
  <2>3. held' \in [Hosts -> SUBSET (1..sequence')]
    BY <1>2, <2>1 DEF SchedulerInv, SchedulerTypeOK
  <2>4. Queued' \subseteq 1..sequence'
    BY <1>2, <1>5, <2>1 DEF SchedulerInv, SchedulerTypeOK
  <2>5. \A d \in DOMAIN arriving' : Dated(arriving[d])'
    BY <1>2, <1>6, SameRest DEF Dated
  <2>6. DOMAIN arriving' \subseteq Callers /\ DOMAIN asking' \subseteq Hosts
    BY <1>2, <1>6, SameRest
  <2>7. now' \in 0..MaxTime /\ \A h \in DOMAIN asking' : asking'[h] \in 0..now'
    BY <1>2, SameRest
  <2>. QED
    BY <2>1, <2>2, <2>3, <2>4, <2>5, <2>6, <2>7 DEF SchedulerTypeOK
<1>8. Numbered'
  <2>1. \A q \in Queued' : queue'[q] \in Requests
    BY <1>4, <1>5 DEF SchedulerInv, Numbered
  <2>2. \A q \in Queued : queue[q].sequence \in Nat /\ queue[q].sequence < sequence + 1
    BY <1>3 DEF SchedulerInv, SchedulerTypeOK
  <2>3. \A a, b \in Queued' : a # b => queue'[a].sequence # queue'[b].sequence
    BY <2>2, <1>3, <1>4, <1>5 DEF SchedulerInv, Numbered
  <2>4. \A d \in DOMAIN arriving' : arriving'[d] \in Requests
    BY <1>6 DEF SchedulerInv, Numbered
  <2>. QED
    BY <2>1, <2>3, <2>4 DEF Numbered
<1>. QED
  BY <1>7, <1>8 DEF SchedulerInv

\* A request that is refused leaves no trace.
LEMMA SubmitRefusedKeeps ==
  ASSUME SchedulerInv, NEW c \in Callers, SubmitRefused(c)
  PROVE  SchedulerInv'
<1>1. UNCHANGED <<queue, sequence, now, asking, held>> /\ arriving' = Without(arriving, c)
  BY DEF SubmitRefused
<1>2. /\ DOMAIN arriving' \subseteq DOMAIN arriving
      /\ \A d \in DOMAIN arriving' : arriving'[d] = arriving[d]
  BY <1>1 DEF With, Without
<1>3. \A d \in DOMAIN arriving' : (arriving[d] \in Requests /\ Dated(arriving[d]))'
  BY <1>1, <1>2, SameRest DEF Dated
<1>. QED
  BY <1>1, <1>2, <1>3, SameRest, QueueKept

\* A part of the queue is numbered as the whole was; so it is when tokens are
\* taken from one request.
LEMMA PartNumbered ==
  ASSUME SchedulerInv, UNCHANGED <<sequence, now, arriving, asking>>, Queued' \subseteq Queued,
         \A q \in Queued' :
           /\ queue'[q] \in Requests
           /\ queue'[q].sequence = queue[q].sequence /\ queue'[q].submitted = queue[q].submitted,
         held' \in [Hosts -> SUBSET (1..sequence)]
  PROVE  SchedulerInv'
<1>1. SchedulerTypeOK'
  BY DEF SchedulerInv, SchedulerTypeOK, Requests, Dated
<1>2. Numbered'
  BY DEF SchedulerInv, Numbered
<1>. QED
  BY <1>1, <1>2 DEF SchedulerInv

\* A cancelled request leaves the others as they were.
LEMMA CancelKeeps == SchedulerInv /\ Cancel => SchedulerInv'
<1> SUFFICES ASSUME SchedulerInv, Cancel PROVE SchedulerInv'
  OBVIOUS
<1>1. PICK r \in Queued : queue' = Without(queue, r)
  BY DEF Cancel
<1>2. Queued' \subseteq Queued /\ \A q \in Queued' : queue'[q] = queue[q]
  BY <1>1 DEF With, Without, Queued
<1>. QED
  BY <1>2, PartNumbered DEF Cancel, SchedulerInv, SchedulerTypeOK, Numbered

\* A completed step changes only what remains of requests, or drops them.
LEMMA CompleteStepKeeps ==
  ASSUME SchedulerInv, NEW h \in Hosts, CompleteStep(h)
  PROVE  SchedulerInv'
<1>1. PICK r \in held[h], tokens \in 1..2 :
        /\ held' = [held EXCEPT ![h] = @ \ {r}]
        /\ IF r \notin Queued THEN UNCHANGED queue
           ELSE queue' = IF queue[r].remaining <= tokens THEN Without(queue, r)
                         ELSE [queue EXCEPT ![r].remaining = @ - tokens]
  BY DEF CompleteStep
<1>2. held' \in [Hosts -> SUBSET (1..sequence)]
  BY <1>1 DEF SchedulerInv, SchedulerTypeOK
<1>3. \A q \in Queued : queue[q] \in Requests
  BY DEF SchedulerInv, Numbered
<1>4. CASE UNCHANGED queue
  BY <1>2, <1>3, <1>4, PartNumbered DEF CompleteStep, Queued
<1>5. CASE queue' = Without(queue, r)
  <2>1. Queued' \subseteq Queued /\ \A q \in Queued' : queue'[q] = queue[q]
    BY <1>5 DEF Without, Queued
  <2>. QED
    BY <2>1, <1>2, <1>3, PartNumbered DEF CompleteStep
<1>6. CASE /\ r \in Queued /\ ~(queue[r].remaining <= tokens)
           /\ queue' = [queue EXCEPT ![r].remaining = @ - tokens]
  <2>1. queue[r].remaining - tokens \in Nat \ {0}
    BY <1>3, <1>6 DEF Requests
  <2>2. /\ Queued' = Queued
        /\ \A q \in Queued : q # r => queue'[q] = queue[q]
        /\ queue'[r] = [queue[r] EXCEPT !.remaining = @ - tokens]
    BY <1>6 DEF Queued
  <2>3. /\ queue'[r] \in Requests
        /\ queue'[r].sequence = queue[r].sequence /\ queue'[r].submitted = queue[r].submitted
    BY <2>1, <2>2, <1>3, <1>6 DEF Requests
  <2>. QED
    BY <2>2, <2>3, <1>2, <1>3, PartNumbered DEF CompleteStep
<1>. QED
  BY <1>1, <1>4, <1>5, <1>6

\* A host reads the clock.
LEMMA ReadClockKeeps ==
  ASSUME SchedulerInv, NEW h \in Hosts, ReadClock(h)
  PROVE  SchedulerInv'
<1>1. UNCHANGED <<queue, sequence, now, arriving, held>> /\ asking' = With(asking, h, now)
  BY DEF ReadClock
<1>2. /\ DOMAIN asking' = DOMAIN asking \cup {h} /\ asking'[h] = now
      /\ \A g \in DOMAIN asking : g # h => asking'[g] = asking[g]
  BY <1>1 DEF With, Without
<1>3. now \in 0..now
  BY <1>1, SameRest
<1>4. DOMAIN asking' \subseteq Hosts /\ \A g \in DOMAIN asking' : asking'[g] \in 0..now'
  BY <1>1, <1>2, <1>3, SameRest
<1>5. \A c \in DOMAIN arriving' : (arriving[c] \in Requests /\ Dated(arriving[c]))'
  BY <1>1, SameRest DEF Dated
<1>. QED
  BY <1>1, <1>4, <1>5, SameRest, QueueKept

\* Time passes.
LEMMA TickKeeps == SchedulerInv /\ Tick => SchedulerInv'
<1> SUFFICES ASSUME SchedulerInv, Tick PROVE SchedulerInv'
  OBVIOUS
<1>1. /\ UNCHANGED <<queue, sequence, arriving, asking, held>>
      /\ now \in 0..MaxTime /\ now <= now' /\ now' \in 0..MaxTime /\ 0..now \subseteq 0..now'
  BY SchedulerAssumption DEF Tick, SchedulerInv, SchedulerTypeOK
<1>2. \A c \in DOMAIN arriving' : (arriving[c] \in Requests /\ Dated(arriving[c]))'
  BY <1>1 DEF SchedulerInv, SchedulerTypeOK, Numbered, Dated, Requests
<1>3. \A h \in DOMAIN asking' : asking'[h] \in 0..now'
  BY <1>1 DEF SchedulerInv, SchedulerTypeOK
<1>. QED
  BY <1>1, <1>2, <1>3, QueueKept DEF SchedulerInv, SchedulerTypeOK
-----------------------------------------------------------------------------
(***************************************************************************)
(* The order of the queue.                                                 *)
(***************************************************************************)
\* A set of numbers that holds 0 and the successor of every number it holds
\* holds them all.
LEMMA NatSets ==
  ASSUME NEW T, 0 \in T, \A n \in Nat : n \in T => n + 1 \in T
  PROVE  Nat \subseteq T
<1> DEFINE R == {p \in Nat \X Nat : p[1] < p[2]}
           U == Nat \ T
<1>1. IsWellFoundedOn(R, Nat)
  BY NatLessThanWellFounded DEF OpToRel
<1> SUFFICES ASSUME U # {} PROVE FALSE
  OBVIOUS
<1> HIDE DEF R
<1>2. PICK m \in U : \A k \in U : ~(<<k, m>> \in R)
  BY <1>1, WFMin
<1>3. m - 1 \in Nat /\ m - 1 + 1 = m
  BY <1>2
<1>4. <<m - 1, m>> \in R
  BY <1>3 DEF R
<1>. QED
  BY <1>2, <1>3, <1>4

\* A set with numbers for its elements has one with the least.
LEMMA LeastOf ==
  ASSUME NEW S, S # {}, NEW f, \A x \in S : f[x] \in Nat
  PROVE  \E x \in S : \A y \in S : f[x] <= f[y]
<1> DEFINE R == {p \in Nat \X Nat : p[1] < p[2]}
           U == {f[x] : x \in S}
<1>1. IsWellFoundedOn(R, Nat)
  BY NatLessThanWellFounded DEF OpToRel
<1> HIDE DEF R
<1>0. U \subseteq Nat /\ U # {}
  OBVIOUS
<1>2. PICK m \in U : \A k \in U : ~(<<k, m>> \in R)
  BY <1>0, <1>1, WFMin
<1>3. PICK x \in S : f[x] = m
  BY <1>2
<1>4. \A y \in S : ~(f[y] < f[x])
  BY <1>2, <1>3 DEF R
<1>. QED
  BY <1>4

\* The weights of the terms of a score.
Step == 100000
MostAge == 1200000
DecodeBonus == 250000
Urgent == 10000000
Bonus(a) == IF queue[a].phase = "decode" THEN DecodeBonus ELSE 0

\* What is left of a positive number divided by another is no less than zero.
LEMMA QuotientFacts == \A left \in Nat \ {0} : 1000000000 \div left \in Nat
BY SMT

\* The terms of a queued request's score, and the bounds of each.
LEMMA ScoreFacts ==
  ASSUME SchedulerInv, NEW a \in Queued, NEW t \in Nat
  PROVE  /\ queue[a].priority \in Priorities /\ queue[a].sequence \in Nat
         /\ queue[a].submitted \in Nat
         /\ AgeTerm(queue[a], t) \in Nat /\ AgeTerm(queue[a], t) <= MostAge
         /\ DeadlineTerm(queue[a], t) \in Nat
         /\ Undue(a) => DeadlineTerm(queue[a], t) = 0
         /\ Overdue(a, t) => DeadlineTerm(queue[a], t) = Urgent
         /\ Score(queue[a], t) \in Int
         /\ Score(queue[a], t) = Step * queue[a].priority + AgeTerm(queue[a], t)
              + DeadlineTerm(queue[a], t) + Bonus(a)
<1>0. Bonus(a) \in {0, DecodeBonus}
  BY SMT DEF Bonus, DecodeBonus
<1>1. queue[a] \in Requests
  BY SMT DEF SchedulerInv, Numbered
<1>2. /\ queue[a].priority \in Priorities /\ queue[a].sequence \in Nat
      /\ queue[a].submitted \in Nat /\ queue[a].deadline \in Nat
  BY <1>1, SMT DEF Requests
<1>3. AgeTerm(queue[a], t) \in Nat /\ AgeTerm(queue[a], t) <= MostAge
  BY <1>2, SMT DEF AgeTerm, Smaller, Patience, MostAge
<1>4. DeadlineTerm(queue[a], t) \in Nat
  <2>1. CASE queue[a].deadline = 0 \/ queue[a].deadline - t <= 0
    BY <2>1, SMT DEF DeadlineTerm
  <2>2. CASE ~(queue[a].deadline = 0 \/ queue[a].deadline - t <= 0)
    <3>1. queue[a].deadline - t \in Nat \ {0}
      BY <2>2, <1>2, SMT
    <3>2. DeadlineTerm(queue[a], t) = 1000000000 \div (queue[a].deadline - t)
      BY <2>2, SMT DEF DeadlineTerm
    <3>. QED
      BY <3>1, <3>2, QuotientFacts, SMT
  <2>. QED
    BY <2>1, <2>2, SMT
<1>5. /\ Undue(a) => DeadlineTerm(queue[a], t) = 0
      /\ Overdue(a, t) => DeadlineTerm(queue[a], t) = Urgent
  BY <1>2, SMT DEF DeadlineTerm, Undue, Overdue, Urgent
<1>6. Score(queue[a], t) = Step * queue[a].priority + AgeTerm(queue[a], t)
              + DeadlineTerm(queue[a], t) + Bonus(a)
  BY <1>2, <1>3, <1>4, SMT DEF Score, Step, MostAge, Priorities, Bonus, DecodeBonus
<1>7. Score(queue[a], t) \in Int
  <2> DEFINE p == queue[a].priority
             x == AgeTerm(queue[a], t)
             l == DeadlineTerm(queue[a], t)
             e == Bonus(a)
  <2>1. p \in Int /\ x \in Int /\ l \in Int /\ e \in Int
    <3>1. p \in Int
      BY <1>2, SMT DEF Priorities
    <3>2. x \in Int
      BY <1>3, SMT DEF MostAge
    <3>3. l \in Int
      BY <1>4, SMT
    <3>4. e \in Int
      BY <1>0, SMT DEF DecodeBonus
    <3>. QED
      BY <3>1, <3>2, <3>3, <3>4, SMT
  <2>2. Score(queue[a], t) = Step * p + x + l + e
    BY <1>6, SMT
  <2> HIDE DEF p, x, l, e
  <2>. QED
    BY <2>1, <2>2, SMT DEF Step
<1>. QED
  BY <1>2, <1>3, <1>4, <1>5, <1>6, <1>7

\* Before is a strict order of the queue, and total.
LEMMA BeforeTotal ==
  ASSUME SchedulerInv, NEW t \in Nat
  PROVE  /\ \A a, b \in Queued : a # b => Before(a, b, t) \/ Before(b, a, t)
         /\ \A a, b \in Queued : ~(Before(a, b, t) /\ Before(b, a, t))
         /\ \A a, b, c \in Queued : Before(a, b, t) /\ Before(b, c, t) => Before(a, c, t)
<1>1. \A a \in Queued : Score(queue[a], t) \in Int /\ queue[a].sequence \in Nat
  BY ScoreFacts, Zenon
<1>2. \A a, b \in Queued : a # b => queue[a].sequence # queue[b].sequence
  BY SMT DEF SchedulerInv, Numbered
<1>. QED
  BY <1>1, <1>2, SMT DEF Before

\* A score weighs a step of priority, or a deadline that is over, more than age
\* and phase together; of alike requests it is age that tells.
LEMMA ScoreAbove ==
  ASSUME SchedulerInv, NEW a \in Queued, NEW b \in Queued, NEW t \in Nat, Undue(b)
  PROVE  /\ Undue(a) /\ queue[a].priority > queue[b].priority =>
              Score(queue[a], t) > Score(queue[b], t)
         /\ Overdue(a, t) /\ queue[a].priority = queue[b].priority =>
              Score(queue[a], t) > Score(queue[b], t)
         /\ Undue(a) /\ Alike(a, b) /\ AgeTerm(queue[a], t) >= AgeTerm(queue[b], t) =>
              Score(queue[a], t) >= Score(queue[b], t)
         /\ Undue(a) /\ Alike(a, b) /\ AgeTerm(queue[a], t) > AgeTerm(queue[b], t) =>
              Score(queue[a], t) > Score(queue[b], t)
<1> DEFINE p == queue[a].priority
           x == AgeTerm(queue[a], t)
           l == DeadlineTerm(queue[a], t)
           d == Bonus(a)
           q == queue[b].priority
           y == AgeTerm(queue[b], t)
           e == Bonus(b)
<1>1. p \in Priorities /\ x \in Nat /\ x <= MostAge /\ l \in Nat /\ d \in {0, DecodeBonus}
  BY ScoreFacts, Zenon DEF Bonus
<1>2. q \in Priorities /\ y \in Nat /\ y <= MostAge /\ e \in {0, DecodeBonus}
  BY ScoreFacts, Zenon DEF Bonus
<1>3. Score(queue[a], t) = Step * p + x + l + d
  BY ScoreFacts, Zenon
<1>4. Score(queue[b], t) = Step * q + y + 0 + e
  BY ScoreFacts, Zenon
<1>5. /\ Undue(a) => l = 0
      /\ Overdue(a, t) => l = Urgent
      /\ Alike(a, b) => p = q /\ d = e
  BY ScoreFacts, Zenon DEF Alike, Bonus
<1> HIDE DEF p, x, l, d, q, y, e
<1>6. /\ p \in Int /\ q \in Int /\ x \in Int /\ 0 <= x /\ x <= MostAge /\ d \in Int /\ 0 <= d
      /\ d <= DecodeBonus /\ y \in Int /\ 0 <= y /\ y <= MostAge /\ e \in Int /\ 0 <= e /\ e <= DecodeBonus
      /\ l \in Int /\ p > q => p >= q + 20
  BY <1>1, <1>2, SMT DEF Priorities, MostAge, DecodeBonus
<1>7. Undue(a) /\ p > q => Score(queue[a], t) > Score(queue[b], t)
  BY <1>3, <1>4, <1>5, <1>6, SMT DEF Step, MostAge, DecodeBonus, Urgent
<1>8. Overdue(a, t) /\ p = q => Score(queue[a], t) > Score(queue[b], t)
  BY <1>3, <1>4, <1>5, <1>6, SMT DEF Step, MostAge, DecodeBonus, Urgent
<1>9. Undue(a) /\ Alike(a, b) /\ x >= y => Score(queue[a], t) >= Score(queue[b], t)
  BY <1>3, <1>4, <1>5, <1>6, SMT DEF Step, MostAge, DecodeBonus, Urgent
<1>10. Undue(a) /\ Alike(a, b) /\ x > y => Score(queue[a], t) > Score(queue[b], t)
  BY <1>3, <1>4, <1>5, <1>6, SMT DEF Step, MostAge, DecodeBonus, Urgent
<1>. QED
  BY <1>7, <1>8, <1>9, <1>10, SMT DEF p, q, x, y

\* The order by score keeps priority, age and deadlines in order, at any time.
LEMMA OrderKeeps ==
  ASSUME SchedulerInv, NEW t \in Nat
  PROVE  OrderKept(t)
<1> SUFFICES ASSUME NEW a \in Queued, NEW b \in Queued, Undue(b)
    PROVE  /\ Undue(a) /\ queue[a].priority > queue[b].priority => Before(a, b, t)
           /\ Overdue(a, t) /\ queue[a].priority = queue[b].priority => Before(a, b, t)
           /\ Undue(a) /\ Alike(a, b) =>
                LET built == queue[b].submitted - queue[a].submitted
                    numbered == queue[a].sequence < queue[b].sequence
                IN  /\ built >= 0 /\ numbered => Before(a, b, t)
                    /\ built > 0 /\ queue[a].submitted < t /\ t - queue[b].submitted < Patience
                         => Before(a, b, t)
                    /\ numbered /\ t - queue[a].submitted >= Patience => Before(a, b, t)
  BY SMT DEF OrderKept
<1>1. Undue(a) /\ queue[a].priority > queue[b].priority => Before(a, b, t)
  BY ScoreAbove, SMT DEF Before
<1>2. Overdue(a, t) /\ queue[a].priority = queue[b].priority => Before(a, b, t)
  BY ScoreAbove, SMT DEF Before
<1>3. ASSUME Undue(a), Alike(a, b)
      PROVE  LET built == queue[b].submitted - queue[a].submitted
                 numbered == queue[a].sequence < queue[b].sequence
             IN  /\ built >= 0 /\ numbered => Before(a, b, t)
                 /\ built > 0 /\ queue[a].submitted < t /\ t - queue[b].submitted < Patience
                      => Before(a, b, t)
                 /\ numbered /\ t - queue[a].submitted >= Patience => Before(a, b, t)
  <2>1. Score(queue[a], t) \in Int /\ Score(queue[b], t) \in Int
    BY ScoreFacts, Zenon
  <2>2. AgeTerm(queue[a], t) >= AgeTerm(queue[b], t) /\ queue[a].sequence < queue[b].sequence
          => Before(a, b, t)
    BY <1>3, <2>1, ScoreAbove, SMT DEF Before
  <2>3. AgeTerm(queue[a], t) > AgeTerm(queue[b], t) => Before(a, b, t)
    BY <1>3, ScoreAbove, SMT DEF Before
  <2>4. queue[a].submitted \in Nat /\ queue[b].submitted \in Nat
    BY ScoreFacts, Zenon
  <2>5. queue[b].submitted - queue[a].submitted >= 0 =>
          AgeTerm(queue[a], t) >= AgeTerm(queue[b], t)
    BY <2>4, SMT DEF AgeTerm, Smaller, Patience
  <2>6. queue[b].submitted - queue[a].submitted > 0 /\ queue[a].submitted < t
          /\ t - queue[b].submitted < Patience => AgeTerm(queue[a], t) > AgeTerm(queue[b], t)
    BY <2>4, SMT DEF AgeTerm, Smaller, Patience
  <2>7. t - queue[a].submitted >= Patience => AgeTerm(queue[a], t) >= AgeTerm(queue[b], t)
    BY <2>4, SMT DEF AgeTerm, Smaller, Patience
  <2>. QED
    BY <2>2, <2>3, <2>5, <2>6, <2>7, SMT
<1>. QED
  BY <1>1, <1>2, <1>3, SMT
-----------------------------------------------------------------------------
(***************************************************************************)
(* Batches.                                                                *)
(***************************************************************************)
LEMMA QueueFinite ==
  ASSUME SchedulerInv
  PROVE  /\ IsFiniteSet(Queued)
         /\ \A S \in SUBSET Queued : IsFiniteSet(S) /\ Cardinality(S) \in Nat
<1>1. Queued \subseteq 1..sequence /\ sequence \in Nat
  BY SchedulerAssumption DEF SchedulerInv, SchedulerTypeOK
<1>2. IsFiniteSet(1..sequence)
  BY <1>1, FS_Interval
<1>3. IsFiniteSet(Queued)
  BY <1>1, <1>2, FS_Subset
<1>4. \A S \in SUBSET Queued : IsFiniteSet(S)
  BY <1>3, FS_Subset
<1>. QED
  BY <1>3, <1>4, FS_CardinalityType

\* A set of requests that is not empty has a best-ranked one.
LEMMA FirstOf ==
  ASSUME SchedulerInv, NEW t \in Nat, NEW S \in SUBSET Queued, S # {}
  PROVE  \E r \in S : \A s \in S \ {r} : Before(r, s, t)
<1> DEFINE better(r) == {s \in S : Before(s, r, t)}
           rank == [r \in S |-> Cardinality(better(r))]
<1>1. \A r \in S : rank[r] \in Nat /\ IsFiniteSet(better(r))
  BY QueueFinite
<1> HIDE DEF rank
<1>2. PICK r \in S : \A s \in S : rank[r] <= rank[s]
  BY <1>1, LeastOf
<1>3. ASSUME NEW s \in S \ {r}, ~Before(r, s, t)
      PROVE  FALSE
  <2>1. Before(s, r, t)
    BY <1>3, BeforeTotal
  <2>2. better(s) \subseteq better(r) /\ s \in better(r) /\ s \notin better(s)
    BY <2>1, BeforeTotal
  <2>3. /\ Cardinality(better(s)) <= Cardinality(better(r))
        /\ Cardinality(better(s)) # Cardinality(better(r))
    BY <2>2, <1>1, FS_Subset
  <2>4. rank[r] <= rank[s]
    BY <1>2
  <2>. QED
    BY <2>3, <2>4, <1>1 DEF rank
<1>. QED
  BY <1>3

\* The n best of a set: that many of it, if it has them, and none that is left
\* goes before one of them.
LEMMA BestFacts ==
  ASSUME SchedulerInv, NEW t \in Nat, NEW S \in SUBSET Queued, NEW n \in Nat
  PROVE  /\ Best(S, n, t) \subseteq S
         /\ Cardinality(Best(S, n, t)) = Smaller(n, Cardinality(S))
         /\ \A r \in Best(S, n, t), s \in S \ Best(S, n, t) : Before(r, s, t)
<1> DEFINE better(r) == {s \in S : Before(s, r, t)}
<1>0. \A r \in S : Cardinality(better(r)) \in Nat /\ IsFiniteSet(better(r))
  BY QueueFinite
<1>1. \A m \in Nat : /\ Best(S, m, t) = {r \in S : Cardinality(better(r)) < m}
                    /\ Best(S, m, t) \subseteq S
                    /\ \A r \in S : r \in Best(S, m, t) <=> Cardinality(better(r)) < m
  BY DEF Best
<1>2. \A r, s \in S : Before(s, r, t) => Cardinality(better(s)) < Cardinality(better(r))
  <2> SUFFICES ASSUME NEW r \in S, NEW s \in S, Before(s, r, t)
               PROVE  Cardinality(better(s)) < Cardinality(better(r))
    OBVIOUS
  <2>1. better(s) \subseteq better(r) /\ s \in better(r) /\ s \notin better(s)
    BY BeforeTotal
  <2>2. /\ Cardinality(better(s)) <= Cardinality(better(r))
        /\ Cardinality(better(s)) # Cardinality(better(r))
    BY <2>1, <1>0, FS_Subset
  <2>. QED
    BY <2>2, <1>0
<1>3. ASSUME NEW m \in Nat
      PROVE  \A r \in Best(S, m, t), s \in S \ Best(S, m, t) : Before(r, s, t)
  <2> SUFFICES ASSUME NEW r \in Best(S, m, t), NEW s \in S \ Best(S, m, t), ~Before(r, s, t)
               PROVE  FALSE
    OBVIOUS
  <2>1. r \in S /\ s \in S /\ r # s /\ Before(s, r, t)
    BY <1>1, BeforeTotal
  <2>2. Cardinality(better(r)) < m /\ ~(Cardinality(better(s)) < m)
    BY <2>1, <1>1
  <2>3. Cardinality(better(s)) < Cardinality(better(r))
    BY <2>1, <1>2
  <2>. QED
    BY <2>1, <2>2, <2>3, <1>0
<1> DEFINE T == {m \in Nat : Cardinality(Best(S, m, t)) = Smaller(m, Cardinality(S))}
<1>4. IsFiniteSet(S) /\ Cardinality(S) \in Nat
  BY QueueFinite
<1>5. 0 \in T
  <2>1. Best(S, 0, t) = {}
    <3>1. \A r \in S : ~(Cardinality(better(r)) < 0)
      BY <1>0
    <3>. QED
      BY <3>1, <1>1
  <2>. QED
    BY <2>1, <1>4, FS_EmptySet DEF Smaller
<1>6. ASSUME NEW m \in Nat, m \in T
      PROVE  m + 1 \in T
  <2> DEFINE B == Best(S, m, t)
             L == S \ B
  <2>1. B \subseteq S /\ IsFiniteSet(B) /\ Cardinality(B) = Smaller(m, Cardinality(S))
    BY <1>1, <1>6, QueueFinite
  <2>0. m + 1 \in Nat
    OBVIOUS
  <2>2. CASE L = {}
    <3>1. B = S
      BY <2>1, <2>2
    <3>2. Best(S, m + 1, t) = S
      <4>1. \A r \in S : Cardinality(better(r)) < m
        BY <3>1, <1>1
      <4>2. \A r \in S : Cardinality(better(r)) < m + 1
        BY <4>1, <1>0
      <4>. QED
        BY <4>2, <2>0, <1>1
    <3>. QED
      BY <2>1, <3>1, <3>2, <1>4 DEF Smaller
  <2>3. CASE L # {}
    <3>1. PICK r \in L : \A s \in L \ {r} : Before(r, s, t)
      BY <2>3, FirstOf
    <3>2. better(r) = B
      <4>1. \A s \in B : Before(s, r, t)
        BY <3>1, <1>3
      <4>2. \A s \in L : ~Before(s, r, t)
        BY <3>1, BeforeTotal
      <4>. QED
        BY <4>1, <4>2, <2>1
    <3>3. Cardinality(B) = m
      <4>1. ~(Cardinality(better(r)) < m)
        BY <3>1, <1>1
      <4>. QED
        BY <4>1, <3>2, <2>1, <1>4 DEF Smaller
    <3>4. Best(S, m + 1, t) = B \cup {r}
      <4>1. \A s \in L \ {r} : ~(Cardinality(better(s)) < m + 1)
        BY <3>1, <3>2, <3>3, <1>0, <1>2
      <4>2. \A s \in B : Cardinality(better(s)) < m + 1
        <5> SUFFICES ASSUME NEW s \in B PROVE Cardinality(better(s)) < m + 1
          OBVIOUS
        <5>1. s \in S /\ Cardinality(better(s)) < m
          BY <1>1
        <5>2. Cardinality(better(s)) \in Nat
          BY <5>1, <1>0
        <5>. QED
          BY <5>1, <5>2
      <4>3. Cardinality(better(r)) < m + 1
        BY <3>2, <3>3
      <4>. QED
        BY <4>1, <4>2, <4>3, <3>1, <1>1, <2>0, <2>1
    <3>5. Cardinality(B \cup {r}) = m + 1
      BY <2>1, <3>1, <3>3, FS_AddElement
    <3>6. m + 1 <= Cardinality(S)
      <4>1. B \cup {r} \subseteq S
        BY <2>1, <3>1
      <4>. QED
        BY <4>1, <3>5, <1>4, FS_Subset
    <3>7. Smaller(m + 1, Cardinality(S)) = m + 1
      BY <3>6, <1>4 DEF Smaller
    <3>. QED
      BY <3>4, <3>5, <3>7, <2>0
  <2>. QED
    BY <2>2, <2>3
<1>7. n \in T
  <2> HIDE DEF T
  <2>. QED
    BY <1>5, <1>6, NatSets
<1>. QED
  BY <1>1, <1>3, <1>7

\* A set of more than one part of the queue: what is in one and not the other.
LEMMA Parts ==
  ASSUME SchedulerInv, NEW S \in SUBSET Queued, NEW T \in SUBSET S
  PROVE  /\ Cardinality(S) \in Nat /\ Cardinality(T) \in Nat
         /\ Cardinality(S \ T) = Cardinality(S) - Cardinality(T)
         /\ Cardinality(T) <= Cardinality(S)
         /\ \A U \in SUBSET (S \ T) : Cardinality(T \cup U) = Cardinality(T) + Cardinality(U)
<1>1. IsFiniteSet(S) /\ IsFiniteSet(T) /\ Cardinality(S) \in Nat /\ Cardinality(T) \in Nat
  BY QueueFinite
<1>2. S \cap T = T
  OBVIOUS
<1>3. Cardinality(S \ T) = Cardinality(S) - Cardinality(T)
  BY <1>1, <1>2, FS_Difference
<1>4. Cardinality(T) <= Cardinality(S)
  BY <1>1, FS_Subset
<1>5. ASSUME NEW U \in SUBSET (S \ T)
      PROVE  Cardinality(T \cup U) = Cardinality(T) + Cardinality(U)
  <2>1. IsFiniteSet(U) /\ Cardinality(U) \in Nat
    BY QueueFinite
  <2>2. Cardinality(T \cap U) = 0
    <3>1. T \cap U = {}
      OBVIOUS
    <3>. QED
      BY <3>1, FS_EmptySet
  <2>3. Cardinality(T \cup U) = Cardinality(T) + Cardinality(U) - Cardinality(T \cap U)
    BY <2>1, <1>1, FS_Union
  <2>. QED
    BY <2>1, <2>2, <2>3, <1>1
<1>. QED
  BY <1>1, <1>3, <1>4, <1>5

\* A batch may hold at least one request.
LEMMA LimitFacts == \A limit \in BatchLimits : limit \in Nat \ {0}
BY SchedulerAssumption DEF BatchLimits, AtLeastOne

\* What next_batch returns: its size, its reserve, and whom it passes over.
LEMMA BatchKeeps ==
  ASSUME SchedulerInv, Queued # {}, NEW limit \in BatchLimits, NEW t \in Nat
  PROVE  LET fitting == {r \in Queued : Compatible(r, Anchor(t))}
             interactive == {r \in fitting : Interactive(r)}
             batch == Batch(limit, t)
         IN  /\ batch \subseteq fitting
             /\ Cardinality(batch) = Min({limit, Cardinality(fitting)})
             /\ Cardinality(batch \cap interactive)
                  >= Min({Reserve, limit, Cardinality(interactive)})
             /\ \A r \in batch, s \in fitting \ batch :
                  Before(s, r, t) => r \in interactive /\ Reserve > 0
             /\ limit > Reserve => Anchor(t) \in batch
<1> DEFINE fitting == {r \in Queued : Compatible(r, Anchor(t))}
           interactive == {r \in fitting : Interactive(r)}
           reserved == Smaller(limit, Reserve)
           first == Best(interactive, reserved, t)
           rest == fitting \ first
           more == limit - Cardinality(first)
           batch == first \cup Best(rest, more, t)
<1>1. Batch(limit, t) = batch
  BY DEF Batch
<1>2. /\ fitting \in SUBSET Queued /\ interactive \in SUBSET fitting
      /\ interactive \in SUBSET Queued /\ rest \in SUBSET Queued
  OBVIOUS
<1>3. Anchor(t) \in Queued /\ \A s \in Queued \ {Anchor(t)} : Before(Anchor(t), s, t)
  BY FirstOf DEF Anchor
<1>4. Anchor(t) \in fitting
  BY <1>3 DEF Compatible
<1>5. limit \in Nat /\ limit > 0 /\ Reserve \in Nat /\ reserved \in Nat /\ reserved <= limit
      /\ reserved <= Reserve
  BY LimitFacts, SchedulerAssumption DEF Smaller
<1> HIDE DEF fitting, reserved
<1>6. /\ first \in SUBSET interactive /\ Cardinality(first) = Smaller(reserved, Cardinality(interactive))
      /\ \A r \in first, s \in interactive \ first : Before(r, s, t)
  BY <1>2, <1>5, BestFacts
<1>7. Cardinality(interactive) \in Nat /\ Cardinality(first) \in Nat /\ Cardinality(fitting) \in Nat
      /\ Cardinality(rest) = Cardinality(fitting) - Cardinality(first)
      /\ Cardinality(first) <= Cardinality(fitting)
  BY <1>2, <1>6, Parts
<1>8. more \in Nat /\ Cardinality(first) <= reserved
  BY <1>5, <1>6, <1>7 DEF Smaller
<1> HIDE DEF first, interactive, more
<1>9. /\ Best(rest, more, t) \in SUBSET rest
      /\ Cardinality(Best(rest, more, t)) = Smaller(more, Cardinality(rest))
      /\ \A r \in Best(rest, more, t), s \in rest \ Best(rest, more, t) : Before(r, s, t)
  BY <1>2, <1>8, BestFacts
<1>10. batch \subseteq fitting
  BY <1>2, <1>6, <1>9
<1>11. Cardinality(batch) = Min({limit, Cardinality(fitting)})
  <2>1. Cardinality(batch) = Cardinality(first) + Cardinality(Best(rest, more, t))
    BY <1>2, <1>6, <1>9, Parts
  <2>2. Cardinality(first) + Smaller(more, Cardinality(rest)) = Smaller(limit, Cardinality(fitting))
    BY <1>5, <1>7, <1>8 DEF Smaller, more
  <2>. QED
    BY <2>1, <2>2, <1>5, <1>7, <1>9, MinFacts
<1>12. Cardinality(batch \cap interactive) >= Min({Reserve, limit, Cardinality(interactive)})
  <2>1. first \subseteq batch \cap interactive /\ batch \cap interactive \in SUBSET Queued
    BY <1>2, <1>6
  <2>2. /\ Cardinality(batch \cap interactive) \in Nat
        /\ Cardinality(first) <= Cardinality(batch \cap interactive)
    BY <2>1, Parts
  <2>3. Cardinality(first) = Smaller(Reserve, Smaller(limit, Cardinality(interactive)))
    BY <1>5, <1>6, <1>7 DEF Smaller, reserved
  <2>4. Min({Reserve, limit, Cardinality(interactive)}) = Cardinality(first)
    BY <2>3, <1>5, <1>7, MinFacts
  <2>. QED
    BY <2>2, <2>4, <1>7
<1>13. ASSUME NEW r \in batch, NEW s \in fitting \ batch, Before(s, r, t)
       PROVE  r \in interactive /\ Reserve > 0
  <2>1. r \notin Best(rest, more, t)
    <3>1. s \in rest \ Best(rest, more, t) /\ r \in Queued /\ s \in Queued
      BY <1>2, <1>10, <1>13
    <3>. QED
      BY <3>1, <1>9, <1>13, BeforeTotal
  <2>2. r \in first /\ r \in interactive
    BY <2>1, <1>6, <1>13
  <2>3. Cardinality(first) # 0
    BY <2>2, <1>2, <1>6, QueueFinite, FS_EmptySet
  <2>. QED
    BY <2>2, <2>3, <1>5, <1>7, <1>8
<1>14. ASSUME limit > Reserve
       PROVE  Anchor(t) \in batch
  <2>1. SUFFICES ASSUME Anchor(t) \notin batch
                 PROVE  FALSE
    OBVIOUS
  <2>2. Cardinality(first) < limit
    BY <1>5, <1>7, <1>8, <1>14
  <2>3. Anchor(t) \in rest \ Best(rest, more, t)
    BY <1>4, <2>1
  <2>4. Best(rest, more, t) = {}
    <3>1. ASSUME NEW r \in Best(rest, more, t)
          PROVE  FALSE
      <4>1. Before(r, Anchor(t), t) /\ r # Anchor(t) /\ r \in Queued /\ Anchor(t) \in Queued
        BY <3>1, <2>3, <1>2, <1>3, <1>9
      <4>. QED
        BY <4>1, <1>3, BeforeTotal
    <3>. QED
      BY <3>1
  <2>5. Smaller(more, Cardinality(rest)) = 0
    BY <2>4, <1>9, FS_EmptySet
  <2>6. Cardinality(rest) # 0
    BY <2>3, <1>2, QueueFinite, FS_EmptySet
  <2>. QED
    BY <2>2, <2>5, <2>6, <1>5, <1>7 DEF Smaller, more
<1>. QED
  BY <1>1, <1>10, <1>11, <1>12, <1>13, <1>14 DEF fitting, interactive

\* A batch takes nothing from the queue.
LEMMA NextBatchKeeps ==
  ASSUME SchedulerInv, NEW h \in Hosts, NextBatch(h)
  PROVE  SchedulerInv'
<1>1. /\ UNCHANGED <<queue, sequence, now, arriving>> /\ h \in DOMAIN asking
      /\ asking' = Without(asking, h)
  BY DEF NextBatch, Returns
<1>2. asking[h] \in Nat
  BY <1>1, SameRest
<1>3. Queued \subseteq 1..sequence /\ held \in [Hosts -> SUBSET (1..sequence)]
  BY DEF SchedulerInv, SchedulerTypeOK
<1>4. held' \in [Hosts -> SUBSET (1..sequence)]
  <2>1. CASE Queued = {}
    BY <2>1, <1>3 DEF NextBatch
  <2>2. CASE Queued # {}
    <3>1. PICK limit \in BatchLimits : held' = [held EXCEPT ![h] = Batch(limit, asking[h])]
      BY <2>2 DEF NextBatch
    <3>2. Batch(limit, asking[h]) \subseteq Queued
      BY <2>2, <1>2, BatchKeeps
    <3>. QED
      BY <3>1, <3>2, <1>3
  <2>. QED
    BY <2>1, <2>2
<1>5. /\ DOMAIN asking' \subseteq DOMAIN asking
      /\ \A g \in DOMAIN asking' : asking'[g] = asking[g]
  BY <1>1 DEF With, Without
<1>6. DOMAIN asking' \subseteq Hosts /\ \A g \in DOMAIN asking' : asking'[g] \in 0..now'
  BY <1>1, <1>5, SameRest
<1>7. \A c \in DOMAIN arriving' : (arriving[c] \in Requests /\ Dated(arriving[c]))'
  BY <1>1, SameRest DEF Dated
<1>. QED
  BY <1>1, <1>4, <1>6, <1>7, SameRest, QueueKept

\* SchedulerInv holds in every reachable state.
LEMMA SchedulerInvariant == SchedulerSpec => []SchedulerInv
<1>1. SchedulerInit => SchedulerInv
  BY SchedulerInitial
<1>2. SchedulerInv /\ [SchedulerNext]_schedulerVars => SchedulerInv'
  <2> SUFFICES ASSUME SchedulerInv, [SchedulerNext]_schedulerVars PROVE SchedulerInv'
    OBVIOUS
  <2>1. CASE \E c \in Callers : QueueRequest(c)
    BY <2>1, QueueRequestKeeps
  <2>2. CASE \E c \in Callers : Submit(c)
    BY <2>2, SubmitKeeps
  <2>3. CASE \E c \in Callers : SubmitRefused(c)
    BY <2>3, SubmitRefusedKeeps
  <2>4. CASE \E h \in Hosts : ReadClock(h)
    BY <2>4, ReadClockKeeps
  <2>5. CASE \E h \in Hosts : NextBatch(h)
    BY <2>5, NextBatchKeeps
  <2>6. CASE \E h \in Hosts : CompleteStep(h)
    BY <2>6, CompleteStepKeeps
  <2>7. CASE Cancel
    BY <2>7, CancelKeeps
  <2>8. CASE Tick
    BY <2>8, TickKeeps
  <2>9. CASE UNCHANGED schedulerVars
    BY <2>9 DEF schedulerVars, SchedulerInv, SchedulerTypeOK, Numbered, Queued, Requests, Dated
  <2>. QED
    BY <2>1, <2>2, <2>3, <2>4, <2>5, <2>6, <2>7, <2>8, <2>9 DEF SchedulerNext
<1>. QED
  BY <1>1, <1>2, PTL DEF SchedulerSpec

\* Whatever time a host read before it took the lock, requests are ranked as
\* they should be, and whatever is queued, its batch fits one model and phase
\* and its limit, serves the reserved number of interactive requests that fit,
\* and passes over a better-ranked request only for those (scheduler.py,
\* submit, next_batch and _rank).
THEOREM BatchesAlwaysFair == SchedulerSpec => []BatchFair
<1>1. ASSUME SchedulerInv PROVE BatchFair
  <2>1. \A h \in DOMAIN asking : asking[h] \in Nat
    BY <1>1 DEF SchedulerInv, SchedulerTypeOK
  <2>. QED
    BY <1>1, <2>1, OrderKeeps, BatchKeeps DEF BatchFair, SchedulerInv
<1>. QED
  BY <1>1, SchedulerInvariant, PTL

=============================================================================
