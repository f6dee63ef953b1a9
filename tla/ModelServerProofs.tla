-------------------------- MODULE ModelServerProofs --------------------------
(***************************************************************************)
(* Proofs about ModelServer, for any numbers of requests, models, pool     *)
(* threads and fragments and any limit.                                    *)
(***************************************************************************)
EXTENDS ModelServer, FiniteSetTheorems, TLAPS

Running == {"get", "enter", "native", "loading", "info", "close", "describe"}
Made == {"close", "describe", "over"}

\* What a request's step says of its route, its model and its instance.
StepShape ==
  \A r \in Requests :
    /\ pc[r] \in {"enter", "native", "created", "paused", "close"} => obj[r] # Nobody
    /\ pc[r] \in {"created", "paused"} => kind[r] = "stream"
    /\ pc[r] = "loading" => kind[r] = "load"
    /\ pc[r] \notin {"new", "over"} /\ kind[r] # "list" => target[r] # Nobody
    /\ kind[r] = "load" /\ pc[r] # "new" => target[r] # Nobody /\ want[r] # Nobody
    /\ pc[r] \in {"enter", "native", "created", "paused"} => kind[r] \in {"call", "stream"}
    /\ pc[r] = "describe" => kind[r] = "load"

\* A request that runs has a thread of the pool, and nobody shares it.
ThreadInv ==
  /\ \A r \in Requests : pc[r] \in Running <=> thread[r] # Nobody
  /\ \A r, q \in Requests : thread[r] = thread[q] /\ thread[r] # Nobody => r = q

\* Where instances come from: the table holds, for a model id, lifespan's
\* instance or one made by a load of that very id that has come to its end.
OriginInv ==
  /\ \A m \in Models : \/ table[m] \in {m, Nobody}
                       \/ /\ table[m] \in Requests
                          /\ kind[table[m]] = "load" /\ target[table[m]] = m
                          /\ pc[table[m]] \in Made
  /\ \A r \in Requests : obj[r] \in Requests =>
       kind[obj[r]] = "load" /\ pc[obj[r]] \in Made

\* An instance that is about to be closed has left the table.
ClosingInv == \A r \in Requests : pc[r] = "close" => obj[r] \notin Registered

\* An instance whose load raised belongs to a request that is over, and what a
\* request still describes comes from loads that came to their end.
AbandonedInv ==
  /\ \A i \in abandoned : pc[i] = "over"
  /\ \A r \in Requests : \A i \in todo[r] : i \in Requests => pc[i] \in Made

\* Only the holder of the registry's lock builds a model, and while it does
\* there is room for it.
BuildInv ==
  \A r \in Requests :
    /\ pc[r] \in {"loading", "info"} => registry = r
    /\ pc[r] = "loading" /\ table[target[r]] = Nobody => Cardinality(Registered) < MaxModels

\* A call that is no stream is in its model's lock on its own thread.
CallInv ==
  \A r \in Requests : pc[r] = "native" /\ kind[r] = "call" => owner[obj[r]] = thread[r]

\* A model's lock was entered once at least by each stream and call inside,
\* and it is free exactly when it was left as often as it was entered.
LockSound(i) ==
  /\ IsFiniteSet(Generating(i)) /\ Cardinality(Generating(i)) <= depth[i]
  /\ depth[i] = 0 <=> owner[i] = Nobody
LockInv == \A i \in Instances : LockSound(i)

ServerInv ==
  /\ TypeOK /\ StepShape /\ LockInv /\ ThreadInv /\ OriginInv /\ ClosingInv /\ BuildInv /\ CallInv
  /\ RegistrySound /\ AbandonedInv /\ ContextsAccounted
-----------------------------------------------------------------------------
\* A request inside a model finds the model's lock taken.
LEMMA InsideLocked ==
  ASSUME TypeOK, StepShape, LockInv, NEW r \in Requests, pc[r] \in {"native", "paused"}
  PROVE  obj[r] \in Instances /\ owner[obj[r]] # Nobody /\ depth[obj[r]] \in Nat \ {0}
<1>1. obj[r] \in Instances
  BY DEF TypeOK, StepShape
<1>2. r \in Generating(obj[r])
  BY DEF Generating
<1>3. Cardinality(Generating(obj[r])) # 0
  BY <1>1, <1>2, FS_EmptySet DEF LockInv, LockSound
<1>4. Cardinality(Generating(obj[r])) \in Nat /\ depth[obj[r]] \in Nat
  BY <1>1, FS_CardinalityType DEF LockInv, LockSound, TypeOK
<1>. QED
  BY <1>1, <1>3, <1>4 DEF LockInv, LockSound

\* Every step keeps the types.
LEMMA TypeNext ==
  ASSUME TypeOK, StepShape, LockInv, [Next]_vars
  PROVE  TypeOK'
<1> USE DEF Goto, Answer, Obj, Forget, LeaveThread, instanceVars, lockVars,
      requestVars, TypeOK, StepShape, Instances, Steps, Kinds
<1>1. ASSUME NEW r \in Requests, RequestStep(r) \/ Disconnect(r)
      PROVE  TypeOK'
  <2>1. CASE Start(r)
    BY <2>1 DEF Start, Free
  <2>2. CASE Get(r)
    BY <2>2 DEF Get
  <2>3. CASE Resume(r)
    BY <2>3 DEF Resume, Free
  <2>4. CASE Enter(r)
    BY <2>4 DEF Enter
  <2>5. CASE Yield(r)
    BY <2>5, ServerAssumption DEF Yield
  <2>6. CASE Exit(r)
    BY <2>6, InsideLocked DEF Exit, GiveBack
  <2>7. CASE List(r)
    BY <2>7 DEF List, Registered
  <2>8. CASE Info(r)
    BY <2>8 DEF Info
  <2>9. CASE InfoEnd(r)
    BY <2>9 DEF InfoEnd
  <2>10. CASE LoadReuse(r)
    BY <2>10 DEF LoadReuse
  <2>11. CASE LoadRefused(r)
    BY <2>11 DEF LoadRefused
  <2>12. CASE LoadBegin(r)
    BY <2>12 DEF LoadBegin
  <2>13. CASE LoadEnd(r)
    BY <2>13 DEF LoadEnd
  <2>14. CASE LoadFails(r)
    BY <2>14 DEF LoadFails
  <2>15. CASE Unload(r)
    BY <2>15 DEF Unload
  <2>16. CASE Close(r)
    BY <2>16 DEF Close
  <2>17. CASE Describe(r)
    BY <2>17 DEF Describe
  <2>18. CASE Disconnect(r)
    BY <2>18, InsideLocked DEF Disconnect, GiveBack
  <2>19. CASE EnterFails(r)
    BY <2>19 DEF EnterFails
  <2>. QED
    BY <1>1, <2>1, <2>2, <2>3, <2>4, <2>5, <2>6, <2>7, <2>8, <2>9, <2>10, <2>11, <2>12,
       <2>13, <2>14, <2>15, <2>16, <2>17, <2>18, <2>19 DEF RequestStep
<1>2. CASE UNCHANGED vars
  BY <1>2 DEF vars
<1>. QED
  BY <1>1, <1>2 DEF Next

\* ... what the steps say of their requests,
LEMMA ShapeNext ==
  ASSUME TypeOK, StepShape, [Next]_vars
  PROVE  StepShape'
<1> USE DEF Goto, Answer, Obj, Forget, LeaveThread, instanceVars, lockVars,
      requestVars, TypeOK, StepShape, Instances, Steps, Kinds
<1>1. ASSUME NEW r \in Requests, RequestStep(r) \/ Disconnect(r)
      PROVE  StepShape'
  <2>1. CASE Start(r)
    BY <2>1, ServerAssumption DEF Start, Free
  <2>2. CASE Get(r)
    BY <2>2 DEF Get
  <2>3. CASE Resume(r)
    BY <2>3 DEF Resume
  <2>4. CASE Enter(r)
    BY <2>4 DEF Enter
  <2>5. CASE Yield(r)
    BY <2>5 DEF Yield
  <2>6. CASE Exit(r)
    BY <2>6 DEF Exit
  <2>7. CASE List(r)
    BY <2>7 DEF List
  <2>8. CASE Info(r)
    BY <2>8 DEF Info
  <2>9. CASE InfoEnd(r)
    BY <2>9 DEF InfoEnd
  <2>10. CASE LoadReuse(r)
    BY <2>10 DEF LoadReuse
  <2>11. CASE LoadRefused(r)
    BY <2>11 DEF LoadRefused
  <2>12. CASE LoadBegin(r)
    BY <2>12 DEF LoadBegin
  <2>13. CASE LoadEnd(r)
    BY <2>13 DEF LoadEnd
  <2>14. CASE LoadFails(r)
    BY <2>14 DEF LoadFails
  <2>15. CASE Unload(r)
    BY <2>15 DEF Unload
  <2>16. CASE Close(r)
    BY <2>16 DEF Close
  <2>17. CASE Describe(r)
    BY <2>17 DEF Describe
  <2>18. CASE Disconnect(r)
    BY <2>18 DEF Disconnect
  <2>19. CASE EnterFails(r)
    BY <2>19 DEF EnterFails
  <2>. QED
    BY <1>1, <2>1, <2>2, <2>3, <2>4, <2>5, <2>6, <2>7, <2>8, <2>9, <2>10, <2>11, <2>12,
       <2>13, <2>14, <2>15, <2>16, <2>17, <2>18, <2>19 DEF RequestStep
<1>2. CASE UNCHANGED vars
  BY <1>2 DEF vars
<1>. QED
  BY <1>1, <1>2 DEF Next

\* ... the threads,
LEMMA ThreadNext ==
  ASSUME TypeOK, ThreadInv, [Next]_vars
  PROVE  ThreadInv'
<1> USE DEF Goto, Answer, Obj, Forget, LeaveThread, instanceVars, lockVars,
      requestVars, TypeOK, ThreadInv, Running, Steps
<1>1. ASSUME NEW r \in Requests, RequestStep(r) \/ Disconnect(r)
      PROVE  ThreadInv'
  <2>1. CASE Start(r)
    BY <2>1, ServerAssumption DEF Start, Free
  <2>2. CASE Get(r)
    BY <2>2 DEF Get
  <2>3. CASE Resume(r)
    BY <2>3 DEF Resume, Free
  <2>4. CASE Enter(r)
    BY <2>4 DEF Enter
  <2>5. CASE Yield(r)
    BY <2>5 DEF Yield
  <2>6. CASE Exit(r)
    BY <2>6 DEF Exit
  <2>7. CASE List(r)
    BY <2>7 DEF List
  <2>8. CASE Info(r)
    BY <2>8 DEF Info
  <2>9. CASE InfoEnd(r)
    BY <2>9 DEF InfoEnd
  <2>10. CASE LoadReuse(r)
    BY <2>10 DEF LoadReuse
  <2>11. CASE LoadRefused(r)
    BY <2>11 DEF LoadRefused
  <2>12. CASE LoadBegin(r)
    BY <2>12 DEF LoadBegin
  <2>13. CASE LoadEnd(r)
    BY <2>13 DEF LoadEnd
  <2>14. CASE LoadFails(r)
    BY <2>14 DEF LoadFails
  <2>15. CASE Unload(r)
    BY <2>15 DEF Unload
  <2>16. CASE Close(r)
    BY <2>16 DEF Close
  <2>17. CASE Describe(r)
    BY <2>17 DEF Describe
  <2>18. CASE Disconnect(r)
    BY <2>18 DEF Disconnect
  <2>19. CASE EnterFails(r)
    BY <2>19 DEF EnterFails
  <2>. QED
    BY <1>1, <2>1, <2>2, <2>3, <2>4, <2>5, <2>6, <2>7, <2>8, <2>9, <2>10, <2>11, <2>12,
       <2>13, <2>14, <2>15, <2>16, <2>17, <2>18, <2>19 DEF RequestStep
<1>2. CASE UNCHANGED vars
  BY <1>2 DEF vars
<1>. QED
  BY <1>1, <1>2 DEF Next

\* Who is inside which model changes only when a lock is entered or left.
LEMMA InsideSame ==
  ASSUME TypeOK, NEW r \in Requests,
         Start(r) \/ Get(r) \/ Resume(r) \/ Yield(r) \/ List(r) \/ Info(r)
         \/ InfoEnd(r) \/ LoadReuse(r) \/ LoadRefused(r) \/ LoadBegin(r) \/ LoadEnd(r)
         \/ LoadFails(r) \/ Unload(r) \/ Close(r) \/ Describe(r) \/ EnterFails(r)
  PROVE  (\A i \in Instances : Generating(i)' = Generating(i)) /\ UNCHANGED lockVars
<1> USE DEF TypeOK, Generating, Goto, Answer, Obj, Forget, LeaveThread, instanceVars,
      lockVars, requestVars
<1>1. CASE Start(r)
  BY <1>1 DEF Start
<1>2. CASE Get(r)
  BY <1>2 DEF Get
<1>3. CASE Resume(r)
  BY <1>3 DEF Resume
<1>4. CASE Yield(r)
  BY <1>4 DEF Yield
<1>5. CASE List(r)
  BY <1>5 DEF List
<1>6. CASE Info(r)
  BY <1>6 DEF Info
<1>7. CASE InfoEnd(r)
  BY <1>7 DEF InfoEnd
<1>8. CASE LoadReuse(r)
  BY <1>8 DEF LoadReuse
<1>9. CASE LoadRefused(r)
  BY <1>9 DEF LoadRefused
<1>10. CASE LoadBegin(r)
  BY <1>10 DEF LoadBegin
<1>11. CASE LoadEnd(r)
  BY <1>11 DEF LoadEnd
<1>12. CASE LoadFails(r)
  BY <1>12 DEF LoadFails
<1>13. CASE Unload(r)
  BY <1>13 DEF Unload
<1>14. CASE Close(r)
  BY <1>14 DEF Close
<1>15. CASE Describe(r)
  BY <1>15 DEF Describe
<1>16. CASE EnterFails(r)
  BY <1>16 DEF EnterFails
<1>. QED
  BY <1>1, <1>2, <1>3, <1>4, <1>5, <1>6, <1>7, <1>8, <1>9, <1>10, <1>11, <1>12, <1>13,
     <1>14, <1>15, <1>16

\* ... what the locks say of those inside,
LEMMA LockNext ==
  ASSUME TypeOK, StepShape, ThreadInv, LockInv, TypeOK', [Next]_vars
  PROVE  LockInv'
<1>1. ASSUME NEW r \in Requests, RequestStep(r) \/ Disconnect(r)
      PROVE  LockInv'
  <2>1. CASE Enter(r)
    <3>1. obj[r] \in Instances /\ thread[r] \in Threads
      BY <2>1 DEF Enter, TypeOK, StepShape, ThreadInv, Running
    <3>2. Generating(obj[r])' = Generating(obj[r]) \cup {r} /\ r \notin Generating(obj[r])
      BY <2>1 DEF Enter, Generating, Goto, TypeOK
    <3>3. /\ IsFiniteSet(Generating(obj[r])')
          /\ Cardinality(Generating(obj[r])') = Cardinality(Generating(obj[r])) + 1
      BY <3>1, <3>2, FS_AddElement DEF LockInv, LockSound
    <3>4. depth[obj[r]] \in Nat /\ Cardinality(Generating(obj[r])) \in Nat
      BY <3>1, FS_CardinalityType DEF LockInv, LockSound, TypeOK
    <3>5. depth'[obj[r]] = depth[obj[r]] + 1 /\ owner'[obj[r]] # Nobody
      BY <2>1, <3>1, ServerAssumption DEF Enter, TypeOK
    <3>6. ASSUME NEW i \in Instances, i # obj[r]
          PROVE  LockSound(i)'
      <4>1. Generating(i)' = Generating(i) /\ depth'[i] = depth[i] /\ owner'[i] = owner[i]
        BY <2>1, <3>6 DEF Enter, Generating, Goto, TypeOK
      <4>. QED
        BY <4>1 DEF LockInv, LockSound
    <3>7. ASSUME NEW i \in Instances, i = obj[r]
          PROVE  LockSound(i)'
      BY <2>1, <3>3, <3>4, <3>5, <3>7 DEF LockInv, LockSound, Enter
    <3>. QED
      BY <3>6, <3>7 DEF LockInv
  <2>2. ASSUME NEW t, NEW o, pc[r] \in {"native", "paused"}, o = obj[r], GiveBack(o, t),
               Answer(r), Forget(r)
        PROVE  LockInv'
    <3>1. o \in Instances /\ owner[o] # Nobody /\ depth[o] \in Nat \ {0}
      BY <2>2, InsideLocked
    <3>2. Generating(o)' = Generating(o) \ {r} /\ r \in Generating(o)
      BY <2>2 DEF Generating, Goto, Answer, Forget, Obj, TypeOK, StepShape
    <3>3. /\ IsFiniteSet(Generating(o)')
          /\ Cardinality(Generating(o)') = Cardinality(Generating(o)) - 1
      BY <3>1, <3>2, FS_RemoveElement DEF LockInv, LockSound
    <3>4. Cardinality(Generating(o)) \in Nat
      BY <3>1, FS_CardinalityType DEF LockInv, LockSound
    <3>5. \/ depth'[o] = depth[o] /\ owner'[o] = owner[o]
          \/ /\ depth'[o] = depth[o] - 1
             /\ owner'[o] = IF depth[o] = 1 THEN Nobody ELSE owner[o]
      BY <2>2, <3>1 DEF GiveBack, lockVars, TypeOK
    <3>6. ASSUME NEW i \in Instances, i # o
          PROVE  Generating(i)' = Generating(i) /\ depth'[i] = depth[i] /\ owner'[i] = owner[i]
      <4>1. Generating(i)' = Generating(i)
        BY <2>2, <3>6 DEF Generating, Goto, Answer, Forget, Obj, TypeOK
      <4>2. depth'[i] = depth[i] /\ owner'[i] = owner[i]
        BY <2>2, <3>6 DEF GiveBack, lockVars, TypeOK
      <4>. QED
        BY <4>1, <4>2
    <3>7. LockSound(o)'
      BY <2>2, <3>1, <3>3, <3>4, <3>5 DEF LockInv, LockSound
    <3>. QED
      BY <3>6, <3>7 DEF LockInv, LockSound
  <2>3. CASE Exit(r)
    BY <2>2, <2>3 DEF Exit
  <2>4. CASE Disconnect(r)
    <3>1. CASE pc[r] = "created"
      <4>1. (\A i \in Instances : Generating(i)' = Generating(i)) /\ UNCHANGED lockVars
        BY <2>4, <3>1 DEF Disconnect, Generating, Goto, Answer, Forget, Obj, lockVars,
           TypeOK
      <4>. QED
        BY <4>1 DEF LockInv, LockSound, lockVars
    <3>2. CASE pc[r] = "paused"
      BY <2>2, <2>4, <3>2 DEF Disconnect
    <3>. QED
      BY <2>4, <3>1, <3>2 DEF Disconnect
  <2>. QED
    BY <1>1, <2>1, <2>3, <2>4, InsideSame DEF RequestStep, LockInv, LockSound, lockVars
<1>2. CASE UNCHANGED vars
  BY <1>2 DEF vars, lockVars, LockInv, LockSound, Generating
<1>. QED
  BY <1>1, <1>2 DEF Next

\* ... where the instances come from,
LEMMA OriginNext ==
  ASSUME TypeOK, StepShape, OriginInv, [Next]_vars
  PROVE  OriginInv'
<1> USE DEF Goto, Answer, Obj, Forget, LeaveThread, instanceVars, lockVars,
      requestVars, TypeOK, StepShape, OriginInv, Made, Instances, Kinds
<1>1. ASSUME NEW r \in Requests, RequestStep(r) \/ Disconnect(r)
      PROVE  OriginInv'
  <2>1. CASE Start(r)
    BY <2>1, ServerAssumption DEF Start
  <2>2. CASE Get(r)
    BY <2>2, ServerAssumption DEF Get
  <2>3. CASE Resume(r)
    BY <2>3 DEF Resume
  <2>4. CASE Enter(r)
    BY <2>4 DEF Enter
  <2>5. CASE Yield(r)
    BY <2>5 DEF Yield
  <2>6. CASE Exit(r)
    BY <2>6, ServerAssumption DEF Exit
  <2>7. CASE List(r)
    BY <2>7 DEF List
  <2>8. CASE Info(r)
    BY <2>8 DEF Info
  <2>9. CASE InfoEnd(r)
    BY <2>9 DEF InfoEnd
  <2>10. CASE LoadReuse(r)
    BY <2>10 DEF LoadReuse
  <2>11. CASE LoadRefused(r)
    BY <2>11 DEF LoadRefused
  <2>12. CASE LoadBegin(r)
    BY <2>12 DEF LoadBegin
  <2>13. CASE LoadEnd(r)
    BY <2>13, ServerAssumption DEF LoadEnd
  <2>14. CASE LoadFails(r)
    BY <2>14 DEF LoadFails
  <2>15. CASE Unload(r)
    BY <2>15, ServerAssumption DEF Unload
  <2>16. CASE Close(r)
    BY <2>16, ServerAssumption DEF Close
  <2>17. CASE Describe(r)
    BY <2>17, ServerAssumption DEF Describe
  <2>18. CASE Disconnect(r)
    BY <2>18, ServerAssumption DEF Disconnect
  <2>19. CASE EnterFails(r)
    BY <2>19, ServerAssumption DEF EnterFails
  <2>. QED
    BY <1>1, <2>1, <2>2, <2>3, <2>4, <2>5, <2>6, <2>7, <2>8, <2>9, <2>10, <2>11, <2>12,
       <2>13, <2>14, <2>15, <2>16, <2>17, <2>18, <2>19 DEF RequestStep
<1>2. CASE UNCHANGED vars
  BY <1>2 DEF vars
<1>. QED
  BY <1>1, <1>2 DEF Next

\* ... that a model leaves the table before it is closed,
LEMMA ClosingNext ==
  ASSUME TypeOK, StepShape, OriginInv, ClosingInv, [Next]_vars
  PROVE  ClosingInv'
<1> USE DEF Goto, Answer, Obj, Forget, LeaveThread, instanceVars, lockVars,
      requestVars, TypeOK, StepShape, OriginInv, ClosingInv, Registered, Made, Instances
<1>1. ASSUME NEW r \in Requests, RequestStep(r) \/ Disconnect(r)
      PROVE  ClosingInv'
  <2>1. CASE Start(r)
    BY <2>1 DEF Start
  <2>2. CASE Get(r)
    BY <2>2 DEF Get
  <2>3. CASE Resume(r)
    BY <2>3 DEF Resume
  <2>4. CASE Enter(r)
    BY <2>4 DEF Enter
  <2>5. CASE Yield(r)
    BY <2>5 DEF Yield
  <2>6. CASE Exit(r)
    BY <2>6 DEF Exit
  <2>7. CASE List(r)
    BY <2>7 DEF List
  <2>8. CASE Info(r)
    BY <2>8 DEF Info
  <2>9. CASE InfoEnd(r)
    BY <2>9 DEF InfoEnd
  <2>10. CASE LoadReuse(r)
    BY <2>10 DEF LoadReuse
  <2>11. CASE LoadRefused(r)
    BY <2>11 DEF LoadRefused
  <2>12. CASE LoadBegin(r)
    BY <2>12 DEF LoadBegin
  <2>13. CASE LoadEnd(r)
    BY <2>13, ServerAssumption DEF LoadEnd
  <2>14. CASE LoadFails(r)
    BY <2>14 DEF LoadFails
  <2>15. CASE Unload(r)
    BY <2>15, ServerAssumption DEF Unload
  <2>16. CASE Close(r)
    BY <2>16 DEF Close
  <2>17. CASE Describe(r)
    BY <2>17 DEF Describe
  <2>18. CASE Disconnect(r)
    BY <2>18 DEF Disconnect
  <2>19. CASE EnterFails(r)
    BY <2>19 DEF EnterFails
  <2>. QED
    BY <1>1, <2>1, <2>2, <2>3, <2>4, <2>5, <2>6, <2>7, <2>8, <2>9, <2>10, <2>11, <2>12,
       <2>13, <2>14, <2>15, <2>16, <2>17, <2>18, <2>19 DEF RequestStep
<1>2. CASE UNCHANGED vars
  BY <1>2 DEF vars
<1>. QED
  BY <1>1, <1>2 DEF Next

\* ... the calls that are in their locks,
LEMMA CallNext ==
  ASSUME TypeOK, StepShape, ThreadInv, CallInv, [Next]_vars
  PROVE  CallInv'
<1> USE DEF Goto, Answer, Obj, Forget, LeaveThread, instanceVars, lockVars,
      requestVars, TypeOK, StepShape, ThreadInv, CallInv, Running
<1>1. ASSUME NEW r \in Requests, RequestStep(r) \/ Disconnect(r)
      PROVE  CallInv'
  <2>1. CASE Start(r)
    BY <2>1, ServerAssumption DEF Start
  <2>2. CASE Get(r)
    BY <2>2 DEF Get
  <2>3. CASE Resume(r)
    BY <2>3 DEF Resume
  <2>4. CASE Enter(r)
    BY <2>4 DEF Enter, CanEnter
  <2>5. CASE Yield(r)
    BY <2>5 DEF Yield
  <2>6. CASE Exit(r)
    BY <2>6 DEF Exit, GiveBack
  <2>7. CASE List(r)
    BY <2>7 DEF List
  <2>8. CASE Info(r)
    BY <2>8 DEF Info
  <2>9. CASE InfoEnd(r)
    BY <2>9 DEF InfoEnd
  <2>10. CASE LoadReuse(r)
    BY <2>10 DEF LoadReuse
  <2>11. CASE LoadRefused(r)
    BY <2>11 DEF LoadRefused
  <2>12. CASE LoadBegin(r)
    BY <2>12 DEF LoadBegin
  <2>13. CASE LoadEnd(r)
    BY <2>13 DEF LoadEnd
  <2>14. CASE LoadFails(r)
    BY <2>14 DEF LoadFails
  <2>15. CASE Unload(r)
    BY <2>15 DEF Unload
  <2>16. CASE Close(r)
    BY <2>16 DEF Close
  <2>17. CASE Describe(r)
    BY <2>17 DEF Describe
  <2>18. CASE Disconnect(r)
    BY <2>18, ServerAssumption DEF Disconnect, GiveBack, Free
  <2>19. CASE EnterFails(r)
    BY <2>19 DEF EnterFails
  <2>. QED
    BY <1>1, <2>1, <2>2, <2>3, <2>4, <2>5, <2>6, <2>7, <2>8, <2>9, <2>10, <2>11, <2>12,
       <2>13, <2>14, <2>15, <2>16, <2>17, <2>18, <2>19 DEF RequestStep
<1>2. CASE UNCHANGED vars
  BY <1>2 DEF vars
<1>. QED
  BY <1>1, <1>2 DEF Next

\* The table names finitely many instances.
LEMMA RegisteredFinite ==
  ASSUME TypeOK
  PROVE  IsFiniteSet(Registered) /\ Cardinality(Registered) \in Nat
<1> DEFINE Named == {table[m] : m \in Models}
<1>1. table \in Surjection(Models, Named)
  BY DEF TypeOK, Surjection
<1>2. IsFiniteSet(Named)
  BY <1>1, FS_Surjection, ServerAssumption
<1>3. Registered \in SUBSET Named
  BY DEF Registered
<1>4. IsFiniteSet(Registered)
  BY <1>2, <1>3, FS_Subset
<1>. QED
  BY <1>4, FS_CardinalityType

\* While the table is the same, so is what it names.
LEMMA TableSame ==
  ASSUME UNCHANGED table
  PROVE  Registered' = Registered
BY DEF Registered

\* ... that a model is built under the registry's lock and has room,
LEMMA BuildNext ==
  ASSUME TypeOK, StepShape, BuildInv, [Next]_vars
  PROVE  BuildInv'
<1> USE DEF Goto, Answer, Obj, Forget, LeaveThread, instanceVars, lockVars,
      requestVars, TypeOK, StepShape, BuildInv
<1>1. ASSUME NEW r \in Requests, RequestStep(r) \/ Disconnect(r)
      PROVE  BuildInv'
  <2>1. CASE Start(r)
    BY <2>1, TableSame, ServerAssumption DEF Start
  <2>2. CASE Get(r)
    BY <2>2, TableSame DEF Get
  <2>3. CASE Resume(r)
    BY <2>3, TableSame DEF Resume
  <2>4. CASE Enter(r)
    BY <2>4, TableSame DEF Enter
  <2>5. CASE Yield(r)
    BY <2>5, TableSame DEF Yield
  <2>6. CASE Exit(r)
    BY <2>6, TableSame DEF Exit
  <2>7. CASE List(r)
    BY <2>7, TableSame, ServerAssumption DEF List
  <2>8. CASE Info(r)
    BY <2>8, TableSame DEF Info
  <2>9. CASE InfoEnd(r)
    BY <2>9, TableSame DEF InfoEnd
  <2>10. CASE LoadReuse(r)
    BY <2>10, TableSame, ServerAssumption DEF LoadReuse
  <2>11. CASE LoadRefused(r)
    BY <2>11, TableSame DEF LoadRefused
  <2>12. CASE LoadBegin(r)
    BY <2>12, TableSame, RegisteredFinite, ServerAssumption DEF LoadBegin, Full
  <2>13. CASE LoadEnd(r)
    BY <2>13, ServerAssumption DEF LoadEnd
  <2>14. CASE LoadFails(r)
    BY <2>14, TableSame DEF LoadFails
  <2>15. CASE Unload(r)
    BY <2>15, ServerAssumption DEF Unload
  <2>16. CASE Close(r)
    BY <2>16, TableSame DEF Close
  <2>17. CASE Describe(r)
    BY <2>17, TableSame DEF Describe
  <2>18. CASE Disconnect(r)
    BY <2>18, TableSame DEF Disconnect
  <2>19. CASE EnterFails(r)
    BY <2>19, TableSame DEF EnterFails
  <2>. QED
    BY <1>1, <2>1, <2>2, <2>3, <2>4, <2>5, <2>6, <2>7, <2>8, <2>9, <2>10, <2>11, <2>12,
       <2>13, <2>14, <2>15, <2>16, <2>17, <2>18, <2>19 DEF RequestStep
<1>2. CASE UNCHANGED vars
  BY <1>2, TableSame DEF vars
<1>. QED
  BY <1>1, <1>2 DEF Next

\* The registry's table keeps its limit when a model is inserted.
LEMMA LimitAtInsertion ==
  ASSUME TypeOK, StepShape, OriginInv, BuildInv, RegistrySound,
         NEW r \in Requests, LoadEnd(r)
  PROVE  LimitKept'
<1> DEFINE old == table[target[r]]
<1>1. target[r] \in Models /\ r \in Instances
  BY DEF LoadEnd, TypeOK, StepShape, Instances
<1>2. \A m \in Models : table'[m] = IF m = target[r] THEN r ELSE table[m]
  BY <1>1 DEF LoadEnd, TypeOK
<1>3. \A m \in Models : m # target[r] /\ table[m] # Nobody => table[m] # old
  BY <1>1, ServerAssumption DEF OriginInv
<1>4. Registered' \subseteq (Registered \ {old}) \cup {r}
  BY <1>2, <1>3 DEF Registered
<1>5. IsFiniteSet(Registered) /\ Cardinality(Registered) \in Nat
  BY RegisteredFinite
<1>6. /\ IsFiniteSet(Registered \ {old})
      /\ Cardinality(Registered \ {old}) < MaxModels
  <2>1. CASE old = Nobody
    <3>1. Cardinality(Registered) < MaxModels
      BY <2>1 DEF BuildInv, LoadEnd
    <3>2. Registered \ {old} = Registered
      BY <2>1 DEF Registered
    <3>. QED
      BY <1>5, <3>1, <3>2
  <2>2. CASE old # Nobody
    <3>1. old \in Registered
      BY <1>1, <2>2 DEF Registered
    <3>2. /\ IsFiniteSet(Registered \ {old})
          /\ Cardinality(Registered \ {old}) = Cardinality(Registered) - 1
      BY <1>5, <3>1, FS_RemoveElement
    <3>. QED
      BY <1>5, <3>2, ServerAssumption DEF RegistrySound, LimitKept
  <2>. QED
    BY <2>1, <2>2
<1>7. /\ IsFiniteSet((Registered \ {old}) \cup {r})
      /\ Cardinality((Registered \ {old}) \cup {r}) <= MaxModels
  <2>1. Cardinality(Registered \ {old}) \in Nat
    BY <1>6, FS_CardinalityType
  <2>2. /\ IsFiniteSet((Registered \ {old}) \cup {r})
        /\ \/ Cardinality((Registered \ {old}) \cup {r}) = Cardinality(Registered \ {old})
           \/ Cardinality((Registered \ {old}) \cup {r}) = Cardinality(Registered \ {old}) + 1
    BY <1>6, FS_AddElement
  <2>. QED
    BY <1>6, <2>1, <2>2, ServerAssumption
<1>8. Cardinality(Registered') <= Cardinality((Registered \ {old}) \cup {r})
      /\ Cardinality(Registered') \in Nat
  BY <1>4, <1>7, FS_Subset, FS_CardinalityType
<1>9. Cardinality((Registered \ {old}) \cup {r}) \in Nat
  BY <1>7, FS_CardinalityType
<1>. QED
  BY <1>7, <1>8, <1>9, ServerAssumption DEF LimitKept

\* ... and loses nothing but an entry when a model is taken out.
LEMMA LimitAtRemoval ==
  ASSUME TypeOK, RegistrySound, Registered' \subseteq Registered
  PROVE  LimitKept'
<1>1. IsFiniteSet(Registered) /\ Cardinality(Registered) \in Nat
  BY RegisteredFinite
<1>2. Cardinality(Registered') <= Cardinality(Registered) /\ Cardinality(Registered') \in Nat
  BY <1>1, FS_Subset, FS_CardinalityType
<1>. QED
  BY <1>1, <1>2, ServerAssumption DEF RegistrySound, LimitKept

\* ... the registry's table within its limit and without a closed model,
LEMMA RegistryNext ==
  ASSUME TypeOK, StepShape, OriginInv, ClosingInv, BuildInv, RegistrySound, [Next]_vars
  PROVE  RegistrySound'
<1>1. ASSUME UNCHANGED <<table, loaded>>
      PROVE  RegistrySound'
  BY <1>1 DEF RegistrySound, LimitKept, RegisteredLoaded, Registered
<1>2. ASSUME NEW r \in Requests, RequestStep(r) \/ Disconnect(r)
      PROVE  RegistrySound'
  <2>1. CASE Enter(r)
    BY <2>1 DEF Enter, RegistrySound, LimitKept, RegisteredLoaded, Registered
  <2>2. CASE LoadEnd(r)
    <3>1. RegisteredLoaded'
      BY <2>2 DEF LoadEnd, RegistrySound, RegisteredLoaded, Registered, TypeOK
    <3>. QED
      BY <2>2, <3>1, LimitAtInsertion DEF RegistrySound
  <2>3. CASE Unload(r)
    <3>1. Registered' \subseteq Registered
      BY <2>3 DEF Unload, Registered, TypeOK
    <3>2. RegisteredLoaded'
      BY <2>3, <3>1 DEF Unload, RegistrySound, RegisteredLoaded
    <3>. QED
      BY <3>1, <3>2, LimitAtRemoval DEF RegistrySound
  <2>4. CASE Close(r)
    <3>1. Registered' = Registered /\ obj[r] \notin Registered
      BY <2>4 DEF Close, Registered, ClosingInv
    <3>. QED
      BY <2>4, <3>1 DEF Close, RegistrySound, LimitKept, RegisteredLoaded
  <2>5. CASE \/ Start(r) \/ Get(r) \/ Resume(r) \/ Yield(r) \/ Exit(r) \/ List(r) \/ Info(r)
             \/ InfoEnd(r) \/ LoadReuse(r) \/ LoadRefused(r) \/ LoadBegin(r)
             \/ Describe(r) \/ Disconnect(r)
    BY <1>1, <2>5 DEF Start, Get, Resume, Yield, Exit, List, Info, InfoEnd, LoadReuse,
       LoadRefused, LoadBegin, Describe, Disconnect, instanceVars
  <2>6. CASE EnterFails(r)
    BY <2>6 DEF EnterFails, RegistrySound, LimitKept, RegisteredLoaded, Registered
  <2>7. CASE LoadFails(r)
    BY <2>7 DEF LoadFails, RegistrySound, LimitKept, RegisteredLoaded, Registered
  <2>. QED
    BY <1>2, <2>1, <2>2, <2>3, <2>4, <2>5, <2>6, <2>7 DEF RequestStep
<1>3. CASE UNCHANGED vars
  BY <1>1, <1>3 DEF vars, instanceVars
<1>. QED
  BY <1>2, <1>3 DEF Next

\* ... that a load that raised is over and what is described was made,
LEMMA AbandonedNext ==
  ASSUME TypeOK, StepShape, OriginInv, AbandonedInv, [Next]_vars
  PROVE  AbandonedInv'
<1> USE DEF Goto, Answer, Obj, Forget, LeaveThread, instanceVars, lockVars,
      requestVars, TypeOK, AbandonedInv, Made, Instances
<1>1. ASSUME NEW r \in Requests, RequestStep(r) \/ Disconnect(r)
      PROVE  AbandonedInv'
  <2>1. CASE Start(r)
    BY <2>1 DEF Start
  <2>2. CASE Get(r)
    BY <2>2 DEF Get
  <2>3. CASE Resume(r)
    BY <2>3 DEF Resume
  <2>4. CASE Enter(r)
    BY <2>4 DEF Enter
  <2>5. CASE Yield(r)
    BY <2>5 DEF Yield
  <2>6. CASE Exit(r)
    BY <2>6 DEF Exit
  <2>7. CASE List(r)
    BY <2>7, ServerAssumption DEF List, OriginInv, Registered
  <2>8. CASE Info(r)
    BY <2>8 DEF Info
  <2>9. CASE InfoEnd(r)
    BY <2>9 DEF InfoEnd
  <2>10. CASE LoadReuse(r)
    BY <2>10, ServerAssumption DEF LoadReuse, OriginInv, StepShape
  <2>11. CASE LoadRefused(r)
    BY <2>11 DEF LoadRefused
  <2>12. CASE LoadBegin(r)
    BY <2>12 DEF LoadBegin
  <2>13. CASE LoadEnd(r)
    BY <2>13 DEF LoadEnd
  <2>14. CASE LoadFails(r)
    BY <2>14 DEF LoadFails
  <2>15. CASE Unload(r)
    BY <2>15 DEF Unload
  <2>16. CASE Close(r)
    BY <2>16 DEF Close
  <2>17. CASE Describe(r)
    BY <2>17 DEF Describe
  <2>18. CASE Disconnect(r)
    BY <2>18 DEF Disconnect
  <2>19. CASE EnterFails(r)
    BY <2>19 DEF EnterFails
  <2>. QED
    BY <1>1, <2>1, <2>2, <2>3, <2>4, <2>5, <2>6, <2>7, <2>8, <2>9, <2>10, <2>11, <2>12,
       <2>13, <2>14, <2>15, <2>16, <2>17, <2>18, <2>19 DEF RequestStep
<1>2. CASE UNCHANGED vars
  BY <1>2 DEF vars
<1>. QED
  BY <1>1, <1>2 DEF Next

\* ... every native context with its owner,
LEMMA HeldNext ==
  ASSUME TypeOK, TypeOK', StepShape, OriginInv, \A i \in loaded : Held(i),
         [Next]_vars
  PROVE  (\A i \in loaded : Held(i))'
<1> USE DEF Goto, Answer, Obj, Forget, LeaveThread, instanceVars, lockVars,
      requestVars, TypeOK, StepShape, OriginInv, Held, Registered,
      Made, Instances
<1>1. ASSUME NEW r \in Requests, RequestStep(r) \/ Disconnect(r)
      PROVE  (\A i \in loaded : Held(i))'
  <2>1. CASE Start(r)
    BY <2>1 DEF Start
  <2>2. CASE Get(r)
    BY <2>2 DEF Get
  <2>3. CASE Resume(r)
    BY <2>3 DEF Resume
  <2>4. CASE Enter(r)
    BY <2>4 DEF Enter
  <2>5. CASE Yield(r)
    BY <2>5 DEF Yield
  <2>6. CASE Exit(r)
    BY <2>6 DEF Exit
  <2>7. CASE List(r)
    BY <2>7 DEF List
  <2>8. CASE Info(r)
    BY <2>8 DEF Info
  <2>9. CASE InfoEnd(r)
    BY <2>9 DEF InfoEnd
  <2>10. CASE LoadReuse(r)
    BY <2>10 DEF LoadReuse
  <2>11. CASE LoadRefused(r)
    BY <2>11 DEF LoadRefused
  <2>12. CASE LoadBegin(r)
    BY <2>12 DEF LoadBegin
  <2>13. CASE LoadEnd(r)
    <3>1. target[r] \in Models /\ r \in Instances /\ r # Nobody
      BY <2>13, ServerAssumption DEF LoadEnd
    <3>2. table'[target[r]] = r /\ r \in Registered'
      BY <2>13, <3>1 DEF LoadEnd
    <3>3. ASSUME NEW i \in loaded, i \in Registered
          PROVE  i \in Registered' \/ (pc'[r] = "close" /\ obj'[r] = i)
      BY <2>13, <3>1, <3>3 DEF LoadEnd
    <3>4. ASSUME NEW q \in Requests, pc[q] = "close"
          PROVE  pc'[q] = "close" /\ obj'[q] = obj[q]
      BY <2>13, <3>4 DEF LoadEnd
    <3>5. loaded' = loaded \cup {r} /\ reloaded' = reloaded /\ abandoned' = abandoned
      BY <2>13 DEF LoadEnd
    <3>6. ASSUME NEW i \in loaded'
          PROVE  \/ i \in Registered' \cup reloaded' \cup abandoned'
                 \/ \E q \in Requests : pc'[q] = "close" /\ obj'[q] = i
      <4>. HIDE DEF Registered
      <4>. QED
        BY <3>2, <3>3, <3>4, <3>5, <3>6
    <3>. QED
      BY <3>6
  <2>14. CASE LoadFails(r)
    BY <2>14 DEF LoadFails
  <2>15. CASE Unload(r)
    BY <2>15 DEF Unload
  <2>16. CASE Close(r)
    BY <2>16 DEF Close
  <2>17. CASE Describe(r)
    BY <2>17 DEF Describe
  <2>18. CASE Disconnect(r)
    BY <2>18 DEF Disconnect
  <2>19. CASE EnterFails(r)
    BY <2>19 DEF EnterFails
  <2>. QED
    BY <1>1, <2>1, <2>2, <2>3, <2>4, <2>5, <2>6, <2>7, <2>8, <2>9, <2>10, <2>11, <2>12,
       <2>13, <2>14, <2>15, <2>16, <2>17, <2>18, <2>19 DEF RequestStep
<1>2. CASE UNCHANGED vars
  BY <1>2 DEF vars
<1>. QED
  BY <1>1, <1>2 DEF Next

\* ... and every half-loaded instance apart from the table and the requests.
LEMMA ApartNext ==
  ASSUME TypeOK, TypeOK', StepShape, OriginInv, AbandonedInv,
         \A i \in abandoned : Unreachable(i), [Next]_vars
  PROVE  (\A i \in abandoned : Unreachable(i))'
<1> USE ServerAssumption DEF Goto, Answer, Obj, Forget, LeaveThread, instanceVars,
      lockVars, requestVars, TypeOK, Unreachable, Registered, Instances
<1>1. ASSUME NEW r \in Requests, RequestStep(r) \/ Disconnect(r)
      PROVE  (\A i \in abandoned : Unreachable(i))'
  <2>1. CASE Start(r)
    BY <2>1 DEF Start
  <2>2. CASE Get(r)
    BY <2>2 DEF Get, StepShape, Kinds
  <2>3. CASE Resume(r)
    BY <2>3 DEF Resume
  <2>4. CASE Enter(r)
    BY <2>4 DEF Enter
  <2>5. CASE Yield(r)
    BY <2>5 DEF Yield
  <2>6. CASE Exit(r)
    BY <2>6 DEF Exit
  <2>7. CASE List(r)
    BY <2>7 DEF List
  <2>8. CASE Info(r)
    BY <2>8 DEF Info
  <2>9. CASE InfoEnd(r)
    BY <2>9 DEF InfoEnd
  <2>10. CASE LoadReuse(r)
    BY <2>10 DEF LoadReuse, StepShape
  <2>11. CASE LoadRefused(r)
    BY <2>11 DEF LoadRefused
  <2>12. CASE LoadBegin(r)
    BY <2>12 DEF LoadBegin
  <2>13. CASE LoadEnd(r)
    BY <2>13 DEF LoadEnd, StepShape, AbandonedInv
  <2>14. CASE LoadFails(r)
    BY <2>14 DEF LoadFails, OriginInv, AbandonedInv, Made
  <2>15. CASE Unload(r)
    BY <2>15 DEF Unload
  <2>16. CASE Close(r)
    BY <2>16 DEF Close
  <2>17. CASE Describe(r)
    BY <2>17 DEF Describe
  <2>18. CASE Disconnect(r)
    BY <2>18 DEF Disconnect
  <2>19. CASE EnterFails(r)
    BY <2>19 DEF EnterFails
  <2>. QED
    BY <1>1, <2>1, <2>2, <2>3, <2>4, <2>5, <2>6, <2>7, <2>8, <2>9, <2>10, <2>11, <2>12,
       <2>13, <2>14, <2>15, <2>16, <2>17, <2>18, <2>19 DEF RequestStep
<1>2. CASE UNCHANGED vars
  BY <1>2 DEF vars
<1>. QED
  BY <1>1, <1>2 DEF Next

\* The initial states satisfy all of it.
LEMMA ServerInit ==
  ASSUME Init
  PROVE  ServerInv
<1>1. TypeOK
  BY ServerAssumption DEF Init, TypeOK, Instances, Steps, Kinds, FirstConfig
<1>2. StepShape /\ ThreadInv /\ OriginInv /\ ClosingInv /\ BuildInv /\ CallInv
  BY ServerAssumption DEF Init, StepShape, ThreadInv, OriginInv, ClosingInv, BuildInv,
     CallInv, Running, Instances
<1>3. LockInv
  BY FS_EmptySet DEF Init, LockInv, LockSound, Generating
<1>4. Registered = {m \in Models : table[m] = m}
  BY ServerAssumption DEF Init, Registered
<1>5. RegistrySound /\ ContextsAccounted
  BY <1>1, <1>4 DEF Init, RegistrySound, LimitKept, RegisteredLoaded, ContextsAccounted,
     Held
<1>6. AbandonedInv
  BY DEF Init, AbandonedInv
<1>. QED
  BY <1>1, <1>2, <1>3, <1>5, <1>6 DEF ServerInv

\* Every step keeps it.
LEMMA ServerNext ==
  ASSUME ServerInv, [Next]_vars
  PROVE  ServerInv'
BY TypeNext, ShapeNext, ThreadNext, LockNext, OriginNext, ClosingNext, BuildNext,
   CallNext,
   RegistryNext, AbandonedNext, HeldNext, ApartNext DEF ServerInv, ContextsAccounted

\* ServerInv holds in every reachable state.
LEMMA ServerInvariant == Spec => []ServerInv
BY ServerInit, ServerNext, PTL DEF Spec

-----------------------------------------------------------------------------
\* However loads, replacements and unloads overlap, the registry keeps its
\* limit and hands out no closed model (ModelRegistry.load, unload, get), for
\* any number of requests, models and threads.
THEOREM RegistryAlwaysSound == Spec => []RegistrySound
<1>1. ServerInv => RegistrySound
  BY DEF ServerInv
<1>. QED
  BY <1>1, ServerInvariant, PTL

\* No native context is forgotten by a replacement or an unload, and the
\* instance of a load that raised, which may be left open, is neither in the
\* table nor in any request's hands (ModelRegistry.load and unload,
\* KernelLoomModel.load and close).
THEOREM ContextsAlwaysAccounted == Spec => []ContextsAccounted
<1>1. ServerInv => ContextsAccounted
  BY DEF ServerInv
<1>. QED
  BY <1>1, ServerInvariant, PTL

\* Two calls that are not streams never compute in one native context, whatever
\* streams lose their locks beside them (KernelLoomModel.generate).
THEOREM CallsAlwaysSerialized == Spec => []CallsSerialized
<1>1. ASSUME ServerInv, NEW i \in Instances
      PROVE  Cardinality({r \in Generating(i) : kind[r] = "call"}) <= 1
  <2> DEFINE Calls == {r \in Generating(i) : kind[r] = "call"}
  <2>1. \A r \in Calls : r \in Requests /\ owner[i] = thread[r] /\ thread[r] # Nobody
    BY <1>1 DEF ServerInv, CallInv, StepShape, ThreadInv, Running, Generating
  <2>2. \A r, q \in Calls : r = q
    BY <1>1, <2>1 DEF ServerInv, ThreadInv
  <2>3. CASE Calls = {}
    BY <2>3, FS_EmptySet
  <2>4. CASE \E r \in Calls : Calls = {r}
    BY <2>4, FS_Singleton
  <2>. QED
    BY <2>2, <2>3, <2>4
<1>2. ServerInv => CallsSerialized
  BY <1>1 DEF CallsSerialized
<1>. QED
  BY <1>2, ServerInvariant, PTL
=============================================================================
