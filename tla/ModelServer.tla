----------------------------- MODULE ModelServer -----------------------------
(***************************************************************************)
(* The resident models of the web service: ModelRegistry and the model     *)
(* routes (kernelloom/server.py) over KernelLoomModel's lock, load, close, *)
(* generate and stream (kernelloom/model.py).                              *)
(*                                                                         *)
(* The service runs every route on a thread of a pool, and every step of a *)
(* streamed response on whichever pool thread is free then (the web        *)
(* framework does, for a plain generator).  A model's RLock belongs to a   *)
(* thread: stream takes it in its first step and gives it back in its      *)
(* last, generate on the same thread enters it again.                      *)
(*                                                                         *)
(* Abstractions.  An instance (one KernelLoomModel) is named by the load   *)
(* request that made it, or by its model id if lifespan did.  What a model *)
(* computes, its caches and warm-up are left out: embed_many, count_tokens *)
(* and warmup take the lock and load like generate, the "call" kind.       *)
(***************************************************************************)
EXTENDS Integers, FiniteSets

CONSTANTS
  Requests,
  Models,      \* model ids
  Configs,     \* configurations of a model id
  Threads,     \* the thread pool
  MaxModels,   \* max_models
  MaxYields,   \* bound: fragments a stream yields
  Nobody       \* no instance, no request, no thread, no model, no config

ASSUME ServerAssumption ==
  /\ Requests \cap Models = {} /\ IsFiniteSet(Models)
  /\ MaxModels \in Nat \ {0}
  /\ MaxYields \in Nat
  /\ Configs # {}
  /\ Nobody \notin Requests \cup Models \cup Configs \cup Threads

Instances == Models \cup Requests

VARIABLES
  table,      \* table[m]: the registry's _models
  config,     \* config[i]: the configuration instance i was made with
  loaded,     \* the instances that hold a native context
  reloaded,   \* those that a call loaded again after they were closed
  abandoned,  \* those whose first load raised after it had made the context
  owner,      \* owner[i]: the thread that holds i's _lock
  depth,      \* depth[i]: how often it has entered it
  registry,   \* the request that holds the registry's _lock
  pc, kind, target, want,  \* per request: step, route, model id, configuration
  obj,        \* obj[r]: the instance r works on
  thread,     \* thread[r]: the pool thread r runs on
  todo,       \* todo[r]: instances r has still to describe, registry locked
  yields      \* yields[r]: fragments stream r has yielded

instanceVars == <<table, config, loaded, reloaded, abandoned>>
lockVars == <<owner, depth>>
requestVars == <<kind, target, want>>
vars == <<instanceVars, lockVars, registry, requestVars, pc, obj, thread, todo, yields>>

Steps == {"new", "get", "created", "enter", "native", "paused", "loading", "info",
          "close", "describe", "over"}
Kinds == {"call", "stream", "list", "load", "unload"}

\* lifespan may have loaded some models; no configuration is special.
FirstConfig == CHOOSE c \in Configs : TRUE

Init ==
  /\ table \in {t \in [Models -> Models \cup {Nobody}] :
                  /\ \A m \in Models : t[m] \in {m, Nobody}
                  /\ Cardinality({m \in Models : t[m] = m}) <= MaxModels}
  /\ config = [i \in Instances |-> IF i \in Models THEN FirstConfig ELSE Nobody]
  /\ loaded = {m \in Models : table[m] = m}
  /\ reloaded = {} /\ abandoned = {}
  /\ owner = [i \in Instances |-> Nobody]
  /\ depth = [i \in Instances |-> 0]
  /\ registry = Nobody
  /\ pc = [r \in Requests |-> "new"]
  /\ kind = [r \in Requests |-> "call"]
  /\ target = [r \in Requests |-> Nobody]
  /\ want = [r \in Requests |-> Nobody]
  /\ obj = [r \in Requests |-> Nobody]
  /\ thread = [r \in Requests |-> Nobody]
  /\ todo = [r \in Requests |-> {}]
  /\ yields = [r \in Requests |-> 0]

-----------------------------------------------------------------------------
Registered == {table[m] : m \in Models} \ {Nobody}
Free == Threads \ {thread[r] : r \in Requests}
Goto(r, step) == pc' = [pc EXCEPT ![r] = step]
Obj(r, i) == obj' = [obj EXCEPT ![r] = i]
Forget(r) == Obj(r, Nobody)
LeaveThread(r) == thread' = [thread EXCEPT ![r] = Nobody]

\* The request is answered and its thread goes back to the pool.
Answer(r) == Goto(r, "over") /\ LeaveThread(r)

\* Faulty variant: the model's lock is not taken.
CanEnterAlways(r, i) == TRUE
CanEnter(r, i) == owner[i] \in {Nobody, thread[r]}

Start(r) ==
  /\ pc[r] = "new"
  /\ \E t \in Free : thread' = [thread EXCEPT ![r] = t]
  /\ \E k \in Kinds :
       /\ kind' = [kind EXCEPT ![r] = k]
       /\ \E m \in (IF k = "list" THEN {Nobody} ELSE Models) :
            target' = [target EXCEPT ![r] = m]
       /\ \E c \in (IF k = "load" THEN Configs ELSE {Nobody}) :
            want' = [want EXCEPT ![r] = c]
  /\ Goto(r, "get")
  /\ UNCHANGED <<instanceVars, lockVars, registry, obj, todo, yields>>

\* ModelRegistry.get, for a generation of either kind: 404 or an instance.
\* A streaming route returns with its generator not yet started.
Get(r) ==
  /\ pc[r] = "get" /\ kind[r] \in {"call", "stream"}
  /\ registry = Nobody
  /\ Obj(r, table[target[r]])
  /\ \/ /\ table[target[r]] = Nobody
        /\ Answer(r)
     \/ /\ table[target[r]] # Nobody /\ kind[r] = "call"
        /\ Goto(r, "enter")
        /\ UNCHANGED thread
     \/ /\ table[target[r]] # Nobody /\ kind[r] = "stream"
        /\ Goto(r, "created") /\ LeaveThread(r)
  /\ UNCHANGED <<instanceVars, lockVars, registry, requestVars, todo, yields>>

\* A step of a stream starts on a pool thread.
Resume(r) ==
  /\ pc[r] \in {"created", "paused"}
  /\ \E t \in Free : thread' = [thread EXCEPT ![r] = t]
  /\ Goto(r, IF pc[r] = "created" THEN "enter" ELSE "native")
  /\ UNCHANGED <<instanceVars, lockVars, registry, requestVars, obj, todo, yields>>

\* generate or stream takes the lock and loads the model if need be.
Enter(r) ==
  /\ pc[r] = "enter" /\ CanEnter(r, obj[r])
  /\ owner' = [owner EXCEPT ![obj[r]] = thread[r]]
  /\ depth' = [depth EXCEPT ![obj[r]] = @ + 1]
  /\ loaded' = loaded \cup {obj[r]}
  /\ reloaded' = IF obj[r] \in loaded THEN reloaded ELSE reloaded \cup {obj[r]}
  /\ Goto(r, "native")
  /\ UNCHANGED <<table, config, abandoned, registry, requestVars, obj, thread, todo, yields>>

\* ... and that load may raise: before there is a context, or after it, in the
\* warm-up.  The lock is given back on the thread that took it.
EnterFails(r) ==
  /\ pc[r] = "enter" /\ CanEnter(r, obj[r]) /\ obj[r] \notin loaded
  /\ \E made \in {{}, {obj[r]}} :
       loaded' = loaded \cup made /\ reloaded' = reloaded \cup made
  /\ Answer(r) /\ Forget(r)
  /\ UNCHANGED <<table, config, abandoned, lockVars, registry, requestVars, todo, yields>>

\* The stream yields a fragment, its lock still held.
Yield(r) ==
  /\ pc[r] = "native" /\ kind[r] = "stream" /\ yields[r] < MaxYields
  /\ yields' = [yields EXCEPT ![r] = @ + 1]
  /\ Goto(r, "paused") /\ LeaveThread(r)
  /\ UNCHANGED <<instanceVars, lockVars, registry, requestVars, obj, todo>>

\* `with self._lock' ends on thread t.  The lock of another thread cannot be
\* released: RuntimeError, and it stays held.
GiveBack(i, t) ==
  IF owner[i] # t THEN UNCHANGED lockVars
  ELSE /\ depth' = [depth EXCEPT ![i] = @ - 1]
       /\ owner' = [owner EXCEPT ![i] = IF depth[i] = 1 THEN Nobody ELSE @]

Exit(r) ==
  /\ pc[r] = "native"
  /\ GiveBack(obj[r], thread[r])
  /\ Answer(r) /\ Forget(r)
  /\ UNCHANGED <<instanceVars, registry, requestVars, todo, yields>>

\* The client goes away; the generator is finalized on some thread, of the
\* pool or the event loop's (Nobody), and only the owner's can unlock.
Disconnect(r) ==
  /\ pc[r] \in {"created", "paused"}
  /\ IF pc[r] = "created" THEN UNCHANGED lockVars
     ELSE \E t \in Free \cup {Nobody} : GiveBack(obj[r], t)
  /\ Answer(r) /\ Forget(r)
  /\ UNCHANGED <<instanceVars, registry, requestVars, todo, yields>>

-----------------------------------------------------------------------------
\* list: every model is described while the registry is locked.
List(r) ==
  /\ pc[r] = "get" /\ kind[r] = "list"
  /\ registry = Nobody
  /\ registry' = r
  /\ todo' = [todo EXCEPT ![r] = Registered]
  /\ Goto(r, "info")
  /\ UNCHANGED <<instanceVars, lockVars, requestVars, obj, thread, yields>>

\* info reads the cache counters, under the model's lock.
Info(r) ==
  /\ pc[r] = "info"
  /\ \E i \in todo[r] :
       /\ CanEnter(r, i)
       /\ todo' = [todo EXCEPT ![r] = @ \ {i}]
  /\ UNCHANGED <<instanceVars, lockVars, registry, requestVars, pc, obj, thread, yields>>

\* Faulty variant: the registry stays locked.
InfoEndLocked(r) ==
  /\ pc[r] = "info" /\ todo[r] = {}
  /\ Answer(r)
  /\ UNCHANGED <<instanceVars, lockVars, registry, requestVars, obj, todo, yields>>

InfoEnd(r) ==
  /\ pc[r] = "info" /\ todo[r] = {}
  /\ registry' = Nobody
  /\ Answer(r)
  /\ UNCHANGED <<instanceVars, lockVars, requestVars, obj, todo, yields>>

\* load: an identical resident model is reused.
LoadReuse(r) ==
  /\ pc[r] = "get" /\ kind[r] = "load"
  /\ registry = Nobody
  /\ table[target[r]] # Nobody /\ config[table[target[r]]] = want[r]
  /\ registry' = r
  /\ todo' = [todo EXCEPT ![r] = {table[target[r]]}]
  /\ Goto(r, "info")
  /\ UNCHANGED <<instanceVars, lockVars, requestVars, obj, thread, yields>>

Full == Cardinality(Registered) >= MaxModels

LoadRefused(r) ==
  /\ pc[r] = "get" /\ kind[r] = "load"
  /\ registry = Nobody
  /\ table[target[r]] = Nobody /\ Full
  /\ Answer(r)
  /\ UNCHANGED <<instanceVars, lockVars, registry, requestVars, obj, todo, yields>>

\* The native context is built while the registry is locked.
LoadBegin(r) ==
  /\ pc[r] = "get" /\ kind[r] = "load"
  /\ registry = Nobody
  /\ IF table[target[r]] = Nobody THEN ~Full
     ELSE config[table[target[r]]] # want[r]
  /\ registry' = r
  /\ Goto(r, "loading")
  /\ UNCHANGED <<instanceVars, lockVars, requestVars, obj, thread, todo, yields>>

\* Faulty variant: the replaced model is not closed.
LoadEndLeavingOld(r) ==
  /\ pc[r] = "loading"
  /\ loaded' = loaded \cup {r}
  /\ config' = [config EXCEPT ![r] = want[r]]
  /\ table' = [table EXCEPT ![target[r]] = r]
  /\ registry' = Nobody
  /\ Goto(r, "describe")
  /\ UNCHANGED <<reloaded, abandoned, lockVars, requestVars, obj, thread, todo, yields>>

LoadEnd(r) ==
  /\ pc[r] = "loading"
  /\ loaded' = loaded \cup {r}
  /\ config' = [config EXCEPT ![r] = want[r]]
  /\ table' = [table EXCEPT ![target[r]] = r]
  /\ Obj(r, table[target[r]])
  /\ registry' = Nobody
  /\ Goto(r, IF table[target[r]] = Nobody THEN "describe" ELSE "close")
  /\ UNCHANGED <<reloaded, abandoned, lockVars, requestVars, thread, todo, yields>>

\* The load raises: before there is a context, or after it (the warm-up, the
\* model of an engine that was made).  The registry never gets the instance,
\* and nobody closes it.
LoadFails(r) ==
  /\ pc[r] = "loading"
  /\ \E made \in {{}, {r}} :
       loaded' = loaded \cup made /\ abandoned' = abandoned \cup made
  /\ registry' = Nobody
  /\ Answer(r)
  /\ UNCHANGED <<table, config, reloaded, lockVars, requestVars, obj, todo, yields>>

\* Faulty variant: the registry still names a model that is being closed.
UnloadClosingFirst(r) ==
  /\ pc[r] = "get" /\ kind[r] = "unload"
  /\ registry = Nobody
  /\ table[target[r]] # Nobody
  /\ Obj(r, table[target[r]])
  /\ Goto(r, "close")
  /\ UNCHANGED <<instanceVars, lockVars, registry, requestVars, thread, todo, yields>>

\* unload takes the model out of the registry before it closes it.
Unload(r) ==
  /\ pc[r] = "get" /\ kind[r] = "unload"
  /\ registry = Nobody
  /\ table' = [table EXCEPT ![target[r]] = Nobody]
  /\ Obj(r, table[target[r]])
  /\ IF table[target[r]] = Nobody THEN Answer(r)
     ELSE Goto(r, "close") /\ UNCHANGED thread
  /\ UNCHANGED <<config, loaded, reloaded, abandoned, lockVars, registry, requestVars, todo, yields>>

\* close, once the model's lock is free: the native context goes.
Close(r) ==
  /\ pc[r] = "close" /\ CanEnter(r, obj[r])
  /\ loaded' = loaded \ {obj[r]}
  /\ IF kind[r] = "load" THEN Goto(r, "describe") /\ UNCHANGED thread ELSE Answer(r)
  /\ Forget(r)
  /\ UNCHANGED <<table, config, reloaded, abandoned, lockVars, registry, requestVars, todo, yields>>

\* load returns the new model's info.
Describe(r) ==
  /\ pc[r] = "describe" /\ CanEnter(r, r)
  /\ Answer(r) /\ Forget(r)
  /\ UNCHANGED <<instanceVars, lockVars, registry, requestVars, todo, yields>>

RequestStep(r) ==
  \/ Start(r) \/ Get(r) \/ Resume(r) \/ Enter(r) \/ EnterFails(r)
  \/ Yield(r) \/ Exit(r)
  \/ List(r) \/ Info(r) \/ InfoEnd(r)
  \/ LoadReuse(r) \/ LoadRefused(r) \/ LoadBegin(r) \/ LoadEnd(r) \/ LoadFails(r)
  \/ Unload(r) \/ Close(r) \/ Describe(r)

Next == \E r \in Requests : RequestStep(r) \/ Disconnect(r)

Spec == Init /\ [][Next]_vars

\* Threads are scheduled, native calls end, and clients read their streams.
FairSpec == Spec /\ \A r \in Requests : WF_vars(RequestStep(r))

-----------------------------------------------------------------------------
\* Every variable stays within its type.
TypeOK ==
  /\ table \in [Models -> Instances \cup {Nobody}]
  /\ config \in [Instances -> Configs \cup {Nobody}]
  /\ loaded \subseteq Instances /\ reloaded \subseteq Instances /\ abandoned \subseteq Requests
  /\ owner \in [Instances -> Threads \cup {Nobody}]
  /\ depth \in [Instances -> Nat]
  /\ registry \in Requests \cup {Nobody}
  /\ pc \in [Requests -> Steps]
  /\ kind \in [Requests -> Kinds]
  /\ target \in [Requests -> Models \cup {Nobody}]
  /\ want \in [Requests -> Configs \cup {Nobody}]
  /\ obj \in [Requests -> Instances \cup {Nobody}]
  /\ thread \in [Requests -> Threads \cup {Nobody}]
  /\ todo \in [Requests -> SUBSET Instances]
  /\ yields \in [Requests -> 0..MaxYields]

\* No more than max_models models are ever registered, however loads,
\* replacements and unloads overlap (ModelRegistry.load checks and inserts
\* under one lock).
LimitKept == Cardinality(Registered) <= MaxModels

\* The registry never hands out a closed model: a replaced or unloaded model
\* leaves the table before it is closed, and a failed replacement leaves the
\* old one where it was.
RegisteredLoaded == Registered \subseteq loaded

\* The registry's table is right whenever its lock is free or held: within
\* its limit and without a closed model (ModelRegistry.load, unload).
RegistrySound == LimitKept /\ RegisteredLoaded

Held(i) ==
  \/ i \in Registered \cup reloaded \cup abandoned
  \/ \E r \in Requests : pc[r] = "close" /\ obj[r] = i
Unreachable(i) == i \notin Registered /\ \A r \in Requests : obj[r] # i /\ i \notin todo[r]

\* Every native context belongs to a registered model, to a request on its
\* way to close it, or to a call that came back to a closed model and loaded
\* it again; a replacement or an unload forgets none.  The one exception is a
\* load that raises after it made its context (ModelRegistry.load, server.py:79):
\* that context is left open, but the table, and whatever a request works on
\* or describes, is never the half-loaded instance.
ContextsAccounted ==
  /\ TypeOK
  /\ \A i \in loaded : Held(i)
  /\ \A i \in abandoned : Unreachable(i)

Generating(i) == {r \in Requests : obj[r] = i /\ pc[r] \in {"native", "paused"}}

\* Two calls that are not streams never run in one native context.
CallsSerialized ==
  \A i \in Instances : Cardinality({r \in Generating(i) : kind[r] = "call"}) <= 1

\* A lock is entered by nobody who is still there to leave it.
LockLost == \E i \in Instances : depth[i] # Cardinality(Generating(i))

\* Unless a stream loses its lock, every request is answered: the registry
\* lock and the models' locks are never waited for in a circle, though list
\* and load wait for models' locks while they hold the registry's.
RequestsEnd == []~LockLost => <>(\A r \in Requests : pc[r] = "over")

\* What GETTING_STARTED.md:224-225 says: calls to one model instance are
\* serialized, streams included.
Serialized == \A i \in Instances : Cardinality(Generating(i)) <= 1
=============================================================================
