---------------------------- MODULE RagPipeline ----------------------------
(***************************************************************************)
(* RAGPipeline (kernelloom/rag.py): threads that ingest, clear and         *)
(* retrieve through one vector store and one query cache.  The store has   *)
(* its lock and the cache has its own; no lock spans the two, nor the      *)
(* batches of an ingestion.                                                *)
(*                                                                         *)
(* Abstractions.  A chunk is named by its deterministic id and the         *)
(* namespace it is for; what the store returns for a query is all of the   *)
(* namespace, ranking and top_k being functions of it.  A filter is part   *)
(* of the query.  Time is the number of ticks a cache entry has left.      *)
(***************************************************************************)
EXTENDS Integers, Sequences, SequencesExt

CONSTANTS
  Threads,
  Namespaces,
  Queries,
  Chunks,
  Home,        \* Home[c]: the namespace chunk c is ingested into
  CacheSize,   \* RAGConfig.query_cache_size
  TTL,         \* RAGConfig.query_cache_ttl_seconds, in ticks
  None         \* no namespace, no query

ASSUME PipelineAssumption ==
  /\ CacheSize \in Nat /\ TTL \in Nat
  /\ Home \in [Chunks -> Namespaces]
  /\ None \notin Namespaces \cup Queries

VARIABLES
  stored,      \* stored[n]: the chunks of namespace n
  order,       \* keys of _query_cache, least recently used first
  entry,       \* entry[k]: what the cache holds for key k
  pc, space, query,  \* per thread: step, namespace and query of its call
  todo,        \* todo[t]: chunks thread t has not upserted yet
  changed,     \* changed[t]: thread t has changed the store in this call
  got,         \* got[t]: results of thread t's retrieval
  late,        \* history: threads that searched before their namespace changed
  doubtful     \* history: keys put by a late thread or left by a failed ingestion

cacheVars == <<order, entry>>
callVars == <<pc, space, query, todo, changed, got>>
vars == <<stored, cacheVars, callVars, late, doubtful>>

Keys == Queries \X Namespaces
Steps == {"idle", "lookup", "search", "put", "answer", "embed", "upsert", "delete", "invalidate"}

\* found: the cached results; left: ticks until they expire; age: ticks
\* since they were put (history).
Entries == [found : SUBSET Chunks, left : 0..TTL, age : 0..TTL]
NoEntry == [found |-> {}, left |-> 0, age |-> 0]

Init ==
  /\ stored = [n \in Namespaces |-> {}]
  /\ order = <<>>
  /\ entry = [k \in Keys |-> NoEntry]
  /\ pc = [t \in Threads |-> "idle"]
  /\ space = [t \in Threads |-> None]
  /\ query = [t \in Threads |-> None]
  /\ todo = [t \in Threads |-> {}]
  /\ changed = [t \in Threads |-> FALSE]
  /\ got = [t \in Threads |-> {}]
  /\ late = {}
  /\ doubtful = {}

-----------------------------------------------------------------------------
Cached == ToSet(order)
CacheOn == CacheSize > 0 /\ TTL > 0

\* Faulty variant of _query_cache_key: the namespace is no part of it.
KeyOfQuery(t) == <<query[t], CHOOSE n \in Namespaces : TRUE>>
KeyOf(t) == <<query[t], space[t]>>

\* order without the key k, if it is there.
Without(k) ==
  IF k \in Cached THEN RemoveAt(order, CHOOSE i \in DOMAIN order : order[i] = k) ELSE order
Goto(t, step) == pc' = [pc EXCEPT ![t] = step]

\* A call is made: retrieve (or ask, or a warm-up query), ingest, clear.
Call(t) ==
  /\ pc[t] = "idle"
  /\ \E n \in Namespaces :
       /\ space' = [space EXCEPT ![t] = n]
       /\ \/ /\ \E q \in Queries : query' = [query EXCEPT ![t] = q]
             /\ Goto(t, "lookup")
             /\ UNCHANGED todo
          \/ /\ \E c \in SUBSET {d \in Chunks : Home[d] = n} : todo' = [todo EXCEPT ![t] = c]
             /\ Goto(t, "embed")
             /\ UNCHANGED query
          \/ /\ Goto(t, "delete")
             /\ UNCHANGED <<query, todo>>
  /\ UNCHANGED <<stored, cacheVars, changed, got, late, doubtful>>

\* The call of thread t is over, by its result or by an exception.
Return(t) ==
  /\ Goto(t, "idle")
  /\ space' = [space EXCEPT ![t] = None]
  /\ query' = [query EXCEPT ![t] = None]
  /\ todo' = [todo EXCEPT ![t] = {}]
  /\ changed' = [changed EXCEPT ![t] = FALSE]
  /\ got' = [got EXCEPT ![t] = {}]

-----------------------------------------------------------------------------
\* Faulty variant of a hit: it also renews the entry.
HitRenewed(t) ==
  /\ entry[KeyOf(t)].left > 0
  /\ order' = Append(Without(KeyOf(t)), KeyOf(t))
  /\ entry' = [entry EXCEPT ![KeyOf(t)].left = TTL]
  /\ got' = [got EXCEPT ![t] = entry[KeyOf(t)].found]
  /\ Goto(t, "answer")
  /\ UNCHANGED doubtful

\* The entry is used, and becomes the most recently used.
Hit(t) ==
  /\ entry[KeyOf(t)].left > 0
  /\ order' = Append(Without(KeyOf(t)), KeyOf(t))
  /\ got' = [got EXCEPT ![t] = entry[KeyOf(t)].found]
  /\ Goto(t, "answer")
  /\ UNCHANGED <<entry, doubtful>>

\* An expired entry is deleted when it is asked for.
Expired(t) ==
  /\ entry[KeyOf(t)].left = 0
  /\ order' = Without(KeyOf(t))
  /\ entry' = [entry EXCEPT ![KeyOf(t)] = NoEntry]
  /\ doubtful' = doubtful \ {KeyOf(t)}
  /\ Goto(t, "search")
  /\ UNCHANGED got

Lookup(t) ==
  /\ pc[t] = "lookup"
  /\ \/ CacheOn /\ KeyOf(t) \in Cached /\ (Hit(t) \/ Expired(t))
     \/ /\ ~(CacheOn /\ KeyOf(t) \in Cached)
        /\ Goto(t, "search")
        /\ UNCHANGED <<cacheVars, got, doubtful>>
  /\ UNCHANGED <<stored, space, query, todo, changed, late>>

\* The query is embedded and the store searched, under the store's lock;
\* either may raise.
Search(t) ==
  /\ pc[t] = "search"
  /\ \/ /\ got' = [got EXCEPT ![t] = stored[space[t]]]
        /\ Goto(t, IF CacheOn THEN "put" ELSE "answer")
        /\ UNCHANGED <<space, query, todo, changed>>
     \/ Return(t)
  /\ UNCHANGED <<stored, cacheVars, late, doubtful>>

\* popitem(last=False) until the limit is kept: one entry at most is over it.
Trimmed(keys) == IF Len(keys) > CacheSize THEN Tail(keys) ELSE keys

Put(t) ==
  /\ pc[t] = "put"
  /\ LET kept == Trimmed(Append(Without(KeyOf(t)), KeyOf(t)))
     IN  /\ order' = kept
         /\ entry' = [k \in Keys |->
              IF k \notin ToSet(kept) THEN NoEntry
              ELSE IF k = KeyOf(t) THEN [found |-> got[t], left |-> TTL, age |-> 0]
              ELSE entry[k]]
         /\ doubtful' = ToSet(kept) \cap
              IF t \in late THEN doubtful \cup {KeyOf(t)} ELSE doubtful \ {KeyOf(t)}
  /\ late' = late \ {t}
  /\ Goto(t, "answer")
  /\ UNCHANGED <<stored, space, query, todo, changed, got>>

Answer(t) ==
  /\ pc[t] = "answer"
  /\ Return(t)
  /\ UNCHANGED <<stored, cacheVars, late, doubtful>>

-----------------------------------------------------------------------------
\* Threads that hold results of namespace n they have not put yet.
Holding(n) == {t \in Threads : pc[t] = "put" /\ space[t] = n}
KeysIn(n) == {k \in Cached : k[2] = n}

\* An exception: what was upserted before stays, and so does the cache.
Fail(t) ==
  /\ Return(t)
  /\ doubtful' = IF changed[t] THEN doubtful \cup KeysIn(space[t]) ELSE doubtful

\* A batch is embedded; the last one over, the cache is next.
Embed(t) ==
  /\ pc[t] = "embed"
  /\ \/ /\ Goto(t, IF todo[t] = {} THEN "invalidate" ELSE "upsert")
        /\ UNCHANGED <<space, query, todo, changed, got, doubtful>>
     \/ todo[t] # {} /\ Fail(t)
  /\ UNCHANGED <<stored, cacheVars, late>>

Upsert(t) ==
  /\ pc[t] = "upsert"
  /\ \/ /\ \E batch \in SUBSET todo[t] \ {{}} :
             /\ stored' = [stored EXCEPT ![space[t]] = @ \cup batch]
             /\ todo' = [todo EXCEPT ![t] = @ \ batch]
        /\ changed' = [changed EXCEPT ![t] = TRUE]
        /\ late' = late \cup Holding(space[t])
        /\ Goto(t, "embed")
        /\ UNCHANGED <<space, query, got, doubtful>>
     \/ Fail(t) /\ UNCHANGED <<stored, late>>
  /\ UNCHANGED cacheVars

\* clear: the namespace is deleted, unless the store raises.
Delete(t) ==
  /\ pc[t] = "delete"
  /\ \/ /\ stored' = [stored EXCEPT ![space[t]] = {}]
        /\ changed' = [changed EXCEPT ![t] = TRUE]
        /\ late' = late \cup Holding(space[t])
        /\ Goto(t, "invalidate")
        /\ UNCHANGED <<space, query, todo, got, doubtful>>
     \/ Fail(t) /\ UNCHANGED <<stored, late>>
  /\ UNCHANGED cacheVars

\* Faulty variant: the cache is not cleared.
InvalidateNothing(t) ==
  /\ pc[t] = "invalidate"
  /\ Return(t)
  /\ UNCHANGED <<stored, cacheVars, late, doubtful>>

\* _clear_query_cache: the entries of every namespace go.
Invalidate(t) ==
  /\ pc[t] = "invalidate"
  /\ order' = <<>>
  /\ entry' = [k \in Keys |-> NoEntry]
  /\ doubtful' = {}
  /\ Return(t)
  /\ UNCHANGED <<stored, late>>

-----------------------------------------------------------------------------
\* time.monotonic() moves on.
Tick ==
  /\ entry' = [k \in Keys |-> IF k \notin Cached THEN NoEntry ELSE
       [entry[k] EXCEPT !.left = IF @ > 0 THEN @ - 1 ELSE 0,
                        !.age = IF @ < TTL THEN @ + 1 ELSE TTL]]
  /\ UNCHANGED <<stored, order, callVars, late, doubtful>>

ThreadStep(t) ==
  \/ Call(t)
  \/ Lookup(t) \/ Search(t) \/ Put(t) \/ Answer(t)
  \/ Embed(t) \/ Upsert(t) \/ Delete(t) \/ Invalidate(t)

Next == Tick \/ \E t \in Threads : ThreadStep(t)

Spec == Init /\ [][Next]_vars

-----------------------------------------------------------------------------
\* Every variable has its type, and the cache is keyed without repetition.
TypeOK ==
  /\ stored \in [Namespaces -> SUBSET Chunks]
  /\ entry \in [Keys -> Entries]
  /\ Cached \subseteq Keys
  /\ \A i, j \in DOMAIN order : order[i] = order[j] => i = j
  /\ \A t \in Threads :
       /\ pc[t] \in Steps /\ space[t] \in Namespaces \cup {None}
       /\ query[t] \in Queries \cup {None}
       /\ todo[t] \subseteq Chunks /\ got[t] \subseteq Chunks /\ changed[t] \in BOOLEAN
  /\ late \subseteq Threads /\ doubtful \subseteq Cached

\* Namespaces are isolated: an answer, from the store or from the cache,
\* holds nothing of another namespace than the one asked for (_query_cache_key,
\* retrieve).
Isolated ==
  /\ TypeOK
  /\ \A t \in Threads : pc[t] = "answer" => \A c \in got[t] : Home[c] = space[t]

\* A thread in the middle of an ingestion or a clear that has changed
\* namespace n and has yet to clear the cache.
Changing(n) ==
  \E t \in Threads : /\ space[t] = n /\ changed[t]
                     /\ pc[t] \in {"embed", "upsert", "invalidate"}

Fresh(k) == entry[k].found = stored[k[2]] \/ Changing(k[2])

\* A cached result is what the store would return, except while its
\* namespace is being changed, if it was put by a retrieval that searched
\* before a change, or after an ingestion failed between two batches
\* (ingest, clear, retrieve against _clear_query_cache).
FreshUnlessRaced == \A k \in Cached \ doubtful : Fresh(k)

\* A result is served from the cache no later than the configured time after
\* it was put, however often it is asked for (_get_cached_query).
ServedInTime(t) ==
  pc[t] = "lookup" /\ pc'[t] = "answer" => entry[KeyOf(t)].age < TTL

\* The cache keeps its limit, and a result that was just put is there for
\* the next query: what trimming takes was used less recently than what it
\* leaves (_put_cached_query).
LimitKept(t) ==
  pc[t] = "put" /\ pc'[t] = "answer" =>
    /\ Len(order') <= CacheSize /\ Last(order') = KeyOf(t)
    /\ \A i, j \in DOMAIN order :
         order[i] \notin ToSet(order') /\ order[j] \in ToSet(order') \ {KeyOf(t)} => i < j

\* The cache serves and keeps what it should, whichever threads use it at
\* once (_get_cached_query, _put_cached_query).
CacheKept == [][\A t \in Threads : ServedInTime(t) /\ LimitKept(t)]_vars
=============================================================================
