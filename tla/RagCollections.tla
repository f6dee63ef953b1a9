---------------------------- MODULE RagCollections ----------------------------
(***************************************************************************)
(* The managed RAG collections of the web service: RAGRegistry and its     *)
(* routes beside the load and unload routes of the model registry          *)
(* (kernelloom/server.py).  Neither registry knows the other's lock: every *)
(* route checks under one lock what it does under another.                 *)
(*                                                                         *)
(* Abstractions.  A model is the configuration it was loaded with; its     *)
(* lock and its context are ModelServer's.  A load changes the table in    *)
(* one step, the registry being locked while it lasts.  A collection is    *)
(* named by the request that creates it, and so is its store.  A vector is *)
(* the signature of the model that computed it; the query cache is left    *)
(* out.                                                                    *)
(***************************************************************************)
EXTENDS Integers, FiniteSets

CONSTANTS
  Requests,
  Ids,         \* collection ids
  Models,      \* model ids
  Configs,     \* model configurations
  Embedding,   \* those with embedding = True
  Signature,   \* what _embedding_signature keeps of a configuration
  Databases,   \* the stores a collection may ask for
  MaxBatches,  \* bound: batches of one ingestion
  Nobody       \* no model, no collection, nothing chosen

ASSUME CollectionsAssumption ==
  /\ Embedding \subseteq Configs
  /\ DOMAIN Signature = Configs
  /\ Databases \subseteq {"memory", "sqlite"}
  /\ MaxBatches \in Nat
  /\ Nobody \notin Requests \cup Models \cup Configs
  /\ "database" \notin Requests

VARIABLES
  table,       \* table[m]: the configuration of the resident model m
  collections, \* collections[c]: the registered collection of that id
  made,        \* made[r]: the collection request r has built
  opened,      \* the stores that are open
  rows,        \* signatures of the vectors in memory store r, in the database
  pc, kind, target, want, id, db,   \* per request: step, route, arguments
  on,          \* on[r]: the collection r works on
  vector,      \* vector[r]: signature of the vectors r is about to use
  batches,     \* batches[r]: batches r has stored
  raced        \* history: collections whose models were being changed
               \* while they were created

requestVars == <<kind, target, want, id, db>>
vars == <<table, collections, made, opened, rows, pc, requestVars, on, vector, batches, raced>>

Steps == {"new", "check", "generator", "embedder", "insert", "referenced", "act",
          "ready", "matching", "embed", "store", "close", "over"}
Kinds == {"create", "delete", "load", "unload", "ingest", "retrieve", "clear"}
Signatures == {Signature[c] : c \in Embedding}
Unmade == [model |-> Nobody, embedder |-> Nobody, signature |-> Nobody]

Init ==
  /\ table \in [Models -> Configs \cup {Nobody}]
  /\ collections = [c \in Ids |-> Nobody]
  /\ made = [r \in Requests |-> Unmade]
  /\ opened = {}
  /\ rows = [q \in Requests \cup {"database"} |-> {}]
  /\ pc = [r \in Requests |-> "new"]
  /\ kind = [r \in Requests |-> "retrieve"]
  /\ target = [r \in Requests |-> Nobody]
  /\ want = [r \in Requests |-> Nobody]
  /\ id = [r \in Requests |-> Nobody]
  /\ db = [r \in Requests |-> "memory"]
  /\ on = [r \in Requests |-> Nobody]
  /\ vector = [r \in Requests |-> Nobody]
  /\ batches = [r \in Requests |-> 0]
  /\ raced = {}

-----------------------------------------------------------------------------
Registered == {collections[c] : c \in Ids} \ {Nobody}
ModelsOf(q) == {made[q].model, made[q].embedder}
Goto(r, step) == pc' = [pc EXCEPT ![r] = step]

\* A route is called.  For a create, target is the generator's model id and
\* want the embedder's.
Start(r) ==
  /\ pc[r] = "new"
  /\ \E k \in Kinds :
       /\ kind' = [kind EXCEPT ![r] = k]
       /\ \E c \in (IF k \in {"load", "unload"} THEN {Nobody} ELSE Ids) :
            id' = [id EXCEPT ![r] = c]
       /\ \E m \in (IF k \in {"create", "load", "unload"} THEN Models ELSE {Nobody}) :
            target' = [target EXCEPT ![r] = m]
       /\ \E w \in (IF k = "create" THEN Models ELSE IF k = "load" THEN Configs ELSE {Nobody}) :
            want' = [want EXCEPT ![r] = w]
       /\ \E d \in (IF k = "create" THEN Databases ELSE {"memory"}) :
            db' = [db EXCEPT ![r] = d]
  /\ Goto(r, "check")
  /\ UNCHANGED <<table, collections, made, opened, rows, on, vector, batches, raced>>

\* create, first under the collections' lock: the id must be free.
CreateCheck(r) ==
  /\ pc[r] = "check" /\ kind[r] = "create"
  /\ Goto(r, IF collections[id[r]] = Nobody THEN "generator" ELSE "over")
  /\ UNCHANGED <<table, collections, made, opened, rows, requestVars, on, vector, batches, raced>>

CreateGenerator(r) ==
  /\ pc[r] = "generator"
  /\ Goto(r, IF table[target[r]] = Nobody THEN "over" ELSE "embedder")
  /\ made' = [made EXCEPT ![r].model = target[r]]
  /\ UNCHANGED <<table, collections, opened, rows, requestVars, on, vector, batches, raced>>

\* The embedder is looked up, its signature taken and the store opened.
CreateEmbedder(r) ==
  /\ pc[r] = "embedder"
  /\ \/ /\ table[want[r]] \notin Embedding
        /\ Goto(r, "over")
        /\ UNCHANGED <<made, opened>>
     \/ /\ table[want[r]] \in Embedding
        /\ made' = [made EXCEPT ![r] = [model |-> @.model, embedder |-> want[r],
                                         signature |-> Signature[table[want[r]]]]]
        /\ opened' = opened \cup {r}
        /\ Goto(r, "insert")
  /\ UNCHANGED <<table, collections, rows, requestVars, on, vector, batches, raced>>

\* Loads and unloads that have passed their checks of a model.
Changing(m) == {q \in Requests : pc[q] = "act" /\ target[q] = m}

\* Faulty variant: the second check is missing.
CreateInsertUnchecked(r) ==
  /\ pc[r] = "insert"
  /\ collections' = [collections EXCEPT ![id[r]] = r]
  /\ raced' = IF \E m \in ModelsOf(r) : Changing(m) # {} THEN raced \cup {r} ELSE raced
  /\ Goto(r, "over")
  /\ UNCHANGED <<table, made, opened, rows, requestVars, on, vector, batches>>

\* Under the lock again: the collection is registered, or its store closed.
CreateInsert(r) ==
  /\ pc[r] = "insert"
  /\ \/ /\ collections[id[r]] = Nobody
        /\ collections' = [collections EXCEPT ![id[r]] = r]
        /\ raced' = IF \E m \in ModelsOf(r) : Changing(m) # {} THEN raced \cup {r} ELSE raced
        /\ UNCHANGED opened
     \/ /\ collections[id[r]] # Nobody
        /\ opened' = opened \ {r}
        /\ UNCHANGED <<collections, raced>>
  /\ Goto(r, "over")
  /\ UNCHANGED <<table, made, rows, requestVars, on, vector, batches>>

\* delete: out of the registry first, then the store is closed.
Delete(r) ==
  /\ pc[r] = "check" /\ kind[r] = "delete"
  /\ on' = [on EXCEPT ![r] = collections[id[r]]]
  /\ collections' = [collections EXCEPT ![id[r]] = Nobody]
  /\ Goto(r, IF collections[id[r]] = Nobody THEN "over" ELSE "close")
  /\ UNCHANGED <<table, made, opened, rows, requestVars, vector, batches, raced>>

DeleteClose(r) ==
  /\ pc[r] = "close"
  /\ opened' = opened \ {on[r]}
  /\ Goto(r, "over")
  /\ UNCHANGED <<table, collections, made, rows, requestVars, on, vector, batches, raced>>

-----------------------------------------------------------------------------
\* Faulty variants of referenced_by: one of the two models is forgotten.
ReferencedGenerator(m) == \E q \in Registered : m = made[q].model
ReferencedEmbedder(m) == \E q \in Registered : m = made[q].embedder
ReferencedBy(m) == \E q \in Registered : m \in ModelsOf(q)

\* load_model looks at the resident model; only one that differs makes it
\* ask the collections.
LoadCheck(r) ==
  /\ pc[r] = "check" /\ kind[r] = "load"
  /\ Goto(r, IF table[target[r]] \in {Nobody, want[r]} THEN "act" ELSE "referenced")
  /\ UNCHANGED <<table, collections, made, opened, rows, requestVars, on, vector, batches, raced>>

LoadReferenced(r) ==
  /\ pc[r] = "referenced"
  /\ Goto(r, IF ReferencedBy(target[r]) THEN "over" ELSE "act")
  /\ UNCHANGED <<table, collections, made, opened, rows, requestVars, on, vector, batches, raced>>

UnloadCheck(r) ==
  /\ pc[r] = "check" /\ kind[r] = "unload"
  /\ Goto(r, IF ReferencedBy(target[r]) THEN "over" ELSE "act")
  /\ UNCHANGED <<table, collections, made, opened, rows, requestVars, on, vector, batches, raced>>

\* Collections under construction that have looked the model up already.
Building(m) ==
  {q \in Requests : pc[q] \in {"embedder", "insert"} /\ m \in ModelsOf(q)}

\* ModelRegistry.load or unload, under the model registry's lock.
Replace(r) ==
  /\ pc[r] = "act"
  /\ table' = [table EXCEPT ![target[r]] = want[r]]
  /\ raced' = IF table'[target[r]] = table[target[r]] THEN raced
              ELSE raced \cup Building(target[r])
  /\ Goto(r, "over")
  /\ UNCHANGED <<collections, made, opened, rows, requestVars, on, vector, batches>>

\* The limit is reached, or the model does not load.
LoadFails(r) ==
  /\ pc[r] = "act" /\ kind[r] = "load"
  /\ Goto(r, "over")
  /\ UNCHANGED <<table, collections, made, opened, rows, requestVars, on, vector, batches, raced>>

-----------------------------------------------------------------------------
\* get, first under the collections' lock ...
Find(r) ==
  /\ pc[r] = "check" /\ kind[r] \in {"ingest", "retrieve", "clear"}
  /\ on' = [on EXCEPT ![r] = collections[id[r]]]
  /\ Goto(r, IF collections[id[r]] = Nobody THEN "over" ELSE "ready")
  /\ UNCHANGED <<table, collections, made, opened, rows, requestVars, vector, batches, raced>>

\* ... then _assert_ready asks for the generator and for the embedder.
ReadyGenerator(r) ==
  /\ pc[r] = "ready"
  /\ Goto(r, IF table[made[on[r]].model] = Nobody THEN "over" ELSE "matching")
  /\ UNCHANGED <<table, collections, made, opened, rows, requestVars, on, vector, batches, raced>>

Matches(q) == table[made[q].embedder] # Nobody
              /\ Signature[table[made[q].embedder]] = made[q].signature

ReadyEmbedder(r) ==
  /\ pc[r] = "matching"
  /\ Goto(r, IF ~Matches(on[r]) THEN "over"
             ELSE IF kind[r] = "clear" THEN "store" ELSE "embed")
  /\ UNCHANGED <<table, collections, made, opened, rows, requestVars, on, vector, batches, raced>>

\* The adapter resolves the model again and computes the vectors of a batch
\* or of a query; it is gone, no embedding model, or it fails.
Embed(r) ==
  /\ pc[r] = "embed"
  /\ \/ /\ Goto(r, "over")
        /\ UNCHANGED vector
     \/ /\ table[made[on[r]].embedder] \in Embedding
        /\ vector' = [vector EXCEPT ![r] = Signature[table[made[on[r]].embedder]]]
        /\ Goto(r, "store")
  /\ UNCHANGED <<table, collections, made, opened, rows, requestVars, on, batches, raced>>

\* A closed database raises; a memory store has nothing to close.
Usable(q) == db[q] = "memory" \/ q \in opened

\* Vectors of every collection over the same database lie together.
Rows(q) == IF db[q] = "memory" THEN q ELSE "database"

\* upsert, search or delete: the one access to the store.
StoreAccess(r) ==
  /\ pc[r] = "store"
  /\ \/ /\ ~Usable(on[r])
        /\ Goto(r, "over")
        /\ UNCHANGED <<rows, batches>>
     \/ /\ Usable(on[r])
        /\ rows' = CASE kind[r] = "ingest" -> [rows EXCEPT ![Rows(on[r])] = @ \cup {vector[r]}]
                     [] kind[r] = "clear" -> [rows EXCEPT ![Rows(on[r])] = {}]
                     [] OTHER -> rows
        /\ \/ /\ kind[r] = "ingest" /\ batches[r] + 1 < MaxBatches
              /\ batches' = [batches EXCEPT ![r] = @ + 1]
              /\ Goto(r, "embed")
           \/ /\ Goto(r, "over")
              /\ UNCHANGED batches
  /\ UNCHANGED <<table, collections, made, opened, requestVars, on, vector, raced>>

RequestStep(r) ==
  \/ Start(r)
  \/ CreateCheck(r) \/ CreateGenerator(r) \/ CreateEmbedder(r) \/ CreateInsert(r)
  \/ Delete(r) \/ DeleteClose(r)
  \/ LoadCheck(r) \/ LoadReferenced(r) \/ UnloadCheck(r) \/ Replace(r) \/ LoadFails(r)
  \/ Find(r) \/ ReadyGenerator(r) \/ ReadyEmbedder(r) \/ Embed(r) \/ StoreAccess(r)

Next == \E r \in Requests : RequestStep(r)

Spec == Init /\ [][Next]_vars

-----------------------------------------------------------------------------
\* Every variable has its type.
TypeOK ==
  /\ table \in [Models -> Configs \cup {Nobody}]
  /\ collections \in [Ids -> Requests \cup {Nobody}]
  /\ \A r \in Requests :
       /\ made[r] \in [model : Models \cup {Nobody}, embedder : Models \cup {Nobody},
                       signature : Signatures \cup {Nobody}]
       /\ pc[r] \in Steps /\ kind[r] \in Kinds /\ db[r] \in {"memory", "sqlite"}
       /\ on[r] \in Requests \cup {Nobody}
       /\ vector[r] \in Signatures \cup {Nobody}
       /\ batches[r] \in 0..MaxBatches
  /\ opened \subseteq Requests /\ raced \subseteq Requests
  /\ \A q \in DOMAIN rows : rows[q] \subseteq Signatures

\* No store is leaked and none is closed under a collection: the open stores
\* are those of the registered collections, of creations that have not
\* inserted yet and of deletions that have not closed yet.  Two creations of
\* one id end with the loser's store closed (RAGRegistry.create, delete).
StoresOwned ==
  /\ TypeOK
  /\ opened = Registered \cup {r \in Requests : pc[r] = "insert"}
                         \cup {on[r] : r \in {q \in Requests : pc[q] = "close"}}

\* The two checks of the routes suffice whenever no load or unload of the
\* collection's models was under way while the collection was created: both
\* models stay resident and the embedder computes the recorded signature.
KeptUnlessRaced ==
  \A q \in Registered \ raced : table[made[q].model] # Nobody /\ Matches(q)

\* What the vectors of such a collection say, those stored in its memory
\* store and those an ingestion or a query is about to use, was computed by
\* one embedding model, although the adapter resolves the model anew for each
\* batch after the readiness test.
OneEmbedding ==
  \A q \in Registered \ raced :
    /\ db[q] = "memory" => rows[q] \subseteq {made[q].signature}
    /\ \A r \in Requests :
         pc[r] = "store" /\ kind[r] # "clear" /\ on[r] = q => vector[r] = made[q].signature
=============================================================================
