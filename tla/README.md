# Verification of KernelLoom

KernelLoom is a local model runtime in Python. A web service (`kernelloom`)
keeps models resident, answers generation and embedding requests and manages
RAG collections; an engine (`openagent_engine`) compiles model graphs, keeps
native models in a worker process, manages KV-cache metadata and records runs in
SQLite. This directory holds TLA+ modules that model parts of it, TLC
configurations that check them on small instances, and TLAPS proofs of their
safety properties for every instance. Source paths below are relative to
`src/src/` of the repository unless they begin with `docs/`.

Contents: 1 [inventory](#1-inventory), 2 [plan](#2-plan), 3 [modules and
code](#3-modules-and-the-code-they-model), 4 [runs and bounds](#4-runs-and-bounds),
5 [fairness and deadlock](#5-fairness-and-deadlock), 6 [proofs](#6-proofs),
7 [findings](#7-disagreements-with-the-documentation), 8 [not modelled](#8-what-is-not-modelled).

To repeat a check: `tlc -config KVCache.cfg MCKVCache.tla`; to repeat
proofs: `tlapm KVCacheProofs.tla`, and likewise for the other modules `...Proofs`.

## 1. Inventory

How the parts interact: a route of the web service runs on a pool thread, looks a
model up in the **model registry**, and calls the **model**, whose lock
serialises work on the native context. **RAG collections** hold the ids of two
models, resolve them in the registry at each use, and own a **pipeline** (query
cache) over a **vector store**. The **engine runtime** keeps records in
**storage**, asks the **compiler** for plans and sends native work through the
**worker client** to the **worker process**. The **KV cache manager** and the
**batch scheduler** are thread-safe structures of the engine that callers use on
their own.

| Part | State | Operations | Hard behaviours | What makes it correct |
|---|---|---|---|---|
| KV cache manager, `openagent_engine/memory.py` | sessions, blocks with reference counts, prefix index | create_session, append, release, evict, session_status | sharing, copy on write, eviction in the middle of a call, index entries that go stale | exact counts, no dangling block, trusted index hits, capacity, eviction order, no session changes another's tokens |
| Worker client, `openagent_engine/device_runtime.py` | process handle, request lock, response queue, a stream's event queue | request, stream_generate, close, status | timeouts and late answers, worker death, a consumer that stops the worker without the lock | at most one execution, right answer to right request, one worker, every caller ends |
| Worker process, `openagent_engine/worker.py` | table of resident sessions | load, load_llm, unload, infer, generate, benchmark, calibrate | which sessions stay resident after calibration and after errors | an id that was answered for is resident; what is recorded is what is resident |
| Model registry and routes, `kernelloom/server.py` | table of models, runtime metrics | load, unload, list, get, generation routes, streams | replace and unload during calls, locks held while waiting for locks, streams over a thread pool | limit, no closed model handed out, no context forgotten, no deadlock, serialised calls |
| Model, `kernelloom/model.py` | native context, lock, embedding and token caches | load, generate, stream, astream, embed, warm, close | lock held across yields, an async bridge with a producer thread, lazy reload | one call at a time in a context, caches that match the model, fragments in order, every stream gives the lock back |
| RAG collection registry, `kernelloom/server.py` | table of collections | create, get, delete, referenced_by, routes | checks and actions under different locks | models of a collection stay resident; one embedding per collection; stores are closed once |
| RAG pipeline, `kernelloom/rag.py` | query cache | ingest, retrieve, ask, clear, warm | ingestion in batches beside retrieval, expiry, limit, failure half-way | namespaces isolated, cache fresh, cache bounded |
| Vector stores, `kernelloom/rag.py`, `kernelloom/faiss_store.py` | rows (memory, SQLite, FAISS index and rows) | upsert, search, delete, close | several threads, index and tables out of step, transactions that fail half-way | all stores keep one contract |
| Batch scheduler, `openagent_engine/scheduler.py` | request table | submit, cancel, next_batch, complete_step | nothing is reserved by a batch; aging | bounded batches of compatible requests, priorities kept, the queue drains |
| Engine runtime and storage, `openagent_engine/runtime.py`, `storage.py` | SQLite rows of models, plans, calibrations, runs | orchestrate_models, inspect, compile, calibrate, load, unload, infer, generate | writes in separate transactions, errors and crashes in between | row, audit and caller agree; a plan rests on the calibrations of its project |
| Graph compiler, graph IR and kernel lowering, `openagent_engine/compiler.py`, `ir.py`, `codegen.py` | none between calls | graph, precision plan, partition per phase, regions, memory plan, kernels | greedy and dynamic programming with limits and cuts, two phases drawn together | sums right, result legal and optimal, the package agrees with the plan |
| Autotuner, frontends, hardware probing, back ends, CPU planner and configuration, embedders, LangChain adapter, command lines, web console, release scripts | none, or a short-lived cache | parsing, arithmetic, rendering, adapting | none that involve time or concurrency, but for the profile cache | see section 8 |

`PROJECT.json` lists every component with its status, and every hazard at its
line with the properties that watch over it.

## 2. Plan

Built, in this order: the KV cache with the abstract store it implements, and
its proofs; the worker client; the model server; RAG collections; the RAG
pipeline; orchestration runs; the compiler's two planners; then the worker's
sessions and the engine's records over them; the model with its caches and
astream; the vector stores and the contract they implement; the batch scheduler;
the whole of compile with its cost model, its graphs and its package.

What could still be modelled: the reload of a device profile while plans are
made (the profile cache), RuntimeMetrics, the text splitter and the context
builder as pure algorithms, the CPU planner's arithmetic, and ModelStreams
composed with ModelServer over one lock.

Proved since, in this order (section 6): the registry of models, the RAG
collections, the query cache, the worker client, the engine's records, the rest of
KVCache with its refinement of KVStore, collaboration runs, the model (what a
stream delivers, what its caches hold and what is resident), the vector stores
(the exactness of the FAISS index, and that the FAISS and the SQLite store each
implement VectorStore), the batches of the scheduler, and the compiler: the sums of
its precision plan, the dynamic program of its placements, and its package.

Every safety property that a passing run checks is now also a theorem. What remains
with TLC alone is liveness (section 6).

## 3. Modules and the code they model

A definition named `...Late`, `...Unchecked`, or otherwise announced by the comment
"Faulty variant" is no part of any specification: it is a plausible error, used
to confirm that a property notices it.

### KVStore, KVCache (openagent_engine/memory.py)

KVStore is the abstract promise: every session owns private pages of tokens; one
call at a time adds to the pages of one session; whole other sessions may be
dropped. KVCache is the code: `alive` and `ids`, `count`, `priority` are
`self.sessions` and its fields; `older` is the order of `last_access`; `ref`,
`text`, `chained` are `self.blocks`; `index` is `self.prefix_index`; `op` is the
call that holds the RLock. Each loop iteration is one action, so that eviction
and copying are seen in their intermediate states:

| Code | Actions |
|---|---|
| create_session | CreateSession, then CreateShared or CreateAllocated per chunk, CheckCapacity |
| append | AppendTokens, then AppendInPlace, AppendCopied or AppendNewBlock per round, CheckCapacity |
| _evict_if_needed, evict | CheckCapacity or Evict, EvictNext per victim, EvictReturn (MemoryError included) |
| release, session_status | ReleaseSession, SessionStatus |

`KVCache!PrivatePages` states that KVCache implements KVStore under the mapping
`pages <- [s |-> texts of s's blocks]`. Sizes are counted in tokens, since
`size_bytes` is always tokens times a constant. A digest is the content it
digests, until `append` chains it, after which it equals no chunk's digest.

### DirectClient (openagent_engine/device_runtime.py, the command loop of worker.py)

Request threads (`pc`, `seen`, `outcome`) hold `_request_lock` (`lock`) from
Acquire to Leave; `proc` is `self._process`, `queue` is `_responses`, `closed` are
the processes whose pipes were closed. A stream adds its consumer (`cpc`,
`cseen`, `events`, `finished`), whose `finally` is Finally, ConsumerKill,
ConsumerClearBegin, ConsumerClearEnd, without the lock as in the code. Worker
processes are the environment: they read (WorkerTake), answer, emit events,
hang, or die (WorkerExit); reader threads move lines (Deliver). The join of the
reader in `_clear_process` has a timeout, so one line may arrive after the queue
was drained.

### ModelServer (kernelloom/server.py, kernelloom/model.py)

`table` is the registry's `_models`, `registry` the holder of its lock; `owner` and
`depth` are a model's RLock, owned by a pool *thread*, not by a request.
A streamed response returns its thread between fragments (Yield, Resume), and
may resume on another. Load is LoadReuse, LoadRefused, or LoadBegin then LoadEnd
or LoadFails, then Close of what was replaced and Describe; unload removes first and
closes after; list describes every model under the registry lock (List, Info,
InfoEnd). A load may raise before or after the native context is made; so may the
reload of a closed model in a call (EnterFails). `reloaded` and `abandoned` are
history: instances that a call brought back to life after they were closed, and
instances whose load raised with the context made, which nobody closes.

### RagCollections (kernelloom/server.py)

Create is four steps, as the code takes and leaves locks: CreateCheck,
CreateGenerator, CreateEmbedder (store opened), CreateInsert (second check). The
load route is LoadCheck, LoadReferenced, Replace; the unload route UnloadCheck,
Replace; delete takes the collection out of the table and closes its store in a
second step. Ingestion and retrieval test readiness in two lookups and then
resolve the embedder anew for every batch (Embed, StoreAccess). `raced` is
history: collections created while a load or an unload of one of their models
was between its check and its act, or the other way round.

### RagPipeline (kernelloom/rag.py)

`order` and `entry` are `_query_cache`; `stored` is the vector store. Lookup, Search, Put are
the three locked regions of retrieve; Embed and Upsert alternate per batch of an
ingestion, Delete is clear, Invalidate is `_clear_query_cache`; each call of the
embedder or store may raise. Tick moves the monotonic clock. `late` and
`doubtful` are history: results searched before a change of their namespace, and
cache entries put by them or left behind by a failed ingestion.

### Orchestration (openagent_engine/runtime.py, storage.py)

`row`, `turns`, `audit` are the three tables; one action per transaction: Insert,
AuditStart, AskRole (model and turn), AuditTurn, Finish, AuditComplete, Fail,
AuditFail. Each may raise; Crash may happen between any two. Both modes
(supervised-code, sequence) are in RoleOf, Over and AfterSupervised/AfterListed; of
a list only the first MaxTurns roles are run (FirstRoles; eight in the code).

### WorkerSessions, EngineRecords (openagent_engine/worker.py, runtime.py, storage.py)

`models` is the worker's table from ids to session objects, `session` the fields of
each object: calibrate changes the id that an object carries without moving it,
so the two may differ. A command is one step, because the worker serves one at
a time; what a failing command leaves is part of it (CalibrationFailed keeps
what was loaded). EngineRecords adds the host threads: each operation is the
worker's answer, then one transaction per row, then the audit event, and each
write may raise; WorkerEnds and Crash may come between any two.
`promised`, `repeated`, `overlapped` and `listed` are history: what the worker
answered, whether a calibration met a session kept by an earlier one, whether
calibrations overlapped or went unrecorded, and which plans were written.

### ModelStreams (kernelloom/model.py)

One KernelLoomModel. An operation that does not give control away is one step
taken while the lock is free: Load, Warmup, Close, ClearCaches, CountTokens, each
with its failures (an engine whose model does not load, a warm-up that raises
after the model was marked as loaded). embed_many takes the lock (EmbedMany) and
goes on turn by turn of its two loops: LookUp, EmbedUncached, CacheNext,
EmbedReturn, with `batch` for its local variables. A stream is two
actors: the producer thread (Capture, Enter, Native, PassOn, PublishError,
PublishDone) and the coroutine (Astream, Receive, Ask, Leave), and its event
loop may close under it (LoopClosed). `value` is the variable that both the
thread's iterator and the coroutine's loop use.

### VectorTypes, VectorStore, FaissStore, SqliteStore, RagStores (kernelloom/rag.py, faiss_store.py)

VectorStore is the contract: every operation takes effect at once, one that
raises changes nothing, and a search answers with the best of what is stored and
passes the filters. InMemoryVectorStore is exactly that. FaissStore has the open
check before the lock, the index and its two tables: `spaces[ns]` is the
`_NamespaceIndex` of a namespace, Enter is `_ensure_open`, and Upsert, DeleteIds,
Search, Count and Close are the bodies under the lock. The numbers of a batch's
documents go by the order of first occurrence (Place), its versions by the last
(Latest), as the dictionary `latest` has them. SqliteStore writes an upsert row by
row in a transaction (UpsertBegin, UpsertRow) that commits, rolls back
(UpsertFails) or dies (Restart), over two connections to one file. RagStores puts
the two side by side; both are shown, and proved, to implement VectorStore.

### Scheduler (openagent_engine/scheduler.py)

`queue` is `_requests`; `held` is what each host took with next_batch and has not
completed, which the scheduler does not know. The clock is read before the lock is
taken, on both sides: QueueRequest builds and dates a request (`arriving`), Submit
gives it its number under the lock or SubmitRefused drops it; ReadClock is the
host's reading (`asking`), NextBatch ranks by it what is queued later. Score,
Before, Batch and BatchLimits follow `_rank`, next_batch and `_batch_limit`, in
milliseconds and thousandths of a point. An id may be submitted again once it is
gone, so that a stale batch names another request.

### ModelGraph, PlacementCosts, Compiler (openagent_engine/ir.py, compiler.py, codegen.py)

ModelGraph builds and lowers a transformer's graph; PlacementCosts is the
arithmetic of a node on a device, of a move and of the memory tiers, in integers,
with the logarithm that dispatch time grows by drawn as straight lines between the
powers of two.
Compiler is `compile` from the request to the package, one action per turn of a
loop: Begin, Lower and PrecisionDone are `select_precision_plan`; Place and
Backtrace are `_partition`, for prefill and then for decode with its affinity;
Package makes regions, kernels, memory plan and warnings. Useful, Above and
Earlier define the alternatives and their order by comparing products, without
division.

## 4. Runs and bounds

| Run | Module, configuration | What it shows |
|---|---|---|
| kv_cache | MCKVCache, KVCache.cfg | counts, liveness of blocks, index, capacity, pages, eviction order, refinement of KVStore, every call returns |
| kv_prefix | MCKVCache, KVCachePrefix.cfg | counterexample to SharedPrefix (section 7) |
| worker_client | MCDirectClient, DirectClient.cfg | nothing replayed, no answer taken for another's, the worker idle when the lock is free, the worker known unless a stream is left, calls and consumers end |
| worker_client_one | MCDirectClient, DirectClientOne.cfg | counterexample to OneWorker |
| model_server | MCModelServer, ModelServer.cfg | limit, table and contexts consistent; calls serialised among themselves; requests end unless a lock was lost |
| model_server_serial | MCModelServer, ModelServerSerial.cfg | counterexample to Serialized |
| model | MCModelStreams, ModelStreams.cfg | what is resident and cached is accounted for; fragments whole and in order; every stream ends and gives the lock back |
| rag_collections | MCRagCollections, RagCollections.cfg | stores owned; models kept and one embedding unless creation was overlapped; FAISS index and tables agree; FAISS and SQLite stores implement VectorStore |
| rag_pipeline | MCRagPipeline, RagPipeline.cfg | isolation, freshness unless raced, expiry, limit and recency order |
| engine | MCEngine, Engine.cfg | what the worker answered is resident; records agree with it; plans are backed; sums of the precision plan; dynamic program against enumeration; no oscillation between the phases; the package against the plan |
| plans_separated | MCEngine, EngineSeparate.cfg | counterexample to PlansSeparate |
| runtime | MCRuntime, Runtime.cfg | completed runs are fully reviewed; row, audit and caller agree; order, reserve and shape of batches; the queue drains |

MCRagCollections, MCEngine (EngineRecords and Compiler) and MCRuntime (Orchestration
and Scheduler) each check parts of one subsystem that share no
variable: `part` chooses in the initial state which of them moves, so that
the run is the sum of the parts and not their product.

Bounds, and why the interesting cases happen within them:

- **KVCache**: 2 sessions, 2 tokens, blocks of 2, capacity 2, MaxCall = MaxSession
  = 3. Two sessions share, copy and evict each other; three tokens give a full
  block and a partial one, so the boundary and the "one token past" case occur;
  capacity 2 overflows in the first call that stores a third token. Blocks are
  identities, used again only when nothing names them; five are one more than
  two overlapping sessions can need. EvictSizes {0, 1} are the call that evicts
  all it may and one with a target. Priorities {0, 50} tell order from recency.
- **DirectClient**: two plain calls (each may be a request or a close) and one
  stream of at most one event. That is the least in which a consumer leaves, a
  second call starts a worker, and a third finds what is left. Each thread
  starts one process at most.
- **ModelServer**: 3 requests, 2 model ids, 2 configurations, MaxModels 1 (so the
  limit and replacement interact), 3 threads (one per request), streams of one
  fragment: a suspended stream, a call that meets it and a third that waits. Any
  load may fail, with its context made or not.
- **RagCollections**: 3 one-shot requests on one id: a creation beside two others,
  or a creation, a use and a load. Configurations e1, e1b share a signature (a
  reload that keeps the embedding), e2 has another, g is a generator;
  MaxBatches 2, so a batch follows a batch.
- **RagPipeline**: 2 threads that call without end, two namespaces (one with two
  chunks, so that an ingestion has two batches), two queries, a cache of 2
  entries for 4 keys, a life of 2 ticks (one tick old is still valid).
- **Stores**: one namespace for FAISS and SQLite (namespaces are looked up by key and
  share nothing), 2 documents, versions of two widths, two scores and two tags,
  batches of up to 2 records (with the same document twice), limits 1 and 2 with and
  without a filter; 2 threads and 4 operations for FAISS, so that an upsert runs
  after a close; 2 connections and 2 transactions for SQLite.
- **Orchestration**: one run, because runs share nothing but the store's
  atomicity; 4 roles (the three required and one more), 3 rounds or lists of 3, of
  which MaxTurns 2 are run, so that a list is cut and its last role not asked.
- **Engine records**: 2 threads, 2 projects, 2 devices, one session id, 3 calls: a
  calibration beside another, then a compilation; or two compilations and a
  calibration in two projects.
- **ModelStreams**: either two streams of at most 2 fragments and one other call (a
  close or a load between them), or no stream and 5 calls over 3 texts, at most 2 in
  one call (a hit beside a miss, the same text twice), with room for 2 vectors by number and 1 or 2 by bytes (widths 3 and 1, budget 5), and one
  token count: filling, hitting, evicting, closing and loading again.
- **Compiler**: all graphs of 3 nodes out of 5 kinds (one whose size does not
  divide, one without parameters, one that must stay on a processor, one with a large
  activation), a transformer of 9 nodes and its lowering to 11; five machines of
  one to three devices, one of them without a processor; six requests with budgets
  and limits on either side of what is needed, a negative limit and one above a
  penalty of one, a preferred device, no transition, one, two and four, an unknown
  power mode, and prompts of 8, 48 and the default 512 tokens, on either side of the
  32 from which dispatch time grows; a Beam of 4 in place of the code's 64, so that
  layers are cut.
- **Scheduler**: 2 callers and 2 hosts, 3 submissions of 4 shapes (three priorities,
  both phases, two models, with and without a deadline), batches of 2 with 1
  reserved, 2 waits of 600 seconds, after one of which age counts no more: two
  requests dated in one order and numbered in the other, before and after the limit
  of age.

## 5. Fairness and deadlock

Liveness is stated only where the code's own scheduling justifies it.

- KVCache: weak fairness of `Running`, the steps inside a call. A thread in a method
  of the class waits for nothing; no fairness for the start of calls.
- DirectClient: weak fairness of each request thread, each reader thread, and
  each consumer thread up to its next yield. Timeouts are among the request
  thread's steps because deadlines pass. Nothing is assumed of the worker or of
  the caller who holds a stream.
- ModelServer: weak fairness of each request's steps: pool threads run, native
  calls end, clients read their streams. RequestsEnd is conditional on `[]~LockLost`:
  a stream that resumes on another thread cannot release its lock. Disconnect is
  not fair.
- ModelStreams: weak fairness of each producer thread, of a call of embed_many that
  has begun, and of Receive: threads are scheduled, native calls end, and the event
  loop runs what is ready. Callers owe
  nothing: they may never ask again, leave, or close their loop.
- Scheduler: weak fairness of each host's next_batch (its reading of the clock and
  its return, each of which changes `asking`) and complete_step. Callers are not fair: one may never
  submit what it has built. Drained begins when no more requests come, because the code guarantees nothing to a
  request while more urgent ones keep coming.
- The other specifications state safety only.

TLC checks deadlock for KVCache and DirectClient (which has an explicit Done
step). It is off elsewhere: the calls of an instance are limited in number, and the
system stops when all are answered. For ModelServer that it does not stop earlier is what
RequestsEnd says.

## 6. Proofs

Each module `...Proofs` EXTENDS the module of its component and proves its
theorems for every value of the constants that the module's assumption allows.
EngineProofs is about EngineRecords and Compiler, RuntimeProofs about Orchestration
and Scheduler. Every theorem follows from an inductive invariant that holds at Init,
is kept by each action (one lemma per invariant part, one step per action) and
implies the property. TLC found each inductive invariant to hold on the instance of the
component's run (that of the placements on its graphs of three nodes, and without the
types of a layer's entries, which are too many to enumerate).

| Module | Theorem | Property |
|---|---|---|
| KVCacheProofs | TypeCorrect | `[]TypeOK` |
| | RefCountsCorrect | `[]RefCountsExact` |
| | NoDangling | `[]NoDanglingBlock` |
| | IndexCorrect | `[]IndexTrustworthy` |
| | CapacityKept | `[]OverCapacityMeansAlone` |
| | AlwaysPaged | `[]Paged` |
| | EvictsInOrder | `EvictionInOrder`, an action property |
| | StoresArePrivate | `PrivatePages`: KVCache implements KVStore |
| ModelServerProofs | RegistryAlwaysSound | `[]RegistrySound` |
| | ContextsAlwaysAccounted | `[]ContextsAccounted` |
| | CallsAlwaysSerialized | `[]CallsSerialized` |
| RagCollectionsProofs | StoresAlwaysOwned | `[]StoresOwned` |
| | CollectionsKept | `[]KeptUnlessRaced` |
| | VectorsOfOneModel | `[]OneEmbedding` |
| | IndexAlwaysExact | `[]IndexExact` |
| | FaissKeepsContract | `FaissImplements`: FaissStore implements VectorStore |
| | SqliteKeepsContract | `SqliteImplements`: SqliteStore implements VectorStore |
| | StoresKeepContract | `StoresImplement`: the two, side by side |
| RagPipelineProofs | AnswersIsolated | `[]Isolated` |
| | CacheFreshUnlessRaced | `[]FreshUnlessRaced` |
| | CacheAlwaysKept | `CacheKept`, an action property |
| DirectClientProofs | ExecutedAtMostOnce | `[]AtMostOnce` |
| | AnswersAreOwn | `[]OwnAnswer` |
| | NothingLeftOutstanding | `[]NothingOutstanding` |
| | WorkerAlwaysKnown | `[]WorkerKnown` |
| EngineProofs | SessionsAlwaysKept | `[]KeptUnlessRepeated` |
| | RecordsMatchSessions | `[]RecordMatchesSession` |
| | PlansAlwaysBacked | `[]PlanBacked` |
| | PlanInvariance | `[]PlanInv`, the inductive invariant of the precision plan |
| | PathInvariance | `[]PathInv`, the inductive invariant of the placements |
| | PlansAlwaysAccounted | `[]PlanAccounted` |
| | PathsAlwaysRight | `[]PathRight` |
| | PackagesAlwaysRight | `[]PackageRight` |
| RuntimeProofs | CompletedRunsReviewed | `[]Reviewed` |
| | OutcomesAgree | `[]OutcomeRecorded` |
| | BatchesAlwaysFair | `[]BatchFair` |
| ModelStreamsProofs | AlwaysDelivered | `[]Delivered` |
| | AlwaysCachesExact | `[]CachesExact` |
| | AlwaysResident | `[]Resident` |

### The assumptions

- KVAssumption: finite sets of sessions and blocks, positive block size and
  capacity, distinct markers.
- ServerAssumption: among others, finitely many model ids. The registry's table is
  a dictionary, and the limit counts it.
- CollectionsAssumption: configurations, signatures and stores fit together; the
  file of a database, under which SQLite stores share their rows, is named by no
  request.
- EngineAssumption: callers use neither an id that calibrate gives to its trial
  sessions nor its configuration. The ids are made of a prefix and a
  device; nothing in the code rejects a caller who uses one, so this is an
  assumption on callers.
- OrchestrationAssumption: the three required roles exist; at least one round and a
  list of at least one role may be asked for, and at least one of a list is run.
- ModelAssumption: among the sorts of its constants, that all vectors of a model
  have one positive size.
- VectorAssumption and FaissAssumption: scores are numbers, widths positive, and
  the marker of "nothing" is no document, version or namespace record.
- SchedulerAssumption: batches hold at least one request and reserve no more than they
  hold; priorities are the five of RequestPriority; a request has tokens to make.
  Deadlines are any number of milliseconds away, and time passes by any.
- CompilerAssumption: a ladder within PRECISION_BITS; devices of the three kinds with
  positive speed and bandwidth; nodes with at least one precision each, and sizes, work
  and sensitivities that are natural numbers; prompts of at least one token, as compile
  makes them; budgets, limits and transitions any integers. Models, machines and requests are otherwise arbitrary: any number of nodes
  and devices, any beam.
- ClientAssumption and PipelineAssumption: sorts of the constants, markers outside
  the sets they mark.

### The arguments

**KVCache.** None of the properties is inductive alone.

- `Shape == TypeOK /\ CallShape`. CallShape says what the call in progress may rely
  on: create and append work on a live session, nothing is pending while
  evicting, a call's own eviction spares its session and aims at the capacity,
  dead sessions have no blocks. ShapeNext has one step per action.
- `SharingInv == Shape /\ RefCountsExact /\ IndexSound`. IndexSound is the fact
  behind IndexTrustworthy: an entry names a live block that *starts with* the
  chunk. It survives append because append only extends blocks in place when
  they have one owner, and survives release because Dropped entries are never
  trusted. RefCountsExact is proved by following the set of places
  (session, position) that name a block: one place is added (RefsAppend),
  replaced (RefsReplace) or removed with a session (RefsRelease), and
  cardinalities follow from the finite-set theorems.
- `CapacityInv`: whenever no call is storing tokens, the cache fits or one session is
  left. It needs Shape for what a call's own eviction may take, and
  ReleaseShrinks: a release stores no more and keeps fewer sessions.
- `PagedInv` adds to Paged that a session whose creation goes on has only full
  blocks: the chunk that is stored next is then the only one that can be short. What an
  action does to one session's blocks is stated once (AddEffects, GrowEffects,
  DropEffects, UntouchedUnless) and used here and in the refinement.
- EvictionInOrder needs that recency is a strict order of the live sessions
  (RecencyStrict): otherwise "the least" of a victim's rivals need not be unique.
- The refinement. The pages of a session are the texts of its blocks (PagesOf). A
  step that stores tokens maps to KVStore's step on that session, because a
  block with another owner is never extended (RefCountsExact) and an attached
  block holds exactly the chunk (IndexSound); a drop maps to a drop; all else is
  a stutter (StoreNext, one step per action).

**ModelServer** (`ServerInv`). RegistrySound needs that only the holder of the
registry's lock builds a model and that there is room while it does (BuildInv),
where the instances in the table come from (OriginInv), and that what is about to
be closed has left the table (ClosingInv). ContextsAccounted needs that what a failed
load abandoned is in no table and in no request's hands (AbandonedInv, ApartNext). CallsSerialized needs LockInv (a lock
was entered at least as often as streams and calls are inside, and is free exactly
when its depth is 0), ThreadInv (a pool thread runs one request) and CallInv (a
call stays on the thread it entered on, as a stream does not).

**RagCollections** (`CollectionsInv`). OwnedInv is StoresOwned store by store;
HomeInv ties a registered collection to the creation that made it; ModelsInv
carries the two lookups of a creation: a creation that no load or unload raced
has found both models resident, and whoever is about to replace a
model of a registered collection puts there what is there.

**FaissStore** (`SpacesInv`). Exact is IndexExact of one namespace, without the
claim that it has documents: it holds in the middle of an upsert, when what is
replaced is gone. WithoutExact: remove_ids and the two tables lose the same
numbers. BatchFacts: the documents that a batch names have places of their own
from 1 on, because the first occurrences of two documents differ; so AddExact
gives each a new number. For the refinement, ContentsRows reads what a namespace
holds off its rows, and RowsCounted says that rows, entries, documents and pairs
are equally many, because each row has its number. SearchBest is the step that is
not obvious: with filters, or with a limit above the count, all entries are asked
for (BestOfFew); without, exactly `limit` entries are, none is filtered away, and
the best entries are those of the best documents (HitsBest).

**SqliteStore** (`SqliteInv`). A transaction under way has written a prefix of its
batch to what is committed (Underway, After): nothing at first (AfterNone), one
row more at each step (AfterNext), and with the last row exactly what VectorStore's
upsert writes (AfterAll), which is why the commit is that upsert and each row
before it a stutter. What is committed does not change meanwhile, because a second
writer is refused.

**RagPipeline** (`PipelineInv`). SourceInv says of everything that holds chunks,
stored, cached or in a thread's hands, which namespace they are of; HeldFresh
that a thread not `late` holds what the store holds. CacheKept also needs that
an entry's age is what it has lost of its time (CacheInv). RemoveAtFacts and its
neighbours say what removal from the recency order does.

**DirectClient** (`ClientInv`). The process of a call is named by the call that
spawned it, so UnspawnedInv (nothing is known of a process before it is spawned)
gives that a request is written once (SentInv) and that answers are to executed
requests (AnswerInv). HandleInv is the heart: a consumer may forget the
handle at any time, but only the holder of the lock sets it, so the holder finds
its own process or none. OwnInv (no other process has anything of a waiting
request) and QuietInv (a process nobody waits for is idle, unless it is closed or
being killed) then give OwnAnswer and NothingOutstanding.

**EngineRecords** (`RecordsInv`). CallInv says what a thread may rely on between two
transactions; SessionKept that the session under a name carries it, as
long as no calibration is repeated; RowInv that a session which a calibration
kept is either about to be recorded by the only thread at that step, or is what
the last row for its name tells of. LargestOf, that a set of row numbers which
is not empty has a last one, is by well-founded induction.

**Orchestration** (`RunsInv`). StatusOk: what row and audit say at each step of
the call; nothing audited precedes the row it is about. ProgressOk: at each step
how far the collaboration is. Before role n+1 is asked, no review of the first n
turns approved, the parity of n tells whose turn it is (WhoseTurn), the output is
the code just before a review, and the rounds are the number of reviews and below the limit
(AtRole, AtTurn); when the last turn is over the whole way was gone (TurnOver),
and Finish writes just that into the row. Runs are independent: OthersKept and
RunKept reduce each step to the run it is of.

**ModelStreams** (`StreamsInv`). ProducerOk: the prompt the thread captures is its
caller's, although `value` is rebound later, because nothing is queued before.
QueueOk: fragments in the queue go on where the caller is, an error or
end comes after the fragments, and only an ended thread has queued the end. CountOk is needed for
completeness: while the caller listens, what it has and what is queued are all
that was produced, unless an error is queued before the end. A coroutine that has left and an event loop
that has closed are covered: nothing is claimed of their counts.

CachesExact and Resident rest on `ModelInv`. EngineInv follows load through its
failures: an engine is counted when it is made (EngineMade), and a load that
returns leaves the model loaded, while one that raises unloads nothing
(LoadFacts). CacheInv has that embed_many stores vectors only of a model that is
loaded, because no close can come between its native call and its last vector.
CacheEmbeddingFacts says that a vector and the evictions it causes leave the
cache within both bounds and its count of bytes exact: an excess ends at the
latest when nothing is left, so that there is a least number of evictions
(LeastOf, by well-founded induction), and the bytes of n vectors are n widths
(Products). TouchFacts, AppendOnce and SuffixOnce say what the steps of an LRU
order keep. Resident contains TypeOK and therefore needs that what a stream hands
over is its own and at most MaxFragments (PayloadsInv).

**Scheduler** (`SchedulerInv`). Beside the types it has Numbered: no two queued
requests have one number. So Before is a strict total order at any time
(BeforeTotal). Numbers need not go with dates; ScoreFacts bounds each term of
the score, so that one class of priority, or a deadline that is over, outweighs age
and phase together (ScoreAbove), and OrderKeeps compares ages. FirstOf and
BestFacts say what the best n of a finite set are: they exist, are n, and
nothing outside goes before one inside. BatchKeeps puts the reserved best of the
interactive requests and the best of the rest together.

**Compiler, precision plan** (`PlanInv`). `planned` and `loss` are sums over the nodes,
of which a step changes one term (SumChanged). That a node's penalty is the loss of its
precision is not inductive: the loop adds what one alternative costs, and takes them by
price from one list for all nodes. InStep says that the alternatives still listed of a
node are just those below its precision, if its size divides and none was refused:
of two alternatives of such a node the lower is not earlier in the list (InOrder),
since it saves no more bytes and a byte costs no less (Prices). Rounded sizes break this order and a
refusal leaves a gap: hence the two conditions of PlanAccounted.

**Compiler, placements** (`PathInv`). Costs are integers for every prompt: the
dispatch time divides by a power of two, which is positive because it counts the
subsets of a set (PowerOfTwo, GrowthFacts). Table says of each finished layer that it is Linked
(an entry costs what the entries it came from cost, and one step more) and, unless a
layer was cut, Cheapest: for whatever placement of the nodes so far within the limit there
is an entry at its last device and number of moves that costs no more. A way back then
costs what the entry it begins at costs (WaysRight), and is Optimal. NoOscillation
compares costs of decode: prefill's own path costs its Unbound cost, and any other
at least 3000 more for each node it moves (DrawnBack).

**Compiler, package** (PackageMade). TierFacts is the arithmetic of the memory tiers.
RegionsRight follows the nodes: the regions so far cover them in order, and each parts
from the one before (Covers). KernelsRight: nodes placed alike share the kernel of the
first of them; CandidatesFew counts a kernel's candidates.

### What the proofs changed in the models

No property was weakened. Definitions were restated where their form was out of
the provers' reach, and strengthened where they were not what was meant:
`Without` (RagPipeline) removes the one position of a key; `Latest` and
`RecordMatchesSession` (EngineRecords) name the last row of an id by its
position; `Reviewed` (Orchestration) counts reviews as a set of turns;
`Delivered` (ModelStreams) numbers the queue's fragments by position, which also
says that none follows an end; embed_many (ModelStreams) was one step that
folded over its texts and is now one step per turn of its loops, as in the code;
VectorStore's `Written` and FaissStore's `Place` were folds over a batch and are now
the last record of each document and the number of documents that occur no later;
LimitKept, the part of RagPipeline's CacheKept about the limit, says of the
dropped entries that they were used less recently than all that stay. Scheduler's
batches were subsequences of a sorted queue and are now sets in its order; Compiler's
sums took an operator and are now of functions (SumFunction), and Regions, a fold, is a
recursive function over the nodes. Four CASE expressions had arms that overlap, of which TLA+ may take
any: Backend and KernelCandidates (PlacementCosts), ReadyEmbedder (RagCollections) and
Put (RagPipeline) are now IF, in the order in which the code asks. The
assumptions above were extended as their list says.

### Only model-checked

- Liveness under fairness, and whatever rests on ENABLED, is beyond this prover:
  CallsReturn, EveryoneServed, RequestsEnd, StreamsEnd, Drained.
- No other property of a passing run is without its theorem. Library theorems about
  recursive functions take an operator as parameter and cannot be used, but induction
  works with sets in place of predicates (LargestOf, LeastOf, NatSets, SetFamilies, from
  the library's facts about well-founded relations), and by it each recursive
  function that a proof needs is shown to exist and to mean what it should
  (SummingExists, WaysBackMeans, RegionsMean). No module declares a RECURSIVE operator.
- The properties of the runs that end in a counterexample are refuted, not proved.

## 7. Disagreements with the documentation

Each is a run that TLC refutes, with the line it contradicts in `PROJECT.json`.

1. *Shared prefixes* (kv_prefix). A block is shared for an equal chunk wherever it
   stands (memory.py:95-104); `docs/ENGINE_API.md:262-263` and the class text
   speak of prefixes, and KV entries depend on everything before them.
2. *One worker* (worker_client_one). A stream's consumer stops the worker without
   the request lock and forgets a handle that another request has just made.
3. *Serialised calls* (model_server_serial). A suspended stream's lock belongs to
   a pool thread; the next request on that thread enters it again.
4. *Projects kept apart* (plans_separated). A plan's id does not depend on the
   project, and compiling the same plan in a second project updates the first's
   row: the second never lists it.

The passing runs keep the complement of each: WorkerKnown, CallsSerialized and
PlanBacked say that nothing *else* goes wrong.

Other divergences, which no run refutes but which a property's conditions mark:

- *Models of a collection.* Load and unload check under one lock and act under another
  (server.py:409-434), so a collection created in between loses its model, against
  `docs/RAG.md:201-202`. KeptUnlessRaced excludes exactly these (`raced`).
- *Visible immediately.* An overlapping retrieval or a failed ingestion leaves a
  stale result in the query cache (rag.py:447-453, 487), against
  `docs/RAG.md:190-192`. FreshUnlessRaced excludes exactly these (`doubtful`).
- *Repeated calibration.* The session that an earlier calibration kept still stands
  under its calibration id; the next one drops it under the kept id, or gives it another
  id, under which benchmark then looks for it (worker.py:343, 474-481). KeptUnlessRepeated excludes these (`repeated`).
- *Contexts.* When a load raises with its native context made, by the warm-up after
  `_loaded = True` (model.py:79-81) or inside `_load_openvino` (474-492), the registry
  (server.py:79) drops the instance without closing it, while
  `docs/GETTING_STARTED.md:303` says to close always. ContextsAccounted names these
  (`abandoned`) and says that nobody reaches them.
- *Reviews of long lists.* A sequence runs the first eight roles of its list
  (runtime.py:803; `docs/ENGINE_API.md:338-339` says up to eight). A supervisor in
  ninth place is not asked, and the run is recorded as approved: Reviewed states it.
- *Engines.* A second load after a failed `_load_openvino` replaces the engine without closing
  it (model.py:471-492); Resident excludes these (`spoiled`).
- *Aging.* The scheduler's age term ends at 1200 points and a priority class is
  worth 2000 or more, so age orders requests of one class and lifts none over a
  higher one: OrderKept states it. Two requests dated in one order and numbered in
  the other go by date until the later dated has waited ten minutes, and then by number.
- *Urgency.* A deadline less than 100 ms ahead counts up to a million points, one
  that is over ten thousand (scheduler.py:131): a request drops in rank
  when its deadline passes. OrderKept compares overdue requests only with those that have no deadline.
- *Power modes.* `docs/ENGINE_API.md:97-101` names a mode "efficiency", which
  `_power_mode` rejects; Reject models the rejection.
- *Warnings.* The warning about the quality limit appears only for a negative
  limit, because the plan keeps any other; and weights may be planned for
  storage without the memory warning, when the KV cache leaves no room:
  PackageRight states when.

## 8. What is not modelled

- Pure parsing, rendering and adapting, with no state over time: model frontends,
  back ends, embedders, the LangChain adapter, command lines, the web console,
  release scripts, most of configuration and CPU planning.
- Hardware profiling: reads the operating system; its only state is a 30-second
  cache.
- The autotuner: one pass over measured candidates whose result nothing reads
  back. Roles and device benchmarks of the engine: single rows.
- RuntimeMetrics: gauges that no decision reads. A stream whose client leaves is
  never counted as finished (server.py:803).
- Within modelled parts: the numbers of similarity, ranking by marginal relevance,
  document loading and splitting, prompt construction, token contents, byte sizes, what a model computes,
  `status` methods that only read. A token outside 64 bits makes `append`
  raise after the session's count was changed (memory.py:135); tokens here are
  members of a small set. `prefix_index` keeps entries of extended blocks for ever;
  growth is no property of a finite instance. Fewer pool threads than
  requests can leave a suspended stream without a thread; the instance has one per
  request.
- Compiler: costs and sizes are integers where the code has floats.
