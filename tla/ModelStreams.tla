----------------------------- MODULE ModelStreams -----------------------------
(***************************************************************************)
(* One KernelLoomModel (kernelloom/model.py): what it keeps resident, its  *)
(* caches, and astream, which runs the native stream on a thread of its    *)
(* own and hands the fragments to a coroutine.  Every operation holds the  *)
(* model's lock from beginning to end.  An operation without a loop, which *)
(* returns without giving control away, is one step taken when the lock is *)
(* free; embed_many and a stream hold the lock through many.               *)
(*                                                                         *)
(* Abstractions.  A text is its cache key.  All vectors of a model have    *)
(* one length.  The counters of hits, misses and requests are left out.    *)
(* What publish hands to the event loop reaches the queue in order, so the *)
(* loop's own queue and the asyncio queue are one.                         *)
(***************************************************************************)
EXTENDS Integers, Sequences, SequencesExt

CONSTANTS
  Streams,        \* calls of astream, each with a prompt of its own
  Texts,          \* what is embedded or counted
  Settings,       \* records [backend, warmup, embedding, width, streams, calls,
                  \* texts]: what ModelConfig says, the bytes of a vector, and
                  \* the streams, calls and texts of the instance (a bound)
  EmbedCapacity,  \* embedding_cache_size
  ByteBudget,     \* embedding_cache_max_bytes
  TokenCapacity,  \* token_cache_size
  MaxTexts,       \* bound: texts of a call of embed_many
  MaxFragments,   \* bound: fragments the native side produces for a prompt
  None

ASSUME ModelAssumption ==
  /\ EmbedCapacity \in Nat /\ ByteBudget \in Nat /\ TokenCapacity \in Nat
  /\ MaxTexts \in Nat /\ MaxFragments \in Nat
  /\ None \notin Streams
  /\ \A c \in Settings : /\ c.backend \in {"llama-cpp", "openvino"} /\ c.warmup \in BOOLEAN
                         /\ c.width \in Nat \ {0} /\ c.calls \in Nat
                         /\ c.streams \subseteq Streams /\ c.texts \subseteq Texts

VARIABLES
  config,      \* the model's settings, which never change
  loaded,      \* _loaded
  engine,      \* is there an _engine?
  engines,     \* engines made and not closed
  warm,        \* is _warmup_info filled?
  embeddings,  \* _embedding_cache, least recently used first, and its bytes
  tokens,      \* _token_cache
  calls,       \* calls made, streams apart
  batch,       \* the call of embed_many that holds _lock: its step, the texts that
               \* are not yet looked up, and missing
  spoiled,     \* history: an engine was made and its model did not load
  cold,        \* history: the warm-up of the resident model's load raised
  lock,        \* the stream that holds _lock, or None
  producer,    \* producer[s]: the step of the thread of stream s
  value,       \* value[s]: the variable of that name in astream
  prompt,      \* prompt[s]: what the native side was asked
  produced,    \* produced[s]: fragments the native side has produced
  queue,       \* queue[s]: what is published and not received
  consumer,    \* consumer[s]: the step of the coroutine
  cancelled,   \* streams whose event is set
  got          \* got[s]: the fragments the caller has received

residentVars == <<loaded, engine, engines, warm, spoiled, cold>>
cacheVars == <<embeddings, tokens>>
streamVars == <<lock, producer, value, prompt, produced, queue, consumer, cancelled, got>>
vars == <<config, residentVars, cacheVars, calls, batch, streamVars>>

NoBatch == [step |-> "none", rest |-> <<>>, missing |-> <<>>]

\* _lock is free.
Free == lock = None /\ batch = NoBatch

Fragment(s, n) == <<"token", <<s, n>>>>
Done == <<"done", None>>
Error == <<"error", None>>
Payloads(s) == {<<s, n>> : n \in 1..MaxFragments} \cup {None}

Init ==
  /\ config \in Settings
  /\ loaded = FALSE /\ engine = FALSE /\ engines = 0 /\ warm = FALSE
  /\ spoiled = FALSE /\ cold = FALSE
  /\ embeddings = [order |-> <<>>, bytes |-> 0] /\ tokens = <<>>
  /\ calls = 0 /\ batch = NoBatch
  /\ lock = None
  /\ producer = [s \in Streams |-> "none"]
  /\ value = [s \in Streams |-> s] /\ prompt = [s \in Streams |-> None]
  /\ produced = [s \in Streams |-> 0]
  /\ queue = [s \in Streams |-> <<>>]
  /\ consumer = [s \in Streams |-> "new"]
  /\ cancelled = {}
  /\ got = [s \in Streams |-> <<>>]

-----------------------------------------------------------------------------
\* load.  An OpenVINO model gets an engine, which stays when its model does
\* not load and which a later load replaces without closing it.
MakesEngine ==
  IF config.backend = "openvino" THEN engine' = TRUE /\ engines' = engines + 1
  ELSE UNCHANGED <<engine, engines>>

\* The model loads, with w telling whether it has been warmed up.
Makes(w) ==
  /\ ~loaded
  /\ MakesEngine
  /\ loaded' = TRUE /\ warm' = w
  /\ UNCHANGED spoiled

\* Embedding is for GGUF models only, so the warm-up of an OpenVINO model that
\* is configured for it always raises.
CanWarm == ~(config.embedding /\ config.backend = "openvino")

LoadReturns ==
  \/ loaded /\ UNCHANGED residentVars
  \/ /\ config.warmup => CanWarm
     /\ Makes(config.warmup)
     /\ UNCHANGED cold

\* No file or no library; a failure of the engine; or one of the warm-up,
\* which finds the model marked as loaded and leaves it so.
LoadRaises ==
  /\ ~loaded
  /\ \/ UNCHANGED residentVars
     \/ /\ config.backend = "openvino"
        /\ MakesEngine
        /\ spoiled' = TRUE
        /\ UNCHANGED <<loaded, warm, cold>>
     \/ config.warmup /\ Makes(FALSE) /\ cold' = TRUE

\* A call other than astream begins.
Begun ==
  /\ Free /\ calls < config.calls
  /\ calls' = calls + 1
  /\ UNCHANGED <<config, streamVars>>

\* ... and returns in the same step.
Called == Begun /\ UNCHANGED batch

\* load, and generate, whatever the native side answers.
Load == Called /\ (LoadReturns \/ LoadRaises) /\ UNCHANGED cacheVars

\* warmup: load, and then the work, which may raise.
Warmup ==
  /\ Called
  /\ \/ LoadRaises
     \/ loaded /\ CanWarm /\ warm' = TRUE /\ UNCHANGED <<loaded, engine, engines, spoiled, cold>>
     \/ CanWarm /\ Makes(TRUE) /\ UNCHANGED cold
     \/ LoadReturns
  /\ UNCHANGED cacheVars

\* Faulty variant: the engine is dropped without being closed.
CloseForgettingEngine ==
  /\ Called
  /\ loaded' = FALSE /\ warm' = FALSE /\ cold' = FALSE
  /\ engine' = FALSE
  /\ embeddings' = [order |-> <<>>, bytes |-> 0] /\ tokens' = <<>>
  /\ UNCHANGED <<engines, spoiled>>

Close ==
  /\ Called
  /\ loaded' = FALSE /\ warm' = FALSE /\ cold' = FALSE
  /\ engine' = FALSE /\ engines' = IF engine THEN engines - 1 ELSE engines
  /\ embeddings' = [order |-> <<>>, bytes |-> 0] /\ tokens' = <<>>
  /\ UNCHANGED spoiled

ClearCaches ==
  /\ Called
  /\ embeddings' = [order |-> <<>>, bytes |-> 0] /\ tokens' = <<>>
  /\ UNCHANGED residentVars

-----------------------------------------------------------------------------
\* order without the text x, if it is there.
Without(order, x) ==
  IF Contains(order, x) THEN RemoveAt(order, CHOOSE i \in DOMAIN order : order[i] = x) ELSE order

\* _cache_get: an entry that is found becomes the most recent.
Touch(order, x) == IF Contains(order, x) THEN Append(Without(order, x), x) ELSE order

\* Faulty variant: the bytes of what is evicted are not taken off.
CacheEmbeddingAdding(e, x) ==
  LET order == Append(Without(e.order, x), x)
      bytes == e.bytes + (IF Contains(e.order, x) THEN 0 ELSE config.width)
      Excess(k) == k < Len(order) /\ Len(order) - k > EmbedCapacity
      evicted == CHOOSE k \in 0..Len(order) :
                   ~Excess(k) /\ \A j \in 0..(k - 1) : Excess(j)
  IN  [order |-> SubSeq(order, evicted + 1, Len(order)), bytes |-> bytes]

\* _cache_embedding: the oldest go while there are too many or too many bytes.
CacheEmbedding(e, x) ==
  LET order == Append(Without(e.order, x), x)
      bytes == e.bytes + (IF Contains(e.order, x) THEN 0 ELSE config.width)
      Excess(k) == k < Len(order) /\ (Len(order) - k > EmbedCapacity
                                        \/ bytes - k * config.width > ByteBudget)
      evicted == CHOOSE k \in 0..Len(order) :
                   ~Excess(k) /\ \A j \in 0..(k - 1) : Excess(j)
  IN  IF EmbedCapacity = 0 \/ ByteBudget = 0 THEN e
      ELSE [order |-> SubSeq(order, evicted + 1, Len(order)),
            bytes |-> bytes - evicted * config.width]

\* embed_many takes the lock ...
EmbedMany ==
  /\ Begun
  /\ \E texts \in SeqOf(config.texts, MaxTexts) \ {<<>>} :
       batch' = [step |-> "look", rest |-> texts, missing |-> <<>>]
  /\ UNCHANGED <<residentVars, cacheVars>>

\* ... looks the texts up, one by one ...
LookUp ==
  /\ batch.step = "look" /\ batch.rest # <<>>
  /\ LET x == Head(batch.rest)
         known == Contains(embeddings.order, x) \/ Contains(batch.missing, x)
     IN  /\ embeddings' = [embeddings EXCEPT !.order = Touch(@, x)]
         /\ batch' = [batch EXCEPT !.rest = Tail(@), !.missing = IF known THEN @ ELSE Append(@, x)]
  /\ UNCHANGED <<config, residentVars, tokens, calls, streamVars>>

\* ... embeds those that are missing in one native call, or raises ...
EmbedUncached ==
  /\ batch.step = "look" /\ batch.rest = <<>> /\ batch.missing # <<>>
  /\ \/ (LoadRaises \/ LoadReturns) /\ batch' = NoBatch
     \/ /\ config.backend = "llama-cpp" /\ config.embedding
        /\ LoadReturns
        /\ batch' = [batch EXCEPT !.step = "store"]
  /\ UNCHANGED <<config, cacheVars, calls, streamVars>>

\* ... caches their vectors, one by one ...
CacheNext ==
  /\ batch.step = "store" /\ batch.missing # <<>>
  /\ embeddings' = CacheEmbedding(embeddings, Head(batch.missing))
  /\ batch' = [batch EXCEPT !.missing = Tail(@)]
  /\ UNCHANGED <<config, residentVars, tokens, calls, streamVars>>

\* ... and returns.
EmbedReturn ==
  /\ batch.step # "none" /\ batch.rest = <<>> /\ batch.missing = <<>>
  /\ batch' = NoBatch
  /\ UNCHANGED <<config, residentVars, cacheVars, calls, streamVars>>

Embedding == LookUp \/ EmbedUncached \/ CacheNext \/ EmbedReturn

\* count_tokens.
CountTokens ==
  /\ Called
  /\ \E x \in config.texts :
       IF Contains(tokens, x) THEN tokens' = Touch(tokens, x) /\ UNCHANGED residentVars
       ELSE \/ (LoadRaises \/ LoadReturns) /\ UNCHANGED tokens
            \/ /\ config.backend = "llama-cpp"
               /\ LoadReturns
               /\ LET order == Append(tokens, x)
                  IN  tokens' = IF TokenCapacity = 0 THEN tokens
                                ELSE IF Len(order) > TokenCapacity THEN Tail(order) ELSE order
  /\ UNCHANGED embeddings

-----------------------------------------------------------------------------
Goto(s, step) == producer' = [producer EXCEPT ![s] = step]

\* Faulty variant: a queue of limited size refuses the item.
PublishBounded(s, item) ==
  queue' = [queue EXCEPT ![s] = IF Len(@) = 1 THEN @ ELSE Append(@, item)]

\* publish: the event loop takes the item, unless it is closed.
Publish(s, item) ==
  queue' = [queue EXCEPT ![s] = IF consumer[s] = "gone" THEN @ ELSE Append(@, item)]

\* astream's first step starts the thread and waits for the queue.
Astream(s) ==
  /\ consumer[s] = "new" /\ s \in config.streams
  /\ consumer' = [consumer EXCEPT ![s] = "waiting"]
  /\ Goto(s, "born")
  /\ UNCHANGED <<config, residentVars, cacheVars, calls, batch, lock, value, prompt, produced,
                 queue, cancelled, got>>

\* The thread makes the iterator, of what value is by now.
Capture(s) ==
  /\ producer[s] = "born"
  /\ prompt' = [prompt EXCEPT ![s] = value[s]]
  /\ Goto(s, "lock")
  /\ UNCHANGED <<config, residentVars, cacheVars, calls, batch, lock, value, produced, queue,
                 consumer, cancelled, got>>

\* stream begins: the lock is free, and the model is loaded if it is not.
Enter(s) ==
  /\ producer[s] = "lock" /\ Free
  /\ \/ LoadReturns /\ lock' = s /\ Goto(s, "native")
     \/ LoadRaises /\ Goto(s, "failed") /\ UNCHANGED lock
  /\ UNCHANGED <<config, cacheVars, calls, batch, value, prompt, produced, queue, consumer,
                 cancelled, got>>

\* The native side: a fragment, the end, or an exception.
Native(s) ==
  /\ producer[s] = "native"
  /\ \/ /\ produced[s] < MaxFragments
        /\ produced' = [produced EXCEPT ![s] = @ + 1]
        /\ Goto(s, "fragment")
        /\ UNCHANGED lock
     \/ \E step \in {"closing", "failed"} :
          lock' = None /\ Goto(s, step) /\ UNCHANGED produced
  /\ UNCHANGED <<config, residentVars, cacheVars, calls, batch, value, prompt, queue, consumer,
                 cancelled, got>>

\* Faulty variant: the thread leaves a cancelled stream without closing it.
PassOnWithoutClose(s) ==
  /\ producer[s] = "fragment"
  /\ IF s \in cancelled THEN Goto(s, "closing") /\ UNCHANGED <<lock, queue>>
     ELSE Publish(s, Fragment(s, produced[s])) /\ Goto(s, "native") /\ UNCHANGED lock
  /\ UNCHANGED <<config, residentVars, cacheVars, calls, batch, value, prompt, produced,
                 consumer, cancelled, got>>

\* The thread looks at the event and publishes, or breaks out of its loop and
\* closes the iterator, which gives the lock back.
PassOn(s) ==
  /\ producer[s] = "fragment"
  /\ IF s \in cancelled THEN lock' = None /\ Goto(s, "closing") /\ UNCHANGED queue
     ELSE Publish(s, Fragment(s, produced[s])) /\ Goto(s, "native") /\ UNCHANGED lock
  /\ UNCHANGED <<config, residentVars, cacheVars, calls, batch, value, prompt, produced,
                 consumer, cancelled, got>>

PublishError(s) ==
  /\ producer[s] = "failed"
  /\ Publish(s, Error)
  /\ Goto(s, "closing")
  /\ UNCHANGED <<config, residentVars, cacheVars, calls, batch, lock, value, prompt, produced,
                 consumer, cancelled, got>>

PublishDone(s) ==
  /\ producer[s] = "closing"
  /\ Publish(s, Done)
  /\ Goto(s, "ended")
  /\ UNCHANGED <<config, residentVars, cacheVars, calls, batch, lock, value, prompt, produced,
                 consumer, cancelled, got>>

\* The coroutine receives: it returns, raises, or yields to its caller.
Receive(s) ==
  /\ consumer[s] = "waiting" /\ queue[s] # <<>>
  /\ LET kind == Head(queue[s])[1]
         payload == Head(queue[s])[2]
     IN  /\ value' = [value EXCEPT ![s] = payload]
         /\ IF kind = "token"
            THEN /\ consumer' = [consumer EXCEPT ![s] = "yielded"]
                 /\ got' = [got EXCEPT ![s] = Append(@, payload)]
                 /\ UNCHANGED cancelled
            ELSE /\ consumer' = [consumer EXCEPT ![s] = IF kind = "done" THEN "complete" ELSE "left"]
                 /\ cancelled' = cancelled \cup {s}
                 /\ UNCHANGED got
  /\ queue' = [queue EXCEPT ![s] = Tail(@)]
  /\ UNCHANGED <<config, residentVars, cacheVars, calls, batch, lock, producer, prompt, produced>>

\* The caller asks for the next fragment ...
Ask(s) ==
  /\ consumer[s] = "yielded"
  /\ consumer' = [consumer EXCEPT ![s] = "waiting"]
  /\ UNCHANGED <<config, residentVars, cacheVars, calls, batch, lock, producer, value, prompt,
                 produced, queue, cancelled, got>>

\* ... or closes the generator or is cancelled: finally sets the event.
Leave(s) ==
  /\ consumer[s] \in {"waiting", "yielded"}
  /\ consumer' = [consumer EXCEPT ![s] = "left"]
  /\ cancelled' = cancelled \cup {s}
  /\ UNCHANGED <<config, residentVars, cacheVars, calls, batch, lock, producer, value, prompt,
                 produced, queue, got>>

\* The event loop is closed with the generator suspended: nothing sets the event.
LoopClosed(s) ==
  /\ consumer[s] \in {"waiting", "yielded"}
  /\ consumer' = [consumer EXCEPT ![s] = "gone"]
  /\ queue' = [queue EXCEPT ![s] = <<>>]
  /\ UNCHANGED <<config, residentVars, cacheVars, calls, batch, lock, producer, value, prompt,
                 produced, cancelled, got>>

Produce(s) ==
  Capture(s) \/ Enter(s) \/ Native(s) \/ PassOn(s) \/ PublishError(s) \/ PublishDone(s)

Next ==
  \/ Load \/ Warmup \/ Close \/ ClearCaches \/ EmbedMany \/ Embedding \/ CountTokens
  \/ \E s \in Streams : Astream(s) \/ Produce(s) \/ Receive(s) \/ Ask(s) \/ Leave(s)
                          \/ LoopClosed(s)

Spec == Init /\ [][Next]_vars

\* The threads of the streams and of embed_many are scheduled and native calls
\* end; the event loop runs its ready tasks.  Callers may be slow or never come
\* back.
FairSpec ==
  /\ Spec
  /\ WF_vars(Embedding)
  /\ \A s \in Streams : WF_vars(Produce(s)) /\ WF_vars(Receive(s))

-----------------------------------------------------------------------------
\* Every variable has its type, and each cache lists a text once at most.
TypeOK ==
  /\ config \in Settings
  /\ loaded \in BOOLEAN /\ engine \in BOOLEAN /\ engines \in Nat /\ warm \in BOOLEAN
  /\ spoiled \in BOOLEAN /\ cold \in BOOLEAN
  /\ embeddings.order \in Seq(Texts) /\ embeddings.bytes \in Nat /\ tokens \in Seq(Texts)
  /\ calls \in 0..config.calls
  /\ batch.step \in {"none", "look", "store"}
  /\ batch.rest \in Seq(Texts) /\ batch.missing \in Seq(Texts)
  /\ lock \in Streams \cup {None}
  /\ producer \in [Streams -> {"none", "born", "lock", "native", "fragment", "failed",
                               "closing", "ended"}]
  /\ \A s \in Streams : value[s] \in {s} \cup Payloads(s) /\ prompt[s] \in {s, None} \cup Payloads(s)
  /\ produced \in [Streams -> 0..MaxFragments]
  /\ consumer \in [Streams -> {"new", "waiting", "yielded", "complete", "left", "gone"}]
  /\ cancelled \subseteq Streams

\* What is resident is accounted for through any calls and failures: a model
\* that is not loaded is not warm and caches nothing; one that is loaded is
\* warm when it should be, unless its own warm-up raised; and close leaves no
\* engine running, unless one was made whose model did not load (load,
\* warmup, close).
Resident ==
  /\ TypeOK
  /\ ~loaded => ~warm /\ embeddings.order = <<>> /\ tokens = <<>>
  /\ loaded /\ config.warmup => warm \/ cold
  /\ ~spoiled => engines = IF engine THEN 1 ELSE 0
  /\ ~spoiled => (engine <=> loaded /\ config.backend = "openvino")

\* The caches hold each text once, within their capacities, and the running
\* count of bytes is the size of the vectors held (embed_many, _cache_embedding,
\* _cache_put).
CachesExact ==
  /\ IsInjective(embeddings.order) /\ IsInjective(tokens)
  /\ Len(tokens) <= TokenCapacity
  /\ Len(embeddings.order) <= EmbedCapacity
  /\ embeddings.bytes = config.width * Len(embeddings.order)
  /\ embeddings.bytes <= ByteBudget

Numbered(s, n) == [i \in 1..n |-> <<s, i>>]

\* The caller of astream receives what its own prompt produced, in order and
\* without gaps, the queue goes on where the caller is, and a stream that
\* completes gave everything, although value is rebound and threads of other
\* streams wait for the same lock.
Delivered ==
  \A s \in Streams :
    /\ producer[s] \notin {"none", "born"} => prompt[s] = s
    /\ producer[s] \in {"native", "fragment"} <=> lock = s
    /\ got[s] = Numbered(s, Len(got[s]))
    /\ \A i \in DOMAIN queue[s] : queue[s][i][1] = "token" =>
         \A j \in 1..i : queue[s][j] = Fragment(s, Len(got[s]) + j)
    /\ consumer[s] = "complete" => got[s] = Numbered(s, produced[s])

\* A stream gives the model back and its thread ends, and a coroutine that
\* waits is served, even if other callers leave, or never ask again (astream).
StreamsEnd ==
  \A s \in Streams :
    /\ producer[s] = "born" ~> producer[s] = "ended" /\ lock # s
    /\ consumer[s] = "waiting" ~> consumer[s] # "waiting"

=============================================================================
