-------------------------- MODULE ModelStreamsProofs --------------------------
(***************************************************************************)
(* Proofs about ModelStreams, for any streams, texts, capacities and       *)
(* numbers of fragments: what a stream delivers, what the caches hold, and *)
(* what is resident.                                                       *)
(***************************************************************************)
EXTENDS ModelStreams, SequenceTheorems, NaturalsInduction, WellFoundedInduction, TLAPS

Fragments(s) == {Fragment(s, n) : n \in Nat}
Items(s) == Fragments(s) \cup {Done, Error}
Producers == {"none", "born", "lock", "native", "fragment", "failed", "closing", "ended"}
Consumers == {"new", "waiting", "yielded", "complete", "left", "gone"}

StreamTypes ==
  /\ lock \in Streams \cup {None} /\ cancelled \subseteq Streams
  /\ producer \in [Streams -> Producers] /\ consumer \in [Streams -> Consumers]
  /\ produced \in [Streams -> Nat]
  /\ DOMAIN value = Streams /\ DOMAIN prompt = Streams
  /\ DOMAIN queue = Streams /\ DOMAIN got = Streams
  /\ \A s \in Streams : queue[s] \in Seq(Items(s)) /\ got[s] \in Seq({<<s, n>> : n \in Nat})

-----------------------------------------------------------------------------
(***************************************************************************)
(* The inductive invariant.                                                *)
(***************************************************************************)
Early(s) == producer[s] \in {"none", "born", "lock", "native", "fragment", "failed"}
Live(s) == consumer[s] \in {"new", "waiting", "yielded"}

\* What the thread asks is its own, and it holds the lock while it produces.
ProducerOk(s) ==
  /\ producer[s] \in {"none", "born"} => value[s] = s /\ queue[s] = <<>>
  /\ producer[s] \notin {"none", "born"} => prompt[s] = s
  /\ producer[s] \in {"native", "fragment"} <=> lock = s
  /\ producer[s] = "fragment" => produced[s] # 0
  /\ producer[s] = "none" <=> consumer[s] = "new"
  /\ s \in cancelled <=> consumer[s] \in {"complete", "left"}

\* What is queued goes on where the caller is, and nothing follows an end.
QueueOk(s) ==
  /\ \A i \in 1..Len(queue[s]) : queue[s][i][1] = "token" =>
       \A j \in 1..i : queue[s][j] = Fragment(s, Len(got[s]) + j)
  /\ Early(s) => \A i \in 1..Len(queue[s]) : queue[s][i][1] = "token"
  /\ producer[s] # "ended" => \A i \in 1..Len(queue[s]) : queue[s][i] # Done

\* While the caller listens nothing is lost: what it has and what is queued are
\* all that was published, unless an error is queued behind it.
CountOk(s) ==
  LET ahead == Len(got[s]) + Len(queue[s]) IN
  Live(s) =>
    /\ Early(s) => ahead = IF producer[s] = "fragment" THEN produced[s] - 1 ELSE produced[s]
    /\ producer[s] = "closing" =>
         ahead = produced[s] \/ (queue[s] # <<>> /\ queue[s][Len(queue[s])] = Error)
    /\ \A i \in 1..Len(queue[s]) : queue[s][i] = Done =>
         Len(got[s]) + i - 1 = produced[s] \/ (i # 1 /\ queue[s][i - 1] = Error)

\* What the caller has.
GotOk(s) ==
  /\ \A i \in 1..Len(got[s]) : got[s][i] = <<s, i>>
  /\ consumer[s] = "complete" => producer[s] = "ended" /\ Len(got[s]) = produced[s]

StreamOk(s) == ProducerOk(s) /\ QueueOk(s) /\ CountOk(s) /\ GotOk(s)
StreamsInv == StreamTypes /\ \A s \in Streams : StreamOk(s)

-----------------------------------------------------------------------------
(***************************************************************************)
(* What a step of one stream touches.                                      *)
(***************************************************************************)
StreamStep(s) ==
  Astream(s) \/ Produce(s) \/ Receive(s) \/ Ask(s) \/ Leave(s) \/ LoopClosed(s)

\* The invariant reads nothing of stream u that a step has changed.
SameStream(u) ==
  /\ producer'[u] = producer[u] /\ consumer'[u] = consumer[u] /\ produced'[u] = produced[u]
  /\ value'[u] = value[u] /\ prompt'[u] = prompt[u]
  /\ queue'[u] = queue[u] /\ got'[u] = got[u]
  /\ (lock' = u) = (lock = u) /\ (u \in cancelled') = (u \in cancelled)

\* Calls of the model other than streams leave the streams alone: they begin
\* while no stream holds the lock, which none takes until they return
\* (KernelLoomModel.load, warmup, close, clear_caches, embed_many,
\* count_tokens).
LEMMA CallsApart ==
  ASSUME Load \/ Warmup \/ Close \/ ClearCaches \/ EmbedMany \/ Embedding \/ CountTokens
  PROVE  UNCHANGED streamVars
<1>1. Load => Begun
  BY DEF Load, Called
<1>2. Warmup => Begun
  BY DEF Warmup, Called
<1>3. Close => Begun
  BY DEF Close, Called
<1>4. ClearCaches => Begun
  BY DEF ClearCaches, Called
<1>5. EmbedMany => Begun
  BY DEF EmbedMany
<1>6. CountTokens => Begun
  BY DEF CountTokens, Called
<1>7. Begun => UNCHANGED streamVars
  BY DEF Begun
<1>8. Embedding => UNCHANGED streamVars
  BY DEF Embedding, LookUp, EmbedUncached, CacheNext, EmbedReturn
<1> QED
  BY <1>1, <1>2, <1>3, <1>4, <1>5, <1>6, <1>7, <1>8

\* A stream that no step touches keeps what holds of it.
LEMMA StreamKept ==
  ASSUME NEW u, SameStream(u), StreamOk(u)
  PROVE  StreamOk(u)'
<1>1. ProducerOk(u)'
  BY DEF SameStream, StreamOk, ProducerOk
<1>2. QueueOk(u)'
  BY DEF SameStream, StreamOk, QueueOk, Early
<1>3. CountOk(u)'
  BY DEF SameStream, StreamOk, CountOk, Early, Live
<1>4. GotOk(u)'
  BY DEF SameStream, StreamOk, GotOk
<1> QED
  BY <1>1, <1>2, <1>3, <1>4 DEF StreamOk

\* Only the stream whose step it is is touched; the lock passes between that
\* stream and nobody (astream, stream).
LEMMA OthersKept ==
  ASSUME StreamTypes, NEW s \in Streams, StreamStep(s), StreamOk(s),
         NEW u \in Streams, u # s
  PROVE  SameStream(u)
<1> USE DEF SameStream, StreamTypes, Goto, Publish
<1>0. None # u /\ None # s
  BY ModelAssumption
<1>1. CASE Astream(s) BY <1>1 DEF Astream
<1>2. CASE Capture(s) BY <1>2 DEF Capture
<1>3. CASE Enter(s)
  <2>1. (lock' = s \/ lock' = lock) /\ lock = None
    BY <1>3 DEF Enter, Free
  <2> QED
    BY <1>0, <1>3, <2>1 DEF Enter
<1>4. CASE Native(s)
  <2>1. lock = s
    BY <1>4 DEF Native, StreamOk, ProducerOk
  <2> QED
    BY <1>0, <1>4, <2>1 DEF Native
<1>5. CASE PassOn(s)
  <2>1. lock = s
    BY <1>5 DEF PassOn, StreamOk, ProducerOk
  <2> QED
    BY <1>0, <1>5, <2>1 DEF PassOn
<1>6. CASE PublishError(s) BY <1>6 DEF PublishError
<1>7. CASE PublishDone(s) BY <1>7 DEF PublishDone
<1>8. CASE Receive(s) BY <1>8 DEF Receive
<1>9. CASE Ask(s) BY <1>9 DEF Ask
<1>10. CASE Leave(s) BY <1>10 DEF Leave
<1>11. CASE LoopClosed(s) BY <1>11 DEF LoopClosed
<1> QED
  BY <1>1, <1>2, <1>3, <1>4, <1>5, <1>6, <1>7, <1>8, <1>9, <1>10, <1>11
     DEF StreamStep, Produce

-----------------------------------------------------------------------------
(***************************************************************************)
(* Types.                                                                  *)
(***************************************************************************)
\* What the queue of a stream holds has its type after a fragment, an error or
\* the end is published (publish).
LEMMA Publishes ==
  ASSUME StreamTypes, NEW s \in Streams, NEW item \in Items(s), Publish(s, item)
  PROVE  /\ DOMAIN queue' = Streams
         /\ queue'[s] = IF consumer[s] = "gone" THEN queue[s] ELSE Append(queue[s], item)
         /\ \A u \in Streams : queue'[u] \in Seq(Items(u))
<1>1. queue[s] \in Seq(Items(s)) /\ DOMAIN queue = Streams
  BY DEF StreamTypes
<1>2. Append(queue[s], item) \in Seq(Items(s))
  BY <1>1
<1>3. queue'[s] = IF consumer[s] = "gone" THEN queue[s] ELSE Append(queue[s], item)
  BY <1>1 DEF Publish
<1>4. \A u \in Streams : u # s => queue'[u] = queue[u]
  BY <1>1 DEF Publish
<1> QED
  BY <1>1, <1>2, <1>3, <1>4 DEF Publish, StreamTypes

\* A step of a stream keeps the types.
LEMMA TypesNext ==
  ASSUME StreamTypes, NEW s \in Streams, StreamStep(s)
  PROVE  StreamTypes'
<1> USE DEF Goto, Producers, Consumers
<1>1. CASE Astream(s) BY <1>1 DEF Astream, StreamTypes
<1>2. CASE Capture(s) BY <1>2 DEF Capture, StreamTypes
<1>3. CASE Enter(s) BY <1>3 DEF Enter, StreamTypes
<1>4. CASE Native(s)
  <2>1. produced' \in [Streams -> Nat] /\ producer' \in [Streams -> Producers]
        /\ lock' \in Streams \cup {None}
    BY <1>4 DEF Native, StreamTypes
  <2> QED
    BY <1>4, <2>1 DEF Native, StreamTypes
<1>5. CASE PassOn(s)
  <2>1. Fragment(s, produced[s]) \in Items(s)
    BY DEF StreamTypes, Items, Fragments
  <2>2. DOMAIN queue' = Streams /\ \A u \in Streams : queue'[u] \in Seq(Items(u))
    <3>1. CASE queue' = queue
      BY <3>1 DEF StreamTypes
    <3>2. CASE Publish(s, Fragment(s, produced[s]))
      BY <2>1, <3>2, Publishes
    <3> QED
      BY <1>5, <3>1, <3>2 DEF PassOn
  <2>3. producer' \in [Streams -> Producers] /\ lock' \in Streams \cup {None}
    BY <1>5 DEF PassOn, StreamTypes
  <2> QED
    BY <1>5, <2>2, <2>3 DEF PassOn, StreamTypes
<1>6. CASE PublishError(s) \/ PublishDone(s)
  <2>1. Error \in Items(s) /\ Done \in Items(s)
    BY DEF Items
  <2>2. DOMAIN queue' = Streams /\ \A u \in Streams : queue'[u] \in Seq(Items(u))
    BY <1>6, <2>1, Publishes DEF PublishError, PublishDone
  <2> QED
    BY <1>6, <2>2 DEF PublishError, PublishDone, StreamTypes
<1>7. CASE Receive(s)
  <2>1. queue[s] \in Seq(Items(s)) /\ queue[s] # <<>> /\ got[s] \in Seq({<<s, n>> : n \in Nat})
    BY <1>7 DEF Receive, StreamTypes
  <2>2. Tail(queue[s]) \in Seq(Items(s)) /\ Head(queue[s]) \in Items(s)
    BY <2>1
  <2>3. DOMAIN queue' = Streams /\ \A u \in Streams : queue'[u] \in Seq(Items(u))
    BY <1>7, <2>2 DEF Receive, StreamTypes
  <2>4. Head(queue[s])[1] = "token" => Head(queue[s])[2] \in {<<s, n>> : n \in Nat}
    BY <2>2 DEF Items, Fragments, Fragment, Done, Error
  <2>5. DOMAIN got' = Streams /\ \A u \in Streams : got'[u] \in Seq({<<u, n>> : n \in Nat})
    <3>1. CASE got' = got
      BY <3>1 DEF StreamTypes
    <3>2. CASE /\ Head(queue[s])[1] = "token"
               /\ got' = [got EXCEPT ![s] = Append(@, Head(queue[s])[2])]
      <4>1. Append(got[s], Head(queue[s])[2]) \in Seq({<<s, n>> : n \in Nat})
        BY <2>1, <2>4, <3>2
      <4> QED
        BY <3>2, <4>1 DEF StreamTypes
    <3> QED
      BY <1>7, <3>1, <3>2 DEF Receive
  <2>6. /\ consumer' \in [Streams -> Consumers] /\ cancelled' \subseteq Streams
        /\ DOMAIN value' = Streams
    BY <1>7 DEF Receive, StreamTypes
  <2> QED
    BY <1>7, <2>3, <2>5, <2>6 DEF Receive, StreamTypes
<1>8. CASE Ask(s) BY <1>8 DEF Ask, StreamTypes
<1>9. CASE Leave(s) BY <1>9 DEF Leave, StreamTypes
<1>10. CASE LoopClosed(s)
  <2>1. DOMAIN queue' = Streams /\ \A u \in Streams : queue'[u] \in Seq(Items(u))
    <3>1. DOMAIN queue = Streams /\ queue' = [queue EXCEPT ![s] = <<>>]
      BY <1>10 DEF LoopClosed, StreamTypes
    <3>2. <<>> \in Seq(Items(s))
      OBVIOUS
    <3>3. \A u \in Streams : u # s => queue'[u] = queue[u]
      BY <3>1
    <3>4. queue'[s] = <<>>
      BY <3>1
    <3> QED
      BY <3>1, <3>2, <3>3, <3>4 DEF StreamTypes
  <2> QED
    BY <1>10, <2>1 DEF LoopClosed, StreamTypes
<1> QED
  BY <1>1, <1>2, <1>3, <1>4, <1>5, <1>6, <1>7, <1>8, <1>9, <1>10 DEF StreamStep, Produce

-----------------------------------------------------------------------------
(***************************************************************************)
(* The items that are queued.                                              *)
(***************************************************************************)
\* An item is a fragment, the end or an error, and can be told from the others.
LEMMA ItemKinds ==
  ASSUME NEW s
  PROVE  /\ Done # Error /\ Done[1] # "token" /\ Error[1] # "token"
         /\ \A n : Fragment(s, n)[1] = "token" /\ Fragment(s, n)[2] = <<s, n>>
         /\ \A n : Fragment(s, n) # Done /\ Fragment(s, n) # Error
         /\ \A item \in Items(s) : item[1] = "token" \/ item = Done \/ item = Error
         /\ Done[1] = "done" /\ Error[1] = "error"
BY DEF Done, Error, Fragment, Items, Fragments

\* A sequence with an element appended.
LEMMA Appended ==
  ASSUME NEW S, NEW q \in Seq(S), NEW item \in S
  PROVE  /\ Len(q) \in Nat /\ Len(Append(q, item)) = Len(q) + 1
         /\ Append(q, item)[Len(q) + 1] = item
         /\ \A i \in 1..Len(q) : Append(q, item)[i] = q[i]
BY AppendProperties, LenProperties

\* A step that leaves what is queued and what the caller has in place, and is
\* not an end of the thread's loop, keeps the order of the items.
LEMMA QueueKept ==
  ASSUME NEW s, QueueOk(s), queue'[s] = queue[s], got'[s] = got[s],
         Early(s)' => Early(s), (producer[s] # "ended")' => producer[s] # "ended"
  PROVE  QueueOk(s)'
BY DEF QueueOk

\* A fragment that follows all that was queued before (publish).
LEMMA QueueFragment ==
  ASSUME StreamTypes, NEW s \in Streams, QueueOk(s), producer[s] = "fragment",
         got'[s] = got[s], NEW n \in Nat, n = Len(got[s]) + (Len(queue[s]) + 1),
         queue'[s] = Append(queue[s], Fragment(s, n)), producer'[s] = "native"
  PROVE  QueueOk(s)'
<1>1. PICK q \in Seq(Items(s)) : q = queue[s]
  BY DEF StreamTypes
<1>2. PICK g \in Nat : g = Len(got[s])
  <2>1. got[s] \in Seq({<<s, k>> : k \in Nat})
    BY DEF StreamTypes
  <2> QED
    BY <2>1, LenProperties
<1>3. PICK f : f = Fragment(s, n)
  OBVIOUS
<1>4. PICK l \in Nat : l = Len(q)
  OBVIOUS
<1>5. /\ \A i \in 1..l : q[i][1] = "token" => \A j \in 1..i : q[j] = Fragment(s, g + j)
      /\ \A i \in 1..l : q[i][1] = "token" /\ q[i] # Done
  BY <1>1, <1>2, <1>4 DEF QueueOk, Early
<1>6. f \in Items(s) /\ f[1] = "token" /\ f # Done
  BY <1>3, ItemKinds DEF Items, Fragments
<1>7. /\ Len(queue'[s]) = l + 1 /\ queue'[s][l + 1] = f
      /\ \A i \in 1..l : queue'[s][i] = q[i]
  <2>1. queue'[s] = Append(q, f) /\ Len(q) = l
    BY <1>1, <1>3, <1>4
  <2>2. /\ Len(q) \in Nat /\ Len(Append(q, f)) = Len(q) + 1
        /\ Append(q, f)[Len(q) + 1] = f
        /\ \A i \in 1..Len(q) : Append(q, f)[i] = q[i]
    <3>1. f \in Items(s) /\ q \in Seq(Items(s))
      BY <1>1, <1>6
    <3> QED
      BY <3>1, Appended
  <2> QED
    BY <2>1, <2>2
<1>8. n = g + (l + 1)
  BY <1>1, <1>2, <1>4
<1>9. \A j \in 1..l : q[j] = Fragment(s, g + j)
  BY <1>5
<1>10. \A j \in 1..(l + 1) : j \in 1..l \/ j = l + 1
  OBVIOUS
<1>11. \A j \in 1..(l + 1) : queue'[s][j] = Fragment(s, g + j)
  BY <1>3, <1>7, <1>8, <1>9, <1>10
<1>12. \A i \in 1..(l + 1) : queue'[s][i][1] = "token" /\ queue'[s][i] # Done
  BY <1>5, <1>6, <1>7, <1>10
<1>13. \A i \in 1..(l + 1) : \A j \in 1..i : j \in 1..(l + 1)
  OBVIOUS
<1> QED
  BY <1>2, <1>7, <1>11, <1>12, <1>13 DEF QueueOk

\* An error or the end follows what was queued before (publish).
LEMMA QueueEnd ==
  ASSUME StreamTypes, NEW s \in Streams, QueueOk(s), producer[s] # "ended",
         got'[s] = got[s], NEW item, item = Error \/ item = Done,
         queue'[s] = Append(queue[s], item),
         producer'[s] = IF item = Done THEN "ended" ELSE "closing"
  PROVE  QueueOk(s)'
<1>1. PICK q \in Seq(Items(s)) : q = queue[s]
  BY DEF StreamTypes
<1>2. PICK g \in Nat : g = Len(got[s])
  <2>1. got[s] \in Seq({<<s, k>> : k \in Nat})
    BY DEF StreamTypes
  <2> QED
    BY <2>1, LenProperties
<1>3. PICK l \in Nat : l = Len(q)
  OBVIOUS
<1>4. /\ \A i \in 1..l : q[i][1] = "token" => \A j \in 1..i : q[j] = Fragment(s, g + j)
      /\ \A i \in 1..l : q[i] # Done
  BY <1>1, <1>2, <1>3 DEF QueueOk
<1>5. item \in Items(s) /\ item[1] # "token"
  BY ItemKinds DEF Items
<1>6. /\ Len(queue'[s]) = l + 1 /\ queue'[s][l + 1] = item
      /\ \A i \in 1..l : queue'[s][i] = q[i]
  <2>1. queue'[s] = Append(q, item) /\ Len(q) = l
    BY <1>1, <1>3
  <2> QED
    BY <1>5, <2>1, AppendProperties
<1>7. \A i \in 1..(l + 1) : i \in 1..l \/ i = l + 1
  OBVIOUS
<1>8. \A i \in 1..l : \A j \in 1..i : j \in 1..l
  OBVIOUS
<1>9. \A i \in 1..(l + 1) : queue'[s][i][1] = "token" =>
        \A j \in 1..i : queue'[s][j] = Fragment(s, g + j)
  BY <1>4, <1>5, <1>6, <1>7, <1>8
<1>10. ~Early(s)'
  BY DEF Early
<1>11. producer'[s] # "ended" => \A i \in 1..(l + 1) : queue'[s][i] # Done
  BY <1>4, <1>6, <1>7
<1> QED
  BY <1>2, <1>6, <1>9, <1>10, <1>11 DEF QueueOk

-----------------------------------------------------------------------------
(***************************************************************************)
(* The coroutine receives.                                                 *)
(***************************************************************************)
\* What is left of a sequence without its head.
LEMMA Rest ==
  ASSUME NEW S, NEW q \in Seq(S), q # <<>>
  PROVE  /\ Len(q) \in Nat /\ Len(q) >= 1 /\ Len(Tail(q)) = Len(q) - 1
         /\ Head(q) = q[1] /\ q[1] \in S
         /\ \A i \in 1..(Len(q) - 1) : Tail(q)[i] = q[i + 1]
BY HeadTailProperties, LenProperties, EmptySeq, ElementOfSeq

\* The caller receives the fragment that comes next (astream).
LEMMA ReceivesFragment ==
  ASSUME StreamTypes, NEW s \in Streams, StreamOk(s), Receive(s),
         Head(queue[s])[1] = "token"
  PROVE  StreamOk(s)'
<1>1. PICK q \in Seq(Items(s)) : q = queue[s]
  BY DEF StreamTypes
<1>2. PICK have \in Seq({<<s, k>> : k \in Nat}) : have = got[s]
  BY DEF StreamTypes
<1>3. PICK g \in Nat : g = Len(have)
  BY <1>2, LenProperties
<1>4. PICK l \in Nat : l = Len(q)
  BY <1>1, LenProperties
<1>5. PICK p \in Nat : p = produced[s]
  BY DEF StreamTypes
<1>6. /\ q # <<>> /\ consumer[s] = "waiting" /\ l >= 1 /\ Len(Tail(q)) = l - 1
      /\ Head(q) = q[1] /\ \A i \in 1..(l - 1) : Tail(q)[i] = q[i + 1]
  <2>1. q # <<>> /\ consumer[s] = "waiting"
    BY <1>1 DEF Receive
  <2> QED
    BY <1>1, <1>4, <2>1, Rest
<1>7. /\ \A i \in 1..l : q[i][1] = "token" => \A j \in 1..i : q[j] = Fragment(s, g + j)
      /\ Early(s) => \A i \in 1..l : q[i][1] = "token"
      /\ producer[s] # "ended" => \A i \in 1..l : q[i] # Done
  BY <1>1, <1>2, <1>3, <1>4 DEF StreamOk, QueueOk
<1>8. q[1] = Fragment(s, g + 1)
  <2>1. 1 \in 1..l /\ 1 \in 1..1
    BY <1>4, <1>6
  <2> QED
    BY <1>1, <1>6, <1>7, <2>1
<1>9. Head(q)[2] = <<s, g + 1>> /\ Head(q)[1] = "token" /\ q[1] # Error
  BY <1>6, <1>8, ItemKinds
<1>10. /\ queue'[s] = Tail(q) /\ got'[s] = Append(have, <<s, g + 1>>)
       /\ consumer'[s] = "yielded" /\ producer'[s] = producer[s] /\ produced'[s] = p
       /\ prompt'[s] = prompt[s] /\ cancelled' = cancelled /\ lock' = lock
  BY <1>1, <1>2, <1>5, <1>9 DEF Receive, StreamTypes
<1>11. /\ Len(got'[s]) = g + 1 /\ got'[s][g + 1] = <<s, g + 1>>
       /\ \A i \in 1..g : got'[s][i] = have[i]
  <2>1. <<s, g + 1>> \in {<<s, k>> : k \in Nat}
    BY <1>3
  <2>2. /\ Len(Append(have, <<s, g + 1>>)) = Len(have) + 1
        /\ Append(have, <<s, g + 1>>)[Len(have) + 1] = <<s, g + 1>>
        /\ \A i \in 1..Len(have) : Append(have, <<s, g + 1>>)[i] = have[i]
    BY <1>2, <2>1, Appended
  <2> QED
    BY <1>3, <1>10, <2>2
<1>12. ProducerOk(s)'
  <2>1. queue[s] # <<>>
    BY <1>1, <1>6
  <2>2. producer[s] \notin {"none", "born"}
    BY <2>1 DEF StreamOk, ProducerOk
  <2> QED
    BY <1>5, <1>6, <1>10, <2>2 DEF StreamOk, ProducerOk
<1>13. QueueOk(s)'
  <2>1. \A i \in 1..(l - 1) : i + 1 \in 1..l /\ \A j \in 1..i : j + 1 \in 1..(i + 1) /\ j \in 1..(l - 1)
    BY <1>4
  <2>2. \A j \in 1..(l - 1) : g + (j + 1) = g + 1 + j
    BY <1>3, <1>4
  <2>3. \A i \in 1..(l - 1) : Tail(q)[i][1] = "token" =>
          \A j \in 1..i : Tail(q)[j] = Fragment(s, g + 1 + j)
    BY <1>6, <1>7, <2>1, <2>2
  <2>4. Early(s)' => \A i \in 1..(l - 1) : Tail(q)[i][1] = "token"
    BY <1>6, <1>7, <1>10, <2>1 DEF Early
  <2>5. producer'[s] # "ended" => \A i \in 1..(l - 1) : Tail(q)[i] # Done
    BY <1>6, <1>7, <1>10, <2>1
  <2> QED
    BY <1>6, <1>10, <1>11, <2>3, <2>4, <2>5 DEF QueueOk
<1>14. CountOk(s)'
  <2>1. /\ Early(s) => g + l = IF producer[s] = "fragment" THEN p - 1 ELSE p
        /\ producer[s] = "closing" => g + l = p \/ q[l] = Error
        /\ \A i \in 1..l : q[i] = Done => g + i - 1 = p \/ (i # 1 /\ q[i - 1] = Error)
    BY <1>1, <1>2, <1>3, <1>4, <1>5, <1>6 DEF StreamOk, CountOk, Live
  <2>2. g + 1 + (l - 1) = g + l
    BY <1>3, <1>4
  <2>3. Early(s)' => g + 1 + (l - 1) = IF producer'[s] = "fragment" THEN p - 1 ELSE p
    BY <1>10, <2>1, <2>2 DEF Early
  <2>4. producer'[s] = "closing" =>
          g + 1 + (l - 1) = p \/ (Tail(q) # <<>> /\ Tail(q)[l - 1] = Error)
    <3>1. ASSUME q[l] = Error PROVE Tail(q) # <<>> /\ Tail(q)[l - 1] = Error
      <4>1. l # 1
        BY <1>9, <3>1
      <4>2. l - 1 \in 1..(l - 1) /\ l - 1 + 1 = l /\ l - 1 # 0
        BY <1>4, <1>6, <4>1
      <4>3. Tail(q) # <<>>
        BY <1>6, <4>2
      <4> QED
        BY <1>6, <3>1, <4>2, <4>3
    <3> QED
      BY <1>10, <2>1, <2>2, <3>1
  <2>5. \A i \in 1..(l - 1) : Tail(q)[i] = Done =>
          g + 1 + i - 1 = p \/ (i # 1 /\ Tail(q)[i - 1] = Error)
    <3> SUFFICES ASSUME NEW i \in 1..(l - 1), Tail(q)[i] = Done
                 PROVE  g + 1 + i - 1 = p \/ (i # 1 /\ Tail(q)[i - 1] = Error)
      OBVIOUS
    <3>1. i + 1 \in 1..l /\ i + 1 - 1 = i /\ g + (i + 1) - 1 = g + 1 + i - 1 /\ i \in Nat
      BY <1>3, <1>4
    <3>2. g + 1 + i - 1 = p \/ q[i] = Error
      BY <1>6, <2>1, <3>1
    <3>3. q[i] = Error => i # 1
      BY <1>9
    <3>4. i # 1 => i - 1 \in 1..(l - 1) /\ i - 1 + 1 = i
      BY <1>4, <3>1
    <3> QED
      BY <1>6, <3>2, <3>3, <3>4
  <2> QED
    BY <1>6, <1>10, <1>11, <2>3, <2>4, <2>5 DEF CountOk
<1>15. GotOk(s)'
  <2>1. \A i \in 1..g : have[i] = <<s, i>>
    BY <1>2, <1>3 DEF StreamOk, GotOk
  <2>2. \A i \in 1..(g + 1) : i \in 1..g \/ i = g + 1
    BY <1>3
  <2>3. \A i \in 1..(g + 1) : got'[s][i] = <<s, i>>
    BY <1>11, <2>1, <2>2
  <2> QED
    BY <1>10, <1>11, <2>3 DEF GotOk
<1> QED
  BY <1>12, <1>13, <1>14, <1>15 DEF StreamOk

\* The caller receives the end or an error: what it has is then complete, or
\* it has left (astream).
LEMMA ReceivesEnd ==
  ASSUME StreamTypes, NEW s \in Streams, StreamOk(s), Receive(s),
         Head(queue[s])[1] # "token"
  PROVE  StreamOk(s)'
<1>1. PICK q \in Seq(Items(s)) : q = queue[s]
  BY DEF StreamTypes
<1>2. PICK l \in Nat : l = Len(q)
  BY <1>1, LenProperties
<1>3. /\ q # <<>> /\ consumer[s] = "waiting" /\ l >= 1 /\ Len(Tail(q)) = l - 1
      /\ Head(q) = q[1] /\ q[1] \in Items(s) /\ \A i \in 1..(l - 1) : Tail(q)[i] = q[i + 1]
  <2>1. q # <<>> /\ consumer[s] = "waiting"
    BY <1>1 DEF Receive
  <2> QED
    BY <1>1, <1>2, <2>1, Rest
<1>4. /\ \A i \in 1..l : q[i][1] = "token" => \A j \in 1..i : q[j] = Fragment(s, Len(got[s]) + j)
      /\ Early(s) => \A i \in 1..l : q[i][1] = "token"
      /\ producer[s] # "ended" => \A i \in 1..l : q[i] # Done
  BY <1>1, <1>2 DEF StreamOk, QueueOk
<1>5. q[1][1] # "token" /\ (q[1] = Done \/ q[1] = Error)
  BY <1>1, <1>3, ItemKinds
<1>6. 1 \in 1..l
  BY <1>2, <1>3
<1>7. /\ queue'[s] = Tail(q) /\ got' = got /\ cancelled' = cancelled \cup {s}
      /\ consumer'[s] = IF q[1][1] = "done" THEN "complete" ELSE "left"
      /\ producer' = producer /\ produced' = produced /\ prompt' = prompt /\ lock' = lock
  BY <1>1, <1>3, <1>5 DEF Receive, StreamTypes
<1>8. ~Early(s)
  BY <1>4, <1>5, <1>6
<1>9. \A i \in 1..l : q[i][1] # "token"
  <2>1. \A i \in 1..l : 1 \in 1..i
    BY <1>2
  <2> QED
    BY <1>4, <1>5, <2>1, ItemKinds
<1>10. \A i \in 1..(l - 1) : i + 1 \in 1..l
  BY <1>2
<1>11. ProducerOk(s)'
  <2>1. producer[s] \notin {"none", "born"}
    BY <1>8 DEF Early
  <2>2. consumer'[s] \in {"complete", "left"}
    BY <1>7
  <2> QED
    BY <1>3, <1>7, <2>1, <2>2 DEF StreamOk, ProducerOk
<1>12. QueueOk(s)'
  <2>1. \A i \in 1..(l - 1) : Tail(q)[i][1] # "token"
    BY <1>3, <1>9, <1>10
  <2>2. ~Early(s)'
    BY <1>7, <1>8 DEF Early
  <2>3. producer'[s] # "ended" => \A i \in 1..(l - 1) : Tail(q)[i] # Done
    BY <1>3, <1>4, <1>7, <1>10
  <2> QED
    BY <1>3, <1>7, <2>1, <2>2, <2>3 DEF QueueOk
<1>13. CountOk(s)'
  BY <1>7 DEF CountOk, Live
<1>14. GotOk(s)'
  <2>1. CASE q[1] = Done
    <3>1. producer[s] = "ended"
      BY <1>4, <1>6, <2>1
    <3>2. Len(got[s]) + 1 - 1 = produced[s]
      BY <1>1, <1>2, <1>3, <1>6, <2>1 DEF StreamOk, CountOk, Live
    <3>3. Len(got[s]) \in Nat /\ produced[s] \in Nat
      <4>1. got[s] \in Seq({<<s, k>> : k \in Nat}) /\ produced[s] \in Nat
        BY DEF StreamTypes
      <4> QED
        BY <4>1, LenProperties
    <3>4. Len(got[s]) = produced[s]
      BY <3>2, <3>3
    <3> QED
      BY <1>7, <3>1, <3>4 DEF StreamOk, GotOk
  <2>2. CASE q[1] = Error
    <3>1. consumer'[s] = "left"
      BY <1>7, <2>2, ItemKinds
    <3> QED
      BY <1>7, <3>1 DEF StreamOk, GotOk
  <2> QED
    BY <1>5, <2>1, <2>2
<1> QED
  BY <1>11, <1>12, <1>13, <1>14 DEF StreamOk

-----------------------------------------------------------------------------
(***************************************************************************)
(* Every step.                                                             *)
(***************************************************************************)
\* The thread passes a fragment on, or finds the event set (astream's thread).
LEMMA PassesOn ==
  ASSUME StreamTypes, NEW s \in Streams, StreamOk(s), PassOn(s)
  PROVE  StreamOk(s)'
<1>1. /\ producer[s] = "fragment" /\ got' = got /\ consumer' = consumer
      /\ produced' = produced /\ prompt' = prompt /\ cancelled' = cancelled /\ lock = s
      /\ produced[s] \in Nat /\ produced[s] # 0 /\ consumer[s] # "new" /\ prompt[s] = s
  BY DEF PassOn, StreamTypes, StreamOk, ProducerOk
<1>2. GotOk(s)'
  <2>1. consumer[s] # "complete"
    BY <1>1 DEF StreamOk, GotOk
  <2> QED
    BY <1>1, <2>1 DEF StreamOk, GotOk
<1>3. CASE s \in cancelled
  <2>1. lock' = None /\ producer'[s] = "closing" /\ queue' = queue
    BY <1>3 DEF PassOn, Goto, StreamTypes
  <2>2. consumer[s] \in {"complete", "left"}
    BY <1>3 DEF StreamOk, ProducerOk
  <2>3. CountOk(s)'
    BY <1>1, <2>2 DEF CountOk, Live
  <2>4. QueueOk(s)'
    <3>1. ~Early(s)'
      BY <2>1 DEF Early
    <3> QED
      BY <1>1, <2>1, <3>1, QueueKept DEF StreamOk
  <2>5. None # s
    BY ModelAssumption
  <2>6. ProducerOk(s)'
    BY <1>1, <1>3, <2>1, <2>2, <2>5 DEF ProducerOk
  <2> QED
    BY <1>2, <2>3, <2>4, <2>6 DEF StreamOk
<1>4. CASE s \notin cancelled
  <2>1. lock' = lock /\ producer'[s] = "native" /\ Publish(s, Fragment(s, produced[s]))
    BY <1>4 DEF PassOn, Goto, StreamTypes
  <2>2. consumer[s] \in {"waiting", "yielded", "gone"}
    BY <1>1, <1>4 DEF StreamOk, ProducerOk, StreamTypes, Consumers
  <2>3. ProducerOk(s)'
    BY <1>1, <1>4, <2>1, <2>2 DEF ProducerOk
  <2>4. CASE consumer[s] = "gone"
    <3>1. queue'[s] = queue[s]
      BY <2>1, <2>4 DEF Publish, StreamTypes
    <3>2. Early(s)
      BY <1>1 DEF Early
    <3>3. QueueOk(s)'
      BY <1>1, <3>1, <3>2, QueueKept DEF StreamOk
    <3>4. CountOk(s)'
      BY <1>1, <2>4 DEF CountOk, Live
    <3> QED
      BY <1>2, <2>3, <3>3, <3>4 DEF StreamOk
  <2>5. CASE consumer[s] # "gone"
    <3>1. Fragment(s, produced[s]) \in Items(s) /\ queue[s] \in Seq(Items(s))
      BY <1>1 DEF Items, Fragments, StreamTypes
    <3>2. queue'[s] = Append(queue[s], Fragment(s, produced[s]))
      BY <2>1, <2>5, <3>1, Publishes
    <3>3. Early(s) /\ Live(s)
      BY <1>1, <2>2, <2>5 DEF Early, Live
    <3>4. Len(got[s]) + Len(queue[s]) = produced[s] - 1
      BY <1>1, <3>3 DEF StreamOk, CountOk
    <3>5. Len(got[s]) \in Nat /\ Len(queue[s]) \in Nat
      <4>1. got[s] \in Seq({<<s, k>> : k \in Nat})
        BY DEF StreamTypes
      <4> QED
        BY <3>1, <4>1, LenProperties
    <3>6. produced[s] = Len(got[s]) + (Len(queue[s]) + 1)
      <4>1. PICK g \in Nat, l \in Nat, p \in Nat :
              g = Len(got[s]) /\ l = Len(queue[s]) /\ p = produced[s]
        BY <1>1, <3>5
      <4>2. g + l = p - 1
        BY <3>4, <4>1
      <4>3. p = g + (l + 1)
        <5>1. \A a, b, c \in Nat : a + b = c - 1 => c = a + (b + 1)
          OBVIOUS
        <5> QED
          BY <4>1, <4>2, <5>1
      <4> QED
        BY <4>1, <4>3
    <3>7. QueueOk(s)'
      <4>1. PICK n \in Nat : n = produced[s]
        BY <1>1
      <4>2. queue'[s] = Append(queue[s], Fragment(s, n))
        BY <3>2, <4>1
      <4>3. n = Len(got[s]) + (Len(queue[s]) + 1)
        BY <3>6, <4>1
      <4>4. QueueOk(s) /\ got'[s] = got[s]
        BY <1>1 DEF StreamOk
      <4> QED
        BY <1>1, <2>1, <4>2, <4>3, <4>4, QueueFragment
    <3>8. /\ Len(queue'[s]) = Len(queue[s]) + 1
          /\ \A i \in 1..Len(queue'[s]) : queue'[s][i] # Done
      <4>1. Len(queue'[s]) = Len(queue[s]) + 1
        <5>1. Len(Append(queue[s], Fragment(s, produced[s]))) = Len(queue[s]) + 1
          BY <3>1, Appended
        <5> QED
          BY <3>2, <5>1
      <4>2. producer'[s] # "ended"
        BY <2>1
      <4> QED
        BY <3>7, <4>1, <4>2 DEF QueueOk
    <3>9. CountOk(s)'
      BY <1>1, <2>1, <3>5, <3>6, <3>8 DEF CountOk
    <3> QED
      BY <1>2, <2>3, <3>7, <3>9 DEF StreamOk
  <2> QED
    BY <2>4, <2>5
<1> QED
  BY <1>3, <1>4

\* The thread publishes an error and then, in any case, the end.
LEMMA PublishesEnd ==
  ASSUME StreamTypes, NEW s \in Streams, StreamOk(s), PublishError(s) \/ PublishDone(s)
  PROVE  StreamOk(s)'
<1>1. /\ producer[s] \in {"failed", "closing"} /\ got' = got /\ consumer' = consumer
      /\ produced' = produced /\ prompt' = prompt /\ cancelled' = cancelled /\ lock' = lock
      /\ consumer[s] # "new" /\ prompt[s] = s /\ lock # s /\ produced[s] \in Nat
  BY DEF PublishError, PublishDone, StreamOk, ProducerOk, StreamTypes
<1>2. PICK item \in {Error, Done} :
        /\ Publish(s, item) /\ producer'[s] = IF item = Done THEN "ended" ELSE "closing"
        /\ item = Done <=> producer[s] = "closing"
  <2>1. CASE PublishError(s)
    BY <2>1, ItemKinds DEF PublishError, Goto, StreamTypes
  <2>2. CASE PublishDone(s)
    BY <2>2, ItemKinds DEF PublishDone, Goto, StreamTypes
  <2> QED
    BY <2>1, <2>2
<1>3. item \in Items(s) /\ queue[s] \in Seq(Items(s))
  BY <1>2 DEF Items, StreamTypes
<1>4. GotOk(s)'
  <2>1. consumer[s] # "complete"
    BY <1>1 DEF StreamOk, GotOk
  <2> QED
    BY <1>1, <2>1 DEF StreamOk, GotOk
<1>5. ProducerOk(s)'
  BY <1>1, <1>2 DEF StreamOk, ProducerOk
<1>6. ~Early(s)'
  BY <1>2 DEF Early
<1>7. CASE consumer[s] = "gone"
  <2>1. queue'[s] = queue[s]
    BY <1>2, <1>3, <1>7, Publishes
  <2>2. QueueOk(s)'
    BY <1>1, <1>6, <2>1, QueueKept DEF StreamOk
  <2>3. CountOk(s)'
    BY <1>1, <1>7 DEF CountOk, Live
  <2> QED
    BY <1>4, <1>5, <2>2, <2>3 DEF StreamOk
<1>8. CASE consumer[s] # "gone"
  <2>1. queue'[s] = Append(queue[s], item)
    BY <1>2, <1>3, <1>8, Publishes
  <2>2. QueueOk(s)'
    <3>1. QueueOk(s) /\ producer[s] # "ended" /\ got'[s] = got[s]
      BY <1>1 DEF StreamOk
    <3> QED
      BY <1>2, <2>1, <3>1, QueueEnd
  <2>3. PICK l \in Nat : l = Len(queue[s])
    BY <1>3, LenProperties
  <2>4. /\ Len(queue'[s]) = l + 1 /\ queue'[s][l + 1] = item
        /\ \A i \in 1..l : queue'[s][i] = queue[s][i]
    <3>1. /\ Len(Append(queue[s], item)) = Len(queue[s]) + 1
          /\ Append(queue[s], item)[Len(queue[s]) + 1] = item
          /\ \A i \in 1..Len(queue[s]) : Append(queue[s], item)[i] = queue[s][i]
      BY <1>3, Appended
    <3> QED
      BY <2>1, <2>3, <3>1
  <2>5. \A i \in 1..l : queue[s][i] # Done
    BY <1>1, <2>3 DEF StreamOk, QueueOk
  <2>6. CountOk(s)'
    <3> SUFFICES ASSUME Live(s)' PROVE CountOk(s)'
      BY DEF CountOk
    <3>1. Live(s)
      BY <1>1 DEF Live
    <3>2. PICK g \in Nat : g = Len(got[s])
      <4>1. got[s] \in Seq({<<s, k>> : k \in Nat})
        BY DEF StreamTypes
      <4> QED
        BY <4>1, LenProperties
    <3>3. producer'[s] = "closing" =>
            queue'[s] # <<>> /\ queue'[s][Len(queue'[s])] = Error
      <4>1. producer'[s] = "closing" => item = Error
        BY <1>2
      <4>2. queue'[s] # <<>>
        BY <2>3, <2>4
      <4> QED
        BY <2>4, <4>1, <4>2
    <3>4. ASSUME item = Done
          PROVE  g + (l + 1) - 1 = produced[s] \/ (l + 1 # 1 /\ queue'[s][l] = Error)
      <4>1. producer[s] = "closing"
        BY <1>2, <3>4
      <4>2. g + l = produced[s] \/ (queue[s] # <<>> /\ queue[s][l] = Error)
        BY <2>3, <3>1, <3>2, <4>1 DEF StreamOk, CountOk
      <4>3. queue[s] # <<>> => l # 0
        BY <1>3, <2>3, EmptySeq
      <4>4. l # 0 => l \in 1..l /\ l + 1 # 1
        BY <2>3
      <4>5. g + (l + 1) - 1 = g + l
        BY <2>3, <3>2
      <4> QED
        BY <2>4, <4>2, <4>3, <4>4, <4>5
    <3>5. \A i \in 1..(l + 1) : queue'[s][i] = Done => i = l + 1 /\ item = Done /\ i - 1 = l
      <4>1. \A i \in 1..(l + 1) : i \in 1..l \/ (i = l + 1 /\ i - 1 = l)
        BY <2>3
      <4> QED
        BY <2>4, <2>5, <4>1
    <3>6. \A i \in 1..(l + 1) : queue'[s][i] = Done =>
            g + i - 1 = produced[s] \/ (i # 1 /\ queue'[s][i - 1] = Error)
      BY <3>4, <3>5
    <3> QED
      BY <1>1, <1>6, <2>4, <3>2, <3>3, <3>6 DEF CountOk
  <2> QED
    BY <1>4, <1>5, <2>2, <2>6 DEF StreamOk
<1> QED
  BY <1>7, <1>8

\* Every step of a stream keeps what holds of it.
LEMMA StreamNext ==
  ASSUME StreamTypes, NEW s \in Streams, StreamOk(s), StreamStep(s)
  PROVE  StreamOk(s)'
<1>0. None # s
  BY ModelAssumption
<1>1. CASE Astream(s)
  <2>1. /\ consumer[s] = "new" /\ producer[s] = "none" /\ queue[s] = <<>>
        /\ consumer'[s] = "waiting" /\ producer'[s] = "born"
    BY <1>1 DEF Astream, Goto, StreamTypes, StreamOk, ProducerOk
  <2>2. /\ lock' = lock /\ value' = value /\ prompt' = prompt /\ produced' = produced
        /\ queue' = queue /\ cancelled' = cancelled /\ got' = got
    BY <1>1 DEF Astream
  <2>3. ProducerOk(s)'
    BY <2>1, <2>2 DEF StreamOk, ProducerOk
  <2>4. QueueOk(s)'
    <3>1. Early(s) /\ producer[s] # "ended"
      BY <2>1 DEF Early
    <3> QED
      BY <2>2, <3>1, QueueKept DEF StreamOk
  <2>5. CountOk(s)'
    BY <2>1, <2>2 DEF StreamOk, CountOk, Early, Live
  <2>6. GotOk(s)'
    BY <2>1, <2>2 DEF StreamOk, GotOk
  <2> QED
    BY <2>3, <2>4, <2>5, <2>6 DEF StreamOk
<1>2. CASE Capture(s) \/ Enter(s)
  <2>1. /\ producer[s] \in {"born", "lock"} /\ consumer[s] # "new"
        /\ producer'[s] \in {"lock", "native", "failed"}
        /\ produced' = produced /\ queue' = queue /\ consumer' = consumer
        /\ cancelled' = cancelled /\ got' = got
    BY <1>2 DEF Capture, Enter, Goto, StreamTypes, StreamOk, ProducerOk
  <2>2. prompt'[s] = s
    BY <1>2 DEF Capture, Enter, StreamTypes, StreamOk, ProducerOk
  <2>3. producer'[s] = "native" <=> lock' = s
    <3>1. lock # s
      BY <2>1 DEF StreamOk, ProducerOk
    <3> QED
      BY <1>0, <1>2, <3>1 DEF Capture, Enter, Goto, StreamTypes
  <2>4. ProducerOk(s)'
    BY <2>1, <2>2, <2>3 DEF StreamOk, ProducerOk
  <2>5. QueueOk(s)'
    <3>1. Early(s) /\ producer[s] # "ended"
      BY <2>1 DEF Early
    <3> QED
      BY <2>1, <3>1, QueueKept DEF StreamOk
  <2>6. CountOk(s)'
    BY <2>1 DEF StreamOk, CountOk, Early, Live
  <2>7. GotOk(s)'
    BY <2>1 DEF StreamOk, GotOk
  <2> QED
    BY <2>4, <2>5, <2>6, <2>7 DEF StreamOk
<1>3. CASE Native(s)
  <2>1. /\ producer[s] = "native" /\ consumer[s] # "new" /\ lock = s /\ prompt[s] = s
        /\ prompt' = prompt /\ queue' = queue /\ consumer' = consumer
        /\ cancelled' = cancelled /\ got' = got /\ produced[s] \in Nat
        /\ consumer[s] # "complete"
    BY <1>3 DEF Native, StreamTypes, StreamOk, ProducerOk, GotOk
  <2>2. \/ /\ producer'[s] = "fragment" /\ produced'[s] = produced[s] + 1 /\ lock' = lock
        \/ /\ producer'[s] \in {"closing", "failed"} /\ produced' = produced /\ lock' = None
    BY <1>3 DEF Native, Goto, StreamTypes
  <2>3. ProducerOk(s)'
    BY <1>0, <2>1, <2>2 DEF StreamOk, ProducerOk
  <2>4. QueueOk(s)'
    <3>1. Early(s) /\ producer[s] # "ended"
      BY <2>1 DEF Early
    <3> QED
      BY <2>1, <3>1, QueueKept DEF StreamOk
  <2>5. CountOk(s)'
    <3> SUFFICES ASSUME Live(s)' PROVE CountOk(s)'
      BY DEF CountOk
    <3>1. Len(got[s]) + Len(queue[s]) = produced[s]
      BY <2>1 DEF StreamOk, CountOk, Early, Live
    <3>2. \A i \in 1..Len(queue[s]) : queue[s][i] # Done
      BY <2>1 DEF StreamOk, QueueOk
    <3>3. CASE producer'[s] = "fragment" /\ produced'[s] = produced[s] + 1
      <4>1. produced'[s] - 1 = produced[s]
        BY <2>1, <3>3
      <4>2. got'[s] = got[s] /\ queue'[s] = queue[s]
        BY <2>1
      <4> QED
        BY <3>1, <3>2, <3>3, <4>1, <4>2 DEF CountOk
    <3>4. CASE producer'[s] \in {"closing", "failed"} /\ produced' = produced
      BY <2>1, <3>1, <3>2, <3>4 DEF CountOk
    <3> QED
      BY <2>2, <3>3, <3>4
  <2>6. GotOk(s)'
    BY <2>1 DEF StreamOk, GotOk
  <2> QED
    BY <2>3, <2>4, <2>5, <2>6 DEF StreamOk
<1>4. CASE PassOn(s)
  BY <1>4, PassesOn
<1>5. CASE PublishError(s) \/ PublishDone(s)
  BY <1>5, PublishesEnd
<1>6. CASE Receive(s)
  BY <1>6, ReceivesFragment, ReceivesEnd
<1>7. CASE Ask(s) \/ Leave(s)
  <2>1. /\ consumer[s] \in {"waiting", "yielded"} /\ consumer'[s] \in {"waiting", "left"}
        /\ producer' = producer /\ produced' = produced /\ queue' = queue /\ got' = got
        /\ lock' = lock /\ value' = value /\ prompt' = prompt
        /\ (s \in cancelled') <=> consumer'[s] = "left"
    BY <1>7 DEF Ask, Leave, StreamTypes, StreamOk, ProducerOk
  <2>2. ProducerOk(s)'
    BY <2>1 DEF StreamOk, ProducerOk
  <2>3. QueueOk(s)'
    BY <2>1 DEF StreamOk, QueueOk, Early
  <2>4. CountOk(s)'
    BY <2>1 DEF StreamOk, CountOk, Early, Live
  <2>5. GotOk(s)'
    BY <2>1 DEF StreamOk, GotOk
  <2> QED
    BY <2>2, <2>3, <2>4, <2>5 DEF StreamOk
<1>8. CASE LoopClosed(s)
  <2>1. /\ consumer[s] \in {"waiting", "yielded"} /\ consumer'[s] = "gone"
        /\ producer' = producer /\ produced' = produced /\ queue'[s] = <<>> /\ got' = got
        /\ lock' = lock /\ value' = value /\ prompt' = prompt /\ cancelled' = cancelled
    BY <1>8 DEF LoopClosed, StreamTypes
  <2>2. ProducerOk(s)'
    BY <2>1 DEF StreamOk, ProducerOk
  <2>3. QueueOk(s)'
    BY <2>1 DEF QueueOk
  <2>4. CountOk(s)'
    BY <2>1 DEF CountOk, Live
  <2>5. GotOk(s)'
    BY <2>1 DEF StreamOk, GotOk
  <2> QED
    BY <2>2, <2>3, <2>4, <2>5 DEF StreamOk
<1> QED
  BY <1>1, <1>2, <1>3, <1>4, <1>5, <1>6, <1>7, <1>8 DEF StreamStep, Produce

\* No stream has begun.
LEMMA StreamsInit ==
  ASSUME Init
  PROVE  StreamsInv
<1>1. StreamTypes
  <2>1. /\ \A s \in Streams : queue[s] = <<>> /\ got[s] = <<>>
        /\ produced = [s \in Streams |-> 0]
        /\ producer = [s \in Streams |-> "none"] /\ consumer = [s \in Streams |-> "new"]
        /\ DOMAIN value = Streams /\ DOMAIN prompt = Streams
        /\ DOMAIN queue = Streams /\ DOMAIN got = Streams
        /\ lock = None /\ cancelled = {}
    BY DEF Init
  <2>2. \A s \in Streams : queue[s] \in Seq(Items(s)) /\ got[s] \in Seq({<<s, n>> : n \in Nat})
    BY <2>1, EmptySeq
  <2>3. produced \in [Streams -> Nat]
    BY <2>1
  <2> QED
    BY <2>1, <2>2, <2>3 DEF StreamTypes, Producers, Consumers
<1>2. ASSUME NEW s \in Streams PROVE StreamOk(s)
  <2>1. /\ lock = None /\ lock # s /\ cancelled = {} /\ producer[s] = "none"
        /\ consumer[s] = "new" /\ value[s] = s /\ produced[s] = 0
        /\ queue[s] = <<>> /\ got[s] = <<>>
    BY ModelAssumption DEF Init
  <2>2. ProducerOk(s)
    BY <2>1 DEF ProducerOk
  <2>3. QueueOk(s)
    BY <2>1 DEF QueueOk
  <2>4. CountOk(s)
    BY <2>1 DEF CountOk
  <2>5. GotOk(s)
    BY <2>1 DEF GotOk
  <2> QED
    BY <2>2, <2>3, <2>4, <2>5 DEF StreamOk
<1> QED
  BY <1>1, <1>2 DEF StreamsInv

\* Every step keeps the invariant.
LEMMA StreamsNext ==
  ASSUME StreamsInv, [Next]_vars
  PROVE  StreamsInv'
<1>1. CASE UNCHANGED streamVars
  <2>1. StreamTypes'
    BY <1>1 DEF StreamsInv, StreamTypes, streamVars
  <2>2. ASSUME NEW u \in Streams PROVE StreamOk(u)'
    <3>1. SameStream(u)
      BY <1>1 DEF streamVars, SameStream
    <3> QED
      BY <3>1, StreamKept DEF StreamsInv
  <2> QED
    BY <2>1, <2>2 DEF StreamsInv
<1>2. ASSUME NEW s \in Streams, StreamStep(s) PROVE StreamsInv'
  <2>1. StreamTypes /\ StreamOk(s)
    BY DEF StreamsInv
  <2>2. StreamTypes' /\ StreamOk(s)'
    BY <1>2, <2>1, TypesNext, StreamNext
  <2>3. ASSUME NEW u \in Streams, u # s PROVE StreamOk(u)'
    <3>1. SameStream(u)
      BY <1>2, <2>1, <2>3, OthersKept
    <3> QED
      BY <3>1, StreamKept DEF StreamsInv
  <2> QED
    BY <2>2, <2>3 DEF StreamsInv
<1>3. CASE UNCHANGED vars
  BY <1>1, <1>3 DEF vars, streamVars
<1>4. CASE Load \/ Warmup \/ Close \/ ClearCaches \/ EmbedMany \/ Embedding \/ CountTokens
  BY <1>1, <1>4, CallsApart
<1> QED
  BY <1>2, <1>3, <1>4 DEF Next, StreamStep

-----------------------------------------------------------------------------
\* The caller of astream receives what its own prompt produced, in order and
\* without gaps, whatever other streams and callers do; a stream that
\* completes gave everything (astream, its thread and its queue).
THEOREM AlwaysDelivered == Spec => []Delivered
<1>1. StreamsInv => Delivered
  <2> SUFFICES ASSUME StreamsInv, NEW s \in Streams
               PROVE  /\ producer[s] \notin {"none", "born"} => prompt[s] = s
                      /\ producer[s] \in {"native", "fragment"} <=> lock = s
                      /\ got[s] = Numbered(s, Len(got[s]))
                      /\ \A i \in DOMAIN queue[s] : queue[s][i][1] = "token" =>
                           \A j \in 1..i : queue[s][j] = Fragment(s, Len(got[s]) + j)
                      /\ consumer[s] = "complete" => got[s] = Numbered(s, produced[s])
    BY DEF Delivered
  <2>1. StreamOk(s) /\ queue[s] \in Seq(Items(s)) /\ got[s] \in Seq({<<s, k>> : k \in Nat})
    BY DEF StreamsInv, StreamTypes
  <2>2. got[s] = Numbered(s, Len(got[s]))
    <3>1. got[s] = [i \in 1..Len(got[s]) |-> got[s][i]]
      BY <2>1
    <3>2. \A i \in 1..Len(got[s]) : got[s][i] = <<s, i>>
      BY <2>1 DEF StreamOk, GotOk
    <3> QED
      BY <3>1, <3>2 DEF Numbered
  <2>3. DOMAIN queue[s] = 1..Len(queue[s])
    BY <2>1
  <2> QED
    BY <2>1, <2>2, <2>3 DEF StreamOk, ProducerOk, QueueOk, GotOk
<1> QED
  BY <1>1, StreamsInit, StreamsNext, PTL DEF Spec

-----------------------------------------------------------------------------
(***************************************************************************)
(* Orders of recency: sequences that list a text once.                     *)
(***************************************************************************)
Once(s) == s \in Seq(Texts) /\ IsInjective(s)

\* A sequence without the element at a place: the others, in their order.
LEMMA RemoveAtFacts ==
  ASSUME NEW S, NEW s \in Seq(S), NEW i \in DOMAIN s
  PROVE  /\ RemoveAt(s, i) \in Seq(S)
         /\ Len(RemoveAt(s, i)) = Len(s) - 1
         /\ \A m \in 1..(Len(s) - 1) : RemoveAt(s, i)[m] = IF m < i THEN s[m] ELSE s[m + 1]
<1> DEFINE before == SubSeq(s, 1, i - 1)
           after == SubSeq(s, i + 1, Len(s))
<1>1. /\ Len(s) \in Nat /\ i \in 1..Len(s) /\ \A m \in 1..Len(s) : s[m] \in S
  BY LenProperties
<1>2. /\ before \in Seq(S) /\ Len(before) = i - 1
      /\ \A m \in 1..(i - 1) : before[m] = s[m]
  <2>1. \A m \in 1..(i - 1) : s[m] \in S
    BY <1>1
  <2>2. /\ before \in Seq(S)
        /\ Len(before) = IF 1 <= i - 1 THEN i - 1 - 1 + 1 ELSE 0
        /\ \A m \in 1..(i - 1 - 1 + 1) : before[m] = s[1 + m - 1]
    BY <1>1, <2>1, SubSeqProperties
  <2>. QED
    BY <1>1, <2>2
<1>3. /\ after \in Seq(S) /\ Len(after) = Len(s) - i
      /\ \A m \in 1..(Len(s) - i) : after[m] = s[i + m]
  <2>1. \A m \in (i + 1)..Len(s) : s[m] \in S
    BY <1>1
  <2>2. /\ after \in Seq(S)
        /\ Len(after) = IF i + 1 <= Len(s) THEN Len(s) - (i + 1) + 1 ELSE 0
        /\ \A m \in 1..(Len(s) - (i + 1) + 1) : after[m] = s[(i + 1) + m - 1]
    BY <1>1, <2>1, SubSeqProperties
  <2>. QED
    BY <1>1, <2>2
<1> HIDE DEF before, after
<1>4. /\ before \o after \in Seq(S)
      /\ Len(before \o after) = Len(before) + Len(after)
      /\ \A m \in 1..(Len(before) + Len(after)) :
           (before \o after)[m] =
             IF m <= Len(before) THEN before[m] ELSE after[m - Len(before)]
  BY <1>2, <1>3, ConcatProperties
<1>5. RemoveAt(s, i) = before \o after
  BY DEF RemoveAt, before, after
<1>6. Len(before) + Len(after) = Len(s) - 1
  BY <1>1, <1>2, <1>3
<1>7. ASSUME NEW m \in 1..(Len(s) - 1)
      PROVE  RemoveAt(s, i)[m] = IF m < i THEN s[m] ELSE s[m + 1]
  <2>1. CASE m < i
    BY <2>1, <1>1, <1>2, <1>4, <1>5, <1>6, m \in 1..(i - 1)
  <2>2. CASE ~(m < i)
    <3>1. m - (i - 1) \in 1..(Len(s) - i) /\ ~(m <= Len(before))
      BY <2>2, <1>1, <1>2
    <3>2. after[m - (i - 1)] = s[i + (m - (i - 1))] /\ i + (m - (i - 1)) = m + 1
      BY <3>1, <1>1, <1>3
    <3>. QED
      BY <2>2, <3>1, <3>2, <1>2, <1>4, <1>5, <1>6
  <2>. QED
    BY <2>1, <2>2
<1>. QED
  BY <1>4, <1>5, <1>6, <1>7

\* An order without a text lists the others.
LEMMA WithoutFacts ==
  ASSUME NEW s, Once(s), NEW x
  PROVE  /\ Once(Without(s, x)) /\ ~Contains(Without(s, x), x)
         /\ Len(Without(s, x)) = IF Contains(s, x) THEN Len(s) - 1 ELSE Len(s)
<1>1. Len(s) \in Nat /\ DOMAIN s = 1..Len(s) /\ s \in Seq(Texts)
      /\ \A a, b \in 1..Len(s) : s[a] = s[b] => a = b
  BY LenProperties DEF Once, IsInjective
<1>2. CASE ~Contains(s, x)
  BY <1>2 DEF Without, Once
<1>3. CASE Contains(s, x)
  <2>1. PICK p \in DOMAIN s : p = CHOOSE i \in DOMAIN s : s[i] = x
    BY <1>1, <1>3 DEF Contains
  <2>2. s[p] = x
    BY <1>1, <1>3, <2>1 DEF Contains
  <2> DEFINE u == RemoveAt(s, p)
  <2>3. Without(s, x) = u
    BY <1>3, <2>1 DEF Without
  <2>4. /\ u \in Seq(Texts) /\ Len(u) = Len(s) - 1
        /\ \A m \in 1..(Len(s) - 1) : u[m] = IF m < p THEN s[m] ELSE s[m + 1]
    BY <1>1, RemoveAtFacts
  <2> HIDE DEF u
  <2>5. DOMAIN u = 1..(Len(s) - 1)
    BY <2>4, LenProperties
  <2>6. ASSUME NEW m \in 1..(Len(s) - 1)
        PROVE  \E i \in 1..Len(s) : u[m] = s[i] /\ i # p /\ i = IF m < p THEN m ELSE m + 1
    BY <1>1, <2>4
  <2>7. \A m, n \in DOMAIN u : u[m] = u[n] => m = n
    BY <1>1, <2>5, <2>6
  <2>8. ~Contains(u, x)
    BY <1>1, <2>2, <2>4, <2>6 DEF Contains
  <2> QED
    BY <1>3, <2>3, <2>4, <2>7, <2>8 DEF Once, IsInjective
<1> QED
  BY <1>2, <1>3

\* An order to which a new text is appended.
LEMMA AppendOnce ==
  ASSUME NEW s, Once(s), NEW x \in Texts, ~Contains(s, x)
  PROVE  Once(Append(s, x)) /\ Len(Append(s, x)) = Len(s) + 1
<1>1. Len(s) \in Nat /\ s \in Seq(Texts) /\ \A a, b \in 1..Len(s) : s[a] = s[b] => a = b
  BY LenProperties DEF Once, IsInjective
<1> DEFINE u == Append(s, x)
<1>2. /\ u \in Seq(Texts) /\ Len(u) = Len(s) + 1 /\ u[Len(s) + 1] = x
      /\ \A i \in 1..Len(s) : u[i] = s[i]
  BY <1>1, AppendProperties
<1> HIDE DEF u
<1>3. DOMAIN u = 1..(Len(s) + 1)
  BY <1>2, LenProperties
<1>4. \A i \in 1..(Len(s) + 1) : i \in 1..Len(s) \/ i = Len(s) + 1
  BY <1>1
<1>5. \A i \in 1..Len(s) : u[i] # x
  BY <1>2 DEF Contains
<1>6. \A a, b \in DOMAIN u : u[a] = u[b] => a = b
  BY <1>1, <1>2, <1>3, <1>4, <1>5
<1> QED
  BY <1>2, <1>6 DEF Once, IsInjective, u

\* The end of an order.
LEMMA SuffixOnce ==
  ASSUME NEW s, Once(s), NEW k \in 0..Len(s)
  PROVE  /\ Once(SubSeq(s, k + 1, Len(s))) /\ Len(SubSeq(s, k + 1, Len(s))) = Len(s) - k
         /\ k = 0 => SubSeq(s, k + 1, Len(s)) = s
<1>1. Len(s) \in Nat /\ s \in Seq(Texts) /\ \A a, b \in 1..Len(s) : s[a] = s[b] => a = b
  BY LenProperties DEF Once, IsInjective
<1> DEFINE u == SubSeq(s, k + 1, Len(s))
<1>2. /\ u \in Seq(Texts) /\ Len(u) = IF k + 1 <= Len(s) THEN Len(s) - (k + 1) + 1 ELSE 0
      /\ \A i \in 1..(Len(s) - (k + 1) + 1) : u[i] = s[(k + 1) + i - 1]
  <2>1. \A i \in (k + 1)..Len(s) : s[i] \in Texts
    BY <1>1
  <2> QED
    BY <1>1, <2>1, SubSeqProperties
<1> HIDE DEF u
<1>3. Len(u) = Len(s) - k /\ \A i \in 1..(Len(s) - k) : u[i] = s[k + i]
  BY <1>1, <1>2
<1>4. DOMAIN u = 1..(Len(s) - k)
  BY <1>2, <1>3, LenProperties
<1>5. \A a, b \in DOMAIN u : u[a] = u[b] => a = b
  <2>1. \A a \in 1..(Len(s) - k) : k + a \in 1..Len(s)
    BY <1>1
  <2> QED
    BY <1>1, <1>3, <1>4, <2>1
<1>6. k = 0 => u = s
  BY <1>1, <1>2, <1>3, SeqEqual
<1> QED
  BY <1>2, <1>3, <1>5, <1>6 DEF Once, IsInjective, u

\* A text that is looked up is the last of the order, if it was in it.
LEMMA TouchFacts ==
  ASSUME NEW s, Once(s), NEW x
  PROVE  Once(Touch(s, x)) /\ Len(Touch(s, x)) = Len(s) /\ (s = <<>> => Touch(s, x) = <<>>)
<1>1. Len(s) \in Nat /\ s \in Seq(Texts)
  BY LenProperties DEF Once
<1>2. CASE ~Contains(s, x)
  BY <1>2 DEF Touch
<1>3. CASE Contains(s, x)
  <2>1. x \in Texts /\ s # <<>>
    BY <1>1, <1>3 DEF Contains
  <2>2. Once(Without(s, x)) /\ ~Contains(Without(s, x), x) /\ Len(Without(s, x)) = Len(s) - 1
    BY <1>3, WithoutFacts
  <2>3. Once(Append(Without(s, x), x))
        /\ Len(Append(Without(s, x), x)) = Len(Without(s, x)) + 1
    BY <2>1, <2>2, AppendOnce
  <2> QED
    BY <1>1, <1>3, <2>1, <2>2, <2>3 DEF Touch
<1> QED
  BY <1>2, <1>3

\* Of the numbers from 0 to n that are in a set, one is the least, if any.
LEMMA LeastOf ==
  ASSUME NEW X \in SUBSET Nat, X # {}
  PROVE  \E k \in X : \A j \in X : k <= j
<1> DEFINE R == {p \in Nat \X Nat : p[1] < p[2]}
<1>1. IsWellFoundedOn(R, Nat)
  BY NatLessThanWellFounded DEF OpToRel
<1> HIDE DEF R
<1>2. PICK k \in X : \A j \in X : ~(<<j, k>> \in R)
  BY <1>1, WFMin
<1>3. \A j \in X : <<j, k>> \notin R => k <= j
  BY DEF R
<1> QED
  BY <1>2, <1>3

-----------------------------------------------------------------------------
(***************************************************************************)
(* The caches.                                                             *)
(***************************************************************************)
\* The order and the bytes of the cache of vectors agree and are within bounds.
Within(e) ==
  /\ Once(e.order) /\ e.bytes \in Nat
  /\ Len(e.order) <= EmbedCapacity
  /\ e.bytes = config.width * Len(e.order) /\ e.bytes <= ByteBudget

\* The sizes of vectors of one width add up.
LEMMA Products ==
  ASSUME NEW w \in Nat, NEW l \in Nat
  PROVE  /\ w * (l + 1) = w * l + w
         /\ \A k \in 0..l : w * l - k * w = w * (l - k) /\ w * (l - k) \in Nat
<1>1. w * (l + 1) = w * l + w
  OBVIOUS
<1>2. ASSUME NEW k \in 0..l
      PROVE  w * l - k * w = w * (l - k) /\ w * (l - k) \in Nat
  <2>1. PICK n \in Nat : l = n + k /\ n = l - k
    OBVIOUS
  <2>2. k \in Nat
    OBVIOUS
  <2>3. w * (n + k) = w * n + k * w
    BY <2>1, <2>2
  <2>4. w * n \in Nat /\ k * w \in Nat
    BY <2>1, <2>2
  <2>5. w * l = w * n + k * w
    BY <2>1, <2>3
  <2>6. w * l - k * w = w * n
    BY <2>4, <2>5
  <2> QED
    BY <2>1, <2>4, <2>6
<1> QED
  BY <1>1, <1>2

\* A vector that is cached, and the vectors that must go for it, leave the cache
\* within its bounds and its count of bytes exact (_cache_embedding).
LEMMA CacheEmbeddingFacts ==
  ASSUME config \in Settings, NEW e \in [order : Seq(Texts), bytes : Nat], Within(e),
         NEW x \in Texts
  PROVE  CacheEmbedding(e, x) \in [order : Seq(Texts), bytes : Nat] /\ Within(CacheEmbedding(e, x))
<1>1. PICK w \in Nat : w = config.width
  BY ModelAssumption
<1> DEFINE order == Append(Without(e.order, x), x)
           bytes == e.bytes + (IF Contains(e.order, x) THEN 0 ELSE config.width)
           Excess(k) == k < Len(order) /\ (Len(order) - k > EmbedCapacity
                                             \/ bytes - k * config.width > ByteBudget)
           evicted == CHOOSE k \in 0..Len(order) :
                        ~Excess(k) /\ \A j \in 0..(k - 1) : Excess(j)
           new == [order |-> SubSeq(order, evicted + 1, Len(order)),
                   bytes |-> bytes - evicted * config.width]
<1>2. CacheEmbedding(e, x) = IF EmbedCapacity = 0 \/ ByteBudget = 0 THEN e ELSE new
  BY DEF CacheEmbedding
<1>3. Len(e.order) \in Nat /\ Once(e.order) /\ e.bytes = w * Len(e.order)
  BY <1>1, LenProperties DEF Within, Once
<1>4. PICK l \in Nat : l = Len(order)
  BY <1>3, WithoutFacts, AppendOnce, LenProperties DEF Once
<1>5. Once(order)
  BY <1>3, WithoutFacts, AppendOnce
<1>6. l = IF Contains(e.order, x) THEN Len(e.order) ELSE Len(e.order) + 1
  <2>1. Once(Without(e.order, x)) /\ ~Contains(Without(e.order, x), x)
        /\ Len(Without(e.order, x)) =
             IF Contains(e.order, x) THEN Len(e.order) - 1 ELSE Len(e.order)
    BY <1>3, WithoutFacts
  <2>2. l = Len(Without(e.order, x)) + 1
    BY <1>4, <2>1, AppendOnce
  <2> QED
    BY <1>3, <2>1, <2>2
<1>7. bytes = w * l
  <2>1. w * (Len(e.order) + 1) = w * Len(e.order) + w
    BY <1>1, <1>3, Products
  <2> QED
    BY <1>1, <1>3, <1>6, <2>1
<1> HIDE DEF order, bytes
<1>8. /\ evicted \in 0..l /\ ~Excess(evicted)
  <2> DEFINE X == {k \in 0..l : ~Excess(k)}
  <2>1. l \in X
    BY <1>4
  <2>2. PICK k \in X : \A j \in X : k <= j
    <3>1. X \in SUBSET Nat /\ X # {}
      BY <2>1
    <3> HIDE DEF X
    <3> QED
      BY <3>1, LeastOf
  <2>3. k \in 0..l /\ ~Excess(k)
    BY <2>2
  <2>4. ASSUME NEW j \in 0..(k - 1) PROVE Excess(j)
    <3>1. j \in 0..l /\ ~(k <= j)
      BY <2>3
    <3> HIDE DEF Excess
    <3> QED
      BY <2>2, <3>1
  <2> HIDE DEF Excess
  <2>5. \E i \in 0..Len(order) : ~Excess(i) /\ \A j \in 0..(i - 1) : Excess(j)
    BY <1>4, <2>3, <2>4
  <2> QED
    BY <1>4, <2>5
<1>9. PICK k \in 0..l : k = evicted
  BY <1>8
<1>10. ~(k < l /\ (l - k > EmbedCapacity \/ w * l - k * w > ByteBudget))
  BY <1>1, <1>4, <1>7, <1>8, <1>9
<1> DEFINE rest == SubSeq(order, k + 1, l)
<1>11. Once(rest) /\ Len(rest) = l - k
  BY <1>4, <1>5, SuffixOnce
<1>12. new = [order |-> rest, bytes |-> w * l - k * w]
  BY <1>1, <1>4, <1>7, <1>9
<1> HIDE DEF evicted, Excess, new, rest
<1>13. w * l - k * w = w * (l - k) /\ w * (l - k) \in Nat
  BY <1>1, <1>4, <1>9, Products
<1>14. CASE EmbedCapacity = 0 \/ ByteBudget = 0
  BY <1>2, <1>14
<1>15. CASE ~(EmbedCapacity = 0 \/ ByteBudget = 0)
  <2>1. CacheEmbedding(e, x) = [order |-> rest, bytes |-> w * (l - k)]
    BY <1>2, <1>12, <1>13, <1>15
  <2>2. l - k <= EmbedCapacity /\ w * (l - k) <= ByteBudget
    <3>1. CASE k < l
      BY <1>10, <1>13, <3>1, ModelAssumption
    <3>2. CASE ~(k < l)
      <4>1. l - k = 0 /\ w * 0 = 0
        BY <1>1, <3>2
      <4> QED
        BY <4>1, ModelAssumption
    <3> QED
      BY <3>1, <3>2
  <2>3. rest \in Seq(Texts)
    BY <1>11 DEF Once
  <2>4. CacheEmbedding(e, x).order = rest /\ CacheEmbedding(e, x).bytes = w * (l - k)
    BY <2>1
  <2>5. CacheEmbedding(e, x) \in [order : Seq(Texts), bytes : Nat]
    BY <1>13, <2>1, <2>3
  <2> QED
    BY <1>1, <1>11, <1>13, <2>2, <2>4, <2>5 DEF Within
<1> QED
  BY <1>14, <1>15

-----------------------------------------------------------------------------
(***************************************************************************)
(* What is resident and cached.                                            *)
(***************************************************************************)
ResidentTypes ==
  /\ config \in Settings
  /\ loaded \in BOOLEAN /\ engine \in BOOLEAN /\ engines \in Nat /\ warm \in BOOLEAN
  /\ spoiled \in BOOLEAN /\ cold \in BOOLEAN

\* A model is warm only while it is loaded, and its engine is counted.
EngineInv ==
  /\ ~loaded => ~warm
  /\ loaded /\ config.warmup => warm \/ cold
  /\ engine => engines # 0
  /\ ~spoiled => engines = IF engine THEN 1 ELSE 0
  /\ ~spoiled => (engine <=> loaded /\ config.backend = "openvino")

CacheTypes ==
  /\ embeddings \in [order : Seq(Texts), bytes : Nat]
  /\ batch \in [step : {"none", "look", "store"}, rest : Seq(Texts), missing : Seq(Texts)]
  /\ calls \in 0..config.calls

\* The caches are exact, hold nothing without a model, and embed_many stores
\* vectors of a model that is loaded.
CacheInv ==
  /\ Within(embeddings) /\ Once(tokens) /\ Len(tokens) <= TokenCapacity
  /\ ~loaded => embeddings.order = <<>> /\ tokens = <<>>
  /\ batch.step = "store" => loaded

ModelInv == ResidentTypes /\ EngineInv /\ CacheTypes /\ CacheInv

\* An engine that is made is counted (_load_openvino).
LEMMA EngineMade ==
  ASSUME ResidentTypes, EngineInv, ~loaded, MakesEngine
  PROVE  /\ engine' \in BOOLEAN /\ engines' \in Nat /\ (engine' => engines' # 0)
         /\ ~spoiled => engines' = IF engine' THEN 1 ELSE 0
         /\ ~spoiled => (engine' <=> config.backend = "openvino")
<1>1. CASE config.backend = "openvino"
  <2>1. engine' = TRUE /\ engines' = engines + 1 /\ engines \in Nat
    BY <1>1 DEF MakesEngine, ResidentTypes
  <2>2. engines' \in Nat /\ engines' # 0
    BY <2>1
  <2>3. ~spoiled => engines = 0
    BY DEF EngineInv
  <2>4. ~spoiled => engines' = 1
    BY <2>1, <2>3
  <2> QED
    BY <1>1, <2>1, <2>2, <2>4
<1>2. CASE config.backend # "openvino"
  <2>1. engine' = engine /\ engines' = engines
    BY <1>2 DEF MakesEngine
  <2>2. ~spoiled => ~engine
    BY <1>2 DEF EngineInv
  <2> QED
    BY <1>2, <2>1, <2>2 DEF ResidentTypes, EngineInv
<1> QED
  BY <1>1, <1>2

\* A model that loads is accounted for (load).
LEMMA ModelMade ==
  ASSUME ResidentTypes, EngineInv, config' = config, NEW w \in BOOLEAN, Makes(w),
         cold' \in BOOLEAN, config.warmup => w \/ cold'
  PROVE  ResidentTypes' /\ EngineInv' /\ loaded'
<1>1. ~loaded /\ MakesEngine /\ loaded' = TRUE /\ warm' = w /\ spoiled' = spoiled
  BY DEF Makes
<1>2. /\ engine' \in BOOLEAN /\ engines' \in Nat /\ (engine' => engines' # 0)
      /\ ~spoiled => engines' = IF engine' THEN 1 ELSE 0
      /\ ~spoiled => (engine' <=> config.backend = "openvino")
  BY <1>1, EngineMade
<1>3. ResidentTypes'
  BY <1>1, <1>2 DEF ResidentTypes
<1>4. EngineInv'
  BY <1>1, <1>2 DEF EngineInv
<1> QED
  BY <1>1, <1>3, <1>4

\* load, whether it returns or raises, keeps the account of what is resident,
\* and unloads nothing (load, _load_openvino).
LEMMA LoadFacts ==
  ASSUME ResidentTypes, EngineInv, config' = config, LoadReturns \/ LoadRaises
  PROVE  /\ ResidentTypes' /\ EngineInv'
         /\ loaded => loaded'
         /\ LoadReturns => loaded'
<1>1. CASE UNCHANGED residentVars
  BY <1>1 DEF residentVars, ResidentTypes, EngineInv, LoadReturns, Makes
<1>3. CASE LoadReturns /\ ~loaded
  <2>1. Makes(config.warmup) /\ cold' = cold /\ config.warmup \in BOOLEAN
    BY <1>3, ModelAssumption DEF LoadReturns, ResidentTypes
  <2>2. cold' \in BOOLEAN /\ (config.warmup => config.warmup \/ cold')
    BY <2>1 DEF ResidentTypes
  <2> QED
    BY <2>1, <2>2, ModelMade
<1>4. CASE config.warmup /\ Makes(FALSE) /\ cold' = TRUE
  <2>1. cold' \in BOOLEAN /\ (config.warmup => FALSE \/ cold')
    BY <1>4
  <2> QED
    BY <1>4, <2>1, ModelMade DEF Makes
<1>5. CASE /\ ~loaded /\ config.backend = "openvino" /\ MakesEngine
           /\ spoiled' = TRUE /\ UNCHANGED <<loaded, warm, cold>>
  <2>1. /\ engine' \in BOOLEAN /\ engines' \in Nat /\ (engine' => engines' # 0)
    BY <1>5, EngineMade
  <2>2. ResidentTypes'
    BY <1>5, <2>1 DEF ResidentTypes
  <2>3. EngineInv'
    BY <1>5, <2>1 DEF EngineInv
  <2>4. ~LoadReturns
    BY <1>5 DEF LoadReturns, Makes
  <2> QED
    BY <1>5, <2>2, <2>3, <2>4
<1>6. \/ UNCHANGED residentVars
      \/ LoadReturns /\ ~loaded
      \/ config.warmup /\ Makes(FALSE) /\ cold' = TRUE
      \/ /\ ~loaded /\ config.backend = "openvino" /\ MakesEngine
         /\ spoiled' = TRUE /\ UNCHANGED <<loaded, warm, cold>>
  BY DEF LoadReturns, LoadRaises, Makes
<1> QED
  BY <1>1, <1>3, <1>4, <1>5, <1>6

\* The caches and their account stay when nothing of them changes and nothing
\* is unloaded.
LEMMA CachesKept ==
  ASSUME CacheInv, UNCHANGED <<config, cacheVars>>, loaded => loaded',
         batch'.step = "store" => loaded'
  PROVE  CacheInv'
BY DEF CacheInv, cacheVars, Within

\* load and generate.
LEMMA LoadKept ==
  ASSUME ModelInv, Load
  PROVE  ModelInv'
<1>1. /\ config' = config /\ batch' = batch /\ UNCHANGED cacheVars /\ calls' = calls + 1
      /\ calls < config.calls /\ (LoadReturns \/ LoadRaises)
  BY DEF Load, Called, Begun
<1>2. ResidentTypes' /\ EngineInv' /\ (loaded => loaded')
  BY <1>1, LoadFacts DEF ModelInv
<1>3. CacheTypes'
  BY <1>1, ModelAssumption DEF ModelInv, ResidentTypes, CacheTypes, cacheVars
<1>4. CacheInv'
  BY <1>1, <1>2, CachesKept DEF ModelInv, CacheInv
<1> QED
  BY <1>2, <1>3, <1>4 DEF ModelInv

\* warmup.
LEMMA WarmupKept ==
  ASSUME ModelInv, Warmup
  PROVE  ModelInv'
<1>1. /\ config' = config /\ batch' = batch /\ UNCHANGED cacheVars /\ calls' = calls + 1
      /\ calls < config.calls
  BY DEF Warmup, Called, Begun
<1>2. ResidentTypes' /\ EngineInv' /\ (loaded => loaded')
  <2>1. CASE LoadRaises \/ LoadReturns
    BY <1>1, <2>1, LoadFacts DEF ModelInv
  <2>2. CASE loaded /\ warm' = TRUE /\ UNCHANGED <<loaded, engine, engines, spoiled, cold>>
    BY <1>1, <2>2 DEF ModelInv, ResidentTypes, EngineInv
  <2>3. CASE Makes(TRUE) /\ UNCHANGED cold
    <3>1. cold' \in BOOLEAN
      BY <2>3 DEF ModelInv, ResidentTypes
    <3> QED
      BY <1>1, <2>3, <3>1, ModelMade DEF ModelInv
  <2> QED
    BY <2>1, <2>2, <2>3 DEF Warmup
<1>3. CacheTypes'
  BY <1>1, ModelAssumption DEF ModelInv, ResidentTypes, CacheTypes, cacheVars
<1>4. CacheInv'
  BY <1>1, <1>2, CachesKept DEF ModelInv, CacheInv
<1> QED
  BY <1>2, <1>3, <1>4 DEF ModelInv

\* An empty cache is exact.
LEMMA EmptyExact ==
  ASSUME ResidentTypes
  PROVE  /\ [order |-> <<>>, bytes |-> 0] \in [order : Seq(Texts), bytes : Nat]
         /\ Within([order |-> <<>>, bytes |-> 0])
         /\ Once(<<>>) /\ Len(<<>>) <= TokenCapacity
<1>1. <<>> \in Seq(Texts) /\ Len(<<>>) = 0 /\ DOMAIN <<>> = {}
  OBVIOUS
<1>2. Once(<<>>)
  BY <1>1 DEF Once, IsInjective
<1>3. config.width * 0 = 0
  <2>1. config.width \in Nat
    BY ModelAssumption DEF ResidentTypes
  <2> QED
    BY <2>1
<1> QED
  BY <1>1, <1>2, <1>3, ModelAssumption DEF Within

\* close and clear_caches.
LEMMA ClearKept ==
  ASSUME ModelInv, Close \/ ClearCaches
  PROVE  ModelInv'
<1>1. /\ config' = config /\ batch' = batch /\ calls' = calls + 1 /\ calls < config.calls
      /\ embeddings' = [order |-> <<>>, bytes |-> 0] /\ tokens' = <<>> /\ batch = NoBatch
  BY DEF Close, ClearCaches, Called, Begun, Free
<1>2. ResidentTypes' /\ EngineInv'
  <2>1. CASE Close
    <3>1. /\ loaded' = FALSE /\ warm' = FALSE /\ cold' = FALSE /\ engine' = FALSE
          /\ engines' = (IF engine THEN engines - 1 ELSE engines) /\ spoiled' = spoiled
      BY <2>1 DEF Close
    <3>2. engines' \in Nat
      BY <3>1 DEF ModelInv, ResidentTypes, EngineInv
    <3>3. ~spoiled' => engines' = 0
      BY <3>1 DEF ModelInv, EngineInv
    <3>4. ResidentTypes'
      BY <1>1, <3>1, <3>2 DEF ModelInv, ResidentTypes
    <3>5. EngineInv'
      BY <3>1, <3>3 DEF EngineInv
    <3> QED
      BY <3>4, <3>5
  <2>2. CASE ClearCaches
    BY <1>1, <2>2 DEF ClearCaches, residentVars, ModelInv, ResidentTypes, EngineInv
  <2> QED
    BY <2>1, <2>2
<1>3. ResidentTypes
  BY DEF ModelInv
<1>4. CacheTypes'
  BY <1>1, <1>3, EmptyExact, ModelAssumption DEF ModelInv, ResidentTypes, CacheTypes
<1>5. CacheInv'
  <2>1. embeddings'.order = <<>> /\ batch'.step # "store"
    BY <1>1 DEF NoBatch
  <2>2. Within(embeddings)'
    BY <1>1, <1>3, EmptyExact DEF Within
  <2> QED
    BY <1>1, <1>3, <2>1, <2>2, EmptyExact DEF CacheInv
<1> QED
  BY <1>2, <1>4, <1>5 DEF ModelInv
\* Nothing of the model that is resident changes.
LEMMA ResidentKept ==
  ASSUME ResidentTypes, EngineInv, UNCHANGED <<config, residentVars>>
  PROVE  ResidentTypes' /\ EngineInv'
BY DEF residentVars, ResidentTypes, EngineInv

\* embed_many begins.
LEMMA EmbedManyKept ==
  ASSUME ModelInv, EmbedMany
  PROVE  ModelInv'
<1>1. /\ config' = config /\ UNCHANGED <<residentVars, cacheVars>> /\ calls' = calls + 1
      /\ calls < config.calls
  BY DEF EmbedMany, Begun
<1>2. PICK texts \in SeqOf(config.texts, MaxTexts) :
        batch' = [step |-> "look", rest |-> texts, missing |-> <<>>]
  BY DEF EmbedMany
<1>3. texts \in Seq(Texts)
  <2>1. config.texts \subseteq Texts
    BY ModelAssumption DEF ModelInv, ResidentTypes
  <2>2. PICK n \in 0..MaxTexts : texts \in [1..n -> config.texts]
    BY DEF SeqOf
  <2>3. n \in Nat /\ texts \in [1..n -> Texts]
    BY <2>1, <2>2, ModelAssumption
  <2> QED
    BY <2>3
<1>4. ResidentTypes' /\ EngineInv' /\ loaded' = loaded
  BY <1>1, ResidentKept DEF ModelInv, residentVars
<1>5. CacheTypes'
  BY <1>1, <1>2, <1>3, ModelAssumption DEF ModelInv, ResidentTypes, CacheTypes, cacheVars
<1>6. CacheInv'
  BY <1>1, <1>2, <1>4, CachesKept DEF ModelInv
<1> QED
  BY <1>4, <1>5, <1>6 DEF ModelInv

\* A text that is looked up keeps the caches and the batch (_cache_get).
LEMMA LookUpKept ==
  ASSUME ModelInv, LookUp
  PROVE  ModelInv'
<1>1. /\ batch.step = "look" /\ batch.rest # <<>> /\ batch.rest \in Seq(Texts)
      /\ batch.missing \in Seq(Texts) /\ UNCHANGED <<config, residentVars, tokens, calls>>
  BY DEF LookUp, ModelInv, CacheTypes
<1> DEFINE x == Head(batch.rest)
<1>2. /\ embeddings' = [embeddings EXCEPT !.order = Touch(@, x)]
      /\ \/ batch' = [batch EXCEPT !.rest = Tail(@), !.missing = @]
         \/ batch' = [batch EXCEPT !.rest = Tail(@), !.missing = Append(@, x)]
  BY DEF LookUp
<1>3. x \in Texts /\ Tail(batch.rest) \in Seq(Texts)
  BY <1>1, HeadTailProperties
<1> HIDE DEF x
<1>4. Append(batch.missing, x) \in Seq(Texts)
  BY <1>1, <1>3
<1>5. /\ batch' \in [step : {"none", "look", "store"}, rest : Seq(Texts), missing : Seq(Texts)]
      /\ batch'.step = "look"
  BY <1>1, <1>2, <1>3, <1>4 DEF ModelInv, CacheTypes
<1>6. Within(embeddings) /\ Once(embeddings.order)
  BY DEF ModelInv, CacheInv, Within
<1>7. /\ Once(Touch(embeddings.order, x))
      /\ Len(Touch(embeddings.order, x)) = Len(embeddings.order)
      /\ embeddings.order = <<>> => Touch(embeddings.order, x) = <<>>
  BY <1>6, TouchFacts
<1>8. embeddings'.order = Touch(embeddings.order, x) /\ embeddings'.bytes = embeddings.bytes
  BY <1>2 DEF ModelInv, CacheTypes
<1>9. embeddings' \in [order : Seq(Texts), bytes : Nat]
  <2>1. Touch(embeddings.order, x) \in Seq(Texts)
    BY <1>7 DEF Once
  <2> QED
    BY <1>2, <2>1 DEF ModelInv, CacheTypes
<1>10. ResidentTypes' /\ EngineInv' /\ loaded' = loaded
  BY <1>1, ResidentKept DEF ModelInv, residentVars
<1>11. CacheTypes'
  BY <1>1, <1>5, <1>9 DEF ModelInv, CacheTypes
<1>12. Within(embeddings)'
  BY <1>1, <1>6, <1>7, <1>8 DEF Within
<1>13. CacheInv'
  BY <1>1, <1>5, <1>7, <1>8, <1>10, <1>12 DEF ModelInv, CacheInv
<1> QED
  BY <1>10, <1>11, <1>13 DEF ModelInv

\* The native call, before which the model is loaded, and the return of a call
\* (_embed_uncached).
LEMMA EmbedUncachedKept ==
  ASSUME ModelInv, EmbedUncached \/ EmbedReturn
  PROVE  ModelInv'
<1>1. /\ UNCHANGED <<config, cacheVars, calls>>
      /\ \/ batch' = NoBatch
         \/ batch' = [batch EXCEPT !.step = "store"] /\ LoadReturns
      /\ LoadReturns \/ LoadRaises \/ UNCHANGED residentVars
  BY DEF EmbedUncached, EmbedReturn
<1>2. ResidentTypes' /\ EngineInv' /\ (loaded => loaded') /\ (LoadReturns => loaded')
  <2>1. CASE LoadReturns \/ LoadRaises
    BY <1>1, <2>1, LoadFacts DEF ModelInv
  <2>2. CASE UNCHANGED residentVars /\ ~LoadReturns
    BY <1>1, <2>2, ResidentKept DEF ModelInv, residentVars
  <2> QED
    BY <1>1, <2>1, <2>2
<1>3. CacheTypes'
  <2>1. NoBatch \in [step : {"none", "look", "store"}, rest : Seq(Texts), missing : Seq(Texts)]
    BY DEF NoBatch
  <2>2. batch' \in [step : {"none", "look", "store"}, rest : Seq(Texts), missing : Seq(Texts)]
    BY <1>1, <2>1 DEF ModelInv, CacheTypes
  <2> QED
    BY <1>1, <2>2 DEF ModelInv, CacheTypes, cacheVars
<1>4. batch'.step = "store" => loaded'
  BY <1>1, <1>2 DEF NoBatch
<1>5. CacheInv'
  BY <1>1, <1>2, <1>4, CachesKept DEF ModelInv
<1> QED
  BY <1>2, <1>3, <1>5 DEF ModelInv

\* A vector is cached, of a model that is loaded.
LEMMA CacheNextKept ==
  ASSUME ModelInv, CacheNext
  PROVE  ModelInv'
<1>1. /\ batch.step = "store" /\ batch.missing # <<>> /\ batch.missing \in Seq(Texts)
      /\ embeddings' = CacheEmbedding(embeddings, Head(batch.missing))
      /\ batch' = [batch EXCEPT !.missing = Tail(@)]
      /\ UNCHANGED <<config, residentVars, tokens, calls>>
  BY DEF CacheNext, ModelInv, CacheTypes
<1>2. Head(batch.missing) \in Texts /\ Tail(batch.missing) \in Seq(Texts)
  BY <1>1, HeadTailProperties
<1>3. embeddings' \in [order : Seq(Texts), bytes : Nat] /\ Within(embeddings')
  BY <1>1, <1>2, CacheEmbeddingFacts DEF ModelInv, ResidentTypes, CacheTypes, CacheInv
<1>4. ResidentTypes' /\ EngineInv' /\ loaded' /\ loaded
  BY <1>1, ResidentKept DEF ModelInv, CacheInv, residentVars
<1>5. /\ batch' \in [step : {"none", "look", "store"}, rest : Seq(Texts), missing : Seq(Texts)]
  BY <1>1, <1>2 DEF ModelInv, CacheTypes
<1>6. CacheTypes'
  BY <1>1, <1>3, <1>5 DEF ModelInv, CacheTypes
<1>7. Within(embeddings)'
  BY <1>1, <1>3 DEF Within
<1>8. CacheInv'
  BY <1>1, <1>4, <1>7 DEF ModelInv, CacheInv
<1> QED
  BY <1>4, <1>6, <1>8 DEF ModelInv

\* The cache of token counts: what is found becomes the most recent, and what
\* is put may take the place of the oldest (_cache_get, _cache_put).
LEMMA TokensKept ==
  ASSUME Once(tokens), Len(tokens) <= TokenCapacity, NEW x \in Texts
  PROVE  /\ Once(Touch(tokens, x)) /\ Len(Touch(tokens, x)) <= TokenCapacity
         /\ ~Contains(tokens, x) =>
              LET order == Append(tokens, x)
                  kept == IF TokenCapacity = 0 THEN tokens
                          ELSE IF Len(order) > TokenCapacity THEN Tail(order) ELSE order
              IN  Once(kept) /\ Len(kept) <= TokenCapacity
<1>1. Len(tokens) \in Nat
  BY LenProperties DEF Once
<1>2. Once(Touch(tokens, x)) /\ Len(Touch(tokens, x)) = Len(tokens)
  BY TouchFacts
<1>3. ASSUME ~Contains(tokens, x), TokenCapacity # 0
      PROVE  LET order == Append(tokens, x)
                 kept == IF Len(order) > TokenCapacity THEN Tail(order) ELSE order
             IN  Once(kept) /\ Len(kept) <= TokenCapacity
  <2> DEFINE order == Append(tokens, x)
  <2>1. Once(order) /\ Len(order) = Len(tokens) + 1
    BY <1>3, AppendOnce
  <2> HIDE DEF order
  <2>2. order \in Seq(Texts) /\ order # <<>> /\ 1 \in 0..Len(order)
    BY <1>1, <2>1 DEF Once
  <2>3. Tail(order) = SubSeq(order, 1 + 1, Len(order))
    BY <2>2, TailIsSubSeq
  <2>4. Once(Tail(order)) /\ Len(Tail(order)) = Len(order) - 1
    BY <2>1, <2>2, <2>3, SuffixOnce
  <2>5. CASE Len(order) > TokenCapacity
    BY <1>1, <2>1, <2>4, <2>5, ModelAssumption DEF order
  <2>6. CASE ~(Len(order) > TokenCapacity)
    BY <1>1, <2>1, <2>6, ModelAssumption DEF order
  <2> QED
    BY <2>5, <2>6
<1> QED
  BY <1>2, <1>3

\* count_tokens.
LEMMA CountTokensKept ==
  ASSUME ModelInv, CountTokens
  PROVE  ModelInv'
<1>1. /\ config' = config /\ batch' = batch /\ embeddings' = embeddings /\ calls' = calls + 1
      /\ calls < config.calls /\ batch.step = "none"
  BY DEF CountTokens, Called, Begun, Free, NoBatch
<1>2. PICK x \in config.texts :
        IF Contains(tokens, x) THEN tokens' = Touch(tokens, x) /\ UNCHANGED residentVars
        ELSE \/ (LoadRaises \/ LoadReturns) /\ UNCHANGED tokens
             \/ /\ LoadReturns
                /\ LET order == Append(tokens, x)
                   IN  tokens' = IF TokenCapacity = 0 THEN tokens
                                 ELSE IF Len(order) > TokenCapacity THEN Tail(order) ELSE order
  BY DEF CountTokens
<1>3. x \in Texts
  BY ModelAssumption DEF ModelInv, ResidentTypes
<1>4. Once(tokens) /\ Len(tokens) <= TokenCapacity
  BY DEF ModelInv, CacheInv
<1>5. Once(tokens') /\ Len(tokens') <= TokenCapacity
  BY <1>2, <1>3, <1>4, TokensKept
<1>6. ResidentTypes' /\ EngineInv' /\ (loaded => loaded') /\ (~loaded' => tokens' = <<>>)
  <2>1. ~loaded => tokens = <<>>
    BY DEF ModelInv, CacheInv
  <2>2. CASE Contains(tokens, x)
    <3>1. loaded /\ UNCHANGED residentVars
      BY <1>2, <2>1, <2>2 DEF Contains
    <3> QED
      BY <1>1, <3>1, ResidentKept DEF ModelInv, residentVars
  <2>3. CASE ~Contains(tokens, x)
    <3>1. LoadReturns \/ (LoadRaises /\ tokens' = tokens)
      BY <1>2, <2>3
    <3>2. /\ ResidentTypes' /\ EngineInv' /\ (loaded => loaded')
          /\ LoadReturns => loaded'
      BY <1>1, <3>1, LoadFacts DEF ModelInv
    <3> QED
      BY <2>1, <3>1, <3>2
  <2> QED
    BY <2>2, <2>3
<1>7. CacheTypes'
  BY <1>1, ModelAssumption DEF ModelInv, ResidentTypes, CacheTypes
<1>8. Within(embeddings)'
  BY <1>1 DEF ModelInv, CacheInv, Within
<1>9. Once(tokens)'
  BY <1>5 DEF Once
<1>10. CacheInv'
  BY <1>1, <1>5, <1>6, <1>8, <1>9 DEF ModelInv, CacheInv
<1> QED
  BY <1>6, <1>7, <1>10 DEF ModelInv

\* A stream loads the model when it enters, and leaves it and its caches alone
\* otherwise (stream).
LEMMA StreamKeepsModel ==
  ASSUME ModelInv, NEW s \in Streams, StreamStep(s)
  PROVE  ModelInv'
<1>1. UNCHANGED <<config, cacheVars, calls, batch>>
  BY DEF StreamStep, Produce, Astream, Capture, Enter, Native, PassOn, PublishError, PublishDone,
         Receive, Ask, Leave, LoopClosed
<1>2. LoadReturns \/ LoadRaises \/ UNCHANGED residentVars
  BY DEF StreamStep, Produce, Astream, Capture, Enter, Native, PassOn, PublishError, PublishDone,
         Receive, Ask, Leave, LoopClosed
<1>3. ResidentTypes' /\ EngineInv' /\ (loaded => loaded')
  <2>1. CASE LoadReturns \/ LoadRaises
    BY <1>1, <2>1, LoadFacts DEF ModelInv
  <2>2. CASE UNCHANGED residentVars
    BY <1>1, <2>2, ResidentKept DEF ModelInv, residentVars
  <2> QED
    BY <1>2, <2>1, <2>2
<1>4. CacheTypes'
  BY <1>1 DEF ModelInv, CacheTypes, cacheVars
<1>5. CacheInv'
  BY <1>1, <1>3, CachesKept DEF ModelInv, CacheInv
<1> QED
  BY <1>3, <1>4, <1>5 DEF ModelInv

\* The invariant holds when a model is constructed.
LEMMA ModelInit ==
  ASSUME Init
  PROVE  ModelInv
<1>1. ResidentTypes
  BY DEF Init, ResidentTypes
<1>2. EngineInv
  BY DEF Init, EngineInv
<1>3. CacheTypes
  <2>1. NoBatch \in [step : {"none", "look", "store"}, rest : Seq(Texts), missing : Seq(Texts)]
    BY DEF NoBatch
  <2>2. calls \in 0..config.calls
    BY <1>1, ModelAssumption DEF Init, ResidentTypes
  <2> QED
    BY <1>1, <2>1, <2>2, EmptyExact DEF Init, CacheTypes
<1>4. CacheInv
  <2>1. Within(embeddings) /\ Once(tokens) /\ Len(tokens) <= TokenCapacity
    BY <1>1, EmptyExact DEF Init
  <2>2. embeddings.order = <<>> /\ tokens = <<>> /\ batch.step = "none"
    BY DEF Init, NoBatch
  <2> QED
    BY <2>1, <2>2 DEF CacheInv
<1> QED
  BY <1>1, <1>2, <1>3, <1>4 DEF ModelInv

\* Every step keeps it.
LEMMA ModelNext ==
  ASSUME ModelInv, [Next]_vars
  PROVE  ModelInv'
<1>1. CASE UNCHANGED vars
  <2>1. UNCHANGED <<config, residentVars, cacheVars, calls, batch>>
    BY <1>1 DEF vars
  <2>2. ResidentTypes' /\ EngineInv' /\ loaded' = loaded
    BY <2>1, ResidentKept DEF ModelInv, residentVars
  <2>3. CacheTypes'
    BY <2>1 DEF ModelInv, CacheTypes, cacheVars
  <2>4. CacheInv'
    BY <2>1, <2>2, CachesKept DEF ModelInv, CacheInv
  <2> QED
    BY <2>2, <2>3, <2>4 DEF ModelInv
<1>2. CASE Load
  BY <1>2, LoadKept
<1>3. CASE Warmup
  BY <1>3, WarmupKept
<1>4. CASE Close \/ ClearCaches
  BY <1>4, ClearKept
<1>5. CASE EmbedMany
  BY <1>5, EmbedManyKept
<1>6. CASE Embedding
  BY <1>6, LookUpKept, EmbedUncachedKept, CacheNextKept DEF Embedding
<1>7. CASE CountTokens
  BY <1>7, CountTokensKept
<1>8. ASSUME NEW s \in Streams, StreamStep(s) PROVE ModelInv'
  BY <1>8, StreamKeepsModel
<1> QED
  BY <1>1, <1>2, <1>3, <1>4, <1>5, <1>6, <1>7, <1>8 DEF Next, StreamStep

\* The caches hold each text once, within their capacities, and the count of
\* bytes is exact, for any capacities and any texts (embed_many,
\* _cache_embedding, _cache_put).
THEOREM AlwaysCachesExact == Spec => []CachesExact
<1>1. ModelInv => CachesExact
  BY DEF ModelInv, CacheInv, Within, Once, CachesExact
<1> QED
  BY <1>1, ModelInit, ModelNext, PTL DEF Spec

-----------------------------------------------------------------------------
(***************************************************************************)
(* What is handed over.                                                    *)
(***************************************************************************)
\* A stream hands over fragments of its own, at most MaxFragments of them.
PayloadsInv ==
  /\ produced \in [Streams -> 0..MaxFragments]
  /\ \A s \in Streams :
       /\ value[s] \in {s} \cup Payloads(s)
       /\ prompt[s] \in {s, None} \cup Payloads(s)
       /\ \A i \in 1..Len(queue[s]) : queue[s][i][2] \in Payloads(s)

\* What is published is a fragment of the stream, or nothing.
LEMMA PayloadsPublished ==
  ASSUME StreamTypes, PayloadsInv, NEW s \in Streams, NEW item \in Items(s),
         item[2] \in Payloads(s), Publish(s, item)
  PROVE  \A u \in Streams : \A i \in 1..Len(queue'[u]) : queue'[u][i][2] \in Payloads(u)
<1>1. queue'[s] = (IF consumer[s] = "gone" THEN queue[s] ELSE Append(queue[s], item))
  BY Publishes
<1>2. \A u \in Streams \ {s} : queue'[u] = queue[u]
  BY DEF StreamTypes, Publish
<1>3. queue[s] \in Seq(Items(s)) /\ Len(queue[s]) \in Nat
  BY LenProperties DEF StreamTypes
<1>4. /\ Len(Append(queue[s], item)) = Len(queue[s]) + 1
      /\ Append(queue[s], item)[Len(queue[s]) + 1] = item
      /\ \A i \in 1..Len(queue[s]) : Append(queue[s], item)[i] = queue[s][i]
  BY <1>3, AppendProperties
<1>5. \A i \in 1..(Len(queue[s]) + 1) : i \in 1..Len(queue[s]) \/ i = Len(queue[s]) + 1
  BY <1>3
<1>6. \A i \in 1..Len(queue'[s]) : queue'[s][i][2] \in Payloads(s)
  <2>1. CASE consumer[s] = "gone"
    BY <1>1, <2>1 DEF PayloadsInv
  <2>2. CASE consumer[s] # "gone"
    BY <1>1, <1>4, <1>5, <2>2 DEF PayloadsInv
  <2> QED
    BY <2>1, <2>2
<1> QED
  BY <1>2, <1>6 DEF PayloadsInv

\* A step of a stream keeps that.
LEMMA PayloadsStep ==
  ASSUME StreamsInv, PayloadsInv, NEW s \in Streams, StreamStep(s)
  PROVE  PayloadsInv'
<1> USE DEF Goto, StreamTypes
<1>1. StreamTypes /\ StreamOk(s) /\ DOMAIN value = Streams /\ DOMAIN prompt = Streams
      /\ DOMAIN queue = Streams
  BY DEF StreamsInv
<1>2. None \in Payloads(s) /\ Done[2] = None /\ Error[2] = None /\ Done \in Items(s)
      /\ Error \in Items(s)
  BY DEF Payloads, Done, Error, Items
<1>3. CASE UNCHANGED <<produced, value, prompt, queue>>
  BY <1>3 DEF PayloadsInv
<1>4. CASE Capture(s)
  <2>1. prompt' = [prompt EXCEPT ![s] = value[s]] /\ UNCHANGED <<produced, value, queue>>
    BY <1>4 DEF Capture
  <2> QED
    BY <1>1, <2>1 DEF PayloadsInv
<1>5. CASE Native(s)
  <2>1. UNCHANGED <<value, prompt, queue>>
    BY <1>5 DEF Native
  <2>2. produced' \in [Streams -> 0..MaxFragments]
    BY <1>5, ModelAssumption DEF Native, PayloadsInv
  <2> QED
    BY <2>1, <2>2 DEF PayloadsInv
<1>6. CASE PassOn(s)
  <2>1. UNCHANGED <<produced, value, prompt>>
    BY <1>6 DEF PassOn
  <2>2. UNCHANGED queue \/ Publish(s, Fragment(s, produced[s]))
    BY <1>6 DEF PassOn
  <2>3. produced[s] \in 0..MaxFragments /\ produced[s] # 0
    BY <1>1, <1>6 DEF PassOn, StreamOk, ProducerOk, PayloadsInv
  <2>4. /\ Fragment(s, produced[s]) \in Items(s)
        /\ Fragment(s, produced[s])[2] = <<s, produced[s]>>
    BY <2>3, ModelAssumption DEF Fragment, Items, Fragments
  <2>5. <<s, produced[s]>> \in Payloads(s)
    BY <2>3, ModelAssumption DEF Payloads
  <2>6. \A u \in Streams : \A i \in 1..Len(queue'[u]) : queue'[u][i][2] \in Payloads(u)
    <3>1. CASE UNCHANGED queue
      BY <3>1 DEF PayloadsInv
    <3>2. CASE Publish(s, Fragment(s, produced[s]))
      BY <1>1, <2>4, <2>5, <3>2, PayloadsPublished
    <3> QED
      BY <2>2, <3>1, <3>2
  <2> QED
    BY <2>1, <2>6 DEF PayloadsInv
<1>7. CASE PublishError(s) \/ PublishDone(s)
  <2>1. UNCHANGED <<produced, value, prompt>> /\ (Publish(s, Error) \/ Publish(s, Done))
    BY <1>7 DEF PublishError, PublishDone
  <2>2. \A u \in Streams : \A i \in 1..Len(queue'[u]) : queue'[u][i][2] \in Payloads(u)
    BY <1>1, <1>2, <2>1, PayloadsPublished
  <2> QED
    BY <2>1, <2>2 DEF PayloadsInv
<1>8. CASE Receive(s)
  <2>1. /\ queue[s] # <<>> /\ UNCHANGED <<produced, prompt>>
        /\ value' = [value EXCEPT ![s] = Head(queue[s])[2]]
        /\ queue' = [queue EXCEPT ![s] = Tail(@)]
    BY <1>8 DEF Receive
  <2>2. queue[s] \in Seq(Items(s))
    BY <1>1
  <2>3. Head(queue[s]) = queue[s][1] /\ Len(queue[s]) \in Nat /\ 1 \in 1..Len(queue[s])
    BY <2>1, <2>2
  <2>4. value'[s] \in Payloads(s)
    BY <1>1, <2>1, <2>3 DEF PayloadsInv
  <2>5. /\ Len(Tail(queue[s])) = Len(queue[s]) - 1
        /\ \A i \in 1..Len(Tail(queue[s])) : Tail(queue[s])[i] = queue[s][i + 1]
    BY <2>1, <2>2, HeadTailProperties
  <2>6. \A i \in 1..(Len(queue[s]) - 1) : i + 1 \in 1..Len(queue[s])
    BY <2>3
  <2>7. \A i \in 1..Len(queue'[s]) : queue'[s][i][2] \in Payloads(s)
    BY <1>1, <2>1, <2>5, <2>6 DEF PayloadsInv
  <2>8. \A u \in Streams \ {s} : value'[u] = value[u] /\ queue'[u] = queue[u]
    BY <1>1, <2>1
  <2> QED
    BY <2>1, <2>4, <2>7, <2>8 DEF PayloadsInv
<1>9. CASE LoopClosed(s)
  <2>1. queue' = [queue EXCEPT ![s] = <<>>] /\ UNCHANGED <<produced, value, prompt>>
    BY <1>9 DEF LoopClosed
  <2> QED
    BY <1>1, <2>1 DEF PayloadsInv
<1>10. Astream(s) \/ Enter(s) \/ Ask(s) \/ Leave(s) => UNCHANGED <<produced, value, prompt, queue>>
  BY DEF Astream, Enter, Ask, Leave
<1> QED
  BY <1>3, <1>4, <1>5, <1>6, <1>7, <1>8, <1>9, <1>10 DEF StreamStep, Produce

\* What is resident is accounted for through any calls, streams and failures of
\* the load and of the warm-up (load, warmup, close).
THEOREM AlwaysResident == Spec => []Resident
<1>1. StreamsInv /\ PayloadsInv /\ ModelInv => Resident
  <2> SUFFICES ASSUME StreamsInv, PayloadsInv, ModelInv PROVE Resident
    OBVIOUS
  <2>1. TypeOK
    <3>1. /\ embeddings.order \in Seq(Texts) /\ embeddings.bytes \in Nat /\ tokens \in Seq(Texts)
          /\ batch.step \in {"none", "look", "store"}
          /\ batch.rest \in Seq(Texts) /\ batch.missing \in Seq(Texts)
      BY DEF ModelInv, CacheTypes, CacheInv, Once
    <3> QED
      BY <3>1 DEF StreamsInv, StreamTypes, PayloadsInv, ModelInv, ResidentTypes, CacheTypes,
                  Producers, Consumers, TypeOK
  <2>2. ~loaded => ~warm /\ embeddings.order = <<>> /\ tokens = <<>>
    BY DEF ModelInv, EngineInv, CacheInv
  <2> QED
    BY <2>1, <2>2 DEF ModelInv, EngineInv, Resident
<1>2. Init => PayloadsInv
  BY ModelAssumption DEF Init, PayloadsInv
<1>3. StreamsInv /\ PayloadsInv /\ [Next]_vars => PayloadsInv'
  <2> SUFFICES ASSUME StreamsInv, PayloadsInv, [Next]_vars PROVE PayloadsInv'
    OBVIOUS
  <2>1. CASE UNCHANGED streamVars
    BY <2>1 DEF streamVars, PayloadsInv
  <2>2. CASE Load \/ Warmup \/ Close \/ ClearCaches \/ EmbedMany \/ Embedding \/ CountTokens
    BY <2>1, <2>2, CallsApart
  <2>3. UNCHANGED vars => UNCHANGED streamVars
    BY DEF vars, streamVars
  <2> QED
    BY <2>1, <2>2, <2>3, PayloadsStep DEF Next, StreamStep
<1> QED
  BY <1>1, <1>2, <1>3, ModelInit, ModelNext, StreamsInit, StreamsNext, PTL DEF Spec
===============================================================================
