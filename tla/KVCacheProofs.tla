---------------------------- MODULE KVCacheProofs ----------------------------
(***************************************************************************)
(* Proofs about KVCache, for every value of its constants.                 *)
(***************************************************************************)
EXTENDS KVCache, FiniteSetTheorems, SequenceTheorems, TLAPS

\* What the record op says about the cache at each kind of step; with
\* TypeOK it is inductive.
CallShape ==
  /\ op.kind \in {"create", "append"} => op.session \in alive
  /\ op.kind \in {"idle", "evict"} => op.rest = <<>>
  /\ op.kind = "idle" => op.session = NoSession
  /\ (op.kind = "evict" /\ op.session # NoSession) =>
        op.session \in alive /\ op.keep = {op.session} /\ op.floor = Capacity
  /\ \A s \in Sessions \ alive : ids[s] = <<>>

Shape == TypeOK /\ CallShape

-----------------------------------------------------------------------------
\* The pieces that a loop iteration takes from and leaves of op.rest.
LEMMA Pieces ==
  ASSUME TypeOK, NEW n \in 1..Len(op.rest)
  PROVE  /\ First(n) \in Seq(Tokens)
         /\ Len(First(n)) = n
         /\ \A i \in 1..n : First(n)[i] = op.rest[i]
         /\ Rest(n) \in Seq(Tokens)
<1>1. op.rest \in Seq(Tokens)
  BY DEF TypeOK, Ops
<1>2. Len(op.rest) \in Nat /\ \A i \in 1..Len(op.rest) : op.rest[i] \in Tokens
  BY <1>1
<1>3. \A i \in 1..n : op.rest[i] \in Tokens
  BY <1>2
<1>4. \A i \in (n + 1)..Len(op.rest) : op.rest[i] \in Tokens
  BY <1>2
<1>5. /\ First(n) \in Seq(Tokens)
      /\ Len(First(n)) = n
      /\ \A i \in 1..n : First(n)[i] = op.rest[i]
  BY <1>3, SubSeqProperties DEF First
<1>6. Rest(n) \in Seq(Tokens)
  BY <1>2, <1>4, SubSeqProperties DEF Rest
<1>. QED
  BY <1>5, <1>6

\* The smaller of two positive numbers.
LEMMA SmallerFacts ==
  ASSUME NEW m \in Nat \ {0}, NEW n \in Nat \ {0}
  PROVE  Smaller(m, n) \in Nat \ {0} /\ Smaller(m, n) <= m /\ Smaller(m, n) <= n
BY DEF Smaller

\* A chunk is never empty, fits a block and is a key of the prefix index.
LEMMA ChunkFacts ==
  ASSUME TypeOK, op.rest # <<>>
  PROVE  /\ ChunkSize \in 1..Len(op.rest)
         /\ ChunkSize \in 1..BlockTokens
         /\ First(ChunkSize) \in Chunks
<1>1. op.rest \in Seq(Tokens)
  BY DEF TypeOK, Ops
<1>2. Len(op.rest) \in Nat \ {0}
  BY <1>1
<1>3. ChunkSize \in 1..Len(op.rest) /\ ChunkSize \in 1..BlockTokens
  BY <1>2, KVAssumption DEF ChunkSize, Smaller
<1>4. First(ChunkSize) \in Seq(Tokens) /\ Len(First(ChunkSize)) = ChunkSize
  BY <1>3, Pieces
<1>5. First(ChunkSize) \in [1..ChunkSize -> Tokens]
  BY <1>4, LenProperties
<1>. QED
  BY <1>3, <1>5 DEF Chunks

\* A new block is one that nobody refers to.
LEMMA FreshFacts ==
  ASSUME HasFresh
  PROVE  Fresh \in Blocks /\ ref[Fresh] = 0
BY DEF HasFresh, Fresh

\* The tail block that append extends, and by how much.
LEMMA TailFacts ==
  ASSUME TypeOK, op.session \in Sessions, HasRoom, op.rest # <<>>
  PROVE  /\ TailPos \in Nat \ {0}
         /\ TailPos \in DOMAIN ids[op.session]
         /\ TailBlock \in Blocks
         /\ GrowSize \in 1..Len(op.rest)
         /\ Len(text[TailBlock]) \in Nat
         /\ Len(text[TailBlock]) + GrowSize <= BlockTokens
<1>1. ids[op.session] \in Seq(Blocks) /\ op.rest \in Seq(Tokens)
  BY DEF TypeOK, Ops
<1>2. TailPos \in Nat \ {0} /\ TailPos \in DOMAIN ids[op.session]
  BY <1>1 DEF HasRoom, TailPos
<1>3. TailBlock \in Blocks
  BY <1>1, <1>2 DEF TailBlock
<1>4. text[TailBlock] \in Seq(Tokens)
  BY <1>3 DEF TypeOK
<1>5. Len(op.rest) \in Nat \ {0}
  BY <1>1
<1>6. Len(text[TailBlock]) \in Nat /\ Len(text[TailBlock]) < BlockTokens
  BY <1>4 DEF HasRoom
<1>7. BlockTokens - Len(text[TailBlock]) \in Nat \ {0}
  BY <1>6, KVAssumption
<1>8. /\ GrowSize \in Nat \ {0}
      /\ GrowSize <= Len(op.rest)
      /\ GrowSize <= BlockTokens - Len(text[TailBlock])
  BY <1>5, <1>7, SmallerFacts DEF GrowSize
<1>9. GrowSize \in 1..Len(op.rest) /\ Len(text[TailBlock]) + GrowSize <= BlockTokens
  BY <1>5, <1>6, <1>8, KVAssumption
<1>. QED
  BY <1>2, <1>3, <1>6, <1>9

\* The places that name a block, and the stored tokens, are finitely many.
LEMMA RefsFinite ==
  ASSUME ids \in [Sessions -> Seq(Blocks)], alive \subseteq Sessions, NEW b
  PROVE  /\ \A s \in Sessions : IsFiniteSet(RefsOf(s, b))
         /\ \A s \in Sessions : Cardinality(RefsOf(s, b)) \in Nat
         /\ IsFiniteSet(Refs(b))
         /\ Cardinality(Refs(b)) \in Nat
<1>1. ASSUME NEW s \in Sessions
      PROVE  IsFiniteSet(RefsOf(s, b))
  <2>1. Len(ids[s]) \in Nat /\ DOMAIN ids[s] = 1..Len(ids[s])
    BY LenProperties
  <2>2. IsFiniteSet(DOMAIN ids[s])
    BY <2>1, FS_Interval
  <2>3. IsFiniteSet({i \in DOMAIN ids[s] : ids[s][i] = b})
    BY <2>2, FS_Subset
  <2>. QED
    BY <2>3, FS_Singleton, FS_Product DEF RefsOf
<1>2. IsFiniteSet(alive)
  BY KVAssumption, FS_Subset
<1>3. IsFiniteSet({RefsOf(s, b) : s \in alive})
  <2> DEFINE places == {RefsOf(s, b) : s \in alive}
             f == [s \in alive |-> RefsOf(s, b)]
  <2>1. f \in Surjection(alive, places)
    BY DEF Surjection
  <2> HIDE DEF f, places
  <2>2. IsFiniteSet(places)
    BY <1>2, <2>1, FS_Surjection
  <2>. QED
    BY <2>2 DEF places
<1>4. IsFiniteSet(Refs(b))
  BY <1>1, <1>3, FS_UNION DEF Refs
<1>. QED
  BY <1>1, <1>4, FS_CardinalityType

\* Every stored token is one of finitely many slots.
LEMMA SlotsFinite == IsFiniteSet(Slots)
<1>1. IsFiniteSet(Blocks \X (1..BlockTokens))
  <2>1. IsFiniteSet(1..BlockTokens)
    BY KVAssumption, FS_Interval
  <2>. QED
    BY <2>1, KVAssumption, FS_Product
<1>2. Slots \subseteq Blocks \X (1..BlockTokens)
  BY DEF Slots
<1>. QED
  BY <1>1, <1>2, FS_Subset

-----------------------------------------------------------------------------
\* An empty cache has the shape.
LEMMA ShapeInit == Init => Shape
<1> SUFFICES ASSUME Init PROVE Shape
  OBVIOUS
<1>1. Idle \in Ops
  BY EmptySeq DEF Idle, Ops
<1>2. TypeOK
  <2>1. \A b \in Blocks : Len(text[b]) <= BlockTokens
    BY EmptySeq, KVAssumption DEF Init
  <2>. QED
    BY <1>1, <2>1, EmptySeq DEF Init, TypeOK
<1>3. CallShape
  BY DEF Init, CallShape, Idle
<1>. QED
  BY <1>2, <1>3 DEF Shape

\* Releasing a session, on its own or while evicting.
LEMMA ShapeRelease ==
  ASSUME Shape, NEW s \in alive, Release(s), UNCHANGED op, s # op.session
  PROVE  Shape'
<1> DEFINE gone == {b \in Live : ref[b] <= Cardinality(RefsOf(s, b))}
<1> USE DEF Shape
<1>1. alive' \subseteq Sessions /\ older' \subseteq Sessions \X Sessions
  BY DEF Release, Forget, TypeOK
<1>2. ids' \in [Sessions -> Seq(Blocks)]
  BY EmptySeq DEF Release, TypeOK
<1>3. count' \in [Sessions -> Nat] /\ priority' \in [Sessions -> Priorities \cup {0}]
  BY DEF Release, TypeOK
<1>4. ref' \in [Blocks -> Nat]
  <2>1. \A b \in Blocks : Cardinality(RefsOf(s, b)) \in Nat
    BY RefsFinite DEF TypeOK
  <2>. QED
    BY <2>1 DEF Release, TypeOK
<1>5. /\ text' \in [Blocks -> Seq(Tokens)]
      /\ \A b \in Blocks : Len(text'[b]) <= BlockTokens
  BY EmptySeq, KVAssumption DEF Release, TypeOK
<1>6. chained' \in [Blocks -> BOOLEAN]
  BY DEF Release, TypeOK
<1>7. index' \in [Chunks -> Blocks \cup {NoBlock, Dropped}]
  BY DEF Release, TypeOK
<1>8. op' \in Ops
  BY DEF TypeOK
<1>9. CallShape'
  BY EmptySeq DEF Release, TypeOK, CallShape
<1>. QED
  BY <1>1, <1>2, <1>3, <1>4, <1>5, <1>6, <1>7, <1>8, <1>9 DEF TypeOK

\* A chunk stored in a block that no session uses yet.
LEMMA ShapeNewBlock ==
  ASSUME Shape, op.session \in alive, op.rest # <<>>,
         NewBlock(ChunkSize),
         index' \in [Chunks -> Blocks \cup {NoBlock, Dropped}],
         op.kind \in {"create", "append"}
  PROVE  Shape'
<1> USE DEF Shape
<1>1. /\ ChunkSize \in 1..Len(op.rest) /\ ChunkSize \in 1..BlockTokens
      /\ First(ChunkSize) \in Seq(Tokens) /\ Len(First(ChunkSize)) = ChunkSize
      /\ Rest(ChunkSize) \in Seq(Tokens)
  BY ChunkFacts, Pieces
<1>2. Fresh \in Blocks /\ ref[Fresh] = 0
  BY FreshFacts DEF NewBlock
<1>3. op' \in Ops /\ op'.kind = op.kind /\ op'.session = op.session
  BY <1>1 DEF NewBlock, AttachBlock, TypeOK, Ops
<1>4. ids' \in [Sessions -> Seq(Blocks)] /\ count' \in [Sessions -> Nat]
  BY <1>1, <1>2 DEF NewBlock, AttachBlock, TypeOK
<1>5. ref' \in [Blocks -> Nat] /\ chained' \in [Blocks -> BOOLEAN]
  BY <1>2 DEF NewBlock, TypeOK
<1>6. /\ text' \in [Blocks -> Seq(Tokens)]
      /\ \A b \in Blocks : Len(text'[b]) <= BlockTokens
  BY <1>1, <1>2 DEF NewBlock, TypeOK
<1>7. TypeOK'
  BY <1>3, <1>4, <1>5, <1>6 DEF NewBlock, AttachBlock, TypeOK
<1>8. CallShape'
  BY <1>3 DEF NewBlock, AttachBlock, TypeOK, CallShape
<1>. QED
  BY <1>7, <1>8

\* Every step of every call keeps the shape.
LEMMA ShapeNext == Shape /\ [Next]_vars => Shape'
<1> SUFFICES ASSUME Shape, [Next]_vars PROVE Shape'
  OBVIOUS
<1> USE DEF Shape
<1>1. ASSUME NEW s \in Sessions, NEW p \in Priorities, NEW tokens \in TokenLists,
             CreateSession(s, p, tokens)
      PROVE  Shape'
  <2>1. tokens \in Seq(Tokens)
    BY IsASeq, KVAssumption DEF TokenLists
  <2>2. op' \in Ops /\ op'.kind = "create" /\ op'.session = s
    <3>1. op' = [kind |-> "create", session |-> s, rest |-> tokens, keep |-> {}, floor |-> 0]
      BY <1>1 DEF CreateSession, Idle
    <3>. QED
      BY <2>1, <3>1 DEF Ops
  <2>3. TypeOK'
    BY <1>1, <2>2 DEF CreateSession, Touch, Forget, blockVars, TypeOK
  <2>4. CallShape'
    BY <1>1, <2>2 DEF CreateSession, blockVars, CallShape, TypeOK
  <2>. QED
    BY <2>3, <2>4
<1>2. CASE CreateShared
  <2>1. /\ ChunkSize \in 1..Len(op.rest)
        /\ Rest(ChunkSize) \in Seq(Tokens)
    BY <1>2, ChunkFacts, Pieces DEF CreateShared
  <2>2. Indexed \in Blocks /\ op.session \in alive
    BY <1>2 DEF CreateShared, CanShare, Live, CallShape
  <2>3. op' \in Ops /\ op'.kind = op.kind /\ op'.session = op.session
    BY <1>2, <2>1 DEF CreateShared, AttachBlock, TypeOK, Ops
  <2>4. ids' \in [Sessions -> Seq(Blocks)] /\ count' \in [Sessions -> Nat]
    BY <1>2, <2>1, <2>2 DEF CreateShared, AttachBlock, TypeOK
  <2>5. TypeOK'
    BY <1>2, <2>2, <2>3, <2>4 DEF CreateShared, AttachBlock, TypeOK
  <2>6. CallShape'
    BY <1>2, <2>2, <2>3 DEF CreateShared, AttachBlock, TypeOK, CallShape
  <2>. QED
    BY <2>5, <2>6
<1>3. CASE CreateAllocated
  <2>1. op.session \in alive /\ Fresh \in Blocks
    BY <1>3, FreshFacts DEF CreateAllocated, NewBlock, CallShape
  <2>2. index' \in [Chunks -> Blocks \cup {NoBlock, Dropped}]
    BY <1>3, <2>1 DEF CreateAllocated, TypeOK
  <2>. QED
    BY <1>3, <2>1, <2>2, ShapeNewBlock DEF CreateAllocated
<1>4. ASSUME NEW s \in Sessions, NEW tokens \in TokenLists, AppendTokens(s, tokens)
      PROVE  Shape'
  <2>1. tokens \in Seq(Tokens)
    BY IsASeq, KVAssumption DEF TokenLists
  <2>2. op' \in Ops /\ op'.kind = "append" /\ op'.session = s
    <3>1. op' = [kind |-> "append", session |-> s, rest |-> tokens, keep |-> {}, floor |-> 0]
      BY <1>4 DEF AppendTokens, Idle
    <3>. QED
      BY <2>1, <3>1 DEF Ops
  <2>3. TypeOK'
    BY <1>4, <2>2 DEF AppendTokens, Touch, Forget, blockVars, TypeOK
  <2>4. CallShape'
    BY <1>4, <2>2 DEF AppendTokens, blockVars, CallShape, TypeOK
  <2>. QED
    BY <2>3, <2>4
<1>5. CASE AppendInPlace
  <2>1. op.session \in alive
    BY <1>5 DEF AppendInPlace, CallShape
  <2>2. /\ TailBlock \in Blocks
        /\ GrowSize \in 1..Len(op.rest)
        /\ Len(text[TailBlock]) + GrowSize <= BlockTokens
    BY <1>5, <2>1, TailFacts DEF AppendInPlace, TypeOK
  <2>3. First(GrowSize) \in Seq(Tokens) /\ Len(First(GrowSize)) = GrowSize
        /\ Rest(GrowSize) \in Seq(Tokens)
    BY <2>2, Pieces
  <2>4. op' \in Ops /\ op'.kind = op.kind /\ op'.session = op.session
    BY <1>5, <2>3 DEF AppendInPlace, TypeOK, Ops
  <2>5. /\ text' \in [Blocks -> Seq(Tokens)]
        /\ \A b \in Blocks : Len(text'[b]) <= BlockTokens
    BY <1>5, <2>2, <2>3, ConcatProperties DEF AppendInPlace, TypeOK
  <2>6. TypeOK'
    BY <1>5, <2>1, <2>2, <2>4, <2>5 DEF AppendInPlace, TypeOK
  <2>7. CallShape'
    BY <1>5, <2>1, <2>4 DEF AppendInPlace, TypeOK, CallShape
  <2>. QED
    BY <2>6, <2>7
<1>6. CASE AppendCopied
  <2>1. op.session \in alive
    BY <1>6 DEF AppendCopied, CallShape
  <2>2. /\ TailBlock \in Blocks
        /\ TailPos \in DOMAIN ids[op.session]
        /\ GrowSize \in 1..Len(op.rest)
        /\ Len(text[TailBlock]) + GrowSize <= BlockTokens
    BY <1>6, <2>1, TailFacts DEF AppendCopied, TypeOK
  <2>3. First(GrowSize) \in Seq(Tokens) /\ Len(First(GrowSize)) = GrowSize
        /\ Rest(GrowSize) \in Seq(Tokens)
    BY <2>2, Pieces
  <2>4. Fresh \in Blocks
    BY <1>6, FreshFacts DEF AppendCopied
  <2>5. op' \in Ops /\ op'.kind = op.kind /\ op'.session = op.session
    BY <1>6, <2>3 DEF AppendCopied, TypeOK, Ops
  <2>6. /\ text' \in [Blocks -> Seq(Tokens)]
        /\ \A b \in Blocks : Len(text'[b]) <= BlockTokens
    BY <1>6, <2>2, <2>3, <2>4, ConcatProperties DEF AppendCopied, TypeOK
  <2>7. ids' \in [Sessions -> Seq(Blocks)]
    <3>1. [ids[op.session] EXCEPT ![TailPos] = Fresh] \in Seq(Blocks)
      BY <2>1, <2>2, <2>4, ExceptSeq, LenProperties DEF TypeOK
    <3>2. ids' = [ids EXCEPT ![op.session] = [ids[op.session] EXCEPT ![TailPos] = Fresh]]
      BY <1>6 DEF AppendCopied
    <3>. QED
      BY <2>1, <3>1, <3>2 DEF TypeOK
  <2>8. ref' \in [Blocks -> Nat]
    <3>1. ref[TailBlock] - 1 \in Nat
      BY <1>6, <2>2 DEF AppendCopied, TypeOK
    <3>. QED
      BY <1>6, <2>2, <2>4, <3>1 DEF AppendCopied, TypeOK
  <2>9. TypeOK'
    <3>1. count' \in [Sessions -> Nat]
      BY <1>6, <2>1, <2>2 DEF AppendCopied, TypeOK
    <3>2. chained' \in [Blocks -> BOOLEAN]
      BY <1>6, <2>4 DEF AppendCopied, TypeOK
    <3>. QED
      BY <1>6, <2>5, <2>6, <2>7, <2>8, <3>1, <3>2 DEF AppendCopied, TypeOK
  <2>10. CallShape'
    BY <1>6, <2>1, <2>5 DEF AppendCopied, TypeOK, CallShape
  <2>. QED
    BY <2>9, <2>10
<1>7. CASE AppendNewBlock
  <2>1. op.session \in alive /\ index' \in [Chunks -> Blocks \cup {NoBlock, Dropped}]
    BY <1>7 DEF AppendNewBlock, CallShape, TypeOK
  <2>. QED
    BY <1>7, <2>1, ShapeNewBlock DEF AppendNewBlock
<1>8. CASE CheckCapacity
  <2>1. Idle \in Ops
    BY EmptySeq DEF Idle, Ops
  <2>2. op.session \in alive
    BY <1>8 DEF CheckCapacity, CallShape
  <2>3. op' \in Ops
    <3>1. [Idle EXCEPT !.kind = "evict", !.session = op.session,
                       !.keep = {op.session}, !.floor = Capacity] \in Ops
      <4>1. op.session \in Sessions
        BY <2>2 DEF TypeOK
      <4>2. Capacity \in Int
        BY KVAssumption
      <4>. QED
        BY <4>1, <4>2, EmptySeq DEF Idle, Ops
    <3>. QED
      BY <1>8, <2>1, <3>1 DEF CheckCapacity
  <2>4. TypeOK'
    BY <1>8, <2>3 DEF CheckCapacity, blockVars, TypeOK
  <2>5. CallShape'
    BY <1>8, <2>2 DEF CheckCapacity, blockVars, CallShape, Idle, TypeOK, Ops
  <2>. QED
    BY <2>4, <2>5
<1>9. ASSUME NEW required \in EvictSizes, NEW excluded \in SUBSET alive,
             Evict(required, excluded)
      PROVE  Shape'
  <2>1. Used \in Nat /\ required \in Nat
    BY SlotsFinite, FS_CardinalityType, KVAssumption DEF Used
  <2>2. (IF required = 0 THEN -1 ELSE Used - required) \in Int
    BY <2>1
  <2>3. op' \in Ops /\ op'.kind = "evict" /\ op'.session = NoSession /\ op'.rest = <<>>
    BY <1>9, <2>2, EmptySeq DEF Evict, Ops, Idle, TypeOK
  <2>4. TypeOK'
    BY <1>9, <2>3 DEF Evict, blockVars, TypeOK
  <2>5. CallShape'
    BY <1>9, <2>3 DEF Evict, blockVars, CallShape
  <2>. QED
    BY <2>4, <2>5
<1>10. CASE EvictNext
  <2>1. PICK s \in Candidates : Release(s)
    BY <1>10 DEF EvictNext
  <2>2. s \in alive /\ s # op.session /\ UNCHANGED op
    BY <1>10, <2>1, KVAssumption DEF EvictNext, Candidates, CallShape, TypeOK
  <2>. QED
    BY <2>1, <2>2, ShapeRelease
<1>11. CASE EvictReturn
  <2>1. Idle \in Ops
    BY EmptySeq DEF Idle, Ops
  <2>. QED
    BY <1>11, <2>1 DEF EvictReturn, blockVars, TypeOK, CallShape, Idle
<1>12. ASSUME NEW s \in Sessions, ReleaseSession(s)
       PROVE  Shape'
  <2>1. s # op.session
    BY <1>12, KVAssumption DEF ReleaseSession, CallShape
  <2>. QED
    BY <1>12, <2>1, ShapeRelease DEF ReleaseSession
<1>13. ASSUME NEW s \in Sessions, SessionStatus(s)
       PROVE  Shape'
  BY <1>13 DEF SessionStatus, Touch, Forget, blockVars, TypeOK, CallShape
<1>14. CASE UNCHANGED vars
  BY <1>14 DEF vars, TypeOK, CallShape
<1>. QED
  BY <1>1, <1>2, <1>3, <1>4, <1>5, <1>6, <1>7, <1>8, <1>9, <1>10, <1>11, <1>12,
     <1>13, <1>14 DEF Next

\* The cache's variables stay within their types, for any number of sessions,
\* any block size and any capacity.
THEOREM TypeCorrect == Spec => []TypeOK
<1>1. Spec => []Shape
  BY ShapeInit, ShapeNext, PTL DEF Spec
<1>2. Shape => TypeOK
  BY DEF Shape
<1>. QED
  BY <1>1, <1>2, PTL
-----------------------------------------------------------------------------
\* Every index entry names a live block that starts with the entry's chunk:
\* append extends an indexed block but never rewrites it.
IndexSound ==
  \A c \in Chunks : index[c] \in Blocks =>
    /\ index[c] \in Live
    /\ Len(c) <= Len(text[index[c]])
    /\ \A i \in 1..Len(c) : text[index[c]][i] = c[i]

\* The inductive invariant of the sharing machinery.
SharingInv == Shape /\ RefCountsExact /\ IndexSound

\* A place that names b is a live session and a position of its block list.
LEMMA RefsMembers ==
  ASSUME NEW b
  PROVE  /\ Refs(b) \subseteq alive \X UNION {DOMAIN ids[s] : s \in alive}
         /\ \A s, i : <<s, i>> \in Refs(b) <=>
                     s \in alive /\ i \in DOMAIN ids[s] /\ ids[s][i] = b
BY DEF Refs, RefsOf

\* A block list that grows by c adds one place to c's, and none to others'.
LEMMA RefsAppend ==
  ASSUME Shape, op.session \in alive, NEW c \in Blocks, NEW b \in Blocks,
         ids' = [ids EXCEPT ![op.session] = Append(@, c)], alive' = alive
  PROVE  Cardinality(Refs(b))' = IF b = c THEN Cardinality(Refs(b)) + 1
                                 ELSE Cardinality(Refs(b))
<1> DEFINE s0 == op.session
           n == Len(ids[op.session])
           new == <<s0, n + 1>>
<1>1. ids[s0] \in Seq(Blocks) /\ n \in Nat /\ s0 \in Sessions
  BY DEF Shape, TypeOK
<1>2. /\ ids'[s0] = Append(ids[s0], c)
      /\ \A s \in Sessions : s # s0 => ids'[s] = ids[s]
  BY <1>1 DEF Shape, TypeOK
<1>3. /\ DOMAIN ids[s0] = 1..n
      /\ DOMAIN ids'[s0] = 1..(n + 1)
      /\ \A i \in 1..n : ids'[s0][i] = ids[s0][i]
      /\ ids'[s0][n + 1] = c
  BY <1>1, <1>2
<1>4. \A s, i : <<s, i>> \in Refs(b)' <=>
               \/ <<s, i>> \in Refs(b)
               \/ b = c /\ s = s0 /\ i = n + 1
  <2>1. \A s, i : <<s, i>> \in Refs(b)' <=>
                 s \in alive /\ i \in DOMAIN ids'[s] /\ ids'[s][i] = b
    BY DEF Refs, RefsOf
  <2>2. \A i : i \in 1..(n + 1) <=> i \in 1..n \/ i = n + 1
    BY <1>1
  <2>3. n + 1 \notin 1..n
    BY <1>1
  <2>4. alive \subseteq Sessions /\ s0 \in alive
    BY DEF Shape, TypeOK
  <2> HIDE DEF n, s0
  <2>5. \A s, i : <<s, i>> \in Refs(b) <=>
                 s \in alive /\ i \in DOMAIN ids[s] /\ ids[s][i] = b
    BY RefsMembers
  <2>6. ASSUME NEW s \in alive, NEW i, s # s0
        PROVE  <<s, i>> \in Refs(b)' <=> <<s, i>> \in Refs(b)
    BY <1>2, <2>1, <2>4, <2>5, <2>6
  <2>7. ASSUME NEW i
        PROVE  <<s0, i>> \in Refs(b)' <=> <<s0, i>> \in Refs(b) \/ (b = c /\ i = n + 1)
    BY <1>3, <2>1, <2>2, <2>3, <2>4, <2>5
  <2>. QED
    BY <2>1, <2>4, <2>5, <2>6, <2>7
<1>5. Refs(b)' = IF b = c THEN Refs(b) \cup {new} ELSE Refs(b)
  <2>1. \A r \in Refs(b)' : r = <<r[1], r[2]>>
    BY DEF Refs, RefsOf
  <2>2. \A r \in Refs(b) : r = <<r[1], r[2]>>
    BY DEF Refs, RefsOf
  <2> HIDE DEF n, s0
  <2>. QED
    BY <1>4, <2>1, <2>2
<1>6. new \notin Refs(b)
  <2>1. n + 1 \notin 1..n
    BY <1>1
  <2>. QED
    BY <1>3, <2>1, RefsMembers
<1>7. IsFiniteSet(Refs(b))
  BY RefsFinite DEF Shape, TypeOK
<1> HIDE DEF new
<1>. QED
  BY <1>5, <1>6, <1>7, FS_AddElement

\* Copy on write moves one place from the tail block t to the new block c.
LEMMA RefsReplace ==
  ASSUME Shape, op.session \in alive, TailPos \in DOMAIN ids[op.session],
         NEW c \in Blocks, NEW b \in Blocks, Refs(c) = {},
         ids' = [ids EXCEPT ![op.session][TailPos] = c], alive' = alive
  PROVE  /\ TailBlock \in Blocks /\ TailBlock # c
         /\ <<op.session, TailPos>> \in Refs(TailBlock)
         /\ Cardinality(Refs(b))' = IF b = c THEN 1
                                    ELSE IF b = TailBlock THEN Cardinality(Refs(b)) - 1
                                    ELSE Cardinality(Refs(b))
<1> DEFINE s0 == op.session
           n == TailPos
           t == TailBlock
           place == <<s0, n>>
<1>1. /\ ids[s0] \in Seq(Blocks) /\ s0 \in Sessions /\ alive \subseteq Sessions
      /\ ids \in [Sessions -> Seq(Blocks)]
  BY DEF Shape, TypeOK
<1>2. t = ids[s0][n] /\ t \in Blocks
  BY <1>1 DEF TailBlock
<1>3. place \in Refs(t) /\ t # c
  BY <1>2, RefsMembers
<1>4. /\ ids'[s0] = [ids[s0] EXCEPT ![n] = c]
      /\ \A s \in Sessions : s # s0 => ids'[s] = ids[s]
  BY <1>1
<1>5. /\ DOMAIN ids'[s0] = DOMAIN ids[s0]
      /\ \A i \in DOMAIN ids[s0] : ids'[s0][i] = IF i = n THEN c ELSE ids[s0][i]
  BY <1>1, <1>4
<1> HIDE DEF s0, n, t
<1>6. \A s, i : <<s, i>> \in Refs(b) <=> s \in alive /\ i \in DOMAIN ids[s] /\ ids[s][i] = b
  BY RefsMembers
<1>7. \A s, i : <<s, i>> \in Refs(b)' <=>
               s \in alive /\ i \in DOMAIN ids'[s] /\ ids'[s][i] = b
  BY DEF Refs, RefsOf
<1>8. ASSUME NEW s \in alive, NEW i, s # s0
      PROVE  <<s, i>> \in Refs(b)' <=> <<s, i>> \in Refs(b)
  BY <1>1, <1>4, <1>6, <1>7, <1>8
<1>9. ASSUME NEW i, i # n
      PROVE  <<s0, i>> \in Refs(b)' <=> <<s0, i>> \in Refs(b)
  BY <1>5, <1>6, <1>7, <1>9
<1>10. n \in DOMAIN ids[s0] /\ s0 \in alive
  BY DEF n, s0
<1>11. (place \in Refs(b)' <=> b = c) /\ (place \in Refs(b) <=> b = t)
  BY <1>2, <1>5, <1>6, <1>7, <1>10
<1>12. /\ \A r \in Refs(b) : r = <<r[1], r[2]>> /\ r[1] \in alive
       /\ \A r \in Refs(b)' : r = <<r[1], r[2]>> /\ r[1] \in alive
  BY DEF Refs, RefsOf
<1>13. \A r : r \in Refs(b)' \ {place} <=> r \in Refs(b) \ {place}
  BY <1>8, <1>9, <1>12
<1>14. IsFiniteSet(Refs(b)) /\ Cardinality(Refs(b)) \in Nat
  BY <1>1, RefsFinite
<1> HIDE DEF place
<1>15. CASE b = c
  <2>1. Refs(b)' = {place}
    BY <1>3, <1>11, <1>13, <1>15
  <2>. QED
    BY <1>2, <1>3, <1>15, <2>1, FS_Singleton DEF t, place, s0, n
<1>16. CASE b # c /\ b = t
  <2>1. Refs(b)' = Refs(b) \ {place} /\ place \in Refs(b)
    BY <1>11, <1>13, <1>16
  <2>2. Cardinality(Refs(b))' = Cardinality(Refs(b)) - 1
    BY <1>14, <2>1, FS_RemoveElement
  <2>. QED
    BY <1>2, <1>3, <1>16, <2>2 DEF t, place, s0, n
<1>17. CASE b # c /\ b # t
  <2>1. Refs(b)' = Refs(b)
    BY <1>11, <1>13, <1>17
  <2>. QED
    BY <1>2, <1>3, <1>17, <2>1 DEF t, place, s0, n
<1>. QED
  BY <1>15, <1>16, <1>17

\* Releasing s takes away the places of s and no other.
LEMMA RefsRelease ==
  ASSUME Shape, NEW s \in alive, Release(s), NEW b \in Blocks
  PROVE  /\ Cardinality(RefsOf(s, b)) \in Nat
         /\ Cardinality(RefsOf(s, b)) <= Cardinality(Refs(b))
         /\ Cardinality(Refs(b))' = Cardinality(Refs(b)) - Cardinality(RefsOf(s, b))
<1>1. /\ ids \in [Sessions -> Seq(Blocks)] /\ alive \subseteq Sessions /\ s \in Sessions
      /\ alive' = alive \ {s} /\ ids' = [ids EXCEPT ![s] = <<>>]
  BY DEF Shape, TypeOK, Release
<1>2. \A u \in alive' : RefsOf(u, b)' = RefsOf(u, b)
  BY <1>1 DEF RefsOf
<1>3. \A u, v : u # v => RefsOf(u, b) \cap RefsOf(v, b) = {}
  BY DEF RefsOf
<1>4. Refs(b)' = UNION {RefsOf(u, b) : u \in alive \ {s}}
  BY <1>1, <1>2 DEF Refs
<1>5. Refs(b)' = Refs(b) \ RefsOf(s, b)
  BY <1>3, <1>4 DEF Refs
<1>6. RefsOf(s, b) \in SUBSET Refs(b)
  BY DEF Refs
<1>7. IsFiniteSet(Refs(b)) /\ Cardinality(RefsOf(s, b)) \in Nat
  BY <1>1, RefsFinite
<1>8. Refs(b) \cap RefsOf(s, b) = RefsOf(s, b)
  BY <1>6
<1>. QED
  BY <1>5, <1>6, <1>7, <1>8, FS_Difference, FS_Subset

\* A block nobody refers to is named by nobody and indexed by no entry.
LEMMA FreeBlock ==
  ASSUME SharingInv, HasFresh
  PROVE  /\ Fresh \in Blocks /\ ref[Fresh] = 0
         /\ Refs(Fresh) = {}
         /\ \A c \in Chunks : index[c] # Fresh
<1>1. Fresh \in Blocks /\ ref[Fresh] = 0
  BY FreshFacts
<1>2. Refs(Fresh) = {}
  <2>1. Cardinality(Refs(Fresh)) = 0
    BY <1>1 DEF SharingInv, RefCountsExact
  <2>2. IsFiniteSet(Refs(Fresh))
    BY RefsFinite DEF SharingInv, Shape, TypeOK
  <2>. QED
    BY <2>1, <2>2, FS_EmptySet
<1>3. \A c \in Chunks : index[c] # Fresh
  BY <1>1 DEF SharingInv, IndexSound, Live
<1>. QED
  BY <1>1, <1>2, <1>3

\* A place in Refs makes the count positive, so its block is live.
LEMMA NamedIsLive ==
  ASSUME SharingInv, NEW s \in alive, NEW i \in DOMAIN ids[s]
  PROVE  ids[s][i] \in Live
<1> DEFINE b == ids[s][i]
<1>1. b \in Blocks
  BY DEF SharingInv, Shape, TypeOK
<1>2. <<s, i>> \in Refs(b)
  BY RefsMembers
<1>3. IsFiniteSet(Refs(b)) /\ Cardinality(Refs(b)) \in Nat
  BY RefsFinite DEF SharingInv, Shape, TypeOK
<1>4. Cardinality(Refs(b)) # 0
  BY <1>2, <1>3, FS_EmptySet
<1>5. ref[b] = Cardinality(Refs(b))
  BY <1>1 DEF SharingInv, RefCountsExact
<1>. QED
  BY <1>1, <1>3, <1>4, <1>5 DEF Live

\* Releasing a session keeps counts exact and index entries sound.
LEMMA SharingRelease ==
  ASSUME SharingInv, NEW s \in alive, Release(s)
  PROVE  RefCountsExact' /\ IndexSound'
<1> DEFINE lost(b) == Cardinality(RefsOf(s, b))
           gone == {b \in Live : ref[b] <= lost(b)}
<1>1. \A b \in Blocks : /\ lost(b) \in Nat
                        /\ lost(b) <= ref[b]
                        /\ Cardinality(Refs(b))' = ref[b] - lost(b)
                        /\ ref[b] \in Nat
  BY RefsRelease DEF SharingInv, RefCountsExact, Shape, TypeOK
<1>2. \A b \in Blocks : ref'[b] = IF ref[b] <= lost(b) THEN 0 ELSE ref[b] - lost(b)
  BY DEF Release
<1>3. RefCountsExact'
  <2>1. \A b \in Blocks : ref'[b] = ref[b] - lost(b)
    BY <1>1, <1>2
  <2>. QED
    BY <1>1, <2>1 DEF RefCountsExact
<1>4. \A c \in Chunks : index'[c] \in Blocks => index'[c] = index[c] /\ index[c] \notin gone
  BY KVAssumption DEF Release
<1>5. \A b \in Live \ gone : b \in Live' /\ text'[b] = text[b]
  BY <1>1, <1>2 DEF Release, Live
<1>6. IndexSound'
  BY <1>4, <1>5 DEF IndexSound, SharingInv
<1>. QED
  BY <1>3, <1>6

\* So does storing a chunk in a new block.
LEMMA SharingNewBlock ==
  ASSUME SharingInv, NewBlock(ChunkSize), op.session \in alive, op.rest # <<>>,
         \/ UNCHANGED index
         \/ index' = [index EXCEPT ![First(ChunkSize)] = Fresh]
  PROVE  RefCountsExact' /\ IndexSound'
<1> USE DEF SharingInv
<1>1. /\ Fresh \in Blocks /\ ref[Fresh] = 0 /\ Refs(Fresh) = {}
      /\ \A c \in Chunks : index[c] # Fresh
  BY FreeBlock DEF NewBlock
<1>2. \A b \in Blocks : Cardinality(Refs(b))' = IF b = Fresh THEN Cardinality(Refs(b)) + 1
                                               ELSE Cardinality(Refs(b))
  BY <1>1, RefsAppend DEF NewBlock, AttachBlock
<1>3. RefCountsExact'
  <2>1. \A b \in Blocks : ref'[b] = IF b = Fresh THEN 1 ELSE ref[b]
    BY <1>1 DEF NewBlock, Shape, TypeOK
  <2>. QED
    BY <1>1, <1>2, <2>1 DEF RefCountsExact
<1>4. /\ text'[Fresh] = First(ChunkSize) /\ Fresh \in Live'
      /\ \A b \in Live : b # Fresh => b \in Live' /\ text'[b] = text[b]
  BY <1>1 DEF NewBlock, Live, Shape, TypeOK
<1>5. First(ChunkSize) \in Chunks /\ First(ChunkSize) \in Seq(Tokens)
  BY ChunkFacts, Pieces DEF Shape
<1>6. ASSUME NEW c \in Chunks, index'[c] \in Blocks
      PROVE  /\ index'[c] \in Live'
             /\ Len(c) <= Len(text'[index'[c]])
             /\ \A i \in 1..Len(c) : text'[index'[c]][i] = c[i]
  <2>1. CASE index'[c] = index[c]
    BY <1>1, <1>4, <1>6, <2>1 DEF IndexSound
  <2>2. CASE index'[c] # index[c]
    <3>1. c = First(ChunkSize) /\ index'[c] = Fresh
      BY <1>5, <2>2 DEF Shape, TypeOK
    <3>2. Len(c) \in Nat
      BY <1>5, <3>1
    <3>. QED
      BY <1>4, <3>1, <3>2
  <2>. QED
    BY <2>1, <2>2
<1>7. IndexSound'
  BY <1>6 DEF IndexSound
<1>. QED
  BY <1>3, <1>7

\* So does a step that touches neither blocks nor block lists.
LEMMA SharingUnchanged ==
  ASSUME SharingInv, UNCHANGED <<ids, ref, text, index>>,
         \A s \in Sessions : ids[s] # <<>> => (s \in alive <=> s \in alive'),
         alive \subseteq Sessions, alive' \subseteq Sessions
  PROVE  RefCountsExact' /\ IndexSound'
<1>1. \A b \in Blocks : Refs(b)' = Refs(b)
  <2> SUFFICES ASSUME NEW b \in Blocks PROVE Refs(b)' = Refs(b)
    OBVIOUS
  <2>1. \A s \in Sessions : RefsOf(s, b)' = RefsOf(s, b)
    BY DEF RefsOf
  <2>2. \A s \in Sessions : ids[s] = <<>> => RefsOf(s, b) = {}
    BY EmptySeq DEF RefsOf
  <2>. QED
    BY <2>1, <2>2 DEF Refs
<1>. QED
  BY <1>1 DEF SharingInv, RefCountsExact, IndexSound, Live

\* Extending the tail block where it is keeps every place and every chunk
\* that an index entry claims.
LEMMA SharingInPlace ==
  ASSUME SharingInv, AppendInPlace
  PROVE  RefCountsExact' /\ IndexSound'
<1> USE DEF SharingInv
<1>1. op.session \in alive /\ op.session \in Sessions
  BY DEF AppendInPlace, Shape, CallShape, TypeOK
<1>2. TailBlock \in Blocks /\ GrowSize \in 1..Len(op.rest)
  BY <1>1, TailFacts DEF AppendInPlace, Shape
<1>3. First(GrowSize) \in Seq(Tokens)
  BY <1>2, Pieces DEF Shape
<1>4. \A b \in Blocks : Refs(b)' = Refs(b)
  BY DEF AppendInPlace, Refs, RefsOf
<1>5. RefCountsExact'
  BY <1>4 DEF AppendInPlace, RefCountsExact
<1>6. ASSUME NEW b \in Blocks
      PROVE  /\ Len(text[b]) \in Nat
             /\ Len(text[b]) <= Len(text'[b])
             /\ \A i \in 1..Len(text[b]) : text'[b][i] = text[b][i]
  <2>1. text[b] \in Seq(Tokens) /\ text[TailBlock] \in Seq(Tokens)
    BY <1>2 DEF Shape, TypeOK
  <2>2. CASE b = TailBlock
    <3>1. text'[b] = text[b] \o First(GrowSize)
      BY <1>2, <2>2 DEF AppendInPlace, Shape, TypeOK
    <3>. QED
      BY <1>3, <2>1, <3>1, ConcatProperties
  <2>3. CASE b # TailBlock
    <3>1. text'[b] = text[b]
      BY <1>2, <2>3 DEF AppendInPlace, Shape, TypeOK
    <3>. QED
      BY <2>1, <3>1
  <2>. QED
    BY <2>2, <2>3
<1>7. ASSUME NEW c \in Chunks, index'[c] \in Blocks
      PROVE  /\ index'[c] \in Live'
             /\ Len(c) <= Len(text'[index'[c]])
             /\ \A i \in 1..Len(c) : text'[index'[c]][i] = c[i]
  <2>1. index'[c] = index[c] /\ Live' = Live
    BY DEF AppendInPlace, Live
  <2>2. /\ index[c] \in Live
        /\ Len(c) <= Len(text[index[c]])
        /\ \A i \in 1..Len(c) : text[index[c]][i] = c[i]
    BY <1>7, <2>1 DEF IndexSound
  <2>3. Len(c) \in Nat
    BY KVAssumption DEF Chunks
  <2>4. \A i \in 1..Len(c) : i \in 1..Len(text[index[c]])
    BY <1>6, <1>7, <2>1, <2>2, <2>3
  <2>5. \A i \in 1..Len(c) : text'[index[c]][i] = text[index[c]][i]
    BY <1>6, <1>7, <2>1, <2>4
  <2>6. Len(c) <= Len(text'[index[c]])
    <3>1. Len(text'[index[c]]) \in Nat
      <4>1. text'[index[c]] \in Seq(Tokens)
        BY <1>2, <1>3, <1>7, <2>1, ConcatProperties DEF AppendInPlace, Shape, TypeOK
      <4>. QED
        BY <4>1
    <3>. QED
      BY <1>6, <1>7, <2>1, <2>2, <2>3, <3>1
  <2>. QED
    BY <2>1, <2>2, <2>5, <2>6
<1>8. IndexSound'
  BY <1>7 DEF IndexSound
<1>. QED
  BY <1>5, <1>8

\* Copy on write moves one reference from the tail block to its copy.
LEMMA SharingCopied ==
  ASSUME SharingInv, AppendCopied
  PROVE  RefCountsExact' /\ IndexSound'
<1> USE DEF SharingInv
<1>1. op.session \in alive /\ op.session \in Sessions
  BY DEF AppendCopied, Shape, CallShape, TypeOK
<1>2. TailPos \in DOMAIN ids[op.session]
  BY <1>1, TailFacts DEF AppendCopied, Shape
<1>3. /\ Fresh \in Blocks /\ ref[Fresh] = 0 /\ Refs(Fresh) = {}
      /\ \A c \in Chunks : index[c] # Fresh
  BY FreeBlock DEF AppendCopied
<1>4. TailBlock \in Blocks /\ TailBlock # Fresh
  BY <1>1, <1>2, <1>3, RefsReplace DEF AppendCopied
<1>5. \A b \in Blocks :
        Cardinality(Refs(b))' = IF b = Fresh THEN 1
                                ELSE IF b = TailBlock THEN Cardinality(Refs(b)) - 1
                                ELSE Cardinality(Refs(b))
  BY <1>1, <1>2, <1>3, RefsReplace DEF AppendCopied
<1>6. \A b \in Blocks : ref'[b] = IF b = Fresh THEN 1
                                 ELSE IF b = TailBlock THEN ref[b] - 1 ELSE ref[b]
  BY <1>3, <1>4 DEF AppendCopied, Shape, TypeOK
<1>7. RefCountsExact'
  BY <1>5, <1>6 DEF RefCountsExact
<1>8. \A b \in Live : b # Fresh => b \in Live' /\ text'[b] = text[b]
  <2> SUFFICES ASSUME NEW b \in Live, b # Fresh PROVE b \in Live' /\ text'[b] = text[b]
    OBVIOUS
  <2>1. b \in Blocks /\ ref[b] \in Nat /\ ref[b] > 0
    BY DEF Live, Shape, TypeOK
  <2>2. text'[b] = text[b]
    <3>1. text' = [text EXCEPT ![Fresh] = text[TailBlock] \o First(GrowSize)]
      BY DEF AppendCopied
    <3>. QED
      BY <2>1, <3>1 DEF Shape, TypeOK
  <2>3. ref'[b] > 0
    <3>1. ref[TailBlock] > 1
      BY DEF AppendCopied
    <3>. QED
      BY <1>6, <2>1, <3>1
  <2>. QED
    BY <2>1, <2>2, <2>3 DEF Live
<1>9. IndexSound'
  BY <1>3, <1>8 DEF AppendCopied, IndexSound
<1>. QED
  BY <1>7, <1>9

\* Every step of every call keeps the sharing invariant.
LEMMA SharingNext == SharingInv /\ [Next]_vars => SharingInv'
<1> SUFFICES ASSUME SharingInv, [Next]_vars PROVE RefCountsExact' /\ IndexSound'
  BY ShapeNext DEF SharingInv
<1> USE DEF SharingInv
<1>1. ASSUME NEW s \in Sessions, NEW p \in Priorities, NEW tokens \in TokenLists,
             CreateSession(s, p, tokens)
      PROVE  RefCountsExact' /\ IndexSound'
  <2>1. ids[s] = <<>> /\ alive \subseteq Sessions /\ alive' = alive \cup {s}
    BY <1>1 DEF CreateSession, Shape, CallShape, TypeOK
  <2>2. UNCHANGED <<ids, ref, text, index>>
    BY <1>1 DEF CreateSession, blockVars
  <2>. QED
    BY <2>1, <2>2, SharingUnchanged
<1>2. CASE CreateShared
  <2>1. op.session \in alive /\ Indexed \in Live /\ Indexed \in Blocks
    BY <1>2 DEF CreateShared, CanShare, Live, Shape, CallShape
  <2>2. \A b \in Blocks : Cardinality(Refs(b))' = IF b = Indexed THEN Cardinality(Refs(b)) + 1
                                                 ELSE Cardinality(Refs(b))
    BY <1>2, <2>1, RefsAppend DEF CreateShared, AttachBlock
  <2>3. \A b \in Blocks : ref'[b] = IF b = Indexed THEN ref[b] + 1 ELSE ref[b]
    BY <1>2, <2>1 DEF CreateShared, Shape, TypeOK
  <2>4. RefCountsExact'
    BY <2>2, <2>3 DEF RefCountsExact
  <2>5. Live \subseteq Live'
    <3>1. \A b \in Blocks : ref[b] \in Nat
      BY DEF Shape, TypeOK
    <3>2. \A b \in Blocks : ref[b] > 0 => ref'[b] > 0
      BY <2>3, <3>1
    <3>. QED
      BY <3>2 DEF Live
  <2>6. IndexSound'
    BY <1>2, <2>5 DEF CreateShared, IndexSound
  <2>. QED
    BY <2>4, <2>6
<1>3. CASE CreateAllocated
  BY <1>3, SharingNewBlock DEF CreateAllocated, Shape, CallShape
<1>4. ASSUME NEW s \in Sessions, NEW tokens \in TokenLists, AppendTokens(s, tokens)
      PROVE  RefCountsExact' /\ IndexSound'
  BY <1>4, SharingUnchanged DEF AppendTokens, blockVars, Shape, TypeOK
<1>5. CASE AppendInPlace
  BY <1>5, SharingInPlace
<1>6. CASE AppendCopied
  BY <1>6, SharingCopied
<1>7. CASE AppendNewBlock
  BY <1>7, SharingNewBlock DEF AppendNewBlock, Shape, CallShape
<1>8. CASE CheckCapacity
  BY <1>8, SharingUnchanged DEF CheckCapacity, blockVars, Shape, TypeOK
<1>9. ASSUME NEW required \in EvictSizes, NEW excluded \in SUBSET alive,
             Evict(required, excluded)
      PROVE  RefCountsExact' /\ IndexSound'
  BY <1>9, SharingUnchanged DEF Evict, blockVars, Shape, TypeOK
<1>10. CASE EvictNext
  <2>1. PICK s \in Candidates : Release(s)
    BY <1>10 DEF EvictNext
  <2>. QED
    BY <2>1, SharingRelease DEF Candidates
<1>11. CASE EvictReturn
  BY <1>11, SharingUnchanged DEF EvictReturn, blockVars, Shape, TypeOK
<1>12. ASSUME NEW s \in Sessions, ReleaseSession(s)
       PROVE  RefCountsExact' /\ IndexSound'
  BY <1>12, SharingRelease DEF ReleaseSession
<1>13. ASSUME NEW s \in Sessions, SessionStatus(s)
       PROVE  RefCountsExact' /\ IndexSound'
  BY <1>13, SharingUnchanged DEF SessionStatus, blockVars, Shape, TypeOK
<1>14. CASE UNCHANGED vars
  BY <1>14, SharingUnchanged DEF vars, Shape, TypeOK
<1>. QED
  BY <1>1, <1>2, <1>3, <1>4, <1>5, <1>6, <1>7, <1>8, <1>9, <1>10, <1>11, <1>12,
     <1>13, <1>14 DEF Next

\* It holds of an empty cache.
LEMMA SharingInit == Init => SharingInv
<1> SUFFICES ASSUME Init PROVE RefCountsExact /\ IndexSound
  BY ShapeInit DEF SharingInv
<1>1. \A b \in Blocks : Refs(b) = {}
  BY DEF Init, Refs
<1>2. RefCountsExact
  BY <1>1, FS_EmptySet DEF Init, RefCountsExact
<1>3. IndexSound
  BY KVAssumption DEF Init, IndexSound
<1>. QED
  BY <1>2, <1>3

\* It holds for ever.
LEMMA Sharing == Spec => []SharingInv
BY SharingInit, SharingNext, PTL DEF Spec

\* Reference counts are exact after any sequence of calls, however many
\* sessions share a block and whatever is evicted in between.
THEOREM RefCountsCorrect == Spec => []RefCountsExact
<1>1. SharingInv => RefCountsExact
  BY DEF SharingInv
<1>. QED
  BY <1>1, Sharing, PTL

\* No live session ever names a block that was dropped.
THEOREM NoDangling == Spec => []NoDanglingBlock
<1>1. SharingInv => NoDanglingBlock
  BY NamedIsLive DEF NoDanglingBlock
<1>. QED
  BY <1>1, Sharing, PTL

\* The token-count test of create_session is enough to trust an index entry,
\* for every block size.
THEOREM IndexCorrect == Spec => []IndexTrustworthy
<1>1. ASSUME SharingInv
      PROVE  IndexTrustworthy
  <2> SUFFICES ASSUME NEW c \in Chunks, index[c] \in Live, Len(text[index[c]]) = Len(c)
               PROVE  text[index[c]] = c
    BY DEF IndexTrustworthy
  <2>1. index[c] \in Blocks /\ text[index[c]] \in Seq(Tokens)
    BY <1>1 DEF Live, SharingInv, Shape, TypeOK
  <2>2. c \in Seq(Tokens)
    BY IsASeq, KVAssumption DEF Chunks
  <2>3. \A i \in 1..Len(c) : text[index[c]][i] = c[i]
    BY <1>1, <2>1 DEF SharingInv, IndexSound
  <2>. QED
    BY <2>1, <2>2, <2>3, SeqEqual
<1>. QED
  BY <1>1, Sharing, PTL

-----------------------------------------------------------------------------
\* The capacity promise holds between calls and while evict runs on its own.
CapacityInv ==
  (op.kind \in {"idle", "evict"} /\ op.session = NoSession) =>
     (Used <= Capacity \/ Cardinality(alive) <= 1)

\* Releasing a session stores no more and keeps no more sessions.
LEMMA ReleaseShrinks ==
  ASSUME Shape, NEW s \in alive, Release(s)
  PROVE  Used' <= Used /\ Cardinality(alive') <= Cardinality(alive)
         /\ Used \in Nat /\ Used' \in Nat
         /\ Cardinality(alive) \in Nat /\ Cardinality(alive') \in Nat
<1>1. \A b \in Blocks : ref[b] \in Nat /\ Cardinality(RefsOf(s, b)) \in Nat
  BY RefsFinite DEF Shape, TypeOK
<1>2. \A b \in Blocks : ref'[b] = IF ref[b] <= Cardinality(RefsOf(s, b)) THEN 0
                                 ELSE ref[b] - Cardinality(RefsOf(s, b))
  BY DEF Release
<1>3. \A b \in Blocks : ref'[b] > 0 => ref[b] > Cardinality(RefsOf(s, b)) /\ ref[b] > 0
  BY <1>1, <1>2
<1>4. \A b \in Live' : b \in Live /\ text'[b] = text[b]
  <2> SUFFICES ASSUME NEW b \in Live' PROVE b \in Live /\ text'[b] = text[b]
    OBVIOUS
  <2>1. b \in Blocks /\ b \in Live /\ ref[b] > Cardinality(RefsOf(s, b))
    BY <1>3 DEF Live
  <2>2. ~(ref[b] <= Cardinality(RefsOf(s, b)))
    BY <1>1, <2>1
  <2>3. text'[b] = text[b]
    BY <2>1, <2>2 DEF Release
  <2>. QED
    BY <2>1, <2>3
<1>5. Slots' \subseteq Slots
  BY <1>4 DEF Slots
<1>6. Cardinality(Slots') <= Cardinality(Slots)
      /\ Cardinality(Slots) \in Nat /\ Cardinality(Slots') \in Nat
  BY <1>5, SlotsFinite, FS_Subset, FS_CardinalityType
<1>7. IsFiniteSet(alive) /\ alive' \subseteq alive
  BY KVAssumption, FS_Subset DEF Shape, TypeOK, Release
<1>8. Cardinality(alive') <= Cardinality(alive)
      /\ Cardinality(alive) \in Nat /\ Cardinality(alive') \in Nat
  BY <1>7, FS_Subset, FS_CardinalityType
<1>. QED
  BY <1>6, <1>8 DEF Used

\* Every step keeps the capacity invariant.
LEMMA CapacityNext == Shape /\ CapacityInv /\ [Next]_vars => CapacityInv'
<1> SUFFICES ASSUME Shape, CapacityInv, [Next]_vars,
                    op'.kind \in {"idle", "evict"}, op'.session = NoSession
             PROVE  Used' <= Capacity \/ Cardinality(alive') <= 1
  BY DEF CapacityInv
<1> USE DEF Shape
<1>1. ASSUME NEW s \in Sessions, NEW p \in Priorities, NEW tokens \in TokenLists,
             CreateSession(s, p, tokens)
      PROVE  FALSE
  BY <1>1 DEF CreateSession, Idle
<1>2. ASSUME \/ CreateShared \/ CreateAllocated
             \/ AppendInPlace \/ AppendCopied \/ AppendNewBlock
      PROVE  FALSE
  <2>1. op' = [op EXCEPT !.rest = op'.rest] /\ op.kind \in {"create", "append"}
    BY <1>2 DEF CreateShared, CreateAllocated, NewBlock, AttachBlock, AppendInPlace,
                AppendCopied, AppendNewBlock, TypeOK, Ops
  <2>2. op'.kind = op.kind
    BY <2>1 DEF TypeOK, Ops
  <2>. QED
    BY <2>1, <2>2
<1>3. ASSUME NEW s \in Sessions, NEW tokens \in TokenLists, AppendTokens(s, tokens)
      PROVE  FALSE
  BY <1>3 DEF AppendTokens, Idle
<1>4. CASE CheckCapacity
  <2>1. op.session \in Sessions
    BY <1>4 DEF CheckCapacity, CallShape, TypeOK
  <2>2. Used <= Capacity
    BY <1>4, <2>1, KVAssumption DEF CheckCapacity, Idle
  <2>3. Slots' = Slots
    BY <1>4 DEF CheckCapacity, blockVars, Slots, Live
  <2>. QED
    BY <2>2, <2>3 DEF Used
<1>5. ASSUME UNCHANGED <<alive, blockVars>>, op.kind \in {"idle", "evict"},
             op.session = NoSession
      PROVE  Used' <= Capacity \/ Cardinality(alive') <= 1
  <2>1. Slots' = Slots
    BY <1>5 DEF blockVars, Slots, Live
  <2>. QED
    BY <1>5, <2>1 DEF Used, CapacityInv
<1>6. ASSUME NEW required \in EvictSizes, NEW excluded \in SUBSET alive,
             Evict(required, excluded)
      PROVE  Used' <= Capacity \/ Cardinality(alive') <= 1
  BY <1>5, <1>6 DEF Evict, CallShape
<1>7. ASSUME NEW s \in alive, Release(s), UNCHANGED op
      PROVE  Used' <= Capacity \/ Cardinality(alive') <= 1
  BY <1>7, ReleaseShrinks, KVAssumption DEF CapacityInv
<1>8. CASE EvictNext
  BY <1>7, <1>8 DEF EvictNext, Candidates
<1>9. CASE EvictReturn
  <2>1. CASE op.session = NoSession
    BY <1>5, <1>9, <2>1 DEF EvictReturn
  <2>2. CASE op.session # NoSession
    <3>1. op.session \in alive /\ op.keep = {op.session} /\ op.floor = Capacity
      BY <1>9, <2>2 DEF EvictReturn, CallShape
    <3>2. CASE Used <= op.floor
      <4>1. Slots' = Slots
        BY <1>9 DEF EvictReturn, blockVars, Slots, Live
      <4>. QED
        BY <3>1, <3>2, <4>1 DEF Used
    <3>3. CASE Candidates = {}
      <4>1. alive' = {op.session}
        BY <1>9, <3>1, <3>3 DEF EvictReturn, Candidates
      <4>. QED
        BY <4>1, FS_Singleton
    <3>. QED
      BY <1>9, <3>2, <3>3 DEF EvictReturn
  <2>. QED
    BY <2>1, <2>2
<1>10. ASSUME NEW s \in Sessions, ReleaseSession(s)
       PROVE  Used' <= Capacity \/ Cardinality(alive') <= 1
  BY <1>7, <1>10 DEF ReleaseSession
<1>11. ASSUME NEW s \in Sessions, SessionStatus(s)
       PROVE  Used' <= Capacity \/ Cardinality(alive') <= 1
  BY <1>5, <1>11 DEF SessionStatus, CallShape
<1>12. CASE UNCHANGED vars
  BY <1>5, <1>12 DEF vars, blockVars
<1>. QED
  BY <1>1, <1>2, <1>3, <1>4, <1>6, <1>8, <1>9, <1>10, <1>11, <1>12 DEF Next

\* Between calls the cache fits its capacity unless one session fills it
\* alone, for any number of sessions and any capacity: an overflowing call
\* evicts all it may before it raises MemoryError.
THEOREM CapacityKept == Spec => []OverCapacityMeansAlone
<1>1. Init => Shape /\ CapacityInv
  <2> SUFFICES ASSUME Init PROVE CapacityInv
    BY ShapeInit
  <2>1. Cardinality(alive) = 0
    BY FS_EmptySet DEF Init
  <2>. QED
    BY <2>1 DEF CapacityInv
<1>2. Shape /\ CapacityInv => OverCapacityMeansAlone
  BY DEF Shape, CallShape, CapacityInv, OverCapacityMeansAlone
<1>3. Shape /\ CapacityInv /\ [Next]_vars => Shape' /\ CapacityInv'
  BY ShapeNext, CapacityNext
<1>. QED
  BY <1>1, <1>2, <1>3, PTL DEF Spec
-----------------------------------------------------------------------------
(***************************************************************************)
(* What a step does to the sessions' tokens, seen through their blocks.    *)
(***************************************************************************)
\* u has the blocks it had and they hold what they held.
Untouched(u) ==
  ids'[u] = ids[u] /\ \A i \in DOMAIN ids[u] : text'[ids[u][i]] = text[ids[u][i]]

\* The next n tokens are in a block of their own behind those of u.
Adds(u, b, n) ==
  /\ ids'[u] = Append(ids[u], b) /\ text'[b] = First(n)
  /\ \A i \in DOMAIN ids[u] : text'[ids[u][i]] = text[ids[u][i]]

\* The next n tokens are at the end of u's last block.
Grows(u, n) ==
  /\ Len(ids'[u]) = Len(ids[u])
  /\ \A i \in 1..(Len(ids[u]) - 1) : text'[ids'[u][i]] = text[ids[u][i]]
  /\ text'[ids'[u][Len(ids[u])]] = text[ids[u][Len(ids[u])]] \o First(n)

\* A session that names no block whose text a step changes is untouched.
LEMMA UntouchedUnless ==
  ASSUME SharingInv, NEW u \in Sessions, ids'[u] = ids[u], NEW b,
         u \in alive => \A i \in DOMAIN ids[u] : <<u, i>> \notin Refs(b),
         \A c \in Blocks \ {b} : text'[c] = text[c]
  PROVE  Untouched(u)
<1>1. CASE u \notin alive
  <2>1. ids[u] = <<>>
    BY <1>1 DEF SharingInv, Shape, CallShape
  <2>. QED
    BY <2>1, EmptySeq DEF Untouched
<1>2. CASE u \in alive
  <2>1. ASSUME NEW i \in DOMAIN ids[u]
        PROVE  text'[ids[u][i]] = text[ids[u][i]]
    <3>1. ids[u][i] \in Blocks
      BY DEF SharingInv, Shape, TypeOK
    <3>2. ids[u][i] # b
      BY <1>2, RefsMembers
    <3>. QED
      BY <3>1, <3>2
  <2>. QED
    BY <2>1 DEF Untouched
<1>. QED
  BY <1>1, <1>2

\* A chunk is stored or shared.
LEMMA AddEffects ==
  ASSUME SharingInv, CreateShared \/ CreateAllocated \/ AppendNewBlock
  PROVE  /\ op.session \in alive /\ op.rest # <<>>
         /\ ChunkSize \in 1..Len(op.rest) /\ ChunkSize \in 1..BlockTokens
         /\ \E b \in Blocks : Adds(op.session, b, ChunkSize)
         /\ \A u \in Sessions \ {op.session} : Untouched(u)
         /\ alive' = alive /\ op' = [op EXCEPT !.rest = Rest(ChunkSize)]
         /\ count' = [count EXCEPT ![op.session] = @ + ChunkSize]
<1>1. /\ op.session \in alive /\ op.session \in Sessions /\ op.rest # <<>>
      /\ ids \in [Sessions -> Seq(Blocks)] /\ text \in [Blocks -> Seq(Tokens)]
  BY DEF CreateShared, CreateAllocated, AppendNewBlock, SharingInv, Shape, TypeOK,
     CallShape
<1>2. ChunkSize \in 1..Len(op.rest) /\ ChunkSize \in 1..BlockTokens /\ First(ChunkSize) \in Chunks
  BY <1>1, ChunkFacts DEF SharingInv, Shape
<1>3. PICK b \in Blocks : /\ ids' = [ids EXCEPT ![op.session] = Append(@, b)]
                          /\ \/ CreateShared /\ b = Indexed /\ UNCHANGED text
                             \/ NewBlock(ChunkSize) /\ b = Fresh
  <2>1. CASE CreateShared
    <3>1. PICK b \in Blocks : b = Indexed
      BY <2>1 DEF CreateShared, CanShare, Live
    <3>2. ids' = [ids EXCEPT ![op.session] = Append(@, b)] /\ UNCHANGED text
      BY <2>1, <3>1 DEF CreateShared, AttachBlock
    <3>. QED
      BY <2>1, <3>1, <3>2
  <2>2. CASE CreateAllocated \/ AppendNewBlock
    <3>1. NewBlock(ChunkSize) /\ HasFresh
      BY <2>2 DEF CreateAllocated, AppendNewBlock, NewBlock
    <3>2. PICK b \in Blocks : b = Fresh
      BY <3>1, FreshFacts
    <3>3. ids' = [ids EXCEPT ![op.session] = Append(@, b)]
      BY <3>1, <3>2 DEF NewBlock, AttachBlock
    <3>. QED
      BY <3>1, <3>2, <3>3
  <2>. QED
    BY <2>1, <2>2
<1>4. /\ ids'[op.session] = Append(ids[op.session], b)
      /\ \A u \in Sessions \ {op.session} : ids'[u] = ids[u]
      /\ alive' = alive /\ op' = [op EXCEPT !.rest = Rest(ChunkSize)]
      /\ count' = [count EXCEPT ![op.session] = @ + ChunkSize]
  <2>1. \/ CreateShared \/ CreateAllocated \/ AppendNewBlock
    OBVIOUS
  <2>2. /\ alive' = alive /\ op' = [op EXCEPT !.rest = Rest(ChunkSize)]
        /\ count' = [count EXCEPT ![op.session] = @ + ChunkSize]
    BY <2>1 DEF CreateShared, CreateAllocated, AppendNewBlock, NewBlock, AttachBlock
  <2>. QED
    BY <1>1, <1>3, <2>2
<1>5. CASE CreateShared /\ b = Indexed /\ UNCHANGED text
  <2>1. text[b] = First(ChunkSize)
    <3>1. index[First(ChunkSize)] = b /\ b \in Live /\ Len(text[b]) = ChunkSize
      BY <1>5 DEF CreateShared, CanShare, Indexed
    <3>2. First(ChunkSize) \in Seq(Tokens) /\ Len(First(ChunkSize)) = ChunkSize
      BY <1>2, Pieces DEF SharingInv, Shape
    <3>3. \A i \in 1..ChunkSize : text[b][i] = First(ChunkSize)[i]
      BY <1>2, <3>1, <3>2 DEF SharingInv, IndexSound
    <3>. QED
      BY <1>1, <3>1, <3>2, <3>3, SeqEqual
  <2>2. Adds(op.session, b, ChunkSize)
    BY <1>4, <1>5, <2>1 DEF Adds
  <2>3. \A u \in Sessions \ {op.session} : Untouched(u)
    BY <1>4, <1>5 DEF Untouched
  <2>. QED
    BY <1>1, <1>2, <1>4, <2>2, <2>3
<1>6. CASE NewBlock(ChunkSize) /\ b = Fresh
  <2>1. /\ text'[Fresh] = First(ChunkSize) /\ Refs(Fresh) = {} /\ Fresh \in Blocks
        /\ \A c \in Blocks \ {Fresh} : text'[c] = text[c]
    BY <1>1, <1>6, FreeBlock DEF NewBlock
  <2>2. \A u \in Sessions \ {op.session} : Untouched(u)
    BY <1>4, <2>1, UntouchedUnless
  <2>3. \A i \in DOMAIN ids[op.session] : text'[ids[op.session][i]] = text[ids[op.session][i]]
    <3>1. \A i \in DOMAIN ids[op.session] : ids[op.session][i] # Fresh
      BY <1>1, <2>1, RefsMembers
    <3>2. \A i \in DOMAIN ids[op.session] : ids[op.session][i] \in Blocks
      BY <1>1
    <3>. QED
      BY <2>1, <3>1, <3>2
  <2>4. Adds(op.session, b, ChunkSize)
    BY <1>4, <1>6, <2>1, <2>3 DEF Adds
  <2>. QED
    BY <1>1, <1>2, <1>4, <2>2, <2>4
<1>. QED
  BY <1>3, <1>5, <1>6

\* The last block gets more, in its place or in a copy.
LEMMA GrowEffects ==
  ASSUME SharingInv, AppendInPlace \/ AppendCopied
  PROVE  /\ op.session \in alive /\ op.rest # <<>> /\ op.kind = "append"
         /\ Len(ids[op.session]) \in Nat \ {0}
         /\ GrowSize \in 1..Len(op.rest)
         /\ Grows(op.session, GrowSize)
         /\ \A u \in Sessions \ {op.session} : Untouched(u)
         /\ alive' = alive /\ op' = [op EXCEPT !.rest = Rest(GrowSize)]
         /\ count' = [count EXCEPT ![op.session] = @ + GrowSize]
<1>1. /\ op.session \in alive /\ op.session \in Sessions /\ op.rest # <<>> /\ op.kind = "append"
      /\ ids \in [Sessions -> Seq(Blocks)] /\ text \in [Blocks -> Seq(Tokens)]
      /\ alive' = alive /\ op' = [op EXCEPT !.rest = Rest(GrowSize)]
      /\ count' = [count EXCEPT ![op.session] = @ + GrowSize]
  BY DEF AppendInPlace, AppendCopied, SharingInv, Shape, TypeOK, CallShape
<1>2. /\ TailPos \in Nat \ {0} /\ TailPos \in DOMAIN ids[op.session] /\ TailBlock \in Blocks
      /\ GrowSize \in 1..Len(op.rest)
  BY <1>1, TailFacts DEF AppendInPlace, AppendCopied, SharingInv, Shape
<1>3. /\ TailPos = Len(ids[op.session]) /\ TailBlock = ids[op.session][TailPos]
      /\ <<op.session, TailPos>> \in Refs(TailBlock)
      /\ DOMAIN ids[op.session] = 1..TailPos
  BY <1>1, <1>2, RefsMembers, LenProperties DEF TailPos, TailBlock
<1>4. \A i \in DOMAIN ids[op.session] : ids[op.session][i] \in Blocks
  BY <1>1
<1>5. CASE AppendInPlace
  <2>1. /\ ids' = ids /\ text'[TailBlock] = text[TailBlock] \o First(GrowSize)
        /\ \A c \in Blocks \ {TailBlock} : text'[c] = text[c]
    BY <1>1, <1>2, <1>5 DEF AppendInPlace
  <2>2. Refs(TailBlock) = {<<op.session, TailPos>>}
    <3>1. ref[TailBlock] <= 1 /\ ref[TailBlock] = Cardinality(Refs(TailBlock))
      BY <1>2, <1>5 DEF AppendInPlace, SharingInv, RefCountsExact
    <3>2. IsFiniteSet(Refs(TailBlock)) /\ Cardinality(Refs(TailBlock)) \in Nat
      BY RefsFinite DEF SharingInv, Shape, TypeOK
    <3> DEFINE rest == Refs(TailBlock) \ {<<op.session, TailPos>>}
    <3>3. IsFiniteSet(rest) /\ Cardinality(rest) = Cardinality(Refs(TailBlock)) - 1
      BY <1>3, <3>2, FS_RemoveElement
    <3>4. Cardinality(rest) \in Nat
      BY <3>3, FS_CardinalityType
    <3>5. Cardinality(rest) = 0
      BY <3>1, <3>2, <3>3, <3>4
    <3>6. rest = {}
      BY <3>3, <3>5, FS_EmptySet
    <3>. QED
      BY <1>3, <3>6
  <2>3. \A u \in Sessions \ {op.session} : Untouched(u)
    BY <2>1, <2>2, UntouchedUnless
  <2>4. \A i \in 1..(TailPos - 1) : text'[ids'[op.session][i]] = text[ids[op.session][i]]
    <3>1. ASSUME NEW i \in 1..(TailPos - 1)
          PROVE  ids[op.session][i] \in Blocks \ {TailBlock}
      <4>1. i \in DOMAIN ids[op.session] /\ i # TailPos
        BY <1>2, <1>3
      <4>2. <<op.session, i>> \notin Refs(TailBlock)
        BY <2>2, <4>1
      <4>. QED
        BY <1>1, <1>4, <4>1, <4>2, RefsMembers
    <3>. QED
      BY <2>1, <3>1
  <2>5. Grows(op.session, GrowSize)
    BY <1>3, <2>1, <2>4 DEF Grows
  <2>. QED
    BY <1>1, <1>2, <1>3, <2>3, <2>5
<1>6. CASE AppendCopied
  <2>1. Fresh \in Blocks /\ Refs(Fresh) = {}
    BY <1>6, FreeBlock DEF AppendCopied
  <2>2. /\ text'[Fresh] = text[TailBlock] \o First(GrowSize)
        /\ \A c \in Blocks \ {Fresh} : text'[c] = text[c]
    BY <1>1, <1>6, <2>1 DEF AppendCopied
  <2>3. /\ ids'[op.session] = [ids[op.session] EXCEPT ![TailPos] = Fresh]
        /\ \A u \in Sessions \ {op.session} : ids'[u] = ids[u]
    BY <1>1, <1>6 DEF AppendCopied
  <2>4. \A u \in Sessions \ {op.session} : Untouched(u)
    BY <2>1, <2>2, <2>3, UntouchedUnless
  <2>5. /\ ids'[op.session][TailPos] = Fresh /\ Len(ids'[op.session]) = Len(ids[op.session])
        /\ \A i \in 1..(TailPos - 1) : ids'[op.session][i] = ids[op.session][i]
    BY <1>1, <1>2, <1>3, <2>1, <2>3, ExceptSeq
  <2>6. \A i \in 1..(TailPos - 1) : text'[ids'[op.session][i]] = text[ids[op.session][i]]
    <3>1. ASSUME NEW i \in 1..(TailPos - 1)
          PROVE  ids[op.session][i] \in Blocks \ {Fresh}
      <4>1. i \in DOMAIN ids[op.session]
        BY <1>2, <1>3
      <4>. QED
        BY <1>1, <1>4, <2>1, <4>1, RefsMembers
    <3>. QED
      BY <2>2, <2>5, <3>1
  <2>7. Grows(op.session, GrowSize)
    BY <1>3, <2>2, <2>5, <2>6 DEF Grows
  <2>. QED
    BY <1>1, <1>2, <1>3, <2>4, <2>7
<1>. QED
  BY <1>5, <1>6

\* A session that goes leaves what the others read.
LEMMA DropEffects ==
  ASSUME SharingInv, NEW s \in alive, Release(s)
  PROVE  /\ ids'[s] = <<>> /\ alive' = alive \ {s}
         /\ count'[s] = 0 /\ \A u \in Sessions \ {s} : count'[u] = count[u] /\ Untouched(u)
<1>1. /\ ids \in [Sessions -> Seq(Blocks)] /\ alive \subseteq Sessions /\ s \in Sessions
      /\ count \in [Sessions -> Nat]
  BY DEF SharingInv, Shape, TypeOK
<1>2. /\ alive' = alive \ {s} /\ ids' = [ids EXCEPT ![s] = <<>>]
      /\ count' = [count EXCEPT ![s] = 0]
  BY DEF Release
<1>3. ASSUME NEW u \in alive \ {s}, NEW i \in DOMAIN ids[u]
      PROVE  text'[ids[u][i]] = text[ids[u][i]]
  <2>1. PICK b \in Blocks : b = ids[u][i]
    BY <1>1
  <2>2. /\ Cardinality(RefsOf(s, b)) \in Nat
        /\ Cardinality(Refs(b))' = Cardinality(Refs(b)) - Cardinality(RefsOf(s, b))
        /\ ref[b] = Cardinality(Refs(b)) /\ ref[b] \in Nat
    BY RefsRelease DEF SharingInv, RefCountsExact, Shape, TypeOK
  <2>3. <<u, i>> \in Refs(b)'
    <3>1. u \in alive' /\ ids'[u] = ids[u]
      BY <1>1, <1>2
    <3>. QED
      BY <2>1, <3>1 DEF Refs, RefsOf
  <2>4. IsFiniteSet(Refs(b)')
    <3>1. Refs(b)' \subseteq Refs(b)
      BY <1>1, <1>2 DEF Refs, RefsOf
    <3>2. IsFiniteSet(Refs(b))
      BY <1>1, RefsFinite
    <3>. QED
      BY <3>1, <3>2, FS_Subset
  <2>5. Cardinality(Refs(b)') # 0 /\ Cardinality(Refs(b)') \in Nat
    BY <2>3, <2>4, FS_EmptySet, FS_CardinalityType
  <2>6. ~(ref[b] <= Cardinality(RefsOf(s, b)))
    BY <2>2, <2>5
  <2>. QED
    BY <2>1, <2>6 DEF Release
<1>4. ASSUME NEW u \in Sessions \ {s}
      PROVE  Untouched(u)
  <2>1. ids'[u] = ids[u]
    BY <1>1, <1>2
  <2>2. CASE u \in alive
    BY <1>3, <2>1, <2>2 DEF Untouched
  <2>3. CASE u \notin alive
    <3>1. ids[u] = <<>>
      BY <2>3 DEF SharingInv, Shape, CallShape
    <3>. QED
      BY <2>1, <3>1, EmptySeq DEF Untouched
  <2>. QED
    BY <2>2, <2>3
<1>. QED
  BY <1>1, <1>2, <1>4

-----------------------------------------------------------------------------
(***************************************************************************)
(* Pages.  What a session's blocks hold follows the count of its tokens;   *)
(* while a session is created, all its blocks are full until the last.     *)
(***************************************************************************)
PageOk(s) ==
  LET n == Len(ids[s]) IN
  /\ \A i \in 1..(n - 1) : Len(text[ids[s][i]]) = BlockTokens
  /\ count[s] = IF n = 0 THEN 0 ELSE (n - 1) * BlockTokens + Len(text[ids[s][n]])
Full(s) == \A i \in DOMAIN ids[s] : Len(text[ids[s][i]]) = BlockTokens

PagedInv ==
  /\ \A s \in Sessions : PageOk(s)
  /\ op.kind = "create" /\ op.rest # <<>> => Full(op.session)

\* A session that a step does not touch keeps its pages.
LEMMA PageKept ==
  ASSUME Shape, NEW s \in Sessions, PageOk(s), Untouched(s), count'[s] = count[s]
  PROVE  PageOk(s)'
<1>1. Len(ids[s]) \in Nat /\ DOMAIN ids[s] = 1..Len(ids[s])
  BY LenProperties DEF Shape, TypeOK
<1>2. \A i \in 1..(Len(ids[s]) - 1) : i \in DOMAIN ids[s]
  BY <1>1
<1>3. Len(ids[s]) # 0 => Len(ids[s]) \in DOMAIN ids[s]
  BY <1>1
<1>. QED
  BY <1>1, <1>2, <1>3 DEF PageOk, Untouched

\* A block behind full ones makes a page, and the session stays full with a
\* full one.
LEMMA PageAdded ==
  ASSUME Shape, NEW s \in Sessions, PageOk(s), Full(s),
         NEW b \in Blocks, NEW n \in 1..Len(op.rest), Adds(s, b, n),
         count'[s] = count[s] + n
  PROVE  PageOk(s)' /\ (n = BlockTokens => Full(s)')
<1> DEFINE k == Len(ids[s])
<1>1. /\ ids[s] \in Seq(Blocks) /\ k \in Nat /\ DOMAIN ids[s] = 1..k
      /\ BlockTokens \in Nat /\ n \in Nat
  BY LenProperties, KVAssumption DEF Shape, TypeOK, Ops
<1>2. /\ Len(ids'[s]) = k + 1 /\ ids'[s][k + 1] = b /\ DOMAIN ids'[s] = 1..(k + 1)
      /\ \A i \in 1..k : ids'[s][i] = ids[s][i]
  BY <1>1, AppendProperties DEF Adds
<1>3. Len(text'[b]) = n
  BY Pieces DEF Adds, Shape
<1>4. \A i \in 1..k : Len(text'[ids'[s][i]]) = BlockTokens
  BY <1>1, <1>2 DEF Adds, Full
<1>5. count'[s] = k * BlockTokens + n
  <2>1. CASE k = 0
    BY <1>1, <2>1 DEF PageOk
  <2>2. CASE k # 0
    <3>1. k \in 1..k /\ Len(text[ids[s][k]]) = BlockTokens
      BY <1>1, <2>2 DEF Full
    <3>2. count[s] = (k - 1) * BlockTokens + BlockTokens
      BY <2>2, <3>1 DEF PageOk
    <3>3. \A m \in Nat : (m - 1) * BlockTokens + BlockTokens = m * BlockTokens
      BY <1>1
    <3>. QED
      BY <1>1, <3>2, <3>3
  <2>. QED
    BY <2>1, <2>2
<1>. HIDE DEF k
<1>6. PageOk(s)'
  <2>1. Len(ids'[s]) # 0 /\ Len(ids'[s]) - 1 = k
    BY <1>1, <1>2
  <2>. QED
    BY <1>2, <1>3, <1>4, <1>5, <2>1 DEF PageOk
<1>7. n = BlockTokens => Full(s)'
  <2>1. \A i \in 1..(k + 1) : i \in 1..k \/ i = k + 1
    BY <1>1
  <2>. QED
    BY <1>2, <1>3, <1>4, <2>1 DEF Full
<1>. QED
  BY <1>6, <1>7

\* So does the growth of the last block.
LEMMA PageGrown ==
  ASSUME Shape, NEW s \in Sessions, PageOk(s), Len(ids[s]) \in Nat \ {0},
         NEW n \in 1..Len(op.rest), Grows(s, n), count'[s] = count[s] + n
  PROVE  PageOk(s)'
<1> DEFINE k == Len(ids[s])
           t == text[ids[s][k]]
<1>1. ids[s] \in Seq(Blocks) /\ DOMAIN ids[s] = 1..k /\ BlockTokens \in Nat /\ n \in Nat
  BY LenProperties, KVAssumption DEF Shape, TypeOK, Ops
<1>2. t \in Seq(Tokens)
  <2>1. k \in DOMAIN ids[s]
    BY <1>1
  <2>. QED
    BY <1>1, <2>1 DEF Shape, TypeOK
<1>3. First(n) \in Seq(Tokens) /\ Len(First(n)) = n
  BY Pieces DEF Shape
<1>4. Len(text'[ids'[s][k]]) = Len(t) + n /\ Len(t) \in Nat
  <2>1. text'[ids'[s][k]] = t \o First(n)
    BY DEF Grows
  <2> HIDE DEF t, k
  <2>2. Len(t \o First(n)) = Len(t) + Len(First(n)) /\ Len(t) \in Nat
    BY <1>2, <1>3, ConcatProperties, LenProperties
  <2>. QED
    BY <1>3, <2>1, <2>2
<1>5. count'[s] = (k - 1) * BlockTokens + (Len(t) + n)
  <2>1. count[s] = (k - 1) * BlockTokens + Len(t)
    BY DEF PageOk
  <2>2. (k - 1) * BlockTokens \in Int
    BY <1>1
  <2>3. \A a \in Int : a + Len(t) + n = a + (Len(t) + n)
    BY <1>1, <1>4
  <2>. QED
    BY <2>1, <2>2, <2>3
<1>6. \A i \in 1..(k - 1) : Len(text'[ids'[s][i]]) = BlockTokens
  BY DEF PageOk, Grows
<1>7. Len(ids'[s]) = k /\ k # 0
  BY DEF Grows
<1> HIDE DEF k, t
<1>. QED
  BY <1>4, <1>5, <1>6, <1>7 DEF PageOk

\* Every step keeps the pages.
LEMMA PagedNext == SharingInv /\ PagedInv /\ [Next]_vars => PagedInv'
<1> SUFFICES ASSUME SharingInv, PagedInv, [Next]_vars PROVE PagedInv'
  OBVIOUS
<1>0. /\ Shape /\ op.rest \in Seq(Tokens) /\ Len(op.rest) \in Nat /\ op \in Ops
      /\ count \in [Sessions -> Nat] /\ alive \subseteq Sessions
      /\ text \in [Blocks -> Seq(Tokens)] /\ ids \in [Sessions -> Seq(Blocks)]
  BY DEF SharingInv, Shape, TypeOK, Ops
<1>1. ASSUME UNCHANGED <<ids, count, text>>,
             op'.kind = "create" => (op' = op \/ Full(op'.session))
      PROVE  PagedInv'
  <2>1. \A s \in Sessions : PageOk(s)'
    BY <1>1 DEF PagedInv, PageOk
  <2>. QED
    BY <1>1, <2>1 DEF PagedInv, Full
<1>2. ASSUME NEW s \in Sessions, NEW p \in Priorities, NEW tokens \in TokenLists,
             CreateSession(s, p, tokens)
      PROVE  PagedInv'
  <2>1. ids[s] = <<>> /\ op'.session = s
    BY <1>0, <1>2 DEF CreateSession, Shape, CallShape, Idle
  <2>2. Full(op'.session)
    BY <2>1, EmptySeq DEF Full
  <2>. QED
    BY <1>1, <1>2, <2>2 DEF CreateSession, blockVars
<1>3. ASSUME CreateShared \/ CreateAllocated \/ AppendNewBlock
      PROVE  PagedInv'
  <2>1. /\ op.session \in alive /\ op.rest # <<>>
        /\ ChunkSize \in 1..Len(op.rest) /\ ChunkSize \in 1..BlockTokens
        /\ \A u \in Sessions \ {op.session} : Untouched(u)
        /\ op' = [op EXCEPT !.rest = Rest(ChunkSize)]
        /\ count' = [count EXCEPT ![op.session] = @ + ChunkSize]
    BY <1>3, AddEffects
  <2>2. PICK b \in Blocks : Adds(op.session, b, ChunkSize)
    BY <1>3, AddEffects
  <2>3. Full(op.session)
    <3>1. CASE op.kind = "create"
      BY <2>1, <3>1 DEF PagedInv
    <3>2. CASE op.kind # "create"
      <4>1. ~HasRoom
        BY <1>3, <3>2 DEF CreateShared, CreateAllocated, AppendNewBlock
      <4>2. /\ TailPos \in Nat /\ DOMAIN ids[op.session] = 1..TailPos
            /\ TailPos = Len(ids[op.session])
        BY <1>0, <2>1, LenProperties DEF TailPos
      <4>3. ASSUME NEW i \in 1..TailPos
            PROVE  Len(text[ids[op.session][i]]) = BlockTokens
        <5>1. CASE i = TailPos
          <6>1. ids[op.session][i] = TailBlock /\ TailBlock \in Blocks
            BY <1>0, <2>1, <4>2, <5>1 DEF TailBlock
          <6>2. Len(text[TailBlock]) \in Nat /\ Len(text[TailBlock]) <= BlockTokens
            BY <1>0, <6>1 DEF Shape, TypeOK
          <6>3. ~(Len(text[TailBlock]) < BlockTokens)
            BY <4>1, <4>2 DEF HasRoom
          <6>. QED
            BY <6>1, <6>2, <6>3, KVAssumption
        <5>2. CASE i # TailPos
          <6>1. i \in 1..(TailPos - 1)
            BY <4>2, <5>2
          <6>. QED
            BY <1>0, <2>1, <4>2, <6>1 DEF PagedInv, PageOk
        <5>. QED
          BY <5>1, <5>2
      <4>. QED
        BY <4>2, <4>3 DEF Full
    <3>. QED
      BY <3>1, <3>2
  <2>4. PICK s \in Sessions : s = op.session
    BY <1>0, <2>1
  <2>5. count'[s] = count[s] + ChunkSize /\ \A u \in Sessions \ {s} : count'[u] = count[u]
    BY <1>0, <2>1, <2>4
  <2>6. PageOk(s)' /\ (ChunkSize = BlockTokens => Full(s)')
    <3>1. PageOk(s) /\ Full(s) /\ Adds(s, b, ChunkSize)
      BY <2>2, <2>3, <2>4 DEF PagedInv, Full, Adds
    <3>. QED
      BY <1>0, <2>1, <2>5, <3>1, PageAdded
  <2>7. \A u \in Sessions \ {s} : PageOk(u)'
    BY <1>0, <2>1, <2>4, <2>5, PageKept DEF PagedInv
  <2>8. op'.session = s /\ (op'.rest # <<>> => ChunkSize = BlockTokens)
    <3>1. op'.session = s /\ op'.rest = Rest(ChunkSize)
      BY <1>0, <2>1, <2>4 DEF Ops
    <3>2. ASSUME ChunkSize # BlockTokens
          PROVE  Rest(ChunkSize) = <<>>
      <4>1. ChunkSize = Len(op.rest)
        BY <1>0, <3>2 DEF ChunkSize, Smaller
      <4>2. Rest(ChunkSize) = SubSeq(op.rest, Len(op.rest) + 1, Len(op.rest))
        BY <4>1 DEF Rest
      <4>. QED
        BY <1>0, <4>2
    <3>. QED
      BY <3>1, <3>2
  <2>9. op'.kind = "create" /\ op'.rest # <<>> => Full(op.session)'
    BY <2>6, <2>8 DEF Full
  <2>. QED
    BY <2>6, <2>7, <2>9 DEF PagedInv
<1>4. ASSUME NEW s \in Sessions, NEW tokens \in TokenLists, AppendTokens(s, tokens)
      PROVE  PagedInv'
  BY <1>1, <1>4 DEF AppendTokens, blockVars, Idle
<1>5. ASSUME AppendInPlace \/ AppendCopied
      PROVE  PagedInv'
  <2>1. /\ op.session \in alive /\ op.kind = "append"
        /\ Len(ids[op.session]) \in Nat \ {0} /\ GrowSize \in 1..Len(op.rest)
        /\ Grows(op.session, GrowSize)
        /\ \A u \in Sessions \ {op.session} : Untouched(u)
        /\ op' = [op EXCEPT !.rest = Rest(GrowSize)]
        /\ count' = [count EXCEPT ![op.session] = @ + GrowSize]
    BY <1>5, GrowEffects
  <2>2. PICK s \in Sessions : s = op.session
    BY <1>0, <2>1
  <2>3. count'[s] = count[s] + GrowSize /\ \A u \in Sessions \ {s} : count'[u] = count[u]
    BY <1>0, <2>1, <2>2
  <2>4. PageOk(s)'
    <3>1. PageOk(s) /\ Grows(s, GrowSize) /\ Len(ids[s]) \in Nat \ {0}
      BY <2>1, <2>2 DEF PagedInv, Grows
    <3>. QED
      BY <1>0, <2>1, <2>3, <3>1, PageGrown
  <2>5. \A u \in Sessions \ {s} : PageOk(u)'
    BY <1>0, <2>1, <2>2, <2>3, PageKept DEF PagedInv
  <2>6. op'.kind = "append"
    BY <1>0, <2>1 DEF Ops
  <2>. QED
    BY <2>4, <2>5, <2>6 DEF PagedInv
<1>6. CASE CheckCapacity
  BY <1>1, <1>6 DEF CheckCapacity, blockVars, Idle
<1>7. ASSUME NEW required \in EvictSizes, NEW excluded \in SUBSET alive,
             Evict(required, excluded)
      PROVE  PagedInv'
  BY <1>1, <1>7 DEF Evict, blockVars, Idle
<1>8. ASSUME NEW s \in alive, Release(s), UNCHANGED op, op.kind # "create"
      PROVE  PagedInv'
  <2>1. /\ ids'[s] = <<>> /\ count'[s] = 0
        /\ \A u \in Sessions \ {s} : count'[u] = count[u] /\ Untouched(u)
    BY <1>8, DropEffects
  <2>2. PageOk(s)'
    BY <2>1, EmptySeq DEF PageOk
  <2>3. \A u \in Sessions \ {s} : PageOk(u)'
    BY <1>0, <2>1, PageKept DEF PagedInv
  <2>. QED
    BY <1>8, <2>2, <2>3 DEF PagedInv
<1>9. CASE EvictNext
  BY <1>8, <1>9 DEF EvictNext, Candidates
<1>10. CASE EvictReturn
  BY <1>1, <1>10 DEF EvictReturn, blockVars, Idle
<1>11. ASSUME NEW s \in Sessions, ReleaseSession(s)
       PROVE  PagedInv'
  BY <1>8, <1>11 DEF ReleaseSession
<1>12. ASSUME NEW s \in Sessions, SessionStatus(s)
       PROVE  PagedInv'
  BY <1>1, <1>12 DEF SessionStatus, blockVars
<1>13. CASE UNCHANGED vars
  BY <1>1, <1>13 DEF vars
<1>. QED
  BY <1>2, <1>3, <1>4, <1>5, <1>6, <1>7, <1>9, <1>10, <1>11, <1>12, <1>13 DEF Next

\* Only the last block of a session has room and its count is what its blocks
\* hold, for any block size, however blocks are shared, copied and evicted.
THEOREM AlwaysPaged == Spec => []Paged
<1>1. Init => PagedInv
  BY EmptySeq DEF Init, PagedInv, PageOk, Idle
<1>2. SharingInv /\ PagedInv => Paged
  BY DEF PagedInv, PageOk, Paged, SharingInv, Shape, TypeOK
<1>3. Spec => []PagedInv
  BY <1>1, Sharing, PagedNext, PTL DEF Spec
<1>. QED
  BY <1>2, <1>3, Sharing, PTL

-----------------------------------------------------------------------------
(***************************************************************************)
(* Eviction order.  Recency is a strict order: no two sessions are each    *)
(* before the other.                                                       *)
(***************************************************************************)
RecencyStrict == \A s, t \in Sessions : <<s, t>> \in older => <<t, s>> \notin older

\* What was used last is before nothing, and forgetting takes pairs away.
LEMMA RecencyNext == Shape /\ RecencyStrict /\ [Next]_vars => RecencyStrict'
<1> SUFFICES ASSUME Shape, RecencyStrict, [Next]_vars PROVE RecencyStrict'
  OBVIOUS
<1>1. ASSUME older' \subseteq older
      PROVE  RecencyStrict'
  BY <1>1 DEF RecencyStrict
<1>2. ASSUME NEW s, Touch(s)
      PROVE  RecencyStrict'
  BY <1>2 DEF Touch, Forget, RecencyStrict
<1>3. ASSUME NEW s, Release(s)
      PROVE  RecencyStrict'
  BY <1>1, <1>3 DEF Release, Forget
<1>4. ASSUME NEW s \in Sessions, NEW p \in Priorities, NEW tokens \in TokenLists,
             CreateSession(s, p, tokens)
      PROVE  RecencyStrict'
  BY <1>2, <1>4 DEF CreateSession
<1>5. ASSUME CreateShared \/ CreateAllocated \/ AppendInPlace \/ AppendCopied
               \/ AppendNewBlock \/ CheckCapacity \/ EvictReturn \/ UNCHANGED vars
      PROVE  RecencyStrict'
  <2>1. older' = older
    BY <1>5 DEF CreateShared, CreateAllocated, NewBlock, AttachBlock, AppendInPlace,
       AppendCopied,
                AppendNewBlock, CheckCapacity, EvictReturn, vars
  <2>. QED
    BY <1>1, <2>1
<1>6. ASSUME NEW s \in Sessions, NEW tokens \in TokenLists, AppendTokens(s, tokens)
      PROVE  RecencyStrict'
  BY <1>2, <1>6 DEF AppendTokens
<1>7. ASSUME NEW required \in EvictSizes, NEW excluded \in SUBSET alive,
             Evict(required, excluded)
      PROVE  RecencyStrict'
  BY <1>1, <1>7 DEF Evict
<1>8. CASE EvictNext
  BY <1>3, <1>8 DEF EvictNext
<1>9. ASSUME NEW s \in Sessions, ReleaseSession(s) \/ SessionStatus(s)
      PROVE  RecencyStrict'
  BY <1>2, <1>3, <1>9 DEF ReleaseSession, SessionStatus
<1>. QED
  BY <1>4, <1>5, <1>6, <1>7, <1>8, <1>9 DEF Next

\* While a call evicts, no session goes that is more important than one the
\* call could have taken, or as important and more recently used.
THEOREM EvictsInOrder == Spec => EvictionInOrder
<1>1. Init => RecencyStrict
  BY DEF Init, RecencyStrict
<1>2. ASSUME Shape, RecencyStrict, [Next]_vars, op.kind = "evict",
             NEW s \in alive \ alive', NEW t \in alive' \ op.keep
      PROVE  priority[s] <= priority[t] /\ (priority[s] = priority[t] => <<t, s>> \notin older)
  <2>1. EvictNext
    BY <1>2 DEF Next, CreateSession, CreateShared, CreateAllocated, AppendTokens,
       AppendInPlace,
                AppendCopied, AppendNewBlock, CheckCapacity, Evict, EvictReturn, ReleaseSession,
                SessionStatus, vars
  <2>2. PICK v \in Candidates : Release(v) /\ \A u \in Candidates \ {v} : Before(v, u)
    BY <2>1 DEF EvictNext
  <2>3. alive' = alive \ {v}
    BY <2>2 DEF Release
  <2>4. s = v /\ t \in Candidates \ {v}
    BY <1>2, <2>3 DEF Candidates
  <2>5. Before(s, t)
    BY <2>2, <2>4
  <2>6. /\ s \in Sessions /\ t \in Sessions
        /\ priority[s] \in Int /\ priority[t] \in Int
    <3>1. s \in Sessions /\ t \in Sessions
      BY <1>2, <2>3 DEF Shape, TypeOK
    <3>2. priority[s] \in Priorities \cup {0} /\ priority[t] \in Priorities \cup {0}
      BY <1>2, <3>1 DEF Shape, TypeOK
    <3>3. \A n \in Priorities \cup {0} : n \in Int
      BY KVAssumption
    <3>. QED
      BY <3>1, <3>2, <3>3
  <2>. QED
    BY <1>2, <2>5, <2>6 DEF Before, RecencyStrict
<1>3. Shape /\ RecencyStrict /\ [Next]_vars
        => [op.kind = "evict" =>
              \A s \in alive \ alive', t \in alive' \ op.keep :
                /\ priority[s] <= priority[t]
                /\ priority[s] = priority[t] => <<t, s>> \notin older]_vars
  BY <1>2
<1>4. Spec => [](Shape /\ RecencyStrict)
  BY <1>1, ShapeInit, ShapeNext, RecencyNext, PTL DEF Spec
<1>. QED
  BY <1>3, <1>4, PTL DEF Spec, EvictionInOrder

-----------------------------------------------------------------------------
(***************************************************************************)
(* The refinement: through its blocks, every session is a private sequence *)
(* of pages, and every step of the cache is a step of KVStore or none.     *)
(***************************************************************************)
PagesIn(f, g) == [s \in Sessions |-> [i \in DOMAIN f[s] |-> g[f[s][i]]]]

\* A table of pages has the shape of the table of blocks it is read through.
LEMMA PagesOf ==
  ASSUME NEW f \in [Sessions -> Seq(Blocks)], NEW g \in [Blocks -> Seq(Tokens)]
  PROVE  /\ PagesIn(f, g) \in [Sessions -> Seq(Seq(Tokens))]
         /\ \A s \in Sessions : /\ Len(PagesIn(f, g)[s]) = Len(f[s])
                                /\ DOMAIN PagesIn(f, g)[s] = DOMAIN f[s]
                                /\ \A i \in DOMAIN f[s] : PagesIn(f, g)[s][i] = g[f[s][i]]
<1> DEFINE p == PagesIn(f, g)
<1>0. p = [s \in Sessions |-> [i \in DOMAIN f[s] |-> g[f[s][i]]]]
  BY DEF PagesIn
<1> HIDE DEF p
<1>1. ASSUME NEW s \in Sessions
      PROVE  /\ p[s] \in Seq(Seq(Tokens))
             /\ Len(p[s]) = Len(f[s]) /\ DOMAIN p[s] = DOMAIN f[s]
             /\ \A i \in DOMAIN f[s] : p[s][i] = g[f[s][i]]
  <2>1. /\ p[s] = [i \in 1..Len(f[s]) |-> g[f[s][i]]]
        /\ Len(f[s]) \in Nat /\ DOMAIN f[s] = 1..Len(f[s])
    BY <1>0, LenProperties
  <2>2. \A i \in 1..Len(f[s]) : g[f[s][i]] \in Seq(Tokens)
    <3>1. f[s] \in Seq(Blocks)
      OBVIOUS
    <3>2. \A i \in 1..Len(f[s]) : f[s][i] \in Blocks
      BY <3>1, ElementOfSeq
    <3>. QED
      BY <3>2
  <2>3. p[s] \in [1..Len(f[s]) -> Seq(Tokens)]
    BY <2>1, <2>2
  <2>4. p[s] \in Seq(Seq(Tokens))
    BY <2>1, <2>3, IsASeq
  <2>5. Len(p[s]) = Len(f[s])
    BY <2>1, <2>3, <2>4, LenProperties
  <2>. QED
    BY <2>1, <2>4, <2>5
<1>2. p \in [Sessions -> Seq(Seq(Tokens))]
  BY <1>0, <1>1
<1>. QED
  BY <1>1, <1>2 DEF p

\* The pages before and after a step.
LEMMA PagesFacts ==
  ASSUME Shape, [Next]_vars
  PROVE  /\ Shape' /\ op.rest \in Seq(Tokens) /\ op'.rest \in Seq(Tokens)
         /\ Pages \in [Sessions -> Seq(Seq(Tokens))] /\ Pages' \in [Sessions -> Seq(Seq(Tokens))]
         /\ \A s \in Sessions : /\ Len(Pages[s]) = Len(ids[s]) /\ DOMAIN Pages[s] = DOMAIN ids[s]
                                /\ \A i \in DOMAIN ids[s] : Pages[s][i] = text[ids[s][i]]
         /\ \A s \in Sessions :
              /\ Len(Pages'[s]) = Len(ids'[s]) /\ DOMAIN Pages'[s] = DOMAIN ids'[s]
              /\ \A i \in DOMAIN ids'[s] : Pages'[s][i] = text'[ids'[s][i]]
<1>1. Shape'
  BY ShapeNext
<1>2. /\ ids \in [Sessions -> Seq(Blocks)] /\ text \in [Blocks -> Seq(Tokens)]
      /\ ids' \in [Sessions -> Seq(Blocks)] /\ text' \in [Blocks -> Seq(Tokens)]
      /\ op.rest \in Seq(Tokens) /\ op'.rest \in Seq(Tokens)
  BY <1>1 DEF Shape, TypeOK, Ops
<1>3. Pages = PagesIn(ids, text) /\ Pages' = PagesIn(ids', text')
  BY DEF Pages, PagesIn
<1>4. ASSUME NEW f \in [Sessions -> Seq(Blocks)], NEW g \in [Blocks -> Seq(Tokens)], NEW p,
             p = PagesIn(f, g)
      PROVE  /\ p \in [Sessions -> Seq(Seq(Tokens))]
             /\ \A s \in Sessions : /\ Len(p[s]) = Len(f[s]) /\ DOMAIN p[s] = DOMAIN f[s]
                                    /\ \A i \in DOMAIN f[s] : p[s][i] = g[f[s][i]]
  BY <1>4, PagesOf
<1>5. /\ Pages \in [Sessions -> Seq(Seq(Tokens))]
      /\ \A s \in Sessions : /\ Len(Pages[s]) = Len(ids[s]) /\ DOMAIN Pages[s] = DOMAIN ids[s]
                             /\ \A i \in DOMAIN ids[s] : Pages[s][i] = text[ids[s][i]]
  <2>1. PICK f, g, p : f = ids /\ g = text /\ p = Pages
    OBVIOUS
  <2>2. /\ f \in [Sessions -> Seq(Blocks)] /\ g \in [Blocks -> Seq(Tokens)]
        /\ p = PagesIn(f, g)
    BY <1>2, <1>3, <2>1
  <2>. QED
    BY <1>4, <2>1, <2>2
<1>6. /\ Pages' \in [Sessions -> Seq(Seq(Tokens))]
      /\ \A s \in Sessions :
           /\ Len(Pages'[s]) = Len(ids'[s]) /\ DOMAIN Pages'[s] = DOMAIN ids'[s]
           /\ \A i \in DOMAIN ids'[s] : Pages'[s][i] = text'[ids'[s][i]]
  <2>1. PICK f, g, p : f = ids' /\ g = text' /\ p = Pages'
    OBVIOUS
  <2>2. /\ f \in [Sessions -> Seq(Blocks)] /\ g \in [Blocks -> Seq(Tokens)]
        /\ p = PagesIn(f, g)
    BY <1>2, <1>3, <2>1
  <2>. QED
    BY <1>4, <2>1, <2>2
<1>. QED
  BY <1>1, <1>2, <1>5, <1>6

\* A session that a step does not touch has the pages it had.
LEMMA PagesUntouched ==
  ASSUME Shape, [Next]_vars, NEW s \in Sessions, Untouched(s)
  PROVE  Pages'[s] = Pages[s]
<1>1. Pages[s] \in Seq(Seq(Tokens)) /\ Pages'[s] \in Seq(Seq(Tokens))
  BY PagesFacts
<1>2. Len(Pages'[s]) = Len(Pages[s]) /\ DOMAIN Pages[s] = 1..Len(Pages[s])
  BY <1>1, PagesFacts, LenProperties DEF Untouched
<1>3. \A i \in 1..Len(Pages[s]) : Pages'[s][i] = Pages[s][i]
  <2>1. ASSUME NEW i \in 1..Len(Pages[s])
        PROVE  Pages'[s][i] = Pages[s][i]
    <3>1. i \in DOMAIN ids[s] /\ i \in DOMAIN ids'[s]
      BY <1>2, PagesFacts DEF Untouched
    <3>2. Pages'[s][i] = text'[ids'[s][i]] /\ Pages[s][i] = text[ids[s][i]]
      BY <3>1, PagesFacts
    <3>. QED
      BY <3>1, <3>2 DEF Untouched
  <2>. QED
    BY <2>1
<1>. QED
  BY <1>1, <1>2, <1>3, SeqEqual

\* A step that changes neither blocks nor block lists changes no page.
LEMMA PagesUnchanged ==
  ASSUME UNCHANGED <<ids, text>>
  PROVE  Pages' = Pages
BY DEF Pages

\* A chunk in a block of its own is a page more.
LEMMA AddsPage ==
  ASSUME Shape, [Next]_vars, NEW s \in Sessions, NEW b \in Blocks, NEW n \in 1..Len(op.rest),
         Adds(s, b, n), \A u \in Sessions \ {s} : Untouched(u)
  PROVE  Pages' = [Pages EXCEPT ![s] = Append(Pages[s], SubSeq(op.rest, 1, n))]
<1> DEFINE old == Pages[s]
           new == Pages'[s]
           page == SubSeq(op.rest, 1, n)
           k == Len(ids[s])
<1>1. page \in Seq(Tokens) /\ page = First(n)
  BY Pieces DEF Shape, First
<1>2. /\ old \in Seq(Seq(Tokens)) /\ new \in Seq(Seq(Tokens))
      /\ Pages \in [Sessions -> Seq(Seq(Tokens))] /\ Pages' \in [Sessions -> Seq(Seq(Tokens))]
  BY PagesFacts
<1>3. /\ ids[s] \in Seq(Blocks) /\ k \in Nat /\ DOMAIN ids[s] = 1..k
      /\ Len(ids'[s]) = k + 1 /\ ids'[s][k + 1] = b /\ DOMAIN ids'[s] = 1..(k + 1)
      /\ \A i \in 1..k : ids'[s][i] = ids[s][i]
  BY AppendProperties, LenProperties DEF Adds, Shape, TypeOK
<1>4. /\ Len(old) = k /\ Len(new) = k + 1
      /\ \A i \in 1..k : old[i] = text[ids[s][i]]
      /\ \A i \in 1..(k + 1) : new[i] = text'[ids'[s][i]]
  BY <1>3, PagesFacts
<1>5. new[k + 1] = page
  <2>1. k + 1 \in 1..(k + 1)
    BY <1>3
  <2>2. new[k + 1] = text'[b]
    BY <1>3, <1>4, <2>1
  <2>. QED
    BY <1>1, <2>2 DEF Adds
<1>6. \A i \in 1..k : new[i] = old[i]
  <2>1. \A i \in 1..k : i \in 1..(k + 1)
    BY <1>3
  <2>. QED
    BY <1>3, <1>4, <2>1 DEF Adds
<1>7. \A u \in Sessions \ {s} : Pages'[u] = Pages[u]
  BY PagesUntouched
<1> HIDE DEF old, new, page, k
<1>8. new = Append(old, page)
  <2>1. /\ Append(old, page) \in Seq(Seq(Tokens)) /\ Len(Append(old, page)) = k + 1
        /\ \A i \in 1..k : Append(old, page)[i] = old[i]
        /\ Append(old, page)[k + 1] = page
    BY <1>1, <1>2, <1>4, AppendProperties
  <2>2. \A i \in 1..(k + 1) : new[i] = Append(old, page)[i]
    <3>1. \A i \in 1..(k + 1) : i \in 1..k \/ i = k + 1
      BY <1>3
    <3>. QED
      BY <1>5, <1>6, <2>1, <3>1
  <2>. QED
    BY <1>2, <1>4, <2>1, <2>2, SeqEqual
<1>9. Pages' = [Pages EXCEPT ![s] = new]
  BY <1>2, <1>7 DEF new
<1>. QED
  BY <1>8, <1>9 DEF old, page

\* The last block's growth is the last page's.
LEMMA GrowsPage ==
  ASSUME Shape, [Next]_vars, NEW s \in Sessions, NEW n \in 1..Len(op.rest),
         Len(ids[s]) \in Nat \ {0}, Grows(s, n), \A u \in Sessions \ {s} : Untouched(u)
  PROVE  /\ Pages[s] # <<>>
         /\ Pages' = [Pages EXCEPT ![s][Len(Pages[s])] = @ \o SubSeq(op.rest, 1, n)]
<1> DEFINE old == Pages[s]
           new == Pages'[s]
           page == SubSeq(op.rest, 1, n)
           k == Len(ids[s])
           more == [old EXCEPT ![k] = old[k] \o page]
<1>1. page \in Seq(Tokens) /\ page = First(n)
  BY Pieces DEF Shape, First
<1>2. /\ old \in Seq(Seq(Tokens)) /\ new \in Seq(Seq(Tokens))
      /\ Pages \in [Sessions -> Seq(Seq(Tokens))] /\ Pages' \in [Sessions -> Seq(Seq(Tokens))]
  BY PagesFacts
<1>3. /\ ids[s] \in Seq(Blocks) /\ DOMAIN ids[s] = 1..k
      /\ ids'[s] \in Seq(Blocks) /\ Len(ids'[s]) = k /\ DOMAIN ids'[s] = 1..k
  <2>1. Shape'
    BY PagesFacts
  <2>. QED
    BY <2>1, LenProperties DEF Grows, Shape, TypeOK
<1>4. /\ Len(old) = k /\ Len(new) = k
      /\ \A i \in 1..k : old[i] = text[ids[s][i]]
      /\ \A i \in 1..k : new[i] = text'[ids'[s][i]]
  BY <1>3, PagesFacts
<1>5. k \in 1..k /\ \A i \in 1..k : i \in 1..(k - 1) \/ i = k
  OBVIOUS
<1>6. new[k] = old[k] \o page
  BY <1>1, <1>4, <1>5 DEF Grows
<1>7. \A i \in 1..(k - 1) : new[i] = old[i]
  <2>1. \A i \in 1..(k - 1) : i \in 1..k
    OBVIOUS
  <2>. QED
    BY <1>4, <2>1 DEF Grows
<1>8. \A u \in Sessions \ {s} : Pages'[u] = Pages[u]
  BY PagesUntouched
<1>9. k # 0
  OBVIOUS
<1> HIDE DEF old, new, page, k
<1>10. new = more
  <2>1. old[k] \in Seq(Tokens) /\ old[k] \o page \in Seq(Tokens)
    BY <1>1, <1>2, <1>4, <1>5, ConcatProperties, ElementOfSeq
  <2>2. more \in Seq(Seq(Tokens)) /\ Len(more) = k
    BY <1>2, <1>4, <1>5, <2>1, ExceptSeq
  <2>3. \A i \in 1..k : more[i] = IF i = k THEN old[k] \o page ELSE old[i]
    BY <1>2, <1>4, <1>5, <2>1, ExceptSeq
  <2>4. \A i \in 1..k : new[i] = more[i]
    BY <1>5, <1>6, <1>7, <2>3
  <2>. QED
    BY <1>2, <1>4, <2>2, <2>4, SeqEqual
<1>11. Pages' = [Pages EXCEPT ![s] = new]
  BY <1>2, <1>8 DEF new
<1>12. old # <<>>
  BY <1>4, <1>9, EmptySeq
<1>. QED
  BY <1>2, <1>4, <1>10, <1>11, <1>12 DEF old, page

\* An empty cache is an empty store.
LEMMA StoreInit == Init => Store!Init
<1> SUFFICES ASSUME Init PROVE Store!Init
  OBVIOUS
<1>1. Pages = [s \in Sessions |-> <<>>]
  BY EmptySeq DEF Init, Pages
<1>. QED
  BY <1>1 DEF Init, Idle, Store!Init

\* Every step of the cache is one of the store, or changes nothing of it.
LEMMA StoreNext == SharingInv /\ [Next]_vars => [Store!Next]_(Store!vars)
<1> SUFFICES ASSUME SharingInv, [Next]_vars
             PROVE  Store!Next \/ UNCHANGED <<alive, Pages, op.session, op.rest>>
  BY DEF Store!vars
<1>0. /\ Shape /\ op \in Ops /\ op.rest \in Seq(Tokens) /\ alive \subseteq Sessions
      /\ NoSession \notin Sessions /\ ids \in [Sessions -> Seq(Blocks)]
      /\ Pages \in [Sessions -> Seq(Seq(Tokens))] /\ Pages' \in [Sessions -> Seq(Seq(Tokens))]
  BY PagesFacts, KVAssumption DEF SharingInv, Shape, TypeOK, Ops
<1>1. ASSUME NEW s \in Sessions, NEW p \in Priorities, NEW tokens \in TokenLists,
             CreateSession(s, p, tokens)
      PROVE  Store!Next
  <2>1. op.session = NoSession /\ op'.session = s /\ op'.rest \in Seq(Tokens)
    BY <1>1, PagesFacts DEF CreateSession, Idle, SharingInv, Shape, CallShape
  <2>2. Pages' = Pages
    BY <1>1, PagesUnchanged DEF CreateSession, blockVars
  <2>. QED
    BY <1>1, <2>1, <2>2 DEF CreateSession, Store!Open, Store!Next
<1>2. ASSUME CreateShared \/ CreateAllocated \/ AppendNewBlock
      PROVE  Store!Next
  <2>1. /\ op.session \in alive /\ ChunkSize \in 1..Len(op.rest)
        /\ \A u \in Sessions \ {op.session} : Untouched(u)
        /\ alive' = alive /\ op' = [op EXCEPT !.rest = Rest(ChunkSize)]
    BY <1>2, AddEffects
  <2>2. PICK b \in Blocks : Adds(op.session, b, ChunkSize)
    BY <1>2, AddEffects
  <2>3. PICK s \in Sessions, n \in 1..Len(op.rest) : s = op.session /\ n = ChunkSize
    BY <1>0, <2>1
  <2>4. Adds(s, b, n)
    BY <2>2, <2>3 DEF Adds
  <2>5. Pages' = [Pages EXCEPT ![s] = Append(Pages[s], SubSeq(op.rest, 1, n))]
    BY <1>0, <2>1, <2>3, <2>4, AddsPage
  <2>6. op'.session = op.session /\ op'.rest = SubSeq(op.rest, n + 1, Len(op.rest))
    BY <1>0, <2>1, <2>3 DEF Ops, Rest
  <2>7. Store!AddPage(n)
    BY <2>1, <2>3, <2>5, <2>6 DEF Store!AddPage
  <2>. QED
    BY <2>3, <2>7 DEF Store!Next
<1>3. ASSUME NEW s \in Sessions, NEW tokens \in TokenLists, AppendTokens(s, tokens)
      PROVE  Store!Next
  <2>1. op.session = NoSession /\ op'.session = s /\ op'.rest \in Seq(Tokens)
    BY <1>3, PagesFacts DEF AppendTokens, Idle, SharingInv, Shape, CallShape
  <2>2. Pages' = Pages
    BY <1>3, PagesUnchanged DEF AppendTokens, blockVars
  <2>. QED
    BY <1>3, <2>1, <2>2 DEF AppendTokens, Store!Extend, Store!Next
<1>4. ASSUME AppendInPlace \/ AppendCopied
      PROVE  Store!Next
  <2>1. /\ op.session \in alive /\ GrowSize \in 1..Len(op.rest)
        /\ Len(ids[op.session]) \in Nat \ {0} /\ Grows(op.session, GrowSize)
        /\ \A u \in Sessions \ {op.session} : Untouched(u)
        /\ alive' = alive /\ op' = [op EXCEPT !.rest = Rest(GrowSize)]
    BY <1>4, GrowEffects
  <2>2. PICK s \in Sessions, n \in 1..Len(op.rest) : s = op.session /\ n = GrowSize
    BY <1>0, <2>1
  <2>3. Grows(s, n) /\ Len(ids[s]) \in Nat \ {0}
    BY <2>1, <2>2 DEF Grows
  <2>4. /\ Pages[s] # <<>>
        /\ Pages' = [Pages EXCEPT ![s][Len(Pages[s])] = @ \o SubSeq(op.rest, 1, n)]
    BY <1>0, <2>1, <2>2, <2>3, GrowsPage
  <2>5. op'.session = op.session /\ op'.rest = SubSeq(op.rest, n + 1, Len(op.rest))
    BY <1>0, <2>1, <2>2 DEF Ops, Rest
  <2>6. Store!GrowPage(n)
    BY <2>1, <2>2, <2>4, <2>5 DEF Store!GrowPage
  <2>. QED
    BY <2>2, <2>6 DEF Store!Next
<1>5. CASE CheckCapacity
  <2>1. op.session \in alive /\ op.rest = <<>> /\ alive' = alive
    BY <1>0, <1>5 DEF CheckCapacity, Shape, CallShape
  <2>2. Pages' = Pages
    BY <1>5, PagesUnchanged DEF CheckCapacity, blockVars
  <2>3. op'.rest = <<>> /\ op'.session \in {op.session, NoSession}
    BY <1>5 DEF CheckCapacity, Idle
  <2>. QED
    BY <1>0, <2>1, <2>2, <2>3 DEF Store!Return, Store!Next
<1>6. ASSUME NEW required \in EvictSizes, NEW excluded \in SUBSET alive,
             Evict(required, excluded)
      PROVE  UNCHANGED <<alive, Pages, op.session, op.rest>>
  <2>1. Pages' = Pages
    BY <1>6, PagesUnchanged DEF Evict, blockVars
  <2>2. op.session = NoSession /\ op.rest = <<>>
    BY <1>0, <1>6 DEF Evict, Shape, CallShape
  <2>. QED
    BY <1>6, <2>1, <2>2 DEF Evict, Idle
<1>7. ASSUME NEW s \in alive, s # op.session, Release(s), UNCHANGED op
      PROVE  Store!Next
  <2>1. /\ ids'[s] = <<>> /\ alive' = alive \ {s}
        /\ \A u \in Sessions \ {s} : Untouched(u)
    BY <1>7, DropEffects
  <2>2. s \in Sessions /\ \A u \in Sessions \ {s} : Pages'[u] = Pages[u]
    BY <1>0, <2>1, PagesUntouched
  <2>3. Pages'[s] = <<>>
    <3>1. Len(Pages'[s]) = 0 /\ Pages'[s] \in Seq(Seq(Tokens))
      BY <1>0, <2>1, <2>2, PagesFacts, EmptySeq
    <3>. QED
      BY <3>1, EmptySeq
  <2>4. Pages' = [Pages EXCEPT ![s] = <<>>]
    BY <1>0, <2>2, <2>3
  <2>. QED
    BY <1>7, <2>1, <2>2, <2>4 DEF Store!Drop, Store!Next
<1>8. CASE EvictNext
  <2>1. PICK s \in Candidates : Release(s)
    BY <1>8 DEF EvictNext
  <2>2. s \in alive /\ s # op.session
    BY <1>0, <1>8 DEF EvictNext, Candidates, Shape, CallShape
  <2>. QED
    BY <1>7, <1>8, <2>1, <2>2 DEF EvictNext
<1>9. CASE EvictReturn
  <2>1. Pages' = Pages
    BY <1>9, PagesUnchanged DEF EvictReturn, blockVars
  <2>2. op.rest = <<>> /\ op'.rest = <<>> /\ op'.session = NoSession /\ alive' = alive
    BY <1>0, <1>9 DEF EvictReturn, Idle, Shape, CallShape
  <2>. QED
    BY <2>1, <2>2 DEF Store!Return, Store!Next
<1>10. ASSUME NEW s \in Sessions, ReleaseSession(s)
       PROVE  Store!Next
  <2>1. op.session = NoSession
    BY <1>0, <1>10 DEF ReleaseSession, Shape, CallShape
  <2>. QED
    BY <1>0, <1>7, <1>10, <2>1 DEF ReleaseSession
<1>11. ASSUME NEW s \in Sessions, SessionStatus(s)
       PROVE  UNCHANGED <<alive, Pages, op.session, op.rest>>
  BY <1>11, PagesUnchanged DEF SessionStatus, blockVars
<1>12. CASE UNCHANGED vars
  BY <1>12, PagesUnchanged DEF vars
<1>. QED
  BY <1>1, <1>2, <1>3, <1>4, <1>5, <1>6, <1>8, <1>9, <1>10, <1>11, <1>12 DEF Next

\* The cache with its shared blocks, copies and evictions implements private
\* paged stores: no call reads or writes another session's tokens (memory.py,
\* create_session, append, release, evict).
THEOREM StoresArePrivate == Spec => PrivatePages
BY Sharing, StoreInit, StoreNext, PTL DEF Spec, PrivatePages, Store!Spec
=============================================================================
