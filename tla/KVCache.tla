------------------------------- MODULE KVCache -------------------------------
(***************************************************************************)
(* VirtualKVCache (openagent_engine/memory.py): sessions made of           *)
(* reference-counted token blocks, with prefix sharing, copy on write and  *)
(* eviction by priority and recency.                                       *)
(*                                                                         *)
(* Every public method runs under one RLock, so one call at a time is in   *)
(* progress: `op' is that call.  The loops of create_session, append and   *)
(* evict are one action per iteration; no other call can start before      *)
(* op.kind is "idle" again.                                                *)
(*                                                                         *)
(* Abstractions.  Sizes are counted in tokens: size_bytes is always        *)
(* token_count * bytes_per_token, so comparing bytes and comparing tokens  *)
(* agree.  text[b] is what the block holds (token_count is its length);    *)
(* token_hash is text[b] itself until append chains it (line 135), after   *)
(* which it equals the digest of no chunk.  A block id is unique for ever  *)
(* (it hashes the clock), so a Blocks member is used again only after      *)
(* every trace of its former use is marked Dropped.  last_access is kept   *)
(* as the order it induces, older.                                         *)
(***************************************************************************)
EXTENDS Integers, Sequences, FiniteSets

CONSTANTS
  Sessions,     \* session ids
  Blocks,       \* block identities
  Tokens,       \* token ids
  Priorities,   \* session priorities, within 0..100
  BlockTokens,  \* block_tokens
  Capacity,     \* capacity_bytes, in tokens
  EvictSizes,   \* bytes_required of the evict calls, in tokens
  MaxCall,      \* bound: tokens given to one call
  MaxSession,   \* bound: tokens of one session
  NoSession, NoBlock, Dropped

ASSUME KVAssumption ==
  /\ IsFiniteSet(Sessions)
  /\ IsFiniteSet(Blocks)
  /\ Priorities \subseteq 0..100
  /\ BlockTokens \in Nat \ {0}
  /\ Capacity \in Nat \ {0}
  /\ EvictSizes \subseteq Nat
  /\ MaxCall \in Nat
  /\ MaxSession \in Nat
  /\ NoSession \notin Sessions
  /\ NoBlock \notin Blocks
  /\ Dropped \notin Blocks
  /\ NoBlock # Dropped

VARIABLES
  alive,        \* the keys of self.sessions
  ids,          \* ids[s]: session.block_ids
  count,        \* count[s]: session.token_count
  priority,     \* priority[s]: session.priority
  older,        \* <<s, t>>: s.last_access is before t.last_access
  ref,          \* ref[b]: block.ref_count, 0 when self.blocks has no b
  text,         \* text[b]: the tokens the block stands for
  chained,      \* chained[b]: token_hash was extended by append
  index,        \* index[chunk]: self.prefix_index
  op            \* the call that holds the lock

vars == <<alive, ids, count, priority, older, ref, text, chained, index, op>>
blockVars == <<ref, text, chained, index>>

TokenLists == UNION {[1..n -> Tokens] : n \in 0..MaxCall}
Chunks == UNION {[1..n -> Tokens] : n \in 1..BlockTokens}
Ops == [kind : {"idle", "create", "append", "evict"},
        session : Sessions \cup {NoSession},
        rest : Seq(Tokens),
        keep : SUBSET Sessions,
        floor : Int]

Idle == [kind |-> "idle", session |-> NoSession, rest |-> <<>>, keep |-> {}, floor |-> 0]

Init ==
  /\ alive = {}
  /\ ids = [s \in Sessions |-> <<>>]
  /\ count = [s \in Sessions |-> 0]
  /\ priority = [s \in Sessions |-> 0]
  /\ older = {}
  /\ ref = [b \in Blocks |-> 0]
  /\ text = [b \in Blocks |-> <<>>]
  /\ chained = [b \in Blocks |-> FALSE]
  /\ index = [c \in Chunks |-> NoBlock]
  /\ op = Idle

-----------------------------------------------------------------------------
Live == {b \in Blocks : ref[b] > 0}

\* used_bytes: one element for every token of every live block.
Slots == {slot \in Blocks \X (1..BlockTokens) :
            slot[1] \in Live /\ slot[2] <= Len(text[slot[1]])}
Used == Cardinality(Slots)

\* Where s's block list names b, and where the live sessions' lists do.
RefsOf(s, b) == {s} \X {i \in DOMAIN ids[s] : ids[s][i] = b}
Refs(b) == UNION {RefsOf(s, b) : s \in alive}

Smaller(m, n) == IF m < n THEN m ELSE n
First(n) == SubSeq(op.rest, 1, n)
Rest(n) == SubSeq(op.rest, n + 1, Len(op.rest))
ChunkSize == Smaller(BlockTokens, Len(op.rest))

Forget(s) == {pair \in older : pair[1] # s /\ pair[2] # s}
Touch(s) == older' = Forget(s) \cup ((alive \ {s}) \X {s})

\* _allocate_block's new id: a block nobody refers to.
Fresh == CHOOSE b \in Blocks : ref[b] = 0
HasFresh == \E b \in Blocks : ref[b] = 0

\* Faulty variant: a released block takes its shared owners' blocks along.
ReleaseIgnoringSharing(s) ==
  LET gone == {b \in Live : RefsOf(s, b) # {}} IN
  /\ alive' = alive \ {s}
  /\ ids' = [ids EXCEPT ![s] = <<>>]
  /\ count' = [count EXCEPT ![s] = 0]
  /\ priority' = [priority EXCEPT ![s] = 0]
  /\ older' = Forget(s)
  /\ ref' = [b \in Blocks |-> IF b \in gone THEN 0 ELSE ref[b]]
  /\ text' = [b \in Blocks |-> IF b \in gone THEN <<>> ELSE text[b]]
  /\ chained' = [b \in Blocks |-> b \notin gone /\ chained[b]]
  /\ index' = [c \in Chunks |-> IF index[c] \in gone THEN NoBlock ELSE index[c]]

\* Faulty variant: block ids are used again while stale entries name them.
ReleaseReusingIds(s) ==
  LET gone == {b \in Live : ref[b] <= Cardinality(RefsOf(s, b))} IN
  /\ alive' = alive \ {s}
  /\ ids' = [ids EXCEPT ![s] = <<>>]
  /\ count' = [count EXCEPT ![s] = 0]
  /\ priority' = [priority EXCEPT ![s] = 0]
  /\ older' = Forget(s)
  /\ ref' = [b \in Blocks |->
               IF b \in gone THEN 0 ELSE ref[b] - Cardinality(RefsOf(s, b))]
  /\ text' = [b \in Blocks |-> IF b \in gone THEN <<>> ELSE text[b]]
  /\ chained' = [b \in Blocks |-> b \notin gone /\ chained[b]]
  /\ UNCHANGED index

\* release, without taking the lock again: the session goes, each of its
\* references is given back, and _drop_block removes the blocks that nobody
\* refers to any more.  The index entry under the block's current digest
\* goes with it; an entry left by an earlier content stays and dangles.
Release(s) ==
  LET gone == {b \in Live : ref[b] <= Cardinality(RefsOf(s, b))} IN
  /\ alive' = alive \ {s}
  /\ ids' = [ids EXCEPT ![s] = <<>>]
  /\ count' = [count EXCEPT ![s] = 0]
  /\ priority' = [priority EXCEPT ![s] = 0]
  /\ older' = Forget(s)
  /\ ref' = [b \in Blocks |->
               IF ref[b] <= Cardinality(RefsOf(s, b)) THEN 0
               ELSE ref[b] - Cardinality(RefsOf(s, b))]
  /\ text' = [b \in Blocks |-> IF b \in gone THEN <<>> ELSE text[b]]
  /\ chained' = [b \in Blocks |-> b \notin gone /\ chained[b]]
  /\ index' = [c \in Chunks |->
                 IF index[c] \notin gone THEN index[c]
                 ELSE IF text[index[c]] = c /\ ~chained[index[c]] THEN NoBlock
                 ELSE Dropped]

-----------------------------------------------------------------------------
\* create_session up to its loop: the session is registered first.
CreateSession(s, p, tokens) ==
  /\ op.kind = "idle"
  /\ s \notin alive
  /\ Len(tokens) <= MaxSession
  /\ alive' = alive \cup {s}
  /\ priority' = [priority EXCEPT ![s] = p]
  /\ Touch(s)
  /\ op' = [Idle EXCEPT !.kind = "create", !.session = s, !.rest = tokens]
  /\ UNCHANGED <<ids, count, blockVars>>

\* The block that create_session shares for the next chunk, if there is one.
Indexed == index[First(ChunkSize)]
CanShare == Indexed \in Live /\ Len(text[Indexed]) = ChunkSize

AttachBlock(b, n) ==
  /\ ids' = [ids EXCEPT ![op.session] = Append(@, b)]
  /\ count' = [count EXCEPT ![op.session] = @ + n]
  /\ op' = [op EXCEPT !.rest = Rest(n)]
  /\ UNCHANGED <<alive, priority, older>>

NewBlock(n) ==
  /\ HasFresh
  /\ ref' = [ref EXCEPT ![Fresh] = 1]
  /\ text' = [text EXCEPT ![Fresh] = First(n)]
  /\ chained' = [chained EXCEPT ![Fresh] = FALSE]
  /\ AttachBlock(Fresh, n)

\* Faulty variant: the shared block's ref_count is not incremented.
CreateSharedUncounted ==
  /\ op.kind = "create" /\ op.rest # <<>>
  /\ CanShare
  /\ AttachBlock(Indexed, ChunkSize)
  /\ UNCHANGED blockVars

CreateShared ==
  /\ op.kind = "create" /\ op.rest # <<>>
  /\ CanShare
  /\ ref' = [ref EXCEPT ![Indexed] = @ + 1]
  /\ AttachBlock(Indexed, ChunkSize)
  /\ UNCHANGED <<text, chained, index>>

CreateAllocated ==
  /\ op.kind = "create" /\ op.rest # <<>>
  /\ ~CanShare
  /\ index' = [index EXCEPT ![First(ChunkSize)] = Fresh]
  /\ NewBlock(ChunkSize)

\* append with tokens; the session keeps its place in the recency order
\* until the end of the call, where only its own eviction could tell.
AppendTokens(s, tokens) ==
  /\ op.kind = "idle"
  /\ s \in alive /\ tokens # <<>>
  /\ count[s] + Len(tokens) <= MaxSession
  /\ Touch(s)
  /\ op' = [Idle EXCEPT !.kind = "append", !.session = s, !.rest = tokens]
  /\ UNCHANGED <<alive, ids, count, priority, blockVars>>

TailPos == Len(ids[op.session])
TailBlock == ids[op.session][TailPos]
\* Faulty variants: a shared tail is never extended; a full one is.
HasRoomUnshared ==
  TailPos > 0 /\ Len(text[TailBlock]) < BlockTokens /\ ref[TailBlock] = 1
HasRoomWhenFull == TailPos > 0 /\ Len(text[TailBlock]) <= BlockTokens
HasRoom == TailPos > 0 /\ Len(text[TailBlock]) < BlockTokens
\* Faulty variant: everything goes into the tail block.
GrowSizeUncapped == Len(op.rest)
GrowSize == Smaller(BlockTokens - Len(text[TailBlock]), Len(op.rest))

\* Faulty variant: the owners of the tail block are not looked at.
AppendInPlaceShared ==
  /\ op.kind = "append" /\ op.rest # <<>>
  /\ HasRoom
  /\ text' = [text EXCEPT ![TailBlock] = @ \o First(GrowSize)]
  /\ chained' = [chained EXCEPT ![TailBlock] = TRUE]
  /\ count' = [count EXCEPT ![op.session] = @ + GrowSize]
  /\ op' = [op EXCEPT !.rest = Rest(GrowSize)]
  /\ UNCHANGED <<alive, ids, priority, older, ref, index>>

\* The tail block has room and one owner: it is extended where it is.
AppendInPlace ==
  /\ op.kind = "append" /\ op.rest # <<>>
  /\ HasRoom /\ ref[TailBlock] <= 1
  /\ text' = [text EXCEPT ![TailBlock] = @ \o First(GrowSize)]
  /\ chained' = [chained EXCEPT ![TailBlock] = TRUE]
  /\ count' = [count EXCEPT ![op.session] = @ + GrowSize]
  /\ op' = [op EXCEPT !.rest = Rest(GrowSize)]
  /\ UNCHANGED <<alive, ids, priority, older, ref, index>>

\* The tail block has room and other owners: copy on write.
AppendCopied ==
  /\ op.kind = "append" /\ op.rest # <<>>
  /\ HasRoom /\ ref[TailBlock] > 1
  /\ HasFresh
  /\ ref' = [ref EXCEPT ![TailBlock] = @ - 1, ![Fresh] = 1]
  /\ text' = [text EXCEPT ![Fresh] = text[TailBlock] \o First(GrowSize)]
  /\ chained' = [chained EXCEPT ![Fresh] = TRUE]
  /\ ids' = [ids EXCEPT ![op.session][TailPos] = Fresh]
  /\ count' = [count EXCEPT ![op.session] = @ + GrowSize]
  /\ op' = [op EXCEPT !.rest = Rest(GrowSize)]
  /\ UNCHANGED <<alive, priority, older, index>>

AppendNewBlock ==
  /\ op.kind = "append" /\ op.rest # <<>>
  /\ ~HasRoom
  /\ NewBlock(ChunkSize)
  /\ UNCHANGED index

\* Faulty variant: append does not look at the capacity.
CheckCapacityOnCreate ==
  /\ op.kind \in {"create", "append"} /\ op.rest = <<>>
  /\ op' = IF Used <= Capacity \/ op.kind = "append" THEN Idle
           ELSE [Idle EXCEPT !.kind = "evict", !.session = op.session,
                             !.keep = {op.session}, !.floor = Capacity]
  /\ UNCHANGED <<alive, ids, count, priority, older, blockVars>>

\* _evict_if_needed at the end of create_session and append.
CheckCapacity ==
  /\ op.kind \in {"create", "append"} /\ op.rest = <<>>
  /\ op' = IF Used <= Capacity THEN Idle
           ELSE [Idle EXCEPT !.kind = "evict", !.session = op.session,
                             !.keep = {op.session}, !.floor = Capacity]
  /\ UNCHANGED <<alive, ids, count, priority, older, blockVars>>

-----------------------------------------------------------------------------
\* evict called on its own.  Releasing stops when used_bytes is down to
\* op.floor; bytes_required = 0 sets no target, so it stops at nothing.
Evict(required, excluded) ==
  /\ op.kind = "idle"
  /\ op' = [Idle EXCEPT !.kind = "evict", !.keep = excluded,
                        !.floor = IF required = 0 THEN -1 ELSE Used - required]
  /\ UNCHANGED <<alive, ids, count, priority, older, blockVars>>

Candidates == alive \ op.keep
\* Faulty variant: recency decides before priority.
BeforeByRecency(s, t) == <<s, t>> \in older
Before(s, t) ==
  \/ priority[s] < priority[t]
  \/ priority[s] = priority[t] /\ <<s, t>> \in older

\* One round of evict's loop: the least important candidate is released.
EvictNext ==
  /\ op.kind = "evict"
  /\ Used > op.floor
  /\ \E s \in Candidates :
       /\ \A t \in Candidates \ {s} : Before(s, t)
       /\ Release(s)
  /\ UNCHANGED op

\* The end of the loop.  After create_session or append, a cache that is
\* still over capacity makes the call raise MemoryError, with the session
\* and its blocks left as they are.
EvictReturn ==
  /\ op.kind = "evict"
  /\ Used <= op.floor \/ Candidates = {}
  /\ op' = Idle
  /\ UNCHANGED <<alive, ids, count, priority, older, blockVars>>

\* release called on its own.
ReleaseSession(s) ==
  /\ op.kind = "idle"
  /\ s \in alive
  /\ Release(s)
  /\ UNCHANGED op

\* session_status, also what append does when it is given no token.
SessionStatus(s) ==
  /\ op.kind = "idle"
  /\ s \in alive
  /\ Touch(s)
  /\ UNCHANGED <<alive, ids, count, priority, blockVars, op>>

Next ==
  \/ \E s \in Sessions, p \in Priorities, tokens \in TokenLists :
       CreateSession(s, p, tokens)
  \/ CreateShared
  \/ CreateAllocated
  \/ \E s \in Sessions, tokens \in TokenLists : AppendTokens(s, tokens)
  \/ AppendInPlace
  \/ AppendCopied
  \/ AppendNewBlock
  \/ CheckCapacity
  \/ \E required \in EvictSizes, excluded \in SUBSET alive : Evict(required, excluded)
  \/ EvictNext
  \/ EvictReturn
  \/ \E s \in Sessions : ReleaseSession(s) \/ SessionStatus(s)

Spec == Init /\ [][Next]_vars

\* A thread inside a call keeps running: nothing in the class blocks it.
Running ==
  \/ CreateShared \/ CreateAllocated
  \/ AppendInPlace \/ AppendCopied \/ AppendNewBlock
  \/ CheckCapacity \/ EvictNext \/ EvictReturn
FairSpec == Spec /\ WF_vars(Running)

-----------------------------------------------------------------------------
\* Every variable stays within its type; in particular reference counts are
\* naturals and no block outgrows block_tokens (KVBlock, KVSession, append).
TypeOK ==
  /\ alive \subseteq Sessions
  /\ ids \in [Sessions -> Seq(Blocks)]
  /\ count \in [Sessions -> Nat]
  /\ priority \in [Sessions -> Priorities \cup {0}]
  /\ older \subseteq Sessions \X Sessions
  /\ ref \in [Blocks -> Nat]
  /\ text \in [Blocks -> Seq(Tokens)]
  /\ \A b \in Blocks : Len(text[b]) <= BlockTokens
  /\ chained \in [Blocks -> BOOLEAN]
  /\ index \in [Chunks -> Blocks \cup {NoBlock, Dropped}]
  /\ op \in Ops

\* A block's ref_count is the number of places in the live sessions' block
\* lists that name it, whatever was shared, copied on write, released or
\* evicted before.  A count too high leaks the block, a count too low drops
\* it under a session (create_session, append, release).
RefCountsExact == \A b \in Blocks : ref[b] = Cardinality(Refs(b))

\* No live session names a block that is gone: session_status indexes
\* self.blocks with every id of the session and would raise KeyError.
NoDanglingBlock == \A s \in alive : \A i \in DOMAIN ids[s] : ids[s][i] \in Live

\* A prefix_index entry may be stale, because append extends an indexed
\* block in place without touching the index.  The token-count test of
\* create_session is enough: an entry whose block has the chunk's length
\* still holds exactly that chunk.
IndexTrustworthy ==
  \A c \in Chunks :
    (index[c] \in Live /\ Len(text[index[c]]) = Len(c)) => text[index[c]] = c

\* Between calls the cache is within its capacity, unless a single session
\* fills it alone: whoever raised MemoryError had every other session
\* evicted first, and the next call that overflows evicts the culprit.
OverCapacityMeansAlone ==
  op.kind = "idle" => (Used <= Capacity \/ Cardinality(alive) <= 1)

\* Only the last block of a session may have room, and token_count is what
\* the blocks add up to: no tokens are stored behind a partly filled block,
\* so the blocks are as few as possible and positions follow from counts.
Paged ==
  \A s \in alive :
    LET n == Len(ids[s]) IN
    /\ \A i \in 1..(n - 1) : Len(text[ids[s][i]]) = BlockTokens
    /\ count[s] = IF n = 0 THEN 0
                  ELSE (n - 1) * BlockTokens + Len(text[ids[s][n]])

\* Eviction spares what it must: while a call evicts, no session goes that
\* is more important, or as important and more recently used, than another
\* the call could have taken (evict's sort key and exclude_sessions).
EvictionInOrder ==
  [][op.kind = "evict" =>
       \A s \in alive \ alive', t \in alive' \ op.keep :
         /\ priority[s] <= priority[t]
         /\ priority[s] = priority[t] => <<t, s>> \notin older]_vars

\* No call reads or writes another session's tokens through a shared block:
\* seen through their block lists, the sessions are private paged stores
\* and every step is one of KVStore's.
Pages == [s \in Sessions |-> [i \in DOMAIN ids[s] |-> text[ids[s][i]]]]
Store == INSTANCE KVStore WITH
           open <- alive, pages <- Pages, caller <- op.session, pending <- op.rest
PrivatePages == Store!Spec

\* Every call gives the lock back: append's `while tokens' makes progress
\* in each round and evict's loop runs out of victims or of excess.
CallsReturn == op.kind # "idle" ~> op.kind = "idle"

\* What the class documentation calls shared-prefix semantics (memory.py:48):
\* a block that two sessions share stands at the same place of both, after
\* the same tokens, for a cache entry depends on every token before it.
SharedPrefix ==
  \A s, t \in alive : s # t =>
    \A i \in DOMAIN ids[s], j \in DOMAIN ids[t] :
      ids[s][i] = ids[t][j] =>
        i = j /\ \A k \in 1..i : text[ids[s][k]] = text[ids[t][k]]
=============================================================================
