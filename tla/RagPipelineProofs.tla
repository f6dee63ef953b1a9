-------------------------- MODULE RagPipelineProofs --------------------------
(***************************************************************************)
(* Proofs about RagPipeline, for any numbers of threads, namespaces and    *)
(* queries, any cache size and any time to live.                           *)
(***************************************************************************)
EXTENDS RagPipeline, SequenceTheorems, TLAPS

\* A sequence of keys without repetition.
Keyed(s) == s \in Seq(Keys) /\ \A i, j \in DOMAIN s : s[i] = s[j] => i = j

\* TypeOK with the domains of the functions, and what a thread's step says of
\* its call.
Typed ==
  /\ stored \in [Namespaces -> SUBSET Chunks]
  /\ Keyed(order)
  /\ entry \in [Keys -> Entries]
  /\ pc \in [Threads -> Steps]
  /\ space \in [Threads -> Namespaces \cup {None}]
  /\ query \in [Threads -> Queries \cup {None}]
  /\ todo \in [Threads -> SUBSET Chunks]
  /\ changed \in [Threads -> BOOLEAN]
  /\ got \in [Threads -> SUBSET Chunks]
  /\ late \subseteq Threads /\ doubtful \subseteq Cached

StepShape ==
  \A t \in Threads :
    /\ pc[t] # "idle" => space[t] \in Namespaces
    /\ pc[t] \in {"lookup", "search", "put"} => query[t] \in Queries
    /\ pc[t] = "put" => CacheOn

\* Whatever is stored, cached, about to be stored or about to be returned is of
\* the namespace it is said to be of.
SourceInv ==
  /\ \A n \in Namespaces : \A c \in stored[n] : Home[c] = n
  /\ \A k \in Keys : \A c \in entry[k].found : Home[c] = k[2]
  /\ \A t \in Threads :
       /\ pc[t] \in {"put", "answer"} => \A c \in got[t] : Home[c] = space[t]
       /\ pc[t] \in {"embed", "upsert"} => \A c \in todo[t] : Home[c] = space[t]

\* A thread that is not late holds what the store holds.
HeldFresh ==
  \A t \in Threads \ late : pc[t] = "put" => got[t] = stored[space[t]]

\* An entry's age is what it has lost of its time; the cache is within limits.
CacheInv ==
  /\ \A k \in Cached : entry[k].left + entry[k].age = TTL
  /\ Len(order) <= CacheSize

PipelineInv ==
  Typed /\ StepShape /\ SourceInv /\ HeldFresh /\ FreshUnlessRaced /\ CacheInv

-----------------------------------------------------------------------------
(***************************************************************************)
(* The sequence operations of the cache.                                   *)
(***************************************************************************)
\* A sequence without its i-th element: what is before it stays where it is,
\* what is after it moves down by one.
LEMMA RemoveAtFacts ==
  ASSUME NEW S, NEW s \in Seq(S), NEW i \in DOMAIN s
  PROVE  /\ RemoveAt(s, i) \in Seq(S)
         /\ Len(RemoveAt(s, i)) = Len(s) - 1
         /\ \A m \in 1..(Len(s) - 1) : RemoveAt(s, i)[m] = IF m < i THEN s[m] ELSE s[m + 1]
<1> DEFINE before == SubSeq(s, 1, i - 1)
           after == SubSeq(s, i + 1, Len(s))
<1>1. /\ Len(s) \in Nat /\ i \in 1..Len(s) /\ \A m \in 1..Len(s) : s[m] \in S
  BY LenProperties
<1>2. /\ before \in Seq(S) /\ Len(before) = i - 1
      /\ \A m \in 1..(i - 1) : before[m] = s[m]
  <2>1. \A m \in 1..(i - 1) : s[m] \in S
    BY <1>1
  <2>2. /\ before \in Seq(S)
        /\ Len(before) = IF 1 <= i - 1 THEN i - 1 - 1 + 1 ELSE 0
        /\ \A m \in 1..(i - 1 - 1 + 1) : before[m] = s[1 + m - 1]
    BY <1>1, <2>1, SubSeqProperties
  <2>. QED
    BY <1>1, <2>2
<1>3. /\ after \in Seq(S) /\ Len(after) = Len(s) - i
      /\ \A m \in 1..(Len(s) - i) : after[m] = s[i + m]
  <2>1. \A m \in (i + 1)..Len(s) : s[m] \in S
    BY <1>1
  <2>2. /\ after \in Seq(S)
        /\ Len(after) = IF i + 1 <= Len(s) THEN Len(s) - (i + 1) + 1 ELSE 0
        /\ \A m \in 1..(Len(s) - (i + 1) + 1) : after[m] = s[(i + 1) + m - 1]
    BY <1>1, <2>1, SubSeqProperties
  <2>. QED
    BY <1>1, <2>2
<1> HIDE DEF before, after
<1>4. /\ before \o after \in Seq(S)
      /\ Len(before \o after) = Len(before) + Len(after)
      /\ \A m \in 1..(Len(before) + Len(after)) :
           (before \o after)[m] =
             IF m <= Len(before) THEN before[m] ELSE after[m - Len(before)]
  BY <1>2, <1>3, ConcatProperties
<1>5. RemoveAt(s, i) = before \o after
  BY DEF RemoveAt, before, after
<1>6. Len(before) + Len(after) = Len(s) - 1
  BY <1>1, <1>2, <1>3
<1>7. ASSUME NEW m \in 1..(Len(s) - 1)
      PROVE  RemoveAt(s, i)[m] = IF m < i THEN s[m] ELSE s[m + 1]
  <2>1. CASE m < i
    BY <2>1, <1>1, <1>2, <1>4, <1>5, <1>6, m \in 1..(i - 1)
  <2>2. CASE ~(m < i)
    <3>1. m - (i - 1) \in 1..(Len(s) - i) /\ ~(m <= Len(before))
      BY <2>2, <1>1, <1>2
    <3>2. after[m - (i - 1)] = s[i + (m - (i - 1))] /\ i + (m - (i - 1)) = m + 1
      BY <3>1, <1>1, <1>3
    <3>. QED
      BY <2>2, <3>1, <3>2, <1>2, <1>4, <1>5, <1>6
  <2>. QED
    BY <2>1, <2>2
<1>. QED
  BY <1>4, <1>5, <1>6, <1>7

\* Two keys of u that are in s are in the same order there.
Ordered(s, u) ==
  \A i, j \in DOMAIN s, m, n \in DOMAIN u : u[m] = s[i] /\ u[n] = s[j] /\ m < n => i < j

\* The order without a key: the other keys, in the order they had.
LEMMA WithoutFacts ==
  ASSUME Keyed(order), NEW k
  PROVE  /\ Keyed(Without(k))
         /\ ToSet(Without(k)) = Cached \ {k}
         /\ Len(Without(k)) = IF k \in Cached THEN Len(order) - 1 ELSE Len(order)
         /\ Ordered(order, Without(k))
<1>1. Len(order) \in Nat /\ DOMAIN order = 1..Len(order)
  BY LenProperties DEF Keyed
<1>2. CASE k \notin Cached
  BY <1>1, <1>2 DEF Without, Keyed, Cached, Ordered
<1>3. CASE k \in Cached
  <2>1. PICK p \in DOMAIN order : p = CHOOSE i \in DOMAIN order : order[i] = k
    BY <1>3 DEF Cached, ToSet
  <2>2. order[p] = k
    BY <1>3, <2>1 DEF Cached, ToSet
  <2> DEFINE u == RemoveAt(order, p)
  <2>3. Without(k) = u
    BY <1>3, <2>1 DEF Without
  <2>4. /\ u \in Seq(Keys) /\ Len(u) = Len(order) - 1
        /\ \A m \in 1..(Len(order) - 1) : u[m] = IF m < p THEN order[m] ELSE order[m + 1]
    BY RemoveAtFacts DEF Keyed
  <2> HIDE DEF u
  <2>5. DOMAIN u = 1..(Len(order) - 1)
    BY <2>4, LenProperties
  <2>6. \A m, n \in DOMAIN u : u[m] = u[n] => m = n
    BY <1>1, <2>4, <2>5 DEF Keyed
  <2>7. ToSet(u) = Cached \ {k}
    <3>1. ASSUME NEW m \in DOMAIN u
          PROVE  u[m] \in Cached \ {k}
      <4>1. CASE m < p
        BY <4>1, <1>1, <2>2, <2>4, <2>5 DEF Keyed, Cached, ToSet
      <4>2. CASE ~(m < p)
        <5>1. m + 1 \in DOMAIN order /\ m + 1 # p
          BY <4>2, <1>1, <2>5
        <5>. QED
          BY <4>2, <5>1, <1>1, <2>2, <2>4, <2>5 DEF Keyed, Cached, ToSet
      <4>. QED
        BY <4>1, <4>2
    <3>2. ASSUME NEW i \in DOMAIN order, order[i] # k
          PROVE  order[i] \in ToSet(u)
      <4>1. CASE i < p
        BY <4>1, <1>1, <2>4, <2>5 DEF ToSet
      <4>2. CASE i > p
        <5>1. i - 1 \in DOMAIN u /\ ~(i - 1 < p) /\ (i - 1) + 1 = i
          BY <4>2, <1>1, <2>5
        <5>2. u[i - 1] = order[(i - 1) + 1]
          BY <5>1, <2>4, <2>5
        <5>. QED
          BY <5>1, <5>2 DEF ToSet
      <4>. QED
        BY <4>1, <4>2, <3>2, <2>2, <1>1
    <3>. QED
      BY <3>1, <3>2 DEF Cached, ToSet
  <2>8. Ordered(order, u)
    <3> SUFFICES ASSUME NEW i \in DOMAIN order, NEW j \in DOMAIN order,
                        NEW m \in DOMAIN u, NEW n \in DOMAIN u,
                        u[m] = order[i], u[n] = order[j], m < n
                 PROVE  i < j
      BY DEF Ordered
    <3>1. ASSUME NEW a \in DOMAIN order, NEW b \in DOMAIN u, u[b] = order[a]
          PROVE  a = IF b < p THEN b ELSE b + 1
      <4>1. CASE b < p
        BY <4>1, <3>1, <1>1, <2>4, <2>5 DEF Keyed
      <4>2. CASE ~(b < p)
        <5>1. b + 1 \in DOMAIN order /\ order[b + 1] = order[a]
          BY <4>2, <3>1, <1>1, <2>4, <2>5
        <5>. QED
          BY <4>2, <5>1 DEF Keyed
      <4>. QED
        BY <4>1, <4>2
    <3>2. /\ i = IF m < p THEN m ELSE m + 1
          /\ j = IF n < p THEN n ELSE n + 1
      BY <3>1
    <3>. QED
      BY <3>2, <1>1, <2>5
  <2>. QED
    BY <1>3, <2>3, <2>4, <2>6, <2>7, <2>8 DEF Keyed
<1>. QED
  BY <1>2, <1>3

\* The order when a key is used: that key is the last of it.
LEMMA UsedFacts ==
  ASSUME Keyed(order), NEW k \in Keys, NEW u, u = Append(Without(k), k)
  PROVE  /\ Keyed(u)
         /\ ToSet(u) = Cached \cup {k}
         /\ Len(u) = IF k \in Cached THEN Len(order) ELSE Len(order) + 1
         /\ Len(u) \in Nat \ {0} /\ u[Len(u)] = k
         /\ \A m \in DOMAIN u : m < Len(u) => u[m] \in Cached \ {k}
         /\ \A i, j \in DOMAIN order, m, n \in DOMAIN u :
              u[m] = order[i] /\ u[n] = order[j] /\ m < n /\ n < Len(u) => i < j
<1> DEFINE w == Without(k)
<1>1. /\ Keyed(w) /\ ToSet(w) = Cached \ {k}
      /\ Len(w) = IF k \in Cached THEN Len(order) - 1 ELSE Len(order)
      /\ Ordered(order, w)
  BY WithoutFacts
<1>2. u = Append(w, k)
  OBVIOUS
<1> HIDE DEF w
<1>3. /\ Len(w) \in Nat /\ DOMAIN w = 1..Len(w)
      /\ Len(order) \in Nat
  BY <1>1, LenProperties DEF Keyed
<1>4. /\ u \in Seq(Keys) /\ Len(u) = Len(w) + 1
      /\ \A i \in 1..Len(w) : u[i] = w[i]
      /\ u[Len(w) + 1] = k
  BY <1>1, <1>2, AppendProperties DEF Keyed
<1>5. DOMAIN u = 1..(Len(w) + 1)
  BY <1>4, LenProperties
<1>6. \A m \in 1..Len(w) : u[m] \in Cached \ {k}
  BY <1>1, <1>3, <1>4 DEF ToSet
<1>7. \A m, n \in DOMAIN u : u[m] = u[n] => m = n
  <2> SUFFICES ASSUME NEW m \in DOMAIN u, NEW n \in DOMAIN u, u[m] = u[n]
               PROVE  m = n
    OBVIOUS
  <2>1. CASE m \in 1..Len(w) /\ n \in 1..Len(w)
    BY <2>1, <1>1, <1>3, <1>4 DEF Keyed
  <2>2. CASE m \in 1..Len(w) /\ n = Len(w) + 1
    BY <2>2, <1>4, <1>6
  <2>3. CASE m = Len(w) + 1 /\ n \in 1..Len(w)
    BY <2>3, <1>4, <1>6
  <2>. QED
    BY <2>1, <2>2, <2>3, <1>3, <1>5
<1>8. ToSet(u) = Cached \cup {k}
  <2>1. ToSet(u) \subseteq Cached \cup {k}
    BY <1>3, <1>4, <1>5, <1>6 DEF ToSet
  <2>2. k \in ToSet(u)
    BY <1>3, <1>4, <1>5 DEF ToSet
  <2>3. ToSet(w) \subseteq ToSet(u)
    BY <1>3, <1>4, <1>5 DEF ToSet
  <2>. QED
    BY <2>1, <2>2, <2>3, <1>1
<1>9. ASSUME NEW i \in DOMAIN order, NEW j \in DOMAIN order,
             NEW m \in DOMAIN u, NEW n \in DOMAIN u,
             u[m] = order[i], u[n] = order[j], m < n, n < Len(u)
      PROVE  i < j
  <2>1. m \in DOMAIN w /\ n \in DOMAIN w /\ u[m] = w[m] /\ u[n] = w[n]
    BY <1>9, <1>3, <1>4, <1>5
  <2>. QED
    BY <2>1, <1>1, <1>9 DEF Ordered
<1>. QED
  BY <1>1, <1>3, <1>4, <1>5, <1>6, <1>7, <1>8, <1>9 DEF Keyed

\* The order when a key is put and the limit is kept: the key is the last of
\* it, and whatever was dropped came before whatever was kept.
LEMMA TrimmedFacts ==
  ASSUME Keyed(order), Len(order) <= CacheSize, CacheSize \in Nat \ {0},
         NEW k \in Keys, NEW u, u = Trimmed(Append(Without(k), k))
  PROVE  /\ Keyed(u)
         /\ k \in ToSet(u) /\ ToSet(u) \subseteq Cached \cup {k}
         /\ Len(u) <= CacheSize /\ Last(u) = k
         /\ \A i, j \in DOMAIN order :
              order[i] \notin ToSet(u) /\ order[j] \in ToSet(u) \ {k} => i < j
<1> DEFINE a == Append(Without(k), k)
<1>1. /\ Keyed(a) /\ ToSet(a) = Cached \cup {k}
      /\ Len(a) = IF k \in Cached THEN Len(order) ELSE Len(order) + 1
      /\ Len(a) \in Nat \ {0} /\ a[Len(a)] = k
      /\ \A i, j \in DOMAIN order, m, n \in DOMAIN a :
           a[m] = order[i] /\ a[n] = order[j] /\ m < n /\ n < Len(a) => i < j
  BY UsedFacts
<1>2. u = Trimmed(a)
  OBVIOUS
<1> HIDE DEF a
<1>3. Len(order) \in Nat /\ DOMAIN a = 1..Len(a) /\ DOMAIN order = 1..Len(order)
  BY <1>1, LenProperties DEF Keyed
<1>4. CASE Len(a) <= CacheSize
  <2>1. u = a
    BY <1>2, <1>4 DEF Trimmed
  <2>2. \A i \in DOMAIN order : order[i] \in Cached
    BY DEF Cached, ToSet
  <2>. QED
    BY <2>1, <2>2, <1>1, <1>4 DEF Last
<1>5. CASE ~(Len(a) <= CacheSize)
  <2>1. u = Tail(a) /\ a \in Seq(Keys) /\ a # <<>>
    BY <1>1, <1>2, <1>5, EmptySeq DEF Trimmed, Keyed
  <2>2. /\ u \in Seq(Keys) /\ Len(u) = Len(a) - 1
        /\ \A i \in 1..Len(u) : u[i] = a[i + 1]
    BY <2>1, HeadTailProperties
  <2>3. DOMAIN u = 1..(Len(a) - 1)
    BY <2>2, LenProperties
  <2>4. Len(a) = CacheSize + 1
    BY <1>1, <1>3, <1>5
  <2>5. Keyed(u)
    <3>1. \A m \in DOMAIN u : m + 1 \in DOMAIN a /\ u[m] = a[m + 1]
      BY <1>1, <1>3, <2>2, <2>3
    <3>2. ASSUME NEW m \in DOMAIN u, NEW n \in DOMAIN u, u[m] = u[n]
          PROVE  m = n
      <4>1. m + 1 = n + 1
        BY <3>1, <3>2, <1>1 DEF Keyed
      <4>. QED
        BY <4>1, <2>3
    <3>. QED
      BY <2>2, <3>2 DEF Keyed
  <2>6. u[Len(u)] = k /\ Len(u) \in DOMAIN u
    BY <1>1, <2>2, <2>3, <2>4
  <2>7. ToSet(u) \subseteq ToSet(a)
    <3>1. \A m \in DOMAIN u : m + 1 \in DOMAIN a /\ u[m] = a[m + 1]
      BY <1>1, <1>3, <2>2, <2>3
    <3>. QED
      BY <3>1 DEF ToSet
  <2>8. \A m \in DOMAIN a : m # 1 => a[m] \in ToSet(u)
    <3> SUFFICES ASSUME NEW m \in DOMAIN a, m # 1
                 PROVE  a[m] \in ToSet(u)
      OBVIOUS
    <3>1. m - 1 \in 1..Len(u) /\ (m - 1) + 1 = m
      BY <1>3, <1>1, <2>2
    <3>. QED
      BY <3>1, <2>2, <2>3 DEF ToSet
  <2>9. ASSUME NEW i \in DOMAIN order, NEW j \in DOMAIN order,
               order[i] \notin ToSet(u), order[j] \in ToSet(u) \ {k}
        PROVE  i < j
    <3>1. order[i] \in ToSet(a)
      BY <1>1 DEF Cached, ToSet
    <3>2. 1 \in DOMAIN a /\ a[1] = order[i]
      BY <3>1, <2>8, <2>9 DEF ToSet
    <3>3. PICK n \in DOMAIN u : u[n] = order[j]
      BY <2>9 DEF ToSet
    <3>4. n + 1 \in DOMAIN a /\ a[n + 1] = order[j] /\ 1 < n + 1
      BY <3>3, <1>3, <2>2, <2>3
    <3>5. n + 1 < Len(a)
      BY <3>4, <2>9, <1>1, <1>3
    <3>. QED
      BY <3>2, <3>4, <3>5, <1>1
  <2>. QED
    BY <2>2, <2>4, <2>5, <2>6, <2>7, <2>9, <1>1 DEF Last, ToSet
<1>. QED
  BY <1>4, <1>5, <1>1, <1>3

-----------------------------------------------------------------------------
(***************************************************************************)
(* The invariant is inductive.                                             *)
(***************************************************************************)
\* A thread that searches, puts or answers has the call its step needs.
LEMMA ShapeNext ==
  ASSUME Typed, StepShape, [Next]_vars
  PROVE  StepShape'
<1> USE DEF Typed, StepShape, Goto, cacheVars, Steps
<1>1. CASE Tick
  BY <1>1 DEF Tick, callVars
<1>2. ASSUME NEW t \in Threads, ThreadStep(t)
      PROVE  StepShape'
  <2>1. CASE Call(t)
    BY <2>1 DEF Call
  <2>2. CASE Lookup(t)
    BY <2>2 DEF Lookup, Hit, Expired
  <2>3. CASE Search(t)
    BY <2>3 DEF Search, Return
  <2>4. CASE Put(t)
    BY <2>4 DEF Put
  <2>5. CASE Answer(t)
    BY <2>5 DEF Answer, Return
  <2>6. CASE Embed(t)
    BY <2>6 DEF Embed, Fail, Return
  <2>7. CASE Upsert(t)
    BY <2>7 DEF Upsert, Fail, Return
  <2>8. CASE Delete(t)
    BY <2>8 DEF Delete, Fail, Return
  <2>9. CASE Invalidate(t)
    BY <2>9 DEF Invalidate, Return
  <2>. QED
    BY <1>2, <2>1, <2>2, <2>3, <2>4, <2>5, <2>6, <2>7, <2>8, <2>9 DEF ThreadStep
<1>3. CASE UNCHANGED vars
  BY <1>3 DEF vars, cacheVars, callVars
<1>. QED
  BY <1>1, <1>2, <1>3 DEF Next

\* Every step keeps the types.
LEMMA TypedNext ==
  ASSUME Typed, StepShape, CacheInv, [Next]_vars
  PROVE  Typed'
<1> USE DEF Typed, StepShape, CacheInv, Goto, cacheVars, Steps, Keys, CacheOn
<1>1. CASE Tick
  <2>1. UNCHANGED <<order, callVars, stored, late, doubtful>>
    BY <1>1 DEF Tick
  <2>2. Cached' = Cached
    BY <2>1 DEF Cached
  <2>3. entry' \in [Keys -> Entries]
    <3> DEFINE aged(k) == IF k \notin Cached THEN NoEntry ELSE
                 [entry[k] EXCEPT !.left = IF @ > 0 THEN @ - 1 ELSE 0,
                                  !.age = IF @ < TTL THEN @ + 1 ELSE TTL]
    <3>1. entry' = [k \in Keys |-> aged(k)]
      BY <1>1 DEF Tick
    <3>2. ASSUME NEW k \in Keys
          PROVE  aged(k) \in Entries
      <4>1. /\ entry[k].left \in 0..TTL /\ entry[k].age \in 0..TTL /\ TTL \in Nat
            /\ entry[k] \in Entries
        BY PipelineAssumption DEF Entries
      <4>2. NoEntry \in Entries
        BY PipelineAssumption DEF Entries, NoEntry
      <4> DEFINE left == IF entry[k].left > 0 THEN entry[k].left - 1 ELSE 0
                 age == IF entry[k].age < TTL THEN entry[k].age + 1 ELSE TTL
      <4>3. left \in 0..TTL /\ age \in 0..TTL
        BY <4>1
      <4>4. aged(k) = IF k \notin Cached THEN NoEntry
                      ELSE [entry[k] EXCEPT !.left = left, !.age = age]
        BY <4>1 DEF Entries
      <4> HIDE DEF left, age, aged
      <4>. QED
        BY <4>1, <4>2, <4>3, <4>4 DEF Entries
    <3> HIDE DEF aged, Keys
    <3>. QED
      BY <3>1, <3>2
  <2>. QED
    BY <2>1, <2>2, <2>3 DEF callVars
<1>2. ASSUME NEW t \in Threads, ThreadStep(t)
      PROVE  Typed'
  <2>1. CASE Call(t)
    <3>1. UNCHANGED <<order, entry>>
      BY <2>1 DEF Call
    <3>2. Cached' = Cached
      BY <3>1 DEF Cached
    <3>. QED
      BY <2>1, <3>1, <3>2 DEF Call
  <2>2. CASE Lookup(t)
    <3>1. KeyOf(t) \in Keys
      BY <2>2 DEF Lookup, KeyOf
    <3>2. CASE CacheOn /\ KeyOf(t) \in Cached /\ Hit(t)
      <4>1. order' = Append(Without(KeyOf(t)), KeyOf(t))
        BY <3>2 DEF Hit
      <4>2. Keyed(order') /\ ToSet(order') = Cached \cup {KeyOf(t)}
        <5> HIDE DEF Keys
        <5>. QED
          BY <3>1, <4>1, UsedFacts
      <4>3. Cached' = Cached
        BY <4>2, <3>2 DEF Cached
      <4>4. entry[KeyOf(t)].found \in SUBSET Chunks
        BY <3>1 DEF Entries
      <4>. QED
        BY <2>2, <3>2, <4>2, <4>3, <4>4 DEF Lookup, Hit
    <3>3. CASE CacheOn /\ KeyOf(t) \in Cached /\ Expired(t)
      <4>1. Keyed(order') /\ ToSet(order') = Cached \ {KeyOf(t)}
        BY <3>3, WithoutFacts DEF Expired
      <4>2. Cached' = Cached \ {KeyOf(t)}
        BY <4>1 DEF Cached
      <4>3. NoEntry \in Entries
        BY PipelineAssumption DEF NoEntry, Entries
      <4>. QED
        BY <2>2, <3>3, <4>1, <4>2, <4>3 DEF Lookup, Expired
    <3>4. CASE Goto(t, "search") /\ UNCHANGED <<cacheVars, got, doubtful>>
      BY <2>2, <3>4 DEF Lookup, Cached
    <3>. QED
      BY <2>2, <3>2, <3>3, <3>4 DEF Lookup
  <2>3. CASE Search(t)
    <3>1. UNCHANGED <<order, entry>>
      BY <2>3 DEF Search
    <3>2. Cached' = Cached
      BY <3>1 DEF Cached
    <3>. QED
      BY <2>3, <3>1, <3>2 DEF Search, Return
  <2>4. CASE Put(t)
    <3>1. KeyOf(t) \in Keys /\ CacheSize \in Nat \ {0}
      BY <2>4, PipelineAssumption DEF Put, KeyOf
    <3>2. Keyed(order') /\ KeyOf(t) \in ToSet(order')
      <4>1. order' = Trimmed(Append(Without(KeyOf(t)), KeyOf(t)))
        BY <2>4 DEF Put
      <4>. QED
        BY <3>1, <4>1, TrimmedFacts
    <3>3. entry' \in [Keys -> Entries]
      <4>1. NoEntry \in Entries /\ [found |-> got[t], left |-> TTL, age |-> 0] \in Entries
        BY PipelineAssumption DEF NoEntry, Entries
      <4>2. entry' = [k \in Keys |->
              IF k \notin ToSet(order') THEN NoEntry
              ELSE IF k = KeyOf(t) THEN [found |-> got[t], left |-> TTL, age |-> 0]
              ELSE entry[k]]
        BY <2>4 DEF Put
      <4> HIDE DEF Keys
      <4>3. entry' = [k \in Keys |-> entry'[k]]
        BY <4>2
      <4>4. \A k \in Keys : entry'[k] \in Entries
        BY <4>1, <4>2
      <4>. QED
        BY <4>3, <4>4
    <3>4. doubtful' \subseteq Cached' /\ late' \subseteq Threads
      BY <2>4 DEF Put, Cached
    <3>. QED
      BY <2>4, <3>2, <3>3, <3>4 DEF Put
  <2>5. CASE Answer(t)
    <3>1. UNCHANGED <<order, entry>>
      BY <2>5 DEF Answer
    <3>2. Cached' = Cached
      BY <3>1 DEF Cached
    <3>. QED
      BY <2>5, <3>1, <3>2 DEF Answer, Return
  <2>6. CASE Embed(t)
    <3>1. UNCHANGED <<order, entry>>
      BY <2>6 DEF Embed
    <3>2. Cached' = Cached
      BY <3>1 DEF Cached
    <3>. QED
      BY <2>6, <3>1, <3>2 DEF Embed, Fail, Return, KeysIn
  <2>7. CASE Upsert(t)
    <3>1. UNCHANGED <<order, entry>>
      BY <2>7 DEF Upsert
    <3>2. Cached' = Cached
      BY <3>1 DEF Cached
    <3>3. ASSUME NEW batch \in SUBSET todo[t],
                 stored' = [stored EXCEPT ![space[t]] = @ \cup batch],
                 todo' = [todo EXCEPT ![t] = @ \ batch],
                 changed' = [changed EXCEPT ![t] = TRUE],
                 late' = late \cup Holding(space[t]), Goto(t, "embed"),
                 UNCHANGED <<space, query, got, doubtful>>
          PROVE  Typed'
      <4>1. space[t] \in Namespaces /\ todo[t] \subseteq Chunks
        BY <2>7 DEF Upsert
      <4>2. stored' \in [Namespaces -> SUBSET Chunks] /\ todo' \in [Threads -> SUBSET Chunks]
        BY <3>3, <4>1
      <4>3. late' \subseteq Threads
        BY <3>3 DEF Holding
      <4>. QED
        BY <3>1, <3>2, <3>3, <4>2, <4>3
    <3>4. CASE Fail(t) /\ UNCHANGED <<stored, late>>
      BY <2>7, <3>1, <3>2, <3>4 DEF Fail, Return, KeysIn
    <3>. QED
      BY <2>7, <3>3, <3>4 DEF Upsert
  <2>8. CASE Delete(t)
    <3>1. UNCHANGED <<order, entry>>
      BY <2>8 DEF Delete
    <3>2. Cached' = Cached
      BY <3>1 DEF Cached
    <3>. QED
      BY <2>8, <3>1, <3>2 DEF Delete, Fail, Return, KeysIn, Holding
  <2>9. CASE Invalidate(t)
    <3>1. Keyed(<<>>) /\ ToSet(<<>>) = {}
      BY EmptySeq DEF Keyed, ToSet
    <3>2. NoEntry \in Entries
      BY PipelineAssumption DEF NoEntry, Entries
    <3>. QED
      BY <2>9, <3>1, <3>2 DEF Invalidate, Return, Cached
  <2>. QED
    BY <1>2, <2>1, <2>2, <2>3, <2>4, <2>5, <2>6, <2>7, <2>8, <2>9 DEF ThreadStep
<1>3. CASE UNCHANGED vars
  BY <1>3 DEF vars, callVars, Cached
<1>. QED
  BY <1>1, <1>2, <1>3 DEF Next

\* Whatever moves between the store, the cache and the threads keeps its namespace.
LEMMA SourceNext ==
  ASSUME Typed, StepShape, SourceInv, [Next]_vars
  PROVE  SourceInv'
<1> USE DEF Typed, StepShape, SourceInv, Goto, cacheVars, Steps, Keys, Entries
<1>1. CASE Tick
  <2>1. ASSUME NEW k \in Keys
        PROVE  entry'[k].found = {} \/ entry'[k].found = entry[k].found
    <3> HIDE DEF Keys
    <3>1. CASE k \in Cached
      <4>1. entry[k] \in Entries
        OBVIOUS
      <4>2. entry'[k] = [entry[k] EXCEPT
              !.left = IF entry[k].left > 0 THEN entry[k].left - 1 ELSE 0,
              !.age = IF entry[k].age < TTL THEN entry[k].age + 1 ELSE TTL]
        BY <1>1, <3>1 DEF Tick
      <4> HIDE DEF Typed
      <4>. QED
        BY <4>1, <4>2
    <3>2. CASE k \notin Cached
      BY <1>1, <3>2 DEF Tick, NoEntry
    <3>. QED
      BY <3>1, <3>2
  <2>2. UNCHANGED <<stored, callVars>>
    BY <1>1 DEF Tick
  <2>. QED
    BY <2>1, <2>2 DEF callVars
<1>2. ASSUME NEW t \in Threads, ThreadStep(t)
      PROVE  SourceInv'
  <2>1. CASE Call(t)
    <3>1. PICK n \in Namespaces : space' = [space EXCEPT ![t] = n] /\
            \/ todo' = todo /\ pc'[t] \in {"lookup", "delete"}
            \/ /\ pc'[t] = "embed"
               /\ \E c \in SUBSET {d \in Chunks : Home[d] = n} : todo' = [todo EXCEPT ![t] = c]
      BY <2>1 DEF Call
    <3>2. UNCHANGED <<stored, entry, got>> /\ \A u \in Threads \ {t} : pc'[u] = pc[u]
      BY <2>1 DEF Call
    <3>. QED
      BY <3>1, <3>2
  <2>2. CASE Lookup(t)
    <3>1. KeyOf(t) \in Keys /\ KeyOf(t)[2] = space[t]
      BY <2>2 DEF Lookup, KeyOf
    <3>2. CASE Hit(t)
      BY <2>2, <3>1, <3>2 DEF Lookup, Hit
    <3>3. CASE Expired(t)
      BY <2>2, <3>1, <3>3 DEF Lookup, Expired, NoEntry
    <3>4. CASE Goto(t, "search") /\ UNCHANGED <<cacheVars, got, doubtful>>
      BY <2>2, <3>4 DEF Lookup
    <3>. QED
      BY <2>2, <3>2, <3>3, <3>4 DEF Lookup
  <2>3. CASE Search(t)
    BY <2>3 DEF Search, Return
  <2>4. CASE Put(t)
    <3>1. KeyOf(t) \in Keys /\ KeyOf(t)[2] = space[t]
      BY <2>4 DEF Put, KeyOf
    <3>2. \A k \in Keys :
            entry'[k].found = {} \/ (k = KeyOf(t) /\ entry'[k].found = got[t])
              \/ entry'[k] = entry[k]
      BY <2>4 DEF Put, NoEntry
    <3>. QED
      BY <2>4, <3>1, <3>2 DEF Put
  <2>5. CASE Answer(t)
    BY <2>5 DEF Answer, Return
  <2>6. CASE Embed(t)
    BY <2>6 DEF Embed, Fail, Return
  <2>7. CASE Upsert(t)
    BY <2>7 DEF Upsert, Fail, Return
  <2>8. CASE Delete(t)
    BY <2>8 DEF Delete, Fail, Return
  <2>9. CASE Invalidate(t)
    BY <2>9 DEF Invalidate, Return, NoEntry
  <2>. QED
    BY <1>2, <2>1, <2>2, <2>3, <2>4, <2>5, <2>6, <2>7, <2>8, <2>9 DEF ThreadStep
<1>3. CASE UNCHANGED vars
  BY <1>3 DEF vars, cacheVars, callVars
<1>. QED
  BY <1>1, <1>2, <1>3 DEF Next

\* A retrieval's results are the store's until its namespace changes, and then
\* the thread is late.
LEMMA HeldNext ==
  ASSUME Typed, StepShape, HeldFresh, [Next]_vars
  PROVE  HeldFresh'
<1> USE DEF Typed, StepShape, HeldFresh, Goto, Steps
<1>1. CASE Tick
  BY <1>1 DEF Tick, callVars
<1>2. ASSUME NEW t \in Threads, ThreadStep(t)
      PROVE  HeldFresh'
  <2>1. CASE Call(t)
    BY <2>1 DEF Call
  <2>2. CASE Lookup(t)
    BY <2>2 DEF Lookup, Hit, Expired
  <2>3. CASE Search(t)
    BY <2>3 DEF Search, Return
  <2>4. CASE Put(t)
    BY <2>4 DEF Put
  <2>5. CASE Answer(t)
    BY <2>5 DEF Answer, Return
  <2>6. CASE Embed(t)
    BY <2>6 DEF Embed, Fail, Return
  <2>7. CASE Upsert(t)
    BY <2>7 DEF Upsert, Fail, Return, Holding
  <2>8. CASE Delete(t)
    BY <2>8 DEF Delete, Fail, Return, Holding
  <2>9. CASE Invalidate(t)
    BY <2>9 DEF Invalidate, Return
  <2>. QED
    BY <1>2, <2>1, <2>2, <2>3, <2>4, <2>5, <2>6, <2>7, <2>8, <2>9 DEF ThreadStep
<1>3. CASE UNCHANGED vars
  BY <1>3 DEF vars, callVars
<1>. QED
  BY <1>1, <1>2, <1>3 DEF Next

\* Every change of a namespace is made by a thread that has yet to clear the
\* cache, and every result that is put later than it was searched is doubtful.
LEMMA FreshNext ==
  ASSUME Typed, StepShape, HeldFresh, FreshUnlessRaced, CacheInv, [Next]_vars
  PROVE  FreshUnlessRaced'
<1> USE DEF Typed, StepShape, HeldFresh, FreshUnlessRaced, CacheInv, Goto, cacheVars,
      Steps
<1>1. CASE Tick
  <2>1. UNCHANGED <<order, callVars, stored, doubtful>>
    BY <1>1 DEF Tick
  <2>2. Cached' = Cached /\ \A n : Changing(n) => Changing(n)'
    BY <2>1 DEF Cached, Changing, callVars
  <2>3. \A k \in Keys \cap Cached : entry'[k].found = entry[k].found
    BY <1>1 DEF Tick, Entries
  <2>4. Cached \subseteq Keys
    <3>1. DOMAIN order = 1..Len(order) /\ order \in [1..Len(order) -> Keys]
      BY LenProperties DEF Keyed
    <3>. QED
      BY <3>1 DEF Cached, ToSet
  <2>. QED
    BY <2>1, <2>2, <2>3, <2>4 DEF Fresh
<1>2. ASSUME NEW t \in Threads, ThreadStep(t)
      PROVE  FreshUnlessRaced'
  <2>1. CASE Call(t)
    <3>1. UNCHANGED <<stored, order, entry, doubtful>>
      BY <2>1 DEF Call
    <3>2. Cached' = Cached
      BY <3>1 DEF Cached
    <3>3. \A n : Changing(n) => Changing(n)'
      BY <2>1 DEF Changing, Call
    <3>. QED
      BY <3>1, <3>2, <3>3 DEF Fresh
  <2>2. CASE Lookup(t)
    <3>1. KeyOf(t) \in Keys /\ UNCHANGED stored
      BY <2>2 DEF Lookup, KeyOf, Keys
    <3>2. \A n : Changing(n) => Changing(n)'
      BY <2>2 DEF Changing, Lookup, Hit, Expired
    <3>3. CASE CacheOn /\ KeyOf(t) \in Cached /\ Hit(t)
      <4>1. order' = Append(Without(KeyOf(t)), KeyOf(t)) /\ UNCHANGED <<entry, doubtful>>
        BY <3>3 DEF Hit
      <4>2. ToSet(order') = Cached \cup {KeyOf(t)}
        BY <3>1, <4>1, UsedFacts
      <4>3. Cached' = Cached
        BY <4>2, <3>3 DEF Cached
      <4>. QED
        BY <3>1, <3>2, <4>1, <4>3 DEF Fresh
    <3>4. CASE CacheOn /\ KeyOf(t) \in Cached /\ Expired(t)
      <4>1. ToSet(order') = Cached \ {KeyOf(t)}
        BY <3>4, WithoutFacts DEF Expired
      <4>2. Cached' = Cached \ {KeyOf(t)}
        BY <4>1 DEF Cached
      <4>3. \A k \in Cached' \ doubtful' : k \in Cached \ doubtful /\ entry'[k] = entry[k]
        BY <3>4, <4>2 DEF Expired
      <4>. QED
        BY <3>1, <3>2, <4>3 DEF Fresh
    <3>5. CASE Goto(t, "search") /\ UNCHANGED <<cacheVars, got, doubtful>>
      BY <3>1, <3>2, <3>5 DEF Fresh, Cached
    <3>. QED
      BY <2>2, <3>3, <3>4, <3>5 DEF Lookup
  <2>3. CASE Search(t)
    <3>1. UNCHANGED <<stored, order, entry, doubtful>>
      BY <2>3 DEF Search
    <3>2. Cached' = Cached
      BY <3>1 DEF Cached
    <3>3. \A n : Changing(n) => Changing(n)'
      BY <2>3 DEF Changing, Search, Return
    <3>. QED
      BY <3>1, <3>2, <3>3 DEF Fresh
  <2>4. CASE Put(t)
    <3>1. KeyOf(t) \in Keys /\ KeyOf(t)[2] = space[t] /\ CacheSize \in Nat \ {0}
      BY <2>4, PipelineAssumption DEF Put, KeyOf, Keys, CacheOn
    <3>2. UNCHANGED <<stored, space>> /\ \A n : Changing(n) => Changing(n)'
      BY <2>4 DEF Changing, Put
    <3>3. order' = Trimmed(Append(Without(KeyOf(t)), KeyOf(t)))
      BY <2>4 DEF Put
    <3>4. Keyed(order') /\ ToSet(order') \subseteq Cached \cup {KeyOf(t)}
      BY <3>1, <3>3, TrimmedFacts
    <3>5. /\ Cached' = ToSet(order')
          /\ Cached' \subseteq Keys /\ Cached' \subseteq Cached \cup {KeyOf(t)}
      <4>1. order' \in [1..Len(order') -> Keys] /\ DOMAIN order' = 1..Len(order')
        BY <3>4, LenProperties DEF Keyed
      <4>. QED
        BY <3>4, <4>1 DEF Cached, ToSet
    <3>6. ASSUME NEW k \in Cached' \ doubtful'
          PROVE  Fresh(k)'
      <4>1. CASE k = KeyOf(t)
        <5>1. t \notin late /\ got[t] = stored[space[t]]
          BY <2>4, <4>1, <3>5, <3>6 DEF Put
        <5>2. entry'[k] = [found |-> got[t], left |-> TTL, age |-> 0]
          BY <2>4, <4>1, <3>5, <3>6 DEF Put
        <5>. QED
          BY <5>1, <5>2, <4>1, <3>1, <3>2 DEF Fresh
      <4>2. CASE k # KeyOf(t)
        <5>1. k \in Cached \ doubtful /\ entry'[k] = entry[k]
          BY <2>4, <4>2, <3>5, <3>6 DEF Put
        <5>. QED
          BY <5>1, <3>2 DEF Fresh
      <4>. QED
        BY <4>1, <4>2
    <3>. QED
      BY <3>6
  <2>5. CASE Answer(t)
    <3>1. UNCHANGED <<stored, order, entry, doubtful>>
      BY <2>5 DEF Answer
    <3>2. Cached' = Cached
      BY <3>1 DEF Cached
    <3>3. \A n : Changing(n) => Changing(n)'
      BY <2>5 DEF Changing, Answer, Return
    <3>. QED
      BY <3>1, <3>2, <3>3 DEF Fresh
  <2>6. CASE Embed(t)
    <3>1. UNCHANGED <<stored, order, entry>> /\ Cached' = Cached
      BY <2>6 DEF Embed, Cached
    <3>2. CASE Goto(t, IF todo[t] = {} THEN "invalidate" ELSE "upsert")
                 /\ UNCHANGED <<space, query, todo, changed, got, doubtful>>
      <4>1. \A n : Changing(n) => Changing(n)'
        BY <3>2 DEF Changing
      <4>. QED
        BY <3>1, <3>2, <4>1 DEF Fresh
    <3>3. CASE Fail(t)
      <4>1. ASSUME NEW k \in Cached \ doubtful', Changing(k[2])
           PROVE  Changing(k[2])'
        <5>1. PICK u \in Threads : /\ space[u] = k[2] /\ changed[u]
                                  /\ pc[u] \in {"embed", "upsert", "invalidate"}
          BY <4>1 DEF Changing
        <5>2. u # t
          BY <4>1, <5>1, <3>3 DEF Fail, KeysIn
        <5>. QED
          BY <5>1, <5>2, <3>3 DEF Fail, Return, Changing
      <4>2. doubtful \subseteq doubtful'
        BY <3>3 DEF Fail
      <4>. QED
        BY <3>1, <4>1, <4>2 DEF Fresh
    <3>. QED
      BY <2>6, <3>2, <3>3 DEF Embed
  <2>7. CASE Upsert(t)
    <3>1. UNCHANGED <<order, entry>> /\ Cached' = Cached /\ space[t] \in Namespaces
      BY <2>7 DEF Upsert, Cached
    <3>2. ASSUME NEW batch \in SUBSET todo[t],
                 stored' = [stored EXCEPT ![space[t]] = @ \cup batch],
                 changed' = [changed EXCEPT ![t] = TRUE], Goto(t, "embed"),
                 UNCHANGED <<space, query, got, doubtful>>
          PROVE  FreshUnlessRaced'
      <4>1. Changing(space[t])' /\ \A n : Changing(n) => Changing(n)'
        BY <3>2 DEF Changing
      <4>2. \A n \in Namespaces : n # space[t] => stored'[n] = stored[n]
        BY <3>2
      <4>3. \A k \in Cached : k[2] \in Namespaces
        <5>1. DOMAIN order = 1..Len(order) /\ order \in [1..Len(order) -> Keys]
          BY LenProperties DEF Keyed
        <5>. QED
          BY <5>1 DEF Cached, ToSet, Keys
      <4>. QED
        BY <3>1, <3>2, <4>1, <4>2, <4>3 DEF Fresh
    <3>3. CASE Fail(t) /\ UNCHANGED <<stored, late>>
      <4>1. ASSUME NEW k \in Cached \ doubtful', Changing(k[2])
           PROVE  Changing(k[2])'
        <5>1. PICK u \in Threads : /\ space[u] = k[2] /\ changed[u]
                                  /\ pc[u] \in {"embed", "upsert", "invalidate"}
          BY <4>1 DEF Changing
        <5>2. u # t
          BY <4>1, <5>1, <3>3 DEF Fail, KeysIn
        <5>. QED
          BY <5>1, <5>2, <3>3 DEF Fail, Return, Changing
      <4>2. doubtful \subseteq doubtful'
        BY <3>3 DEF Fail
      <4>. QED
        BY <3>1, <3>3, <4>1, <4>2 DEF Fresh
    <3>. QED
      BY <2>7, <3>2, <3>3 DEF Upsert
  <2>8. CASE Delete(t)
    <3>1. UNCHANGED <<order, entry>> /\ Cached' = Cached /\ space[t] \in Namespaces
      BY <2>8 DEF Delete, Cached
    <3>2. CASE /\ stored' = [stored EXCEPT ![space[t]] = {}]
               /\ changed' = [changed EXCEPT ![t] = TRUE]
               /\ Goto(t, "invalidate")
               /\ UNCHANGED <<space, query, todo, got, doubtful>>
      <4>1. Changing(space[t])' /\ \A n : Changing(n) => Changing(n)'
        BY <3>2 DEF Changing
      <4>2. \A n \in Namespaces : n # space[t] => stored'[n] = stored[n]
        BY <3>2
      <4>3. \A k \in Cached : k[2] \in Namespaces
        <5>1. DOMAIN order = 1..Len(order) /\ order \in [1..Len(order) -> Keys]
          BY LenProperties DEF Keyed
        <5>. QED
          BY <5>1 DEF Cached, ToSet, Keys
      <4>. QED
        BY <3>1, <3>2, <4>1, <4>2, <4>3 DEF Fresh
    <3>3. CASE Fail(t) /\ UNCHANGED <<stored, late>>
      <4>1. ASSUME NEW k \in Cached \ doubtful', Changing(k[2])
           PROVE  Changing(k[2])'
        <5>1. PICK u \in Threads : /\ space[u] = k[2] /\ changed[u]
                                  /\ pc[u] \in {"embed", "upsert", "invalidate"}
          BY <4>1 DEF Changing
        <5>2. u # t
          BY <4>1, <5>1, <3>3 DEF Fail, KeysIn
        <5>. QED
          BY <5>1, <5>2, <3>3 DEF Fail, Return, Changing
      <4>2. doubtful \subseteq doubtful'
        BY <3>3 DEF Fail
      <4>. QED
        BY <3>1, <3>3, <4>1, <4>2 DEF Fresh
    <3>. QED
      BY <2>8, <3>2, <3>3 DEF Delete
  <2>9. CASE Invalidate(t)
    <3>1. Cached' = {}
      BY <2>9 DEF Invalidate, Cached, ToSet
    <3>. QED
      BY <3>1
  <2>. QED
    BY <1>2, <2>1, <2>2, <2>3, <2>4, <2>5, <2>6, <2>7, <2>8, <2>9 DEF ThreadStep
<1>3. CASE UNCHANGED vars
  BY <1>3 DEF vars, callVars, Cached, Fresh, Changing
<1>. QED
  BY <1>1, <1>2, <1>3 DEF Next

\* No more entries than the limit, and none older than it may be.
LEMMA CacheNext ==
  ASSUME Typed, StepShape, CacheInv, [Next]_vars
  PROVE  CacheInv'
<1> USE DEF CacheInv, cacheVars
<1>1. CASE Tick
  <2>1. UNCHANGED order /\ Cached' = Cached
    BY <1>1 DEF Tick, Cached
  <2>2. Cached \subseteq Keys
    <3>1. DOMAIN order = 1..Len(order) /\ order \in [1..Len(order) -> Keys]
      BY LenProperties DEF Typed, Keyed
    <3>. QED
      BY <3>1 DEF Cached, ToSet
  <2>3. ASSUME NEW k \in Cached
        PROVE  entry'[k].left + entry'[k].age = TTL
    <3>1. /\ entry[k] \in Entries /\ entry[k].left \in 0..TTL /\ entry[k].age \in 0..TTL
          /\ TTL \in Nat
      BY <2>2, PipelineAssumption DEF Typed, Entries
    <3>2. /\ entry'[k].left = IF entry[k].left > 0 THEN entry[k].left - 1 ELSE 0
          /\ entry'[k].age = IF entry[k].age < TTL THEN entry[k].age + 1 ELSE TTL
      BY <1>1, <2>2, <3>1 DEF Tick, Entries
    <3>3. entry[k].left + entry[k].age = TTL
      OBVIOUS
    <3>. QED
      BY <3>1, <3>2, <3>3
  <2>. QED
    BY <2>1, <2>3
<1>2. ASSUME NEW t \in Threads, ThreadStep(t)
      PROVE  CacheInv'
  <2>1. CASE Call(t)
    <3>1. UNCHANGED <<order, entry>>
      BY <2>1 DEF Call
    <3>. QED
      BY <3>1 DEF Cached
  <2>2. CASE Lookup(t)
    <3>1. KeyOf(t) \in Keys /\ Keyed(order)
      BY <2>2 DEF Lookup, KeyOf, Keys, Typed, StepShape
    <3>2. Len(order) \in Nat
      BY <3>1, LenProperties DEF Keyed
    <3>3. CASE CacheOn /\ KeyOf(t) \in Cached /\ Hit(t)
      <4>1. order' = Append(Without(KeyOf(t)), KeyOf(t)) /\ UNCHANGED entry
        BY <3>3 DEF Hit
      <4>2. ToSet(order') = Cached \cup {KeyOf(t)} /\ Len(order') = Len(order)
        BY <3>1, <3>3, <4>1, UsedFacts
      <4>3. Cached' = Cached
        BY <4>2, <3>3 DEF Cached
      <4>. QED
        BY <4>1, <4>2, <4>3
    <3>4. CASE CacheOn /\ KeyOf(t) \in Cached /\ Expired(t)
      <4>1. ToSet(order') = Cached \ {KeyOf(t)} /\ Len(order') = Len(order) - 1
        BY <3>1, <3>4, WithoutFacts DEF Expired
      <4>2. Cached' = Cached \ {KeyOf(t)}
        BY <4>1 DEF Cached
      <4>3. \A k \in Cached' : k \in Cached /\ entry'[k] = entry[k]
        BY <3>4, <4>2 DEF Expired, Typed
      <4>4. Len(order') <= CacheSize
        BY <4>1, <3>2, PipelineAssumption
      <4>. QED
        BY <4>3, <4>4
    <3>5. CASE UNCHANGED cacheVars
      BY <3>5 DEF Cached
    <3>. QED
      BY <2>2, <3>3, <3>4, <3>5 DEF Lookup
  <2>3. CASE Search(t)
    <3>1. UNCHANGED <<order, entry>>
      BY <2>3 DEF Search
    <3>. QED
      BY <3>1 DEF Cached
  <2>4. CASE Put(t)
    <3>1. KeyOf(t) \in Keys /\ CacheSize \in Nat \ {0} /\ Keyed(order)
      BY <2>4, PipelineAssumption DEF Put, KeyOf, Keys, CacheOn, Typed, StepShape
    <3>2. order' = Trimmed(Append(Without(KeyOf(t)), KeyOf(t)))
      BY <2>4 DEF Put
    <3>3. /\ Keyed(order') /\ ToSet(order') \subseteq Cached \cup {KeyOf(t)}
          /\ Len(order') <= CacheSize
      BY <3>1, <3>2, TrimmedFacts
    <3>4. /\ Cached' = ToSet(order')
          /\ Cached' \subseteq Keys /\ Cached' \subseteq Cached \cup {KeyOf(t)}
      <4>1. order' \in [1..Len(order') -> Keys] /\ DOMAIN order' = 1..Len(order')
        BY <3>3, LenProperties DEF Keyed
      <4>. QED
        BY <3>3, <4>1 DEF Cached, ToSet
    <3>5. ASSUME NEW k \in Cached'
          PROVE  (entry[k].left + entry[k].age = TTL)'
      <4>1. \/ entry'[k] = [found |-> got[t], left |-> TTL, age |-> 0]
            \/ k \in Cached /\ entry'[k] = entry[k]
        BY <2>4, <3>4, <3>5 DEF Put
      <4>. QED
        BY <4>1, PipelineAssumption
    <3>. QED
      BY <3>3, <3>5
  <2>5. CASE Answer(t)
    <3>1. UNCHANGED <<order, entry>>
      BY <2>5 DEF Answer
    <3>. QED
      BY <3>1 DEF Cached
  <2>6. CASE Embed(t)
    <3>1. UNCHANGED <<order, entry>>
      BY <2>6 DEF Embed
    <3>. QED
      BY <3>1 DEF Cached
  <2>7. CASE Upsert(t)
    <3>1. UNCHANGED <<order, entry>>
      BY <2>7 DEF Upsert
    <3>. QED
      BY <3>1 DEF Cached
  <2>8. CASE Delete(t)
    <3>1. UNCHANGED <<order, entry>>
      BY <2>8 DEF Delete
    <3>. QED
      BY <3>1 DEF Cached
  <2>9. CASE Invalidate(t)
    <3>1. order' = <<>> /\ Cached' = {}
      BY <2>9 DEF Invalidate, Cached, ToSet
    <3>. QED
      BY <3>1, EmptySeq, PipelineAssumption
  <2>. QED
    BY <1>2, <2>1, <2>2, <2>3, <2>4, <2>5, <2>6, <2>7, <2>8, <2>9 DEF ThreadStep
<1>3. CASE UNCHANGED vars
  BY <1>3 DEF vars, Cached
<1>. QED
  BY <1>1, <1>2, <1>3 DEF Next

-----------------------------------------------------------------------------
(***************************************************************************)
(* The theorems.                                                           *)
(***************************************************************************)
\* The invariant holds of every state.
LEMMA AlwaysPipelineInv == Spec => []PipelineInv
<1>1. Init => PipelineInv
  <2> SUFFICES ASSUME Init
               PROVE  PipelineInv
    OBVIOUS
  <2>1. Cached = {} /\ Keyed(order) /\ Len(order) = 0
    BY EmptySeq DEF Init, Cached, ToSet, Keyed
  <2>2. NoEntry \in Entries
    BY PipelineAssumption DEF NoEntry, Entries
  <2>3. Typed
    BY <2>1, <2>2 DEF Init, Typed, Steps
  <2>4. StepShape /\ HeldFresh /\ FreshUnlessRaced
    BY <2>1 DEF Init, StepShape, HeldFresh, FreshUnlessRaced
  <2>5. SourceInv
    BY DEF Init, SourceInv, NoEntry
  <2>6. CacheInv
    BY <2>1, PipelineAssumption DEF CacheInv
  <2>. QED
    BY <2>3, <2>4, <2>5, <2>6 DEF PipelineInv
<1>2. PipelineInv /\ [Next]_vars => PipelineInv'
  BY TypedNext, ShapeNext, SourceNext, HeldNext, FreshNext, CacheNext DEF PipelineInv
<1>. QED
  BY <1>1, <1>2, PTL DEF Spec

\* Namespaces are isolated, whichever threads retrieve, ingest and clear at
\* once and whatever the cache holds: an answer holds chunks of the namespace
\* it was asked of, and of no other (_query_cache_key, retrieve).
THEOREM AnswersIsolated == Spec => []Isolated
<1>1. PipelineInv => Isolated
  <2> SUFFICES ASSUME PipelineInv
               PROVE  Isolated
    OBVIOUS
  <2>1. Typed /\ SourceInv
    BY DEF PipelineInv
  <2>2. Cached \subseteq Keys
    <3>1. DOMAIN order = 1..Len(order) /\ order \in [1..Len(order) -> Keys]
      BY <2>1, LenProperties DEF Typed, Keyed
    <3>. QED
      BY <3>1 DEF Cached, ToSet
  <2>3. TypeOK
    BY <2>1, <2>2 DEF Typed, Keyed, TypeOK
  <2>. QED
    BY <2>1, <2>3 DEF Isolated, SourceInv
<1>. QED
  BY <1>1, AlwaysPipelineInv, PTL

\* A cached result is what the store would return, unless its namespace is
\* being changed or a change raced with it (ingest, clear, retrieve).
THEOREM CacheFreshUnlessRaced == Spec => []FreshUnlessRaced
<1>1. PipelineInv => FreshUnlessRaced
  BY DEF PipelineInv
<1>. QED
  BY <1>1, AlwaysPipelineInv, PTL

\* No step serves a result that is past its time, none exceeds the limit of
\* the cache, and a step that puts a result keeps it and drops what was used
\* less recently than all it leaves (_get_cached_query, _put_cached_query).
THEOREM CacheAlwaysKept == Spec => CacheKept
<1>1. PipelineInv /\ [Next]_vars => [\A t \in Threads : ServedInTime(t) /\ LimitKept(t)]_vars
  <2> SUFFICES ASSUME PipelineInv, Next, NEW t \in Threads
               PROVE  ServedInTime(t) /\ LimitKept(t)
    OBVIOUS
  <2>1. Typed /\ StepShape /\ CacheInv
    BY DEF PipelineInv
  <2>2. CASE pc'[t] = pc[t]
    BY <2>2 DEF ServedInTime, LimitKept
  <2>3. CASE ThreadStep(t) /\ pc[t] = "lookup"
    <3>1. Lookup(t)
      BY <2>3 DEF ThreadStep, Call, Search, Put, Answer, Embed, Upsert, Delete,
         Invalidate
    <3>2. CASE pc'[t] = "answer"
      <4>1. KeyOf(t) \in Cached /\ Hit(t)
        BY <3>1, <3>2, <2>1 DEF Lookup, Expired, Goto, Typed
      <4>2. KeyOf(t) \in Keys
        BY <2>1, <2>3 DEF KeyOf, Keys, StepShape
      <4>3. /\ entry[KeyOf(t)].left + entry[KeyOf(t)].age = TTL
            /\ entry[KeyOf(t)].left > 0
        BY <4>1, <2>1 DEF Hit, CacheInv
      <4>4. entry[KeyOf(t)].left \in 0..TTL /\ entry[KeyOf(t)].age \in 0..TTL
        BY <4>2, <2>1 DEF Typed, Entries
      <4>. QED
        BY <4>3, <4>4, <2>3, PipelineAssumption DEF ServedInTime, LimitKept
    <3>. QED
      BY <3>2, <2>3 DEF ServedInTime, LimitKept
  <2>4. CASE ThreadStep(t) /\ pc[t] = "put"
    <3>1. Put(t)
      BY <2>4 DEF ThreadStep, Call, Lookup, Search, Answer, Embed, Upsert, Delete,
         Invalidate
    <3>2. KeyOf(t) \in Keys /\ CacheSize \in Nat \ {0}
      BY <2>1, <2>4, PipelineAssumption DEF KeyOf, Keys, CacheOn, StepShape
    <3>3. order' = Trimmed(Append(Without(KeyOf(t)), KeyOf(t)))
      BY <3>1 DEF Put
    <3>4. /\ Len(order') <= CacheSize /\ Last(order') = KeyOf(t)
          /\ \A i, j \in DOMAIN order :
               order[i] \notin ToSet(order') /\ order[j] \in ToSet(order') \ {KeyOf(t)} => i < j
      BY <2>1, <3>2, <3>3, TrimmedFacts DEF Typed, CacheInv
    <3>. QED
      BY <3>4, <2>4 DEF ServedInTime, LimitKept
  <2>5. CASE pc[t] \notin {"lookup", "put"}
    BY <2>5 DEF ServedInTime, LimitKept
  <2>6. pc'[t] = pc[t] \/ ThreadStep(t)
    <3>1. CASE Tick
      BY <3>1 DEF Tick, callVars
    <3>2. ASSUME NEW u \in Threads, ThreadStep(u), u # t
          PROVE  pc'[t] = pc[t]
      BY <3>2, <2>1 DEF Typed, ThreadStep, Call, Lookup, Search, Put, Answer, Embed,
         Upsert,
         Delete, Invalidate, Goto, Return, Fail, Hit, Expired
    <3>. QED
      BY <3>1, <3>2 DEF Next
  <2>. QED
    BY <2>2, <2>3, <2>4, <2>5, <2>6
<1>. QED
  BY <1>1, AlwaysPipelineInv, PTL DEF Spec, CacheKept
=============================================================================
