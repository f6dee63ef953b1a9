------------------------- MODULE DirectClientProofs -------------------------
(***************************************************************************)
(* Proofs about DirectClient, for any numbers of requests, streams and     *)
(* events of a stream.                                                     *)
(***************************************************************************)
EXTENDS DirectClient, SequenceTheorems, TLAPS

\* The thread of request r is inside request() or close() from its
\* acquisition of the lock to the end of its call, and holds the lock.
LockInv ==
  \A r \in Requests : pc[r] \notin {"new", "set", "over"} => lock = r

\* A request that can still spawn a process, and one that can still be
\* written to a process.
Unspawned(r) ==
  \/ pc[r] \in {"new", "spawn"}
  \/ pc[r] = "closing" /\ outcome[r] = "none"
Unwritten(r) == Unspawned(r) \/ pc[r] \in {"send", "write"}

\* A call has its outcome from the step on that decides it.
OutcomeInv ==
  \A r \in Requests :
    /\ pc[r] \in {"new", "spawn", "send", "write", "wait"} => outcome[r] = "none"
    /\ pc[r] \in {"kill", "leave"} => outcome[r] # "none"

\* Nothing is known of a process before it is spawned.
UnspawnedInv ==
  \A p \in Requests : Unspawned(p) =>
    /\ p # proc /\ p \notin running /\ p \notin closed
    /\ stdin[p] = <<>> /\ busy[p] = NoRequest /\ stdout[p] = <<>>
    /\ \A r \in Requests : seen[r] # p
    /\ \A s \in Streams : cseen[s] # p

\* A request is written once, to one worker, and is executed by taking it
\* from there.
SentInv ==
  /\ \A p, r \in Requests : \A i \in DOMAIN stdin[p] :
       stdin[p][i] = r => ~Unwritten(r) /\ executed[r] = 0
  /\ \A p, q \in Requests : \A i \in DOMAIN stdin[p], j \in DOMAIN stdin[q] :
       stdin[p][i] = stdin[q][j] => p = q /\ i = j
  /\ \A r \in Requests : executed[r] <= 1 /\ (executed[r] = 1 => ~Unwritten(r))

\* Only a request that was executed is worked on or answered.
AnswerInv ==
  /\ \A p \in Requests : busy[p] # NoRequest => executed[busy[p]] = 1
  /\ \A p \in Requests : \A i \in DOMAIN stdout[p] : executed[stdout[p][i].to] = 1
  /\ \A i \in DOMAIN queue : executed[queue[i].to] = 1
  /\ \A r \in Requests : outcome[r] = "ok" => executed[r] = 1

\* What the holder of the lock knows of the handle.  A consumer that leaves
\* may forget the handle at any time, but nobody else can set it.
HandleInv ==
  /\ proc \notin closed
  /\ \A r \in Requests :
       /\ pc[r] = "closing" => proc \notin running
       /\ pc[r] = "spawn" => proc = NoProcess
       /\ pc[r] \in {"write", "wait"} => seen[r] \in Requests /\ proc \in {seen[r], NoProcess}
       /\ pc[r] = "kill" /\ outcome[r] = "closed" => proc \in {seen[r], NoProcess}

\* While a request waits, no other process than the one it was written to
\* has anything of it.
OwnInv ==
  \A r \in Requests : pc[r] = "wait" =>
    \A p \in Requests \ {seen[r]} :
      /\ \A i \in DOMAIN stdin[p] : stdin[p][i] # r
      /\ busy[p] # r
      /\ \A i \in DOMAIN stdout[p] : stdout[p][i].to # r

Quiet(p) == stdin[p] = <<>> /\ busy[p] = NoRequest /\ stdout[p] = <<>>
Answered(r) == \E i \in DOMAIN queue : queue[i].to = r /\ queue[i].kind # "event"

\* Process p has not read the request r it was sent, works on it, has
\* answered it, or has nothing of it any more.  An answer is the last a
\* process prints for a request.
Serving(p, r) ==
  \/ stdin[p] = <<r>> /\ busy[p] = NoRequest /\ stdout[p] = <<>> /\ ~Answered(r)
  \/ /\ stdin[p] = <<>> /\ busy[p] = r /\ ~Answered(r)
     /\ \A i \in DOMAIN stdout[p] : stdout[p][i].kind = "event"
  \/ /\ stdin[p] = <<>> /\ busy[p] = NoRequest /\ ~Answered(r)
     /\ \A i \in DOMAIN stdout[p] : i < Len(stdout[p]) => stdout[p][i].kind = "event"
  \/ Quiet(p)

\* A live worker is quiet whenever no request waits for it.
QuietInv ==
  \A p \in running : p = proc =>
    /\ lock = NoRequest => Quiet(p)
    /\ \A r \in Requests :
         /\ pc[r] \in {"send", "write", "leave"} => Quiet(p)
         /\ pc[r] = "wait" => Serving(p, r)

ClientInv ==
  /\ TypeOK /\ LockInv /\ OutcomeInv /\ UnspawnedInv /\ SentInv /\ AnswerInv
  /\ HandleInv /\ OwnInv /\ QuietInv /\ WorkerKnown

-----------------------------------------------------------------------------
(***************************************************************************)
(* Sequences.                                                              *)
(***************************************************************************)
\* A sequence without its head.
LEMMA TailFacts ==
  ASSUME NEW S, NEW q \in Seq(S), q # <<>>
  PROVE  /\ Tail(q) \in Seq(S) /\ Head(q) \in S /\ Head(q) = q[1]
         /\ Len(q) \in Nat \ {0} /\ Len(Tail(q)) = Len(q) - 1
         /\ DOMAIN q = 1..Len(q) /\ DOMAIN Tail(q) = 1..(Len(q) - 1)
         /\ \A i \in DOMAIN Tail(q) : i + 1 \in DOMAIN q /\ Tail(q)[i] = q[i + 1]
<1>1. /\ Len(q) \in Nat \ {0} /\ DOMAIN q = 1..Len(q)
  BY EmptySeq, LenProperties
<1>2. /\ Tail(q) \in Seq(S) /\ Head(q) \in S /\ Len(Tail(q)) = Len(q) - 1
      /\ \A i \in 1..Len(Tail(q)) : Tail(q)[i] = q[i + 1]
  BY HeadTailProperties
<1>3. DOMAIN Tail(q) = 1..(Len(q) - 1)
  BY <1>2, LenProperties
<1>4. Head(q) = q[1]
  BY <1>1
<1>. QED
  BY <1>1, <1>2, <1>3, <1>4

\* A sequence with one element more.
LEMMA AppendFacts ==
  ASSUME NEW S, NEW q \in Seq(S), NEW e \in S
  PROVE  /\ Append(q, e) \in Seq(S) /\ Len(q) \in Nat /\ Len(Append(q, e)) = Len(q) + 1
         /\ DOMAIN q = 1..Len(q) /\ DOMAIN Append(q, e) = 1..(Len(q) + 1)
         /\ \A i \in DOMAIN q : Append(q, e)[i] = q[i]
         /\ Append(q, e)[Len(q) + 1] = e
<1>1. /\ Append(q, e) \in Seq(S) /\ Len(Append(q, e)) = Len(q) + 1
      /\ \A i \in 1..Len(q) : Append(q, e)[i] = q[i]
      /\ Append(q, e)[Len(q) + 1] = e
  BY AppendProperties
<1>2. Len(q) \in Nat /\ DOMAIN q = 1..Len(q) /\ DOMAIN Append(q, e) = 1..Len(Append(q, e))
  BY <1>1, LenProperties
<1>. QED
  BY <1>1, <1>2

\* n events of request r.
Event(r) == [to |-> r, kind |-> "event"]
EventsOf(r, n) == [i \in 1..n |-> [to |-> r, kind |-> "event"]]

\* They are a sequence of responses.
LEMMA EventsFacts ==
  ASSUME NEW r \in Requests, NEW n \in Nat
  PROVE  /\ EventsOf(r, n) \in Seq(Responses) /\ Len(EventsOf(r, n)) = n
         /\ \A i \in 1..n : EventsOf(r, n)[i] = Event(r)
<1>1. PICK e : e = EventsOf(r, n)
  OBVIOUS
<1>2. Event(r) \in Responses
  BY DEF Event, Responses
<1>3. e \in [1..n -> Responses] /\ \A i \in 1..n : e[i] = Event(r)
  BY <1>1, <1>2 DEF EventsOf, Event
<1>4. e \in Seq(Responses)
  BY <1>3, SeqDef
<1>5. 1..n = 1..Len(e) /\ Len(e) \in Nat
  BY <1>3, <1>4, LenProperties
<1>6. Len(e) = n
  <2>1. CASE n > Len(e)
    BY <1>5, <2>1, n \in 1..n
  <2>2. CASE n < Len(e)
    BY <1>5, <2>2, Len(e) \in 1..Len(e)
  <2>. QED
    BY <1>5, <2>1, <2>2
<1>. QED
  BY <1>1, <1>3, <1>4, <1>6

-----------------------------------------------------------------------------
(***************************************************************************)
(* What the steps do to the pipes and the queue, element by element.       *)
(***************************************************************************)
\* Each element of u is one of the sequence q, at its place, or satisfies the
\* description new.
Extends(u, q, new) == \A i \in DOMAIN u : (i \in DOMAIN q /\ u[i] = q[i]) \/ u[i] \in new

\* The elements of u are those of q, one place further.
Follows(u, q) == \A i \in DOMAIN u : i + 1 \in DOMAIN q /\ u[i] = q[i + 1]

\* Worker p takes the first request r of its stdin, which leaves rest, and its
\* events are printed after what it printed before.
Takes(p, r, rest, u) ==
  /\ p \in running /\ busy[p] = NoRequest
  /\ 1 \in DOMAIN stdin[p] /\ stdin[p][1] = r
  /\ Len(rest) = Len(stdin[p]) - 1 /\ Follows(rest, stdin[p])
  /\ Extends(u, stdout[p], {Event(r)})
  /\ stdin' = [stdin EXCEPT ![p] = rest]
  /\ busy' = [busy EXCEPT ![p] = r]
  /\ executed' = [executed EXCEPT ![r] = @ + 1]
  /\ stdout' = [stdout EXCEPT ![p] = u]

\* That is what WorkerTake does.
LEMMA WorkerTakeEffect ==
  ASSUME TypeOK, NEW p \in Requests, WorkerTake(p)
  PROVE  \E r \in Requests, rest \in Seq(Requests), u \in Seq(Responses) : Takes(p, r, rest, u)
<1>0. PICK r : r = Head(stdin[p])
  OBVIOUS
<1> DEFINE emitted(n) == stdout[p] \o EventsOf(r, n)
<1>1. /\ p \in running /\ busy[p] = NoRequest /\ stdin[p] # <<>>
      /\ stdin[p] \in Seq(Requests) /\ stdout[p] \in Seq(Responses)
  BY DEF WorkerTake, TypeOK
<1>2. /\ Tail(stdin[p]) \in Seq(Requests) /\ r \in Requests /\ r = stdin[p][1]
      /\ Len(Tail(stdin[p])) = Len(stdin[p]) - 1 /\ 1 \in DOMAIN stdin[p]
      /\ Follows(Tail(stdin[p]), stdin[p])
  BY <1>0, <1>1, TailFacts DEF Follows
<1>3. PICK n \in Nat : stdout' = [stdout EXCEPT ![p] = emitted(n)]
  <2>1. PICK n \in 0..(IF r \in Streams /\ p \notin closed THEN MaxEvents ELSE 0) :
          stdout' = [stdout EXCEPT ![p] = emitted(n)]
    BY <1>0 DEF WorkerTake, EventsOf
  <2>2. n \in Nat
    BY <2>1, ClientAssumption
  <2>. QED
    BY <2>1, <2>2
<1>4. PICK u : u = emitted(n)
  OBVIOUS
<1>5. u \in Seq(Responses) /\ Extends(u, stdout[p], {Event(r)})
  <2>1. PICK q, e : q = stdout[p] /\ e = EventsOf(r, n)
    OBVIOUS
  <2>2. /\ u = q \o e /\ q \in Seq(Responses) /\ e \in Seq(Responses) /\ Len(e) = n
        /\ \A i \in 1..n : e[i] = Event(r)
    BY <1>1, <1>2, <1>4, <2>1, EventsFacts
  <2>3. /\ u \in Seq(Responses) /\ Len(u) = Len(q) + Len(e)
        /\ \A i \in 1..(Len(q) + Len(e)) : u[i] = IF i <= Len(q) THEN q[i] ELSE e[i - Len(q)]
    BY <2>2, ConcatProperties
  <2>4. Len(q) \in Nat /\ DOMAIN q = 1..Len(q) /\ DOMAIN u = 1..(Len(q) + n)
    BY <2>2, <2>3, LenProperties
  <2>5. ASSUME NEW i \in DOMAIN u
        PROVE  (i \in DOMAIN q /\ u[i] = q[i]) \/ u[i] = Event(r)
    <3>1. CASE i <= Len(q)
      BY <3>1, <2>2, <2>3, <2>4
    <3>2. CASE ~(i <= Len(q))
      <4>1. i - Len(q) \in 1..n /\ u[i] = e[i - Len(q)]
        BY <3>2, <2>2, <2>3, <2>4
      <4>. QED
        BY <4>1, <2>2
    <3>. QED
      BY <3>1, <3>2
  <2>. QED
    BY <2>1, <2>3, <2>5 DEF Extends
<1>6. /\ stdin' = [stdin EXCEPT ![p] = Tail(stdin[p])] /\ busy' = [busy EXCEPT ![p] = r]
      /\ executed' = [executed EXCEPT ![r] = @ + 1]
  BY <1>0 DEF WorkerTake
<1> HIDE DEF emitted
<1>7. Takes(p, r, Tail(stdin[p]), u)
  BY <1>1, <1>2, <1>3, <1>4, <1>5, <1>6 DEF Takes
<1>. QED
  BY <1>2, <1>5, <1>7

\* Worker p prints its answer last, or loses it to a closed pipe.
Answers(p, u) ==
  /\ p \in running /\ busy[p] \in Requests
  /\ \A i \in DOMAIN u :
       \/ i \in DOMAIN stdout[p] /\ u[i] = stdout[p][i]
       \/ i = Len(u) /\ u[i].to = busy[p]
  /\ stdout' = [stdout EXCEPT ![p] = u]
  /\ busy' = [busy EXCEPT ![p] = NoRequest]

\* That is what WorkerAnswer does.
LEMMA WorkerAnswerEffect ==
  ASSUME TypeOK, NEW p \in Requests, WorkerAnswer(p)
  PROVE  \E u \in Seq(Responses) : Answers(p, u)
<1>1. /\ p \in running /\ busy[p] \in Requests /\ stdout[p] \in Seq(Responses)
      /\ busy' = [busy EXCEPT ![p] = NoRequest] /\ stdout \in [Requests -> Seq(Responses)]
  BY DEF WorkerAnswer, TypeOK
<1>2. CASE p \in closed
  <2>1. stdout' = [stdout EXCEPT ![p] = stdout[p]]
    BY <1>1, <1>2 DEF WorkerAnswer
  <2>2. Answers(p, stdout[p])
    BY <1>1, <1>2, <2>1 DEF Answers
  <2>. QED
    BY <1>1, <2>2
<1>3. CASE p \notin closed
  <2>1. PICK kind \in {"ok", "error"} :
          stdout' = [stdout EXCEPT ![p] = Append(@, [to |-> busy[p], kind |-> kind])]
    BY <1>3 DEF WorkerAnswer
  <2>2. PICK e : e = [to |-> busy[p], kind |-> kind]
    OBVIOUS
  <2>3. e \in Responses /\ e.to = busy[p]
    BY <1>1, <2>2 DEF Responses
  <2>4. PICK u : u = Append(stdout[p], e)
    OBVIOUS
  <2>5. /\ u \in Seq(Responses) /\ Len(stdout[p]) \in Nat /\ Len(u) = Len(stdout[p]) + 1
        /\ DOMAIN stdout[p] = 1..Len(stdout[p]) /\ DOMAIN u = 1..(Len(stdout[p]) + 1)
        /\ \A i \in DOMAIN stdout[p] : u[i] = stdout[p][i]
        /\ u[Len(stdout[p]) + 1] = e
    BY <1>1, <2>3, <2>4, AppendFacts
  <2>6. \A i \in DOMAIN u :
          \/ i \in DOMAIN stdout[p] /\ u[i] = stdout[p][i]
          \/ i = Len(u) /\ u[i].to = busy[p]
    BY <2>3, <2>5
  <2>7. stdout' = [stdout EXCEPT ![p] = u]
    BY <2>1, <2>2, <2>4
  <2>8. Answers(p, u)
    BY <1>1, <2>6, <2>7 DEF Answers
  <2>. QED
    BY <2>5, <2>8
<1>. QED
  BY <1>2, <1>3

\* The first line e that process p printed moves to the end of the queue, and
\* leaves u.
Delivers(p, e, u) ==
  /\ 1 \in DOMAIN stdout[p] /\ stdout[p][1] = e
  /\ Len(stdout[p]) \in Nat /\ DOMAIN stdout[p] = 1..Len(stdout[p])
  /\ Len(u) = Len(stdout[p]) - 1 /\ Follows(u, stdout[p])
  /\ stdout' = [stdout EXCEPT ![p] = u]
  /\ queue' \in Seq(Responses) /\ Extends(queue', queue, {e})

\* That is what Deliver does.
LEMMA DeliverEffect ==
  ASSUME TypeOK, NEW p \in Requests, Deliver(p)
  PROVE  \E e \in Responses, u \in Seq(Responses) : Delivers(p, e, u)
<1>1. /\ stdout[p] # <<>> /\ stdout[p] \in Seq(Responses) /\ queue \in Seq(Responses)
      /\ queue' = Append(queue, Head(stdout[p]))
      /\ stdout' = [stdout EXCEPT ![p] = Tail(stdout[p])]
  BY DEF Deliver, TypeOK
<1>2. PICK e, u : e = Head(stdout[p]) /\ u = Tail(stdout[p])
  OBVIOUS
<1>3. /\ u \in Seq(Responses) /\ e \in Responses /\ e = stdout[p][1]
      /\ Len(stdout[p]) \in Nat /\ DOMAIN stdout[p] = 1..Len(stdout[p])
      /\ Len(u) = Len(stdout[p]) - 1 /\ 1 \in DOMAIN stdout[p] /\ Follows(u, stdout[p])
  BY <1>1, <1>2, TailFacts DEF Follows
<1>4. queue' \in Seq(Responses) /\ Extends(queue', queue, {e})
  <2>1. /\ queue' \in Seq(Responses) /\ Len(queue) \in Nat
        /\ DOMAIN queue = 1..Len(queue) /\ DOMAIN queue' = 1..(Len(queue) + 1)
        /\ \A i \in DOMAIN queue : queue'[i] = queue[i]
        /\ queue'[Len(queue) + 1] = e
    BY <1>1, <1>2, <1>3, AppendFacts
  <2>. QED
    BY <2>1 DEF Extends
<1>5. Delivers(p, e, u)
  BY <1>1, <1>2, <1>3, <1>4 DEF Delivers
<1>. QED
  BY <1>3, <1>5

\* The first response of the queue is taken.
LEMMA ReceiveEffect ==
  ASSUME TypeOK, NEW r \in Requests, Receive(r)
  PROVE  /\ 1 \in DOMAIN queue /\ queue[1] = Head(queue) /\ queue[1] \in Responses
         /\ queue' \in Seq(Responses) /\ Follows(queue', queue)
<1>1. queue # <<>> /\ queue \in Seq(Responses) /\ queue' = Tail(queue)
  BY DEF Receive, TypeOK
<1>. QED
  BY <1>1, TailFacts DEF Follows

\* Request r is written to its worker, after what that had not read, and is
\* not written if the worker is gone.
Writes(r, u) ==
  /\ seen[r] \in running \ closed
  /\ u = Append(stdin[seen[r]], r)
  /\ Len(stdin[seen[r]]) \in Nat /\ DOMAIN stdin[seen[r]] = 1..Len(stdin[seen[r]])
  /\ \A i \in DOMAIN u :
       \/ i \in DOMAIN stdin[seen[r]] /\ u[i] = stdin[seen[r]][i]
       \/ i = Len(stdin[seen[r]]) + 1 /\ u[i] = r
  /\ stdin' = [stdin EXCEPT ![seen[r]] = u]
  /\ pc' = [pc EXCEPT ![r] = "wait"] /\ outcome' = outcome
WriteFails(r) ==
  /\ stdin' = stdin
  /\ \/ pc' = [pc EXCEPT ![r] = "leave"] /\ seen[r] \in closed
     \/ pc' = [pc EXCEPT ![r] = "kill"]
  /\ outcome' = [outcome EXCEPT ![r] = "failed"]

\* That is what Write does.
LEMMA WriteEffect ==
  ASSUME TypeOK, NEW r \in Requests, Write(r)
  PROVE  WriteFails(r) \/ \E u \in Seq(Requests) : Writes(r, u)
<1>1. CASE seen[r] \in running \ closed
  <2>1. stdin[seen[r]] \in Seq(Requests) /\ seen[r] \in Requests
    BY <1>1 DEF TypeOK
  <2>2. PICK u : u = Append(stdin[seen[r]], r)
    OBVIOUS
  <2>3. /\ stdin' = [stdin EXCEPT ![seen[r]] = u]
        /\ pc' = [pc EXCEPT ![r] = "wait"] /\ outcome' = outcome
    BY <1>1, <2>2 DEF Write, Goto
  <2>4. /\ u \in Seq(Requests) /\ Len(stdin[seen[r]]) \in Nat
        /\ DOMAIN stdin[seen[r]] = 1..Len(stdin[seen[r]])
        /\ DOMAIN u = 1..(Len(stdin[seen[r]]) + 1)
        /\ \A i \in DOMAIN stdin[seen[r]] : u[i] = stdin[seen[r]][i]
        /\ u[Len(stdin[seen[r]]) + 1] = r
    BY <2>1, <2>2, AppendFacts
  <2>5. \A i \in DOMAIN u :
          \/ i \in DOMAIN stdin[seen[r]] /\ u[i] = stdin[seen[r]][i]
          \/ i = Len(stdin[seen[r]]) + 1 /\ u[i] = r
    BY <2>4
  <2>6. u \in Seq(Requests) /\ Len(stdin[seen[r]]) \in Nat
        /\ DOMAIN stdin[seen[r]] = 1..Len(stdin[seen[r]])
    BY <2>4
  <2>7. Writes(r, u)
    BY <1>1, <2>2, <2>3, <2>5, <2>6 DEF Writes
  <2>. QED
    BY <2>6, <2>7
<1>2. CASE seen[r] \notin running \ closed
  BY <1>2 DEF Write, Goto, Outcome, WriteFails
<1>. QED
  BY <1>1, <1>2

\* When a process is cleared, nothing is printed: at most the first of its
\* lines is still to be delivered.
LEMMA ClearEffect ==
  ASSUME TypeOK, NEW c \in Requests \cup {NoProcess}, ClearProcess(c)
  PROVE  /\ proc' = NoProcess /\ queue' = <<>> /\ closed' = closed \cup ({c} \ {NoProcess})
         /\ stdout' \in [Requests -> Seq(Responses)]
         /\ \A p \in Requests :
              /\ Extends(stdout'[p], stdout[p], {})
              /\ stdout[p] = <<>> => stdout'[p] = <<>>
<1>1. /\ <<>> \in Seq(Responses) /\ DOMAIN <<>> = {}
      /\ stdout \in [Requests -> Seq(Responses)]
  BY EmptySeq DEF TypeOK
<1>2. CASE stdout' = [q \in Requests |-> IF q = c THEN <<>> ELSE stdout[q]]
  BY <1>1, <1>2 DEF ClearProcess, Extends
<1>3. CASE /\ c \in Requests /\ stdout[c] # <<>>
           /\ stdout' = [stdout EXCEPT ![c] = <<Head(@)>>]
  <2>1. PICK e : e = Head(stdout[c])
    OBVIOUS
  <2>2. e \in Responses /\ 1 \in DOMAIN stdout[c] /\ stdout[c][1] = e
    BY <1>1, <1>3, <2>1, TailFacts
  <2>3. <<e>> \in Seq(Responses) /\ DOMAIN <<e>> = {1} /\ <<e>>[1] = e
    BY <2>2
  <2>4. stdout' = [stdout EXCEPT ![c] = <<e>>]
    BY <1>3, <2>1
  <2>5. Extends(<<e>>, stdout[c], {})
    BY <2>2, <2>3 DEF Extends
  <2>. QED
    BY <1>1, <1>3, <2>3, <2>4, <2>5 DEF ClearProcess, Extends
<1>. QED
  BY <1>2, <1>3 DEF ClearProcess

-----------------------------------------------------------------------------
(***************************************************************************)
(* The invariant is inductive.                                             *)
(***************************************************************************)
\* Every step keeps the types.
LEMMA TypeNext ==
  ASSUME TypeOK, [Next]_vars
  PROVE  TypeOK'
<1> USE ClientAssumption DEF TypeOK, Goto, ConsumerGoto, Outcome, workerVars,
      clientVars, callVars, streamVars, Steps, ConsumerSteps
<1>1. ASSUME NEW r \in Requests, CallStep(r)
      PROVE  TypeOK'
  <2>1. CASE Acquire(r)
    <3>1. /\ pc \in [Requests -> Steps] /\ seen \in [Requests -> Requests \cup {NoProcess}]
          /\ proc \in Requests \cup {NoProcess}
      OBVIOUS
    <3> HIDE DEF TypeOK
    <3>2. /\ lock' = r /\ UNCHANGED <<workerVars, clientVars, outcome, streamVars>>
          /\ \/ pc' = [pc EXCEPT ![r] = "send"] /\ seen' = seen
             \/ pc' = [pc EXCEPT ![r] = "closing"] /\ seen' = [seen EXCEPT ![r] = proc]
      BY <2>1 DEF Acquire
    <3>3. pc' \in [Requests -> Steps] /\ seen' \in [Requests -> Requests \cup {NoProcess}]
      BY <3>1, <3>2
    <3>. QED
      BY <3>2, <3>3 DEF TypeOK
  <2>2. CASE Close(r)
    BY <2>2 DEF Close
  <2>3. CASE Kill(r)
    <3>1. stdin' \in [Requests -> Seq(Requests)]
      <4>1. <<>> \in Seq(Requests)
        BY EmptySeq
      <4>. QED
        BY <2>3, <4>1 DEF Kill, Exits
    <3>. QED
      BY <2>3, <3>1 DEF Kill, Exits
  <2>4. CASE ClearEnd(r)
    <3> HIDE DEF TypeOK
    <3>1. seen[r] \in Requests \cup {NoProcess}
      BY DEF TypeOK
    <3>2. ClearProcess(seen[r])
      BY <2>4 DEF ClearEnd
    <3>3. stdout' \in [Requests -> Seq(Responses)] /\ queue' = <<>>
          /\ proc' = NoProcess /\ closed' = closed \cup ({seen[r]} \ {NoProcess})
      BY <3>1, <3>2, ClearEffect
    <3>4. queue' \in Seq(Responses) /\ closed' \subseteq Requests
      BY <3>1, <3>3, EmptySeq DEF TypeOK
    <3>5. pc' \in [Requests -> Steps]
      BY <2>4 DEF ClearEnd, TypeOK
    <3>. QED
      BY <2>4, <3>3, <3>4, <3>5 DEF ClearEnd, TypeOK
  <2>5. CASE Spawn(r)
    BY <2>5 DEF Spawn
  <2>6. CASE SpawnFails(r)
    BY <2>6 DEF SpawnFails
  <2>7. CASE Send(r)
    BY <2>7 DEF Send
  <2>8. CASE Write(r)
    <3> HIDE DEF TypeOK
    <3>1. CASE WriteFails(r)
      <4>1. pc' \in [Requests -> Steps]
        BY <3>1 DEF WriteFails, TypeOK
      <4>2. outcome' \in [Requests -> {"none", "ok", "failed", "closed"}]
        BY <3>1 DEF WriteFails, TypeOK
      <4>3. stdin' = stdin
        BY <3>1 DEF WriteFails
      <4>. QED
        BY <2>8, <4>1, <4>2, <4>3 DEF Write, TypeOK
    <3>2. ASSUME NEW u \in Seq(Requests), Writes(r, u)
          PROVE  TypeOK'
      <4>1. stdin' \in [Requests -> Seq(Requests)]
        BY <3>2 DEF Writes, TypeOK
      <4>2. pc' \in [Requests -> Steps]
        BY <3>2 DEF Writes, TypeOK
      <4>3. outcome' = outcome
        BY <3>2 DEF Writes
      <4>. QED
        BY <2>8, <4>1, <4>2, <4>3 DEF Write, TypeOK
    <3>3. WriteFails(r) \/ \E u \in Seq(Requests) : Writes(r, u)
      BY <2>8, WriteEffect
    <3>. QED
      BY <3>1, <3>2, <3>3
  <2>9. CASE Receive(r)
    <3> HIDE DEF TypeOK
    <3>1. queue' \in Seq(Responses)
      BY <2>9, ReceiveEffect
    <3>2. r \in Streams => Put(r, "event") \in Seq({"event", "done", "error"})
      BY AppendFacts, EmptySeq DEF Put, TypeOK
    <3>3. events' \in [Streams -> Seq({"event", "done", "error"})]
      BY <2>9, <3>2 DEF Receive, TypeOK
    <3>4. pc' \in [Requests -> Steps]
      <4>1. pc' = pc \/ \E to \in {"kill", "leave"} : pc' = [pc EXCEPT ![r] = to]
        BY <2>9 DEF Receive
      <4>. QED
        BY <4>1 DEF TypeOK
    <3>5. outcome' \in [Requests -> {"none", "ok", "failed", "closed"}]
      <4>1. outcome' = outcome \/ \E w \in {"ok", "failed"} : outcome' = [outcome EXCEPT ![r] = w]
        BY <2>9 DEF Receive
      <4>. QED
        BY <4>1 DEF TypeOK
    <3>. QED
      BY <2>9, <3>1, <3>2, <3>3, <3>4, <3>5 DEF Receive, TypeOK
  <2>10. CASE Exited(r)
    BY <2>10 DEF Exited
  <2>11. CASE Timeout(r)
    BY <2>11 DEF Timeout
  <2>12. CASE Leave(r)
    <3>1. \A s \in Streams : Report(s) \in Seq({"event", "done", "error"})
      BY AppendFacts, EmptySeq DEF Put, Report
    <3>. QED
      BY <2>12, <3>1 DEF Leave
  <2>. QED
    BY <1>1, <2>1, <2>2, <2>3, <2>4, <2>5, <2>6, <2>7, <2>8, <2>9, <2>10, <2>11,
       <2>12 DEF CallStep
<1>2. ASSUME NEW s \in Streams, SetFinished(s) \/ ConsumerStep(s) \/ Resume(s)
      PROVE  TypeOK'
  <2>1. CASE SetFinished(s)
    BY <2>1 DEF SetFinished
  <2>2. CASE Take(s)
    <3>1. Tail(events[s]) \in Seq({"event", "done", "error"})
      BY <2>2, TailFacts DEF Take
    <3>. QED
      BY <2>2, <3>1 DEF Take
  <2>3. CASE Finally(s)
    BY <2>3 DEF Finally
  <2>4. CASE ConsumerKill(s)
    <3>1. stdin' \in [Requests -> Seq(Requests)]
      <4>1. <<>> \in Seq(Requests)
        BY EmptySeq
      <4>. QED
        BY <2>4, <4>1 DEF ConsumerKill, Exits
    <3>. QED
      BY <2>4, <3>1 DEF ConsumerKill, Exits
  <2>5. CASE ConsumerClearBegin(s)
    BY <2>5 DEF ConsumerClearBegin
  <2>6. CASE ConsumerClearEnd(s)
    <3> HIDE DEF TypeOK
    <3>1. cseen[s] \in Requests \cup {NoProcess}
      BY DEF TypeOK
    <3>2. ClearProcess(cseen[s])
      BY <2>6 DEF ConsumerClearEnd
    <3>3. stdout' \in [Requests -> Seq(Responses)] /\ queue' = <<>>
          /\ proc' = NoProcess /\ closed' = closed \cup ({cseen[s]} \ {NoProcess})
      BY <3>1, <3>2, ClearEffect
    <3>4. queue' \in Seq(Responses) /\ closed' \subseteq Requests
      BY <3>1, <3>3, EmptySeq DEF TypeOK
    <3>5. cpc' \in [Streams -> ConsumerSteps] /\ cseen' \in [Streams -> Requests \cup {NoProcess}]
      BY <2>6 DEF ConsumerClearEnd, TypeOK
    <3>. QED
      BY <2>6, <3>3, <3>4, <3>5 DEF ConsumerClearEnd, TypeOK
  <2>7. CASE Resume(s)
    <3> HIDE DEF TypeOK
    <3>1. PICK u \in Seq({"event", "done", "error"}), to \in {"reading", "finally"} :
            /\ events' = events \/ events' = [events EXCEPT ![s] = u]
            /\ cpc' = [cpc EXCEPT ![s] = to]
      BY <2>7, EmptySeq DEF Resume
    <3>2. events' \in [Streams -> Seq({"event", "done", "error"})]
      BY <3>1 DEF TypeOK
    <3>3. cpc' \in [Streams -> ConsumerSteps]
      BY <3>1 DEF TypeOK
    <3>. QED
      BY <2>7, <3>1, <3>2, <3>3 DEF Resume, TypeOK
  <2>. QED
    BY <1>2, <2>1, <2>2, <2>3, <2>4, <2>5, <2>6, <2>7 DEF ConsumerStep
<1>3. ASSUME NEW p \in Requests, WorkerTake(p) \/ WorkerAnswer(p) \/ WorkerExit(p) \/ Deliver(p)
      PROVE  TypeOK'
  <2>1. CASE WorkerTake(p)
    <3> HIDE DEF TypeOK
    <3>1. PICK r \in Requests, rest \in Seq(Requests), u \in Seq(Responses) :
            Takes(p, r, rest, u)
      BY <2>1, WorkerTakeEffect
    <3>2. /\ stdin' \in [Requests -> Seq(Requests)] /\ stdout' \in [Requests -> Seq(Responses)]
      BY <3>1 DEF Takes, TypeOK
    <3>3. executed' \in [Requests -> Nat]
      <4>1. executed' = [executed EXCEPT ![r] = @ + 1] /\ executed \in [Requests -> Nat]
        BY <3>1 DEF Takes, TypeOK
      <4>. QED
        BY <4>1
    <3>4. busy' \in [Requests -> Requests \cup {NoRequest}]
      <4>1. /\ busy' = [busy EXCEPT ![p] = r]
            /\ busy \in [Requests -> Requests \cup {NoRequest}]
        BY <3>1 DEF Takes, TypeOK
      <4>. QED
        BY <4>1
    <3>. QED
      BY <2>1, <3>1, <3>2, <3>3, <3>4 DEF WorkerTake, TypeOK
  <2>2. CASE WorkerAnswer(p)
    <3> HIDE DEF TypeOK
    <3>1. PICK u \in Seq(Responses) : Answers(p, u)
      BY <2>2, WorkerAnswerEffect
    <3>2. /\ stdout' \in [Requests -> Seq(Responses)]
          /\ busy' \in [Requests -> Requests \cup {NoRequest}]
      BY <3>1 DEF Answers, TypeOK
    <3>. QED
      BY <2>2, <3>1, <3>2 DEF WorkerAnswer, TypeOK
  <2>3. CASE WorkerExit(p)
    <3>1. stdin' \in [Requests -> Seq(Requests)]
      <4>1. <<>> \in Seq(Requests)
        BY EmptySeq
      <4>. QED
        BY <2>3, <4>1 DEF WorkerExit, Exits
    <3>. QED
      BY <2>3, <3>1 DEF WorkerExit, Exits
  <2>4. CASE Deliver(p)
    <3> HIDE DEF TypeOK
    <3>1. PICK e \in Responses, u \in Seq(Responses) : Delivers(p, e, u)
      BY <2>4, DeliverEffect
    <3>2. stdout' \in [Requests -> Seq(Responses)] /\ queue' \in Seq(Responses)
      BY <3>1 DEF Delivers, TypeOK
    <3>. QED
      BY <2>4, <3>1, <3>2 DEF Deliver, TypeOK
  <2>. QED
    BY <1>3, <2>1, <2>2, <2>3, <2>4
<1>4. CASE UNCHANGED vars
  BY <1>4 DEF vars, workerVars, clientVars, callVars, streamVars
<1>. QED
  BY <1>1, <1>2, <1>3, <1>4 DEF Next, Done

\* A call that ends gives the lock back, and none starts while it is held.
LEMMA LockNext ==
  ASSUME TypeOK, LockInv, [Next]_vars
  PROVE  LockInv'
<1> USE ClientAssumption DEF TypeOK, LockInv, Goto, workerVars, clientVars, callVars,
      streamVars, Steps
<1>1. ASSUME NEW r \in Requests, CallStep(r)
      PROVE  LockInv'
  <2>1. CASE Acquire(r)
    BY <2>1 DEF Acquire
  <2>2. CASE Close(r)
    BY <2>2 DEF Close
  <2>3. CASE Kill(r)
    BY <2>3 DEF Kill, Exits
  <2>4. CASE ClearEnd(r)
    BY <2>4 DEF ClearEnd, ClearProcess
  <2>5. CASE Spawn(r)
    BY <2>5 DEF Spawn
  <2>6. CASE SpawnFails(r)
    BY <2>6 DEF SpawnFails
  <2>7. CASE Send(r)
    BY <2>7 DEF Send
  <2>8. CASE Write(r)
    BY <2>8 DEF Write
  <2>9. CASE Receive(r)
    BY <2>9 DEF Receive
  <2>10. CASE Exited(r)
    BY <2>10 DEF Exited
  <2>11. CASE Timeout(r)
    BY <2>11 DEF Timeout
  <2>12. CASE Leave(r)
    BY <2>12 DEF Leave
  <2>. QED
    BY <1>1, <2>1, <2>2, <2>3, <2>4, <2>5, <2>6, <2>7, <2>8, <2>9, <2>10, <2>11,
       <2>12 DEF CallStep
<1>2. ASSUME NEW s \in Streams, SetFinished(s) \/ ConsumerStep(s) \/ Resume(s)
      PROVE  LockInv'
  <2>1. CASE SetFinished(s)
    BY <2>1 DEF SetFinished
  <2>2. CASE Take(s)
    BY <2>2 DEF Take
  <2>3. CASE Finally(s)
    BY <2>3 DEF Finally
  <2>4. CASE ConsumerKill(s)
    BY <2>4 DEF ConsumerKill, Exits
  <2>5. CASE ConsumerClearBegin(s)
    BY <2>5 DEF ConsumerClearBegin
  <2>6. CASE ConsumerClearEnd(s)
    BY <2>6 DEF ConsumerClearEnd, ClearProcess
  <2>7. CASE Resume(s)
    BY <2>7 DEF Resume
  <2>. QED
    BY <1>2, <2>1, <2>2, <2>3, <2>4, <2>5, <2>6, <2>7 DEF ConsumerStep
<1>3. ASSUME NEW p \in Requests, WorkerTake(p) \/ WorkerAnswer(p) \/ WorkerExit(p) \/ Deliver(p)
      PROVE  LockInv'
  <2>1. CASE WorkerTake(p)
    BY <2>1 DEF WorkerTake
  <2>2. CASE WorkerAnswer(p)
    BY <2>2 DEF WorkerAnswer
  <2>3. CASE WorkerExit(p)
    BY <2>3 DEF WorkerExit, Exits
  <2>4. CASE Deliver(p)
    BY <2>4 DEF Deliver
  <2>. QED
    BY <1>3, <2>1, <2>2, <2>3, <2>4
<1>4. CASE UNCHANGED vars
  BY <1>4 DEF vars, workerVars, clientVars, callVars, streamVars
<1>. QED
  BY <1>1, <1>2, <1>3, <1>4 DEF Next, Done

\* Outcomes are decided once.
LEMMA OutcomeNext ==
  ASSUME TypeOK, OutcomeInv, [Next]_vars
  PROVE  OutcomeInv'
<1> USE ClientAssumption DEF TypeOK, OutcomeInv, Goto, Outcome, workerVars, clientVars,
      callVars, streamVars, Steps
<1>1. ASSUME NEW r \in Requests, CallStep(r)
      PROVE  OutcomeInv'
  <2>1. CASE Acquire(r)
    BY <2>1 DEF Acquire
  <2>2. CASE Close(r)
    BY <2>2 DEF Close
  <2>3. CASE Kill(r)
    BY <2>3 DEF Kill, Exits
  <2>4. CASE ClearEnd(r)
    BY <2>4 DEF ClearEnd, ClearProcess
  <2>5. CASE Spawn(r)
    BY <2>5 DEF Spawn
  <2>6. CASE SpawnFails(r)
    BY <2>6 DEF SpawnFails
  <2>7. CASE Send(r)
    BY <2>7 DEF Send
  <2>8. CASE Write(r)
    BY <2>8 DEF Write
  <2>9. CASE Receive(r)
    BY <2>9 DEF Receive
  <2>10. CASE Exited(r)
    BY <2>10 DEF Exited
  <2>11. CASE Timeout(r)
    BY <2>11 DEF Timeout
  <2>12. CASE Leave(r)
    BY <2>12 DEF Leave
  <2>. QED
    BY <1>1, <2>1, <2>2, <2>3, <2>4, <2>5, <2>6, <2>7, <2>8, <2>9, <2>10, <2>11,
       <2>12 DEF CallStep
<1>2. ASSUME NEW s \in Streams, SetFinished(s) \/ ConsumerStep(s) \/ Resume(s)
      PROVE  OutcomeInv'
  <2>1. CASE SetFinished(s)
    BY <2>1 DEF SetFinished
  <2>2. CASE Take(s)
    BY <2>2 DEF Take
  <2>3. CASE Finally(s)
    BY <2>3 DEF Finally
  <2>4. CASE ConsumerKill(s)
    BY <2>4 DEF ConsumerKill, Exits
  <2>5. CASE ConsumerClearBegin(s)
    BY <2>5 DEF ConsumerClearBegin
  <2>6. CASE ConsumerClearEnd(s)
    BY <2>6 DEF ConsumerClearEnd, ClearProcess
  <2>7. CASE Resume(s)
    BY <2>7 DEF Resume
  <2>. QED
    BY <1>2, <2>1, <2>2, <2>3, <2>4, <2>5, <2>6, <2>7 DEF ConsumerStep
<1>3. ASSUME NEW p \in Requests, WorkerTake(p) \/ WorkerAnswer(p) \/ WorkerExit(p) \/ Deliver(p)
      PROVE  OutcomeInv'
  <2>1. CASE WorkerTake(p)
    BY <2>1 DEF WorkerTake
  <2>2. CASE WorkerAnswer(p)
    BY <2>2 DEF WorkerAnswer
  <2>3. CASE WorkerExit(p)
    BY <2>3 DEF WorkerExit, Exits
  <2>4. CASE Deliver(p)
    BY <2>4 DEF Deliver
  <2>. QED
    BY <1>3, <2>1, <2>2, <2>3, <2>4
<1>4. CASE UNCHANGED vars
  BY <1>4 DEF vars, workerVars, clientVars, callVars, streamVars
<1>. QED
  BY <1>1, <1>2, <1>3, <1>4 DEF Next, Done

\* No request becomes able to spawn or to be written again.
LEMMA OnlyOnce ==
  ASSUME TypeOK, OutcomeInv, [Next]_vars
  PROVE  (\A q \in Requests : (Unspawned(q)' => Unspawned(q)) /\ (Unwritten(q)' => Unwritten(q)))
<1> USE ClientAssumption DEF Goto, ConsumerGoto, Outcome, workerVars, clientVars,
      callVars, streamVars, Steps
<1>1. ASSUME NEW r \in Requests, CallStep(r)
      PROVE  (\A q \in Requests : (Unspawned(q)' => Unspawned(q)) /\ (Unwritten(q)' => Unwritten(q)))
  <2>1. CASE Acquire(r)
    BY <2>1 DEF Acquire, TypeOK, OutcomeInv, Unspawned, Unwritten
  <2>2. CASE Close(r)
    BY <2>2 DEF Close, TypeOK, OutcomeInv, Unspawned, Unwritten
  <2>3. CASE Kill(r)
    BY <2>3 DEF Kill, Exits, TypeOK, OutcomeInv, Unspawned, Unwritten
  <2>4. CASE ClearEnd(r)
    BY <2>4 DEF ClearEnd, ClearProcess, TypeOK, OutcomeInv, Unspawned, Unwritten
  <2>5. CASE Spawn(r)
    BY <2>5 DEF Spawn, TypeOK, OutcomeInv, Unspawned, Unwritten
  <2>6. CASE SpawnFails(r)
    BY <2>6 DEF SpawnFails, TypeOK, OutcomeInv, Unspawned, Unwritten
  <2>7. CASE Send(r)
    BY <2>7 DEF Send, TypeOK, OutcomeInv, Unspawned, Unwritten
  <2>8. CASE Write(r)
    BY <2>8 DEF Write, TypeOK, OutcomeInv, Unspawned, Unwritten
  <2>9. CASE Receive(r)
    BY <2>9 DEF Receive, TypeOK, OutcomeInv, Unspawned, Unwritten
  <2>10. CASE Exited(r)
    BY <2>10 DEF Exited, TypeOK, OutcomeInv, Unspawned, Unwritten
  <2>11. CASE Timeout(r)
    BY <2>11 DEF Timeout, TypeOK, OutcomeInv, Unspawned, Unwritten
  <2>12. CASE Leave(r)
    BY <2>12 DEF Leave, TypeOK, OutcomeInv, Unspawned, Unwritten
  <2>. QED
    BY <1>1, <2>1, <2>2, <2>3, <2>4, <2>5, <2>6, <2>7, <2>8, <2>9, <2>10, <2>11,
       <2>12 DEF CallStep
<1>2. ASSUME NEW s \in Streams, SetFinished(s) \/ ConsumerStep(s) \/ Resume(s)
      PROVE  (\A q \in Requests : (Unspawned(q)' => Unspawned(q)) /\ (Unwritten(q)' => Unwritten(q)))
  <2>1. CASE SetFinished(s)
    BY <2>1 DEF SetFinished, TypeOK, OutcomeInv, Unspawned, Unwritten
  <2>2. CASE Take(s)
    BY <2>2 DEF Take, TypeOK, OutcomeInv, Unspawned, Unwritten
  <2>3. CASE Finally(s)
    BY <2>3 DEF Finally, TypeOK, OutcomeInv, Unspawned, Unwritten
  <2>4. CASE ConsumerKill(s)
    BY <2>4 DEF ConsumerKill, Exits, TypeOK, OutcomeInv, Unspawned, Unwritten
  <2>5. CASE ConsumerClearBegin(s)
    BY <2>5 DEF ConsumerClearBegin, TypeOK, OutcomeInv, Unspawned, Unwritten
  <2>6. CASE ConsumerClearEnd(s)
    BY <2>6 DEF ConsumerClearEnd, ClearProcess, TypeOK, OutcomeInv, Unspawned, Unwritten
  <2>7. CASE Resume(s)
    BY <2>7 DEF Resume, TypeOK, OutcomeInv, Unspawned, Unwritten
  <2>. QED
    BY <1>2, <2>1, <2>2, <2>3, <2>4, <2>5, <2>6, <2>7 DEF ConsumerStep
<1>3. ASSUME NEW p \in Requests, WorkerTake(p) \/ WorkerAnswer(p) \/ WorkerExit(p) \/ Deliver(p)
      PROVE  (\A q \in Requests : (Unspawned(q)' => Unspawned(q)) /\ (Unwritten(q)' => Unwritten(q)))
  <2>1. CASE WorkerTake(p)
    BY <2>1 DEF WorkerTake, TypeOK, OutcomeInv, Unspawned, Unwritten
  <2>2. CASE WorkerAnswer(p)
    BY <2>2 DEF WorkerAnswer, TypeOK, OutcomeInv, Unspawned, Unwritten
  <2>3. CASE WorkerExit(p)
    BY <2>3 DEF WorkerExit, Exits, TypeOK, OutcomeInv, Unspawned, Unwritten
  <2>4. CASE Deliver(p)
    BY <2>4 DEF Deliver, TypeOK, OutcomeInv, Unspawned, Unwritten
  <2>. QED
    BY <1>3, <2>1, <2>2, <2>3, <2>4
<1>4. CASE UNCHANGED vars
  BY <1>4 DEF vars, workerVars, clientVars, callVars, streamVars, TypeOK, OutcomeInv,
     Unspawned, Unwritten
<1>. QED
  BY <1>1, <1>2, <1>3, <1>4 DEF Next, Done

\* A process that was not spawned is unknown to all.
LEMMA UnspawnedNext ==
  ASSUME TypeOK, LockInv, OutcomeInv, UnspawnedInv, [Next]_vars
  PROVE  UnspawnedInv'
<1> USE ClientAssumption DEF Goto, ConsumerGoto, Outcome, workerVars, clientVars,
      callVars, streamVars
<1>0. \A q \in Requests : (Unspawned(q)' => Unspawned(q)) /\ (Unwritten(q)' => Unwritten(q))
  BY OnlyOnce
<1>1. ASSUME NEW r \in Requests, CallStep(r)
      PROVE  UnspawnedInv'
  <2>1. CASE Acquire(r)
    BY <2>1, <1>0 DEF Acquire, UnspawnedInv, TypeOK
  <2>2. CASE Close(r)
    BY <2>2, <1>0 DEF Close, UnspawnedInv, TypeOK
  <2>3. CASE Kill(r)
    BY <2>3, <1>0 DEF Kill, Exits, UnspawnedInv, TypeOK
  <2>4. CASE ClearEnd(r)
    <3>0. ClearProcess(seen[r]) /\ seen[r] \in Requests \cup {NoProcess}
      BY <2>4 DEF ClearEnd, TypeOK
    <3>1. /\ proc' = NoProcess /\ queue' = <<>> /\ closed' = closed \cup ({seen[r]} \ {NoProcess})
          /\ stdout' \in [Requests -> Seq(Responses)]
          /\ \A p \in Requests : /\ Extends(stdout'[p], stdout[p], {})
                                 /\ stdout[p] = <<>> => stdout'[p] = <<>>
      BY <3>0, ClearEffect
    <3>2. ASSUME NEW p \in Requests, Unspawned(p)'
          PROVE  p # proc' /\ p \notin closed' /\ stdout'[p] = <<>>
      <4>1. p \notin closed /\ stdout[p] = <<>> /\ seen[r] # p
        BY <3>2, <1>0 DEF UnspawnedInv
      <4>. QED
        BY <3>1, <4>1
    <3>3. UNCHANGED <<running, stdin, busy, seen>>
          /\ \A u \in Streams : cseen'[u] \in {cseen[u], NoProcess}
      BY <2>4 DEF ClearEnd, TypeOK
    <3>. QED
      BY <3>2, <3>3, <1>0 DEF UnspawnedInv
  <2>5. CASE Spawn(r)
    <3>1. ~Unspawned(r)'
      BY <2>5, OutcomeNext DEF Spawn, Unspawned, TypeOK
    <3>. QED
      BY <2>5, <3>1, <1>0 DEF Spawn, UnspawnedInv, TypeOK
  <2>6. CASE SpawnFails(r)
    BY <2>6, <1>0 DEF SpawnFails, UnspawnedInv, TypeOK
  <2>7. CASE Send(r)
    BY <2>7, <1>0 DEF Send, UnspawnedInv, TypeOK
  <2>8. CASE Write(r)
    <3>1. ASSUME NEW u \in Seq(Requests), Writes(r, u)
          PROVE  UnspawnedInv'
      BY <2>8, <3>1, <1>0 DEF Write, Writes, Unspawned, UnspawnedInv, TypeOK
    <3>2. CASE WriteFails(r)
      BY <2>8, <3>2, <1>0 DEF Write, WriteFails, Unspawned, UnspawnedInv, TypeOK
    <3>. QED
      BY <2>8, <3>1, <3>2, WriteEffect
  <2>9. CASE Receive(r)
    BY <2>9, <1>0 DEF Receive, UnspawnedInv, TypeOK
  <2>10. CASE Exited(r)
    BY <2>10, <1>0 DEF Exited, UnspawnedInv, TypeOK
  <2>11. CASE Timeout(r)
    BY <2>11, <1>0 DEF Timeout, UnspawnedInv, TypeOK
  <2>12. CASE Leave(r)
    BY <2>12, <1>0 DEF Leave, UnspawnedInv, TypeOK
  <2>. QED
    BY <1>1, <2>1, <2>2, <2>3, <2>4, <2>5, <2>6, <2>7, <2>8, <2>9, <2>10, <2>11,
       <2>12 DEF CallStep
<1>2. ASSUME NEW s \in Streams, SetFinished(s) \/ ConsumerStep(s) \/ Resume(s)
      PROVE  UnspawnedInv'
  <2>1. CASE SetFinished(s)
    BY <2>1, <1>0 DEF SetFinished, UnspawnedInv, TypeOK
  <2>2. CASE Take(s)
    BY <2>2, <1>0 DEF Take, UnspawnedInv, TypeOK
  <2>3. CASE Finally(s)
    BY <2>3, <1>0 DEF Finally, UnspawnedInv, TypeOK
  <2>4. CASE ConsumerKill(s)
    BY <2>4, <1>0 DEF ConsumerKill, Exits, UnspawnedInv, TypeOK
  <2>5. CASE ConsumerClearBegin(s)
    BY <2>5, <1>0 DEF ConsumerClearBegin, UnspawnedInv, TypeOK
  <2>6. CASE ConsumerClearEnd(s)
    <3>0. ClearProcess(cseen[s]) /\ cseen[s] \in Requests \cup {NoProcess}
      BY <2>6 DEF ConsumerClearEnd, TypeOK
    <3>1. /\ proc' = NoProcess /\ queue' = <<>> /\ closed' = closed \cup ({cseen[s]} \ {NoProcess})
          /\ stdout' \in [Requests -> Seq(Responses)]
          /\ \A p \in Requests : /\ Extends(stdout'[p], stdout[p], {})
                                 /\ stdout[p] = <<>> => stdout'[p] = <<>>
      BY <3>0, ClearEffect
    <3>2. ASSUME NEW p \in Requests, Unspawned(p)'
          PROVE  p # proc' /\ p \notin closed' /\ stdout'[p] = <<>>
      <4>1. p \notin closed /\ stdout[p] = <<>> /\ cseen[s] # p
        BY <3>2, <1>0 DEF UnspawnedInv
      <4>. QED
        BY <3>1, <4>1
    <3>3. UNCHANGED <<running, stdin, busy, seen>>
          /\ \A u \in Streams : cseen'[u] \in {cseen[u], NoProcess}
      BY <2>6 DEF ConsumerClearEnd, TypeOK
    <3>. QED
      BY <3>2, <3>3, <1>0 DEF UnspawnedInv
  <2>7. CASE Resume(s)
    BY <2>7, <1>0 DEF Resume, UnspawnedInv, TypeOK
  <2>. QED
    BY <1>2, <2>1, <2>2, <2>3, <2>4, <2>5, <2>6, <2>7 DEF ConsumerStep
<1>3. ASSUME NEW p \in Requests, WorkerTake(p) \/ WorkerAnswer(p) \/ WorkerExit(p) \/ Deliver(p)
      PROVE  UnspawnedInv'
  <2>1. CASE WorkerTake(p)
    <3>0. PICK r \in Requests, rest \in Seq(Requests), u \in Seq(Responses) : Takes(p, r, rest, u)
      BY <2>1, WorkerTakeEffect
    <3>1. ~Unspawned(p)
      BY <3>0 DEF Takes, UnspawnedInv
    <3>2. \A q \in Requests \ {p} : /\ stdin'[q] = stdin[q] /\ busy'[q] = busy[q]
                                    /\ stdout'[q] = stdout[q]
      BY <3>0 DEF Takes, TypeOK
    <3>3. UNCHANGED <<proc, running, closed, seen, cseen>>
      BY <2>1 DEF WorkerTake
    <3>. QED
      BY <3>1, <3>2, <3>3, <1>0 DEF UnspawnedInv
  <2>2. CASE WorkerAnswer(p)
    <3>0. PICK u \in Seq(Responses) : Answers(p, u)
      BY <2>2, WorkerAnswerEffect
    <3>. QED
      BY <2>2, <3>0, <1>0 DEF WorkerAnswer, Answers, UnspawnedInv, TypeOK
  <2>3. CASE WorkerExit(p)
    BY <2>3, <1>0 DEF WorkerExit, Exits, UnspawnedInv, TypeOK
  <2>4. CASE Deliver(p)
    <3>0. PICK e \in Responses, u \in Seq(Responses) : Delivers(p, e, u)
      BY <2>4, DeliverEffect
    <3>. QED
      BY <2>4, <3>0, <1>0 DEF Deliver, Delivers, UnspawnedInv, TypeOK
  <2>. QED
    BY <1>3, <2>1, <2>2, <2>3, <2>4
<1>4. CASE UNCHANGED vars
  BY <1>4 DEF vars, workerVars, clientVars, callVars, streamVars, UnspawnedInv, TypeOK,
     Unspawned
<1>. QED
  BY <1>1, <1>2, <1>3, <1>4 DEF Next, Done

\* A request is in one place at most, from where it is executed.
LEMMA SentNext ==
  ASSUME TypeOK, OutcomeInv, SentInv, [Next]_vars
  PROVE  SentInv'
<1> USE ClientAssumption DEF Goto, ConsumerGoto, Outcome, workerVars, clientVars,
      callVars, streamVars
<1>00. \A p \in Requests : \A i \in DOMAIN stdin[p] : stdin[p][i] \in Requests
  BY LenProperties, ElementOfSeq DEF TypeOK
<1>0. \A q \in Requests : (Unspawned(q)' => Unspawned(q)) /\ (Unwritten(q)' => Unwritten(q))
  BY OnlyOnce
<1>1. ASSUME NEW r \in Requests, CallStep(r)
      PROVE  SentInv'
  <2>1. CASE Acquire(r)
    <3>1. UNCHANGED <<stdin, executed>>
      BY <2>1 DEF Acquire
    <3>. QED
      BY <3>1, <1>0, <1>00 DEF SentInv
  <2>2. CASE Close(r)
    <3>1. UNCHANGED <<stdin, executed>>
      BY <2>2 DEF Close
    <3>. QED
      BY <3>1, <1>0, <1>00 DEF SentInv
  <2>3. CASE Kill(r)
    <3>1. executed' = executed /\ \A p \in Requests : stdin'[p] \in {stdin[p], <<>>}
      BY <2>3 DEF Kill, Exits, TypeOK
    <3>2. DOMAIN <<>> = {}
      OBVIOUS
    <3>3. \A p \in Requests : \A i \in DOMAIN stdin'[p] :
            i \in DOMAIN stdin[p] /\ stdin'[p][i] = stdin[p][i]
      BY <3>1, <3>2
    <3>4. \A p \in Requests : \A i \in DOMAIN stdin[p] : stdin[p][i] \in Requests
      BY <1>00
    <3>. QED
      BY <3>1, <3>3, <3>4, <1>0 DEF SentInv
  <2>4. CASE ClearEnd(r)
    <3>1. UNCHANGED <<stdin, executed>>
      BY <2>4 DEF ClearEnd
    <3>. QED
      BY <3>1, <1>0, <1>00 DEF SentInv
  <2>5. CASE Spawn(r)
    <3>1. UNCHANGED <<stdin, executed>>
      BY <2>5 DEF Spawn
    <3>. QED
      BY <3>1, <1>0, <1>00 DEF SentInv
  <2>6. CASE SpawnFails(r)
    <3>1. UNCHANGED <<stdin, executed>>
      BY <2>6 DEF SpawnFails
    <3>. QED
      BY <3>1, <1>0, <1>00 DEF SentInv
  <2>7. CASE Send(r)
    <3>1. UNCHANGED <<stdin, executed>>
      BY <2>7 DEF Send
    <3>. QED
      BY <3>1, <1>0, <1>00 DEF SentInv
  <2>8. CASE Write(r)
    <3>1. ASSUME NEW u \in Seq(Requests), Writes(r, u)
          PROVE  SentInv'
      <4>1. /\ pc[r] = "write" /\ executed' = executed /\ seen[r] \in Requests
            /\ stdin \in [Requests -> Seq(Requests)] /\ executed \in [Requests -> Nat]
        BY <2>8, <3>1 DEF Write, Writes, TypeOK
      <4>2. Unwritten(r) /\ ~Unwritten(r)'
        BY <3>1, <4>1 DEF Unwritten, Unspawned, Writes, TypeOK
      <4>3. executed[r] = 0 /\ \A p \in Requests : \A i \in DOMAIN stdin[p] : stdin[p][i] # r
        BY <4>1, <4>2 DEF SentInv
      <4>4. /\ \A p \in Requests \ {seen[r]} : stdin'[p] = stdin[p]
            /\ stdin'[seen[r]] = u
        BY <3>1, <4>1 DEF Writes
      <4>5. \A p \in Requests : \A i \in DOMAIN stdin'[p] :
              \/ i \in DOMAIN stdin[p] /\ stdin'[p][i] = stdin[p][i]
              \/ /\ p = seen[r] /\ stdin'[p][i] = r
                 /\ i = Len(stdin[seen[r]]) + 1
        BY <3>1, <4>4 DEF Writes
      <4>6. ASSUME NEW p \in Requests, NEW x \in Requests, NEW i \in DOMAIN stdin'[p],
                   stdin'[p][i] = x
            PROVE  ~Unwritten(x)' /\ executed'[x] = 0
        <5>1. CASE i \in DOMAIN stdin[p] /\ stdin'[p][i] = stdin[p][i]
          BY <5>1, <4>1, <4>6, <1>0 DEF SentInv
        <5>2. CASE x = r
          BY <5>2, <4>1, <4>2, <4>3
        <5>. QED
          BY <5>1, <5>2, <4>5, <4>6
      <4>7. ASSUME NEW p \in Requests, NEW q \in Requests,
                   NEW i \in DOMAIN stdin'[p], NEW j \in DOMAIN stdin'[q],
                   stdin'[p][i] = stdin'[q][j]
            PROVE  p = q /\ i = j
        BY <4>3, <4>5, <4>7 DEF SentInv
      <4>. QED
        BY <4>1, <4>6, <4>7, <1>0 DEF SentInv
    <3>2. CASE WriteFails(r)
      BY <2>8, <3>2, <1>0, <1>00 DEF Write, WriteFails, SentInv
    <3>. QED
      BY <2>8, <3>1, <3>2, WriteEffect
  <2>9. CASE Receive(r)
    <3>1. UNCHANGED <<stdin, executed>>
      BY <2>9 DEF Receive
    <3>. QED
      BY <3>1, <1>0, <1>00 DEF SentInv
  <2>10. CASE Exited(r)
    <3>1. UNCHANGED <<stdin, executed>>
      BY <2>10 DEF Exited
    <3>. QED
      BY <3>1, <1>0, <1>00 DEF SentInv
  <2>11. CASE Timeout(r)
    <3>1. UNCHANGED <<stdin, executed>>
      BY <2>11 DEF Timeout
    <3>. QED
      BY <3>1, <1>0, <1>00 DEF SentInv
  <2>12. CASE Leave(r)
    <3>1. UNCHANGED <<stdin, executed>>
      BY <2>12 DEF Leave
    <3>. QED
      BY <3>1, <1>0, <1>00 DEF SentInv
  <2>. QED
    BY <1>1, <2>1, <2>2, <2>3, <2>4, <2>5, <2>6, <2>7, <2>8, <2>9, <2>10, <2>11,
       <2>12 DEF CallStep
<1>2. ASSUME NEW s \in Streams, SetFinished(s) \/ ConsumerStep(s) \/ Resume(s)
      PROVE  SentInv'
  <2>1. CASE SetFinished(s)
    <3>1. UNCHANGED <<stdin, executed>>
      BY <2>1 DEF SetFinished
    <3>. QED
      BY <3>1, <1>0, <1>00 DEF SentInv
  <2>2. CASE Take(s)
    <3>1. UNCHANGED <<stdin, executed>>
      BY <2>2 DEF Take
    <3>. QED
      BY <3>1, <1>0, <1>00 DEF SentInv
  <2>3. CASE Finally(s)
    <3>1. UNCHANGED <<stdin, executed>>
      BY <2>3 DEF Finally
    <3>. QED
      BY <3>1, <1>0, <1>00 DEF SentInv
  <2>4. CASE ConsumerKill(s)
    <3>1. executed' = executed /\ \A p \in Requests : stdin'[p] \in {stdin[p], <<>>}
      BY <2>4 DEF ConsumerKill, Exits, TypeOK
    <3>2. DOMAIN <<>> = {}
      OBVIOUS
    <3>3. \A p \in Requests : \A i \in DOMAIN stdin'[p] :
            i \in DOMAIN stdin[p] /\ stdin'[p][i] = stdin[p][i]
      BY <3>1, <3>2
    <3>4. \A p \in Requests : \A i \in DOMAIN stdin[p] : stdin[p][i] \in Requests
      BY <1>00
    <3>. QED
      BY <3>1, <3>3, <3>4, <1>0 DEF SentInv
  <2>5. CASE ConsumerClearBegin(s)
    <3>1. UNCHANGED <<stdin, executed>>
      BY <2>5 DEF ConsumerClearBegin
    <3>. QED
      BY <3>1, <1>0, <1>00 DEF SentInv
  <2>6. CASE ConsumerClearEnd(s)
    <3>1. UNCHANGED <<stdin, executed>>
      BY <2>6 DEF ConsumerClearEnd
    <3>. QED
      BY <3>1, <1>0, <1>00 DEF SentInv
  <2>7. CASE Resume(s)
    <3>1. UNCHANGED <<stdin, executed>>
      BY <2>7 DEF Resume
    <3>. QED
      BY <3>1, <1>0, <1>00 DEF SentInv
  <2>. QED
    BY <1>2, <2>1, <2>2, <2>3, <2>4, <2>5, <2>6, <2>7 DEF ConsumerStep
<1>3. ASSUME NEW p \in Requests, WorkerTake(p) \/ WorkerAnswer(p) \/ WorkerExit(p) \/ Deliver(p)
      PROVE  SentInv'
  <2>1. CASE WorkerTake(p)
    <3>0. PICK r \in Requests, rest \in Seq(Requests), u \in Seq(Responses) : Takes(p, r, rest, u)
      BY <2>1, WorkerTakeEffect
    <3>1. /\ stdin \in [Requests -> Seq(Requests)] /\ executed \in [Requests -> Nat]
      BY DEF TypeOK
    <3>2. /\ executed[r] = 0 /\ ~Unwritten(r) /\ 1 \in DOMAIN stdin[p] /\ stdin[p][1] = r
          /\ executed' = [executed EXCEPT ![r] = 1]
      <4>1. /\ 1 \in DOMAIN stdin[p] /\ stdin[p][1] = r
            /\ executed' = [executed EXCEPT ![r] = @ + 1]
        BY <3>0 DEF Takes
      <4>2. executed[r] = 0 /\ ~Unwritten(r)
        BY <4>1 DEF SentInv
      <4>. QED
        BY <4>1, <4>2
    <3>3. /\ \A q \in Requests \ {p} : stdin'[q] = stdin[q]
          /\ stdin'[p] = rest
      BY <3>0, <3>1 DEF Takes
    <3>4. /\ \A i \in DOMAIN rest : i + 1 \in DOMAIN stdin[p] /\ rest[i] = stdin[p][i + 1]
          /\ DOMAIN rest \subseteq Nat \ {0}
      BY <3>0, LenProperties DEF Takes, Follows
    <3>5. \A q \in Requests : \A i \in DOMAIN stdin'[q] :
            \E j \in DOMAIN stdin[q] : /\ stdin'[q][i] = stdin[q][j]
                                     /\ stdin'[q][i] # r
      <4>1. ASSUME NEW q \in Requests \ {p}, NEW i \in DOMAIN stdin'[q]
            PROVE  i \in DOMAIN stdin[q] /\ stdin'[q][i] = stdin[q][i] /\ stdin'[q][i] # r
        BY <3>2, <3>3 DEF SentInv
      <4>2. ASSUME NEW i \in DOMAIN rest
            PROVE  /\ i + 1 \in DOMAIN stdin[p] /\ rest[i] = stdin[p][i + 1]
                   /\ rest[i] # r
        <5>1. i + 1 # 1
          BY <3>4
        <5>. QED
          BY <5>1, <3>2, <3>4 DEF SentInv
      <4>. QED
        BY <3>3, <4>1, <4>2
    <3>6. ASSUME NEW q \in Requests, NEW x \in Requests, NEW i \in DOMAIN stdin'[q],
                 stdin'[q][i] = x
          PROVE  ~Unwritten(x)' /\ executed'[x] = 0
      <4>1. PICK j \in DOMAIN stdin[q] : stdin[q][j] = x /\ x # r
        BY <3>5, <3>6
      <4>2. ~Unwritten(x) /\ executed[x] = 0
        BY <4>1 DEF SentInv
      <4>. QED
        BY <4>1, <4>2, <3>1, <3>2, <1>0
    <3>7. ASSUME NEW q1 \in Requests, NEW q2 \in Requests,
                 NEW i \in DOMAIN stdin'[q1], NEW j \in DOMAIN stdin'[q2],
                 stdin'[q1][i] = stdin'[q2][j]
          PROVE  q1 = q2 /\ i = j
      <4>1. CASE q1 # p /\ q2 # p
        BY <4>1, <3>3, <3>7 DEF SentInv
      <4>2. CASE q1 = p /\ q2 = p
        BY <4>2, <3>3, <3>4, <3>7 DEF SentInv
      <4>3. CASE q1 = p /\ q2 # p
        BY <4>3, <3>3, <3>4, <3>7 DEF SentInv
      <4>4. CASE q1 # p /\ q2 = p
        BY <4>4, <3>3, <3>4, <3>7 DEF SentInv
      <4>. QED
        BY <4>1, <4>2, <4>3, <4>4
    <3>8. \A q \in Requests : executed'[q] <= 1 /\ (executed'[q] = 1 => ~Unwritten(q)')
      BY <3>1, <3>2, <1>0 DEF SentInv
    <3>. QED
      BY <3>6, <3>7, <3>8 DEF SentInv
  <2>2. CASE WorkerAnswer(p)
    <3>1. UNCHANGED <<stdin, executed>>
      BY <2>2 DEF WorkerAnswer
    <3>. QED
      BY <3>1, <1>0, <1>00 DEF SentInv
  <2>3. CASE WorkerExit(p)
    <3>1. executed' = executed /\ \A q \in Requests : stdin'[q] \in {stdin[q], <<>>}
      BY <2>3 DEF WorkerExit, Exits, TypeOK
    <3>2. DOMAIN <<>> = {}
      OBVIOUS
    <3>3. \A q \in Requests : \A i \in DOMAIN stdin'[q] :
            i \in DOMAIN stdin[q] /\ stdin'[q][i] = stdin[q][i]
      BY <3>1, <3>2
    <3>4. \A q \in Requests : \A i \in DOMAIN stdin[q] : stdin[q][i] \in Requests
      BY <1>00
    <3>. QED
      BY <3>1, <3>3, <3>4, <1>0 DEF SentInv
  <2>4. CASE Deliver(p)
    <3>1. UNCHANGED <<stdin, executed>>
      BY <2>4 DEF Deliver
    <3>. QED
      BY <3>1, <1>0, <1>00 DEF SentInv
  <2>. QED
    BY <1>3, <2>1, <2>2, <2>3, <2>4
<1>4. CASE UNCHANGED vars
  BY <1>4 DEF vars, workerVars, clientVars, callVars, streamVars, SentInv, Unspawned,
     Unwritten
<1>. QED
  BY <1>1, <1>2, <1>3, <1>4 DEF Next, Done

\* Only what was executed is answered, wherever the answer is.
LEMMA AnswerNext ==
  ASSUME TypeOK, OutcomeInv, SentInv, AnswerInv, [Next]_vars
  PROVE  AnswerInv'
<1> USE ClientAssumption DEF Goto, ConsumerGoto, Outcome, workerVars, clientVars,
      callVars, streamVars
<1>1. ASSUME NEW r \in Requests, CallStep(r)
      PROVE  AnswerInv'
  <2>1. CASE Acquire(r)
    BY <2>1 DEF Acquire, AnswerInv, TypeOK
  <2>2. CASE Close(r)
    BY <2>2 DEF Close, AnswerInv, TypeOK
  <2>3. CASE Kill(r)
    BY <2>3 DEF Kill, Exits, AnswerInv, TypeOK
  <2>4. CASE ClearEnd(r)
    <3>0. ClearProcess(seen[r]) /\ seen[r] \in Requests \cup {NoProcess}
      BY <2>4 DEF ClearEnd, TypeOK
    <3>1. /\ proc' = NoProcess /\ queue' = <<>> /\ closed' = closed \cup ({seen[r]} \ {NoProcess})
          /\ stdout' \in [Requests -> Seq(Responses)]
          /\ \A p \in Requests : /\ Extends(stdout'[p], stdout[p], {})
                                 /\ stdout[p] = <<>> => stdout'[p] = <<>>
      BY <3>0, ClearEffect
    <3>2. UNCHANGED <<executed, busy, outcome>>
      BY <2>4 DEF ClearEnd
    <3>3. \A p \in Requests : \A i \in DOMAIN stdout'[p] :
            i \in DOMAIN stdout[p] /\ stdout'[p][i] = stdout[p][i]
      BY <3>1 DEF Extends
    <3>4. DOMAIN queue' = {}
      BY <3>1
    <3>. QED
      BY <3>2, <3>3, <3>4 DEF AnswerInv
  <2>5. CASE Spawn(r)
    BY <2>5 DEF Spawn, AnswerInv, TypeOK
  <2>6. CASE SpawnFails(r)
    BY <2>6 DEF SpawnFails, AnswerInv, TypeOK
  <2>7. CASE Send(r)
    BY <2>7 DEF Send, AnswerInv, TypeOK
  <2>8. CASE Write(r)
    <3>1. ASSUME NEW u \in Seq(Requests), Writes(r, u)
          PROVE  AnswerInv'
      BY <2>8, <3>1 DEF Write, Writes, AnswerInv, TypeOK
    <3>2. CASE WriteFails(r)
      BY <2>8, <3>2 DEF Write, WriteFails, AnswerInv, TypeOK
    <3>. QED
      BY <2>8, <3>1, <3>2, WriteEffect
  <2>9. CASE Receive(r)
    <3>1. /\ 1 \in DOMAIN queue /\ queue[1] = Head(queue)
          /\ \A i \in DOMAIN queue' : i + 1 \in DOMAIN queue /\ queue'[i] = queue[i + 1]
      BY <2>9, ReceiveEffect DEF Follows
    <3>2. UNCHANGED <<executed, busy, stdout>>
      BY <2>9 DEF Receive
    <3>3. \A q \in Requests : outcome'[q] = "ok" => outcome[q] = "ok" \/ (q = r /\ queue[1].to = r)
      BY <2>9, <3>1 DEF Receive, TypeOK
    <3>. QED
      BY <3>1, <3>2, <3>3 DEF AnswerInv
  <2>10. CASE Exited(r)
    BY <2>10 DEF Exited, AnswerInv, TypeOK
  <2>11. CASE Timeout(r)
    BY <2>11 DEF Timeout, AnswerInv, TypeOK
  <2>12. CASE Leave(r)
    BY <2>12 DEF Leave, AnswerInv, TypeOK
  <2>. QED
    BY <1>1, <2>1, <2>2, <2>3, <2>4, <2>5, <2>6, <2>7, <2>8, <2>9, <2>10, <2>11,
       <2>12 DEF CallStep
<1>2. ASSUME NEW s \in Streams, SetFinished(s) \/ ConsumerStep(s) \/ Resume(s)
      PROVE  AnswerInv'
  <2>1. CASE SetFinished(s)
    BY <2>1 DEF SetFinished, AnswerInv, TypeOK
  <2>2. CASE Take(s)
    BY <2>2 DEF Take, AnswerInv, TypeOK
  <2>3. CASE Finally(s)
    BY <2>3 DEF Finally, AnswerInv, TypeOK
  <2>4. CASE ConsumerKill(s)
    BY <2>4 DEF ConsumerKill, Exits, AnswerInv, TypeOK
  <2>5. CASE ConsumerClearBegin(s)
    BY <2>5 DEF ConsumerClearBegin, AnswerInv, TypeOK
  <2>6. CASE ConsumerClearEnd(s)
    <3>0. ClearProcess(cseen[s]) /\ cseen[s] \in Requests \cup {NoProcess}
      BY <2>6 DEF ConsumerClearEnd, TypeOK
    <3>1. /\ proc' = NoProcess /\ queue' = <<>> /\ closed' = closed \cup ({cseen[s]} \ {NoProcess})
          /\ stdout' \in [Requests -> Seq(Responses)]
          /\ \A p \in Requests : /\ Extends(stdout'[p], stdout[p], {})
                                 /\ stdout[p] = <<>> => stdout'[p] = <<>>
      BY <3>0, ClearEffect
    <3>2. UNCHANGED <<executed, busy, outcome>>
      BY <2>6 DEF ConsumerClearEnd
    <3>3. \A p \in Requests : \A i \in DOMAIN stdout'[p] :
            i \in DOMAIN stdout[p] /\ stdout'[p][i] = stdout[p][i]
      BY <3>1 DEF Extends
    <3>4. DOMAIN queue' = {}
      BY <3>1
    <3>. QED
      BY <3>2, <3>3, <3>4 DEF AnswerInv
  <2>7. CASE Resume(s)
    BY <2>7 DEF Resume, AnswerInv, TypeOK
  <2>. QED
    BY <1>2, <2>1, <2>2, <2>3, <2>4, <2>5, <2>6, <2>7 DEF ConsumerStep
<1>3. ASSUME NEW p \in Requests, WorkerTake(p) \/ WorkerAnswer(p) \/ WorkerExit(p) \/ Deliver(p)
      PROVE  AnswerInv'
  <2>1. CASE WorkerTake(p)
    <3>0. PICK r \in Requests, rest \in Seq(Requests), u \in Seq(Responses) : Takes(p, r, rest, u)
      BY <2>1, WorkerTakeEffect
    <3>1. /\ executed[r] = 0 /\ executed' = [executed EXCEPT ![r] = @ + 1]
          /\ executed \in [Requests -> Nat]
      BY <3>0 DEF Takes, SentInv, TypeOK
    <3>2. executed'[r] = 1 /\ \A q : executed[q] = 1 => executed'[q] = 1
      BY <3>1
    <3>3. /\ busy' = [busy EXCEPT ![p] = r] /\ UNCHANGED <<queue, outcome>>
          /\ stdout' = [stdout EXCEPT ![p] = u]
          /\ \A i \in DOMAIN u : (i \in DOMAIN stdout[p] /\ u[i] = stdout[p][i]) \/ u[i].to = r
      <4>1. \A i \in DOMAIN u :
              (i \in DOMAIN stdout[p] /\ u[i] = stdout[p][i]) \/ u[i] = Event(r)
        BY <3>0 DEF Takes, Extends
      <4>2. Event(r).to = r
        BY DEF Event
      <4>. QED
        BY <2>1, <3>0, <4>1, <4>2 DEF WorkerTake, Takes
    <3>4. ASSUME NEW q \in Requests
          PROVE  /\ busy'[q] # NoRequest => executed'[busy'[q]] = 1
                 /\ \A i \in DOMAIN stdout'[q] : executed'[stdout'[q][i].to] = 1
      <4>1. CASE q = p
        <5>1. busy'[q] = r /\ stdout'[q] = u
          BY <4>1, <3>3 DEF TypeOK
        <5>2. \A i \in DOMAIN stdout[p] : executed[stdout[p][i].to] = 1
          BY DEF AnswerInv
        <5>. QED
          BY <5>1, <5>2, <3>2, <3>3
      <4>2. CASE q # p
        BY <4>2, <3>2, <3>3 DEF AnswerInv, TypeOK
      <4>. QED
        BY <4>1, <4>2
    <3>. QED
      BY <3>2, <3>3, <3>4 DEF AnswerInv
  <2>2. CASE WorkerAnswer(p)
    <3>0. PICK u \in Seq(Responses) : Answers(p, u)
      BY <2>2, WorkerAnswerEffect
    <3>1. /\ executed[busy[p]] = 1 /\ UNCHANGED <<executed, queue, outcome>>
          /\ busy' = [busy EXCEPT ![p] = NoRequest] /\ stdout' = [stdout EXCEPT ![p] = u]
          /\ \A i \in DOMAIN u : \/ i \in DOMAIN stdout[p] /\ u[i] = stdout[p][i]
                                \/ u[i].to = busy[p]
      BY <2>2, <3>0 DEF WorkerAnswer, Answers, AnswerInv
    <3>2. ASSUME NEW q \in Requests
          PROVE  /\ busy'[q] # NoRequest => executed[busy'[q]] = 1
                 /\ \A i \in DOMAIN stdout'[q] : executed[stdout'[q][i].to] = 1
      <4>1. CASE q = p
        <5>1. busy'[q] = NoRequest /\ stdout'[q] = u
          BY <4>1, <3>1 DEF TypeOK
        <5>2. \A i \in DOMAIN stdout[p] : executed[stdout[p][i].to] = 1
          BY DEF AnswerInv
        <5>. QED
          BY <5>1, <5>2, <3>1
      <4>2. CASE q # p
        BY <4>2, <3>1 DEF AnswerInv, TypeOK
      <4>. QED
        BY <4>1, <4>2
    <3>. QED
      BY <3>1, <3>2 DEF AnswerInv
  <2>3. CASE WorkerExit(p)
    BY <2>3 DEF WorkerExit, Exits, AnswerInv, TypeOK
  <2>4. CASE Deliver(p)
    <3>0. PICK e \in Responses, u \in Seq(Responses) : Delivers(p, e, u)
      BY <2>4, DeliverEffect
    <3>1. /\ executed[e.to] = 1 /\ UNCHANGED <<executed, busy, outcome>>
          /\ stdout' = [stdout EXCEPT ![p] = u]
          /\ \A i \in DOMAIN u : i + 1 \in DOMAIN stdout[p] /\ u[i] = stdout[p][i + 1]
          /\ \A i \in DOMAIN queue' : (i \in DOMAIN queue /\ queue'[i] = queue[i]) \/ queue'[i] = e
      BY <2>4, <3>0 DEF Deliver, Delivers, Extends, Follows, AnswerInv
    <3>2. ASSUME NEW q \in Requests
          PROVE  \A i \in DOMAIN stdout'[q] : executed[stdout'[q][i].to] = 1
      <4>1. CASE q = p
        BY <4>1, <3>1 DEF AnswerInv, TypeOK
      <4>2. CASE q # p
        BY <4>2, <3>1 DEF AnswerInv, TypeOK
      <4>. QED
        BY <4>1, <4>2
    <3>. QED
      BY <3>1, <3>2 DEF AnswerInv
  <2>. QED
    BY <1>3, <2>1, <2>2, <2>3, <2>4
<1>4. CASE UNCHANGED vars
  BY <1>4 DEF vars, workerVars, clientVars, callVars, streamVars, AnswerInv, TypeOK
<1>. QED
  BY <1>1, <1>2, <1>3, <1>4 DEF Next, Done

\* Only the holder of the lock sets the handle; the others forget it at most.
LEMMA HandleNext ==
  ASSUME TypeOK, LockInv, OutcomeInv, UnspawnedInv, HandleInv, [Next]_vars
  PROVE  HandleInv'
<1> USE ClientAssumption DEF Goto, ConsumerGoto, Outcome, workerVars, clientVars,
      callVars, streamVars, Steps
<1>1. ASSUME NEW r \in Requests, CallStep(r)
      PROVE  HandleInv'
  <2>1. CASE Acquire(r)
    BY <2>1 DEF Acquire, OutcomeInv, HandleInv, TypeOK, LockInv
  <2>2. CASE Close(r)
    BY <2>2 DEF Close, OutcomeInv, HandleInv, TypeOK, LockInv
  <2>3. CASE Kill(r)
    BY <2>3 DEF Kill, Exits, HandleInv, TypeOK, LockInv
  <2>4. CASE ClearEnd(r)
    <3>0. ClearProcess(seen[r]) /\ seen[r] \in Requests \cup {NoProcess}
      BY <2>4 DEF ClearEnd, TypeOK
    <3>1. /\ proc' = NoProcess /\ queue' = <<>> /\ closed' = closed \cup ({seen[r]} \ {NoProcess})
          /\ stdout' \in [Requests -> Seq(Responses)]
          /\ \A p \in Requests : /\ Extends(stdout'[p], stdout[p], {})
                                 /\ stdout[p] = <<>> => stdout'[p] = <<>>
      BY <3>0, ClearEffect
    <3>. QED
      BY <2>4, <3>1 DEF ClearEnd, HandleInv, TypeOK, LockInv
  <2>5. CASE Spawn(r)
    <3>1. ~Unspawned(r)' /\ Unspawned(r)
      BY <2>5, OutcomeNext DEF Spawn, Unspawned, TypeOK, OutcomeInv
    <3>2. r \notin closed
      BY <3>1 DEF UnspawnedInv
    <3>. QED
      BY <2>5, <3>2 DEF Spawn, HandleInv, TypeOK, LockInv
  <2>6. CASE SpawnFails(r)
    BY <2>6 DEF SpawnFails, HandleInv, TypeOK, LockInv
  <2>7. CASE Send(r)
    BY <2>7 DEF Send, OutcomeInv, HandleInv, TypeOK, LockInv
  <2>8. CASE Write(r)
    <3>1. ASSUME NEW u \in Seq(Requests), Writes(r, u)
          PROVE  HandleInv'
      BY <2>8, <3>1 DEF Write, Writes, HandleInv, TypeOK, LockInv
    <3>2. CASE WriteFails(r)
      BY <2>8, <3>2 DEF Write, WriteFails, HandleInv, TypeOK, LockInv
    <3>. QED
      BY <2>8, <3>1, <3>2, WriteEffect
  <2>9. CASE Receive(r)
    BY <2>9 DEF Receive, OutcomeInv, HandleInv, TypeOK, LockInv
  <2>10. CASE Exited(r)
    BY <2>10 DEF Exited, HandleInv, TypeOK, LockInv
  <2>11. CASE Timeout(r)
    BY <2>11 DEF Timeout, OutcomeInv, HandleInv, TypeOK, LockInv
  <2>12. CASE Leave(r)
    BY <2>12 DEF Leave, HandleInv, TypeOK, LockInv
  <2>. QED
    BY <1>1, <2>1, <2>2, <2>3, <2>4, <2>5, <2>6, <2>7, <2>8, <2>9, <2>10, <2>11,
       <2>12 DEF CallStep
<1>2. ASSUME NEW s \in Streams, SetFinished(s) \/ ConsumerStep(s) \/ Resume(s)
      PROVE  HandleInv'
  <2>1. CASE SetFinished(s)
    BY <2>1 DEF SetFinished, HandleInv, TypeOK, LockInv
  <2>2. CASE Take(s)
    BY <2>2 DEF Take, HandleInv, TypeOK, LockInv
  <2>3. CASE Finally(s)
    BY <2>3 DEF Finally, HandleInv, TypeOK, LockInv
  <2>4. CASE ConsumerKill(s)
    BY <2>4 DEF ConsumerKill, Exits, HandleInv, TypeOK, LockInv
  <2>5. CASE ConsumerClearBegin(s)
    BY <2>5 DEF ConsumerClearBegin, HandleInv, TypeOK, LockInv
  <2>6. CASE ConsumerClearEnd(s)
    <3>0. ClearProcess(cseen[s]) /\ cseen[s] \in Requests \cup {NoProcess}
      BY <2>6 DEF ConsumerClearEnd, TypeOK
    <3>1. /\ proc' = NoProcess /\ queue' = <<>> /\ closed' = closed \cup ({cseen[s]} \ {NoProcess})
          /\ stdout' \in [Requests -> Seq(Responses)]
          /\ \A p \in Requests : /\ Extends(stdout'[p], stdout[p], {})
                                 /\ stdout[p] = <<>> => stdout'[p] = <<>>
      BY <3>0, ClearEffect
    <3>. QED
      BY <2>6, <3>1 DEF ConsumerClearEnd, HandleInv, TypeOK, LockInv
  <2>7. CASE Resume(s)
    BY <2>7 DEF Resume, HandleInv, TypeOK, LockInv
  <2>. QED
    BY <1>2, <2>1, <2>2, <2>3, <2>4, <2>5, <2>6, <2>7 DEF ConsumerStep
<1>3. ASSUME NEW p \in Requests, WorkerTake(p) \/ WorkerAnswer(p) \/ WorkerExit(p) \/ Deliver(p)
      PROVE  HandleInv'
  <2>1. CASE WorkerTake(p)
    BY <2>1 DEF WorkerTake, HandleInv
  <2>2. CASE WorkerAnswer(p)
    BY <2>2 DEF WorkerAnswer, HandleInv
  <2>3. CASE WorkerExit(p)
    BY <2>3 DEF WorkerExit, Exits, HandleInv, TypeOK, LockInv
  <2>4. CASE Deliver(p)
    BY <2>4 DEF Deliver, HandleInv
  <2>. QED
    BY <1>3, <2>1, <2>2, <2>3, <2>4
<1>4. CASE UNCHANGED vars
  BY <1>4 DEF vars, workerVars, clientVars, callVars, streamVars, HandleInv, TypeOK,
     LockInv
<1>. QED
  BY <1>1, <1>2, <1>3, <1>4 DEF Next, Done

\* A worker is lost only by a consumer that stops one.
LEMMA KnownNext ==
  ASSUME TypeOK, LockInv, HandleInv, WorkerKnown, [Next]_vars
  PROVE  WorkerKnown'
<1> USE ClientAssumption DEF Goto, ConsumerGoto, Outcome, workerVars, clientVars,
      callVars, streamVars
<1>1. ASSUME NEW r \in Requests, CallStep(r)
      PROVE  WorkerKnown'
  <2>1. CASE Acquire(r)
    BY <2>1 DEF Acquire, WorkerKnown, Stopping, HandleInv, TypeOK
  <2>2. CASE Close(r)
    BY <2>2 DEF Close, WorkerKnown, Stopping, HandleInv, TypeOK
  <2>3. CASE Kill(r)
    BY <2>3 DEF Kill, Exits, WorkerKnown, Stopping, HandleInv, TypeOK
  <2>4. CASE ClearEnd(r)
    <3>0. ClearProcess(seen[r]) /\ seen[r] \in Requests \cup {NoProcess}
      BY <2>4 DEF ClearEnd, TypeOK
    <3>1. /\ proc' = NoProcess /\ queue' = <<>> /\ closed' = closed \cup ({seen[r]} \ {NoProcess})
          /\ stdout' \in [Requests -> Seq(Responses)]
          /\ \A p \in Requests : /\ Extends(stdout'[p], stdout[p], {})
                                 /\ stdout[p] = <<>> => stdout'[p] = <<>>
      BY <3>0, ClearEffect
    <3>. QED
      BY <2>4, <3>1 DEF ClearEnd, WorkerKnown, Stopping, HandleInv, TypeOK
  <2>5. CASE Spawn(r)
    BY <2>5 DEF Spawn, WorkerKnown, Stopping, HandleInv, TypeOK
  <2>6. CASE SpawnFails(r)
    BY <2>6 DEF SpawnFails, WorkerKnown, Stopping, HandleInv, TypeOK
  <2>7. CASE Send(r)
    BY <2>7 DEF Send, WorkerKnown, Stopping, HandleInv, TypeOK
  <2>8. CASE Write(r)
    <3>1. ASSUME NEW u \in Seq(Requests), Writes(r, u)
          PROVE  WorkerKnown'
      BY <2>8, <3>1 DEF Write, Writes, WorkerKnown, Stopping, TypeOK
    <3>2. CASE WriteFails(r)
      BY <2>8, <3>2 DEF Write, WriteFails, WorkerKnown, Stopping, TypeOK
    <3>. QED
      BY <2>8, <3>1, <3>2, WriteEffect
  <2>9. CASE Receive(r)
    BY <2>9 DEF Receive, WorkerKnown, Stopping, HandleInv, TypeOK
  <2>10. CASE Exited(r)
    BY <2>10 DEF Exited, WorkerKnown, Stopping, HandleInv, TypeOK
  <2>11. CASE Timeout(r)
    BY <2>11 DEF Timeout, WorkerKnown, Stopping, HandleInv, TypeOK
  <2>12. CASE Leave(r)
    BY <2>12 DEF Leave, WorkerKnown, Stopping, HandleInv, TypeOK
  <2>. QED
    BY <1>1, <2>1, <2>2, <2>3, <2>4, <2>5, <2>6, <2>7, <2>8, <2>9, <2>10, <2>11,
       <2>12 DEF CallStep
<1>2. ASSUME NEW s \in Streams, SetFinished(s) \/ ConsumerStep(s) \/ Resume(s)
      PROVE  WorkerKnown'
  <2>1. CASE SetFinished(s)
    BY <2>1 DEF SetFinished, WorkerKnown, Stopping, HandleInv, TypeOK
  <2>2. CASE Take(s)
    BY <2>2 DEF Take, WorkerKnown, Stopping, HandleInv, TypeOK
  <2>3. CASE Finally(s)
    BY <2>3 DEF Finally, WorkerKnown, Stopping, HandleInv, TypeOK
  <2>4. CASE ConsumerKill(s)
    BY <2>4 DEF ConsumerKill, Exits, WorkerKnown, Stopping, HandleInv, TypeOK
  <2>5. CASE ConsumerClearBegin(s)
    BY <2>5 DEF ConsumerClearBegin, WorkerKnown, Stopping, HandleInv, TypeOK
  <2>6. CASE ConsumerClearEnd(s)
    BY <2>6 DEF ConsumerClearEnd, WorkerKnown, Stopping, TypeOK
  <2>7. CASE Resume(s)
    BY <2>7 DEF Resume, WorkerKnown, Stopping, HandleInv, TypeOK
  <2>. QED
    BY <1>2, <2>1, <2>2, <2>3, <2>4, <2>5, <2>6, <2>7 DEF ConsumerStep
<1>3. ASSUME NEW p \in Requests, WorkerTake(p) \/ WorkerAnswer(p) \/ WorkerExit(p) \/ Deliver(p)
      PROVE  WorkerKnown'
  <2>1. CASE WorkerTake(p)
    BY <2>1 DEF WorkerTake, WorkerKnown, Stopping
  <2>2. CASE WorkerAnswer(p)
    BY <2>2 DEF WorkerAnswer, WorkerKnown, Stopping
  <2>3. CASE WorkerExit(p)
    BY <2>3 DEF WorkerExit, Exits, WorkerKnown, Stopping, HandleInv, TypeOK
  <2>4. CASE Deliver(p)
    BY <2>4 DEF Deliver, WorkerKnown, Stopping
  <2>. QED
    BY <1>3, <2>1, <2>2, <2>3, <2>4
<1>4. CASE UNCHANGED vars
  BY <1>4 DEF vars, workerVars, clientVars, callVars, streamVars, WorkerKnown,
     Stopping, HandleInv, TypeOK
<1>. QED
  BY <1>1, <1>2, <1>3, <1>4 DEF Next, Done

\* What is left of a request is with its worker.
LEMMA OwnNext ==
  ASSUME TypeOK, SentInv, AnswerInv, OwnInv, [Next]_vars
  PROVE  OwnInv'
<1> USE ClientAssumption DEF Goto, ConsumerGoto, Outcome, workerVars, clientVars,
      callVars, streamVars
<1>1. ASSUME NEW r \in Requests, CallStep(r)
      PROVE  OwnInv'
  <2>1. CASE Acquire(r)
    <3>1. UNCHANGED <<stdin, busy, stdout>>
      BY <2>1 DEF Acquire
    <3>2. pc \in [Requests -> Steps] /\ seen \in [Requests -> Requests \cup {NoProcess}]
      BY DEF TypeOK
    <3> HIDE DEF TypeOK
    <3>3. \A q \in Requests : pc'[q] = "wait" => pc[q] = "wait" /\ seen'[q] = seen[q]
      BY <2>1, <3>2 DEF Acquire
    <3>. QED
      BY <3>1, <3>3 DEF OwnInv
  <2>2. CASE Close(r)
    BY <2>2 DEF Close, OwnInv, TypeOK
  <2>3. CASE Kill(r)
    BY <2>3 DEF Kill, Exits, OwnInv, TypeOK
  <2>4. CASE ClearEnd(r)
    <3>0. ClearProcess(seen[r]) /\ seen[r] \in Requests \cup {NoProcess}
      BY <2>4 DEF ClearEnd, TypeOK
    <3>1. /\ proc' = NoProcess /\ queue' = <<>> /\ closed' = closed \cup ({seen[r]} \ {NoProcess})
          /\ stdout' \in [Requests -> Seq(Responses)]
          /\ \A p \in Requests : /\ Extends(stdout'[p], stdout[p], {})
                                 /\ stdout[p] = <<>> => stdout'[p] = <<>>
      BY <3>0, ClearEffect
    <3>2. \A p \in Requests : \A i \in DOMAIN stdout'[p] :
            i \in DOMAIN stdout[p] /\ stdout'[p][i] = stdout[p][i]
      BY <3>1 DEF Extends
    <3>3. UNCHANGED <<stdin, busy, seen>> /\ \A q \in Requests : pc'[q] = "wait" => pc[q] = "wait"
      BY <2>4 DEF ClearEnd, TypeOK
    <3>. QED
      BY <3>2, <3>3 DEF OwnInv
  <2>5. CASE Spawn(r)
    BY <2>5 DEF Spawn, OwnInv, TypeOK
  <2>6. CASE SpawnFails(r)
    BY <2>6 DEF SpawnFails, OwnInv, TypeOK
  <2>7. CASE Send(r)
    BY <2>7 DEF Send, OwnInv, TypeOK
  <2>8. CASE Write(r)
    <3>1. ASSUME NEW u \in Seq(Requests), Writes(r, u)
          PROVE  OwnInv'
      <4>1. /\ pc[r] = "write" /\ UNCHANGED <<busy, stdout, seen>> /\ seen[r] \in Requests
            /\ stdin' = [stdin EXCEPT ![seen[r]] = u] /\ pc' = [pc EXCEPT ![r] = "wait"]
            /\ \A i \in DOMAIN u : (i \in DOMAIN stdin[seen[r]] /\ u[i] = stdin[seen[r]][i]) \/ u[i] = r
        BY <2>8, <3>1 DEF Write, Writes, TypeOK
      <4>2. executed[r] # 1 /\ Unwritten(r)
        BY <4>1 DEF Unwritten, SentInv
      <4>3. ASSUME NEW w \in Requests \ {seen[r]}
            PROVE  /\ \A i \in DOMAIN stdin'[w] : stdin'[w][i] # r
                   /\ busy'[w] # r
                   /\ \A i \in DOMAIN stdout'[w] : stdout'[w][i].to # r
        <5>1. stdin'[w] = stdin[w]
          BY <4>1 DEF TypeOK
        <5>2. \A i \in DOMAIN stdin[w] : stdin[w][i] # r
          BY <4>2 DEF SentInv
        <5>3. busy[w] # r /\ \A i \in DOMAIN stdout[w] : stdout[w][i].to # r
          BY <4>2 DEF AnswerInv
        <5>. QED
          BY <4>1, <5>1, <5>2, <5>3
      <4>4. ASSUME NEW q \in Requests \ {r}, pc'[q] = "wait", NEW w \in Requests \ {seen[q]}
            PROVE  /\ \A i \in DOMAIN stdin'[w] : stdin'[w][i] # q
                   /\ busy'[w] # q
                   /\ \A i \in DOMAIN stdout'[w] : stdout'[w][i].to # q
        <5>1. pc[q] = "wait"
          BY <4>1, <4>4 DEF TypeOK
        <5>2. \A i \in DOMAIN stdin'[w] :
                \/ i \in DOMAIN stdin[w] /\ stdin'[w][i] = stdin[w][i]
                \/ stdin'[w][i] = r
          BY <4>1 DEF TypeOK
        <5>. QED
          BY <4>1, <4>4, <5>1, <5>2 DEF OwnInv
      <4>. QED
        BY <4>1, <4>3, <4>4 DEF OwnInv
    <3>2. CASE WriteFails(r)
      <4>1. UNCHANGED <<stdin, busy, stdout, seen>>
        BY <2>8, <3>2 DEF Write, WriteFails
      <4>2. \A q \in Requests : pc'[q] = "wait" => pc[q] = "wait"
        BY <3>2 DEF WriteFails, TypeOK
      <4>. QED
        BY <4>1, <4>2 DEF OwnInv
    <3>. QED
      BY <2>8, <3>1, <3>2, WriteEffect
  <2>9. CASE Receive(r)
    <3>1. UNCHANGED <<stdin, busy, stdout>>
      BY <2>9 DEF Receive
    <3>2. pc \in [Requests -> Steps] /\ seen \in [Requests -> Requests \cup {NoProcess}]
      BY DEF TypeOK
    <3> HIDE DEF TypeOK
    <3>3. \A q \in Requests : pc'[q] = "wait" => pc[q] = "wait" /\ seen'[q] = seen[q]
      BY <2>9, <3>2 DEF Receive
    <3>. QED
      BY <3>1, <3>3 DEF OwnInv
  <2>10. CASE Exited(r)
    BY <2>10 DEF Exited, OwnInv, TypeOK
  <2>11. CASE Timeout(r)
    BY <2>11 DEF Timeout, OwnInv, TypeOK
  <2>12. CASE Leave(r)
    BY <2>12 DEF Leave, OwnInv, TypeOK
  <2>. QED
    BY <1>1, <2>1, <2>2, <2>3, <2>4, <2>5, <2>6, <2>7, <2>8, <2>9, <2>10, <2>11,
       <2>12 DEF CallStep
<1>2. ASSUME NEW s \in Streams, SetFinished(s) \/ ConsumerStep(s) \/ Resume(s)
      PROVE  OwnInv'
  <2>1. CASE SetFinished(s)
    BY <2>1 DEF SetFinished, OwnInv, TypeOK
  <2>2. CASE Take(s)
    BY <2>2 DEF Take, OwnInv, TypeOK
  <2>3. CASE Finally(s)
    BY <2>3 DEF Finally, OwnInv, TypeOK
  <2>4. CASE ConsumerKill(s)
    BY <2>4 DEF ConsumerKill, Exits, OwnInv, TypeOK
  <2>5. CASE ConsumerClearBegin(s)
    BY <2>5 DEF ConsumerClearBegin, OwnInv, TypeOK
  <2>6. CASE ConsumerClearEnd(s)
    <3>0. ClearProcess(cseen[s]) /\ cseen[s] \in Requests \cup {NoProcess}
      BY <2>6 DEF ConsumerClearEnd, TypeOK
    <3>1. /\ proc' = NoProcess /\ queue' = <<>> /\ closed' = closed \cup ({cseen[s]} \ {NoProcess})
          /\ stdout' \in [Requests -> Seq(Responses)]
          /\ \A p \in Requests : /\ Extends(stdout'[p], stdout[p], {})
                                 /\ stdout[p] = <<>> => stdout'[p] = <<>>
      BY <3>0, ClearEffect
    <3>2. \A p \in Requests : \A i \in DOMAIN stdout'[p] :
            i \in DOMAIN stdout[p] /\ stdout'[p][i] = stdout[p][i]
      BY <3>1 DEF Extends
    <3>3. UNCHANGED <<stdin, busy, seen>> /\ \A q \in Requests : pc'[q] = "wait" => pc[q] = "wait"
      BY <2>6 DEF ConsumerClearEnd, TypeOK
    <3>. QED
      BY <3>2, <3>3 DEF OwnInv
  <2>7. CASE Resume(s)
    BY <2>7 DEF Resume, OwnInv, TypeOK
  <2>. QED
    BY <1>2, <2>1, <2>2, <2>3, <2>4, <2>5, <2>6, <2>7 DEF ConsumerStep
<1>3. ASSUME NEW p \in Requests, WorkerTake(p) \/ WorkerAnswer(p) \/ WorkerExit(p) \/ Deliver(p)
      PROVE  OwnInv'
  <2>1. CASE WorkerTake(p)
    <3>0. PICK r \in Requests, rest \in Seq(Requests), u \in Seq(Responses) : Takes(p, r, rest, u)
      BY <2>1, WorkerTakeEffect
    <3>2. ASSUME NEW q \in Requests, pc'[q] = "wait", NEW w \in Requests \ {seen'[q]}
          PROVE  /\ \A i \in DOMAIN stdin'[w] : stdin'[w][i] # q
                 /\ busy'[w] # q
                 /\ \A i \in DOMAIN stdout'[w] : stdout'[w][i].to # q
      <4>1. /\ pc[q] = "wait" /\ w # seen[q]
            /\ \A i \in DOMAIN stdin[w] : stdin[w][i] # q
            /\ busy[w] # q
            /\ \A i \in DOMAIN stdout[w] : stdout[w][i].to # q
        BY <2>1, <3>2 DEF WorkerTake, OwnInv
      <4>2. CASE w = p
        <5>1. /\ r = stdin[p][1] /\ 1 \in DOMAIN stdin[p]
              /\ busy'[p] = r /\ stdin'[p] = rest /\ stdout'[p] = u
          BY <3>0 DEF Takes, TypeOK
        <5>2. r # q
          BY <4>1, <4>2, <5>1
        <5>3. \A i \in DOMAIN rest : i + 1 \in DOMAIN stdin[p] /\ rest[i] = stdin[p][i + 1]
          BY <3>0 DEF Takes, Follows
        <5>4. \A i \in DOMAIN u : (i \in DOMAIN stdout[p] /\ u[i] = stdout[p][i]) \/ u[i].to = r
          BY <3>0 DEF Takes, Extends, Event
        <5>. QED
          BY <4>1, <4>2, <5>1, <5>2, <5>3, <5>4
      <4>3. CASE w # p
        BY <3>0, <4>1, <4>3 DEF Takes, TypeOK
      <4>. QED
        BY <4>2, <4>3
    <3>. QED
      BY <3>2 DEF OwnInv
  <2>2. CASE WorkerAnswer(p)
    <3>0. PICK u \in Seq(Responses) : Answers(p, u)
      BY <2>2, WorkerAnswerEffect
    <3>2. ASSUME NEW q \in Requests, pc'[q] = "wait", NEW w \in Requests \ {seen'[q]}
          PROVE  /\ \A i \in DOMAIN stdin'[w] : stdin'[w][i] # q
                 /\ busy'[w] # q
                 /\ \A i \in DOMAIN stdout'[w] : stdout'[w][i].to # q
      <4>1. /\ pc[q] = "wait" /\ w # seen[q]
            /\ \A i \in DOMAIN stdin[w] : stdin[w][i] # q
            /\ busy[w] # q
            /\ \A i \in DOMAIN stdout[w] : stdout[w][i].to # q
        BY <2>2, <3>2 DEF WorkerAnswer, OwnInv
      <4>2. CASE w = p
        <5>1. busy[p] # q /\ busy'[p] = NoRequest /\ stdout'[p] = u /\ stdin'[p] = stdin[p]
          BY <2>2, <3>0, <4>1, <4>2 DEF WorkerAnswer, Answers, TypeOK
        <5>2. \A i \in DOMAIN u : (i \in DOMAIN stdout[p] /\ u[i] = stdout[p][i]) \/ u[i].to = busy[p]
          BY <3>0 DEF Answers
        <5>. QED
          BY <4>1, <4>2, <5>1, <5>2
      <4>3. CASE w # p
        BY <2>2, <3>0, <4>1, <4>3 DEF WorkerAnswer, Answers, TypeOK
      <4>. QED
        BY <4>2, <4>3
    <3>. QED
      BY <3>2 DEF OwnInv
  <2>3. CASE WorkerExit(p)
    BY <2>3 DEF WorkerExit, Exits, OwnInv, TypeOK
  <2>4. CASE Deliver(p)
    <3>0. PICK e \in Responses, u \in Seq(Responses) : Delivers(p, e, u)
      BY <2>4, DeliverEffect
    <3>2. ASSUME NEW q \in Requests, pc'[q] = "wait", NEW w \in Requests \ {seen'[q]}
          PROVE  /\ \A i \in DOMAIN stdin'[w] : stdin'[w][i] # q
                 /\ busy'[w] # q
                 /\ \A i \in DOMAIN stdout'[w] : stdout'[w][i].to # q
      <4>1. /\ pc[q] = "wait" /\ w # seen[q]
            /\ \A i \in DOMAIN stdin[w] : stdin[w][i] # q
            /\ busy[w] # q
            /\ \A i \in DOMAIN stdout[w] : stdout[w][i].to # q
        BY <2>4, <3>2 DEF Deliver, OwnInv
      <4>2. CASE w = p
        <5>1. stdout'[p] = u /\ UNCHANGED <<stdin, busy>>
          BY <2>4, <3>0 DEF Deliver, Delivers, TypeOK
        <5>2. \A i \in DOMAIN u : i + 1 \in DOMAIN stdout[p] /\ u[i] = stdout[p][i + 1]
          BY <3>0 DEF Delivers, Follows
        <5>. QED
          BY <4>1, <4>2, <5>1, <5>2
      <4>3. CASE w # p
        BY <2>4, <3>0, <4>1, <4>3 DEF Deliver, Delivers, TypeOK
      <4>. QED
        BY <4>2, <4>3
    <3>. QED
      BY <3>2 DEF OwnInv
  <2>. QED
    BY <1>3, <2>1, <2>2, <2>3, <2>4
<1>4. CASE UNCHANGED vars
  BY <1>4 DEF vars, workerVars, clientVars, callVars, streamVars, OwnInv, TypeOK
<1>. QED
  BY <1>1, <1>2, <1>3, <1>4 DEF Next, Done

\* The steps of a call at which its worker has nothing to do.
Idle == {"send", "write", "leave"}

\* Steps that leave the pipes of the live worker alone keep it quiet, when
\* they put a call at such a step only from another, from an answer, under a
\* free lock or without a live worker.
LEMMA QuietKept ==
  ASSUME QuietInv, running' \subseteq running, proc' = proc,
         \A w \in running' :
           stdin'[w] = stdin[w] /\ busy'[w] = busy[w] /\ stdout'[w] = stdout[w],
         \A i \in DOMAIN queue' : \E j \in DOMAIN queue : queue'[i] = queue[j],
         lock' = NoRequest => lock = NoRequest \/ \E q \in Requests : pc[q] \in Idle,
         \A q \in Requests : pc'[q] \in Idle =>
           \/ pc[q] \in Idle \/ lock = NoRequest \/ proc \notin running
           \/ pc[q] = "wait" /\ Answered(q),
         \A q \in Requests : pc'[q] = "wait" => pc[q] = "wait"
  PROVE  QuietInv'
<1> SUFFICES ASSUME NEW w \in running, w \in running', w = proc
             PROVE  /\ lock' = NoRequest => Quiet(w)'
                    /\ \A q \in Requests : /\ pc'[q] \in Idle => Quiet(w)'
                                           /\ pc'[q] = "wait" => Serving(w, q)'
  BY DEF QuietInv, Idle
<1>1. Quiet(w) => Quiet(w)'
  BY DEF Quiet
<1>2. ASSUME NEW q \in Requests, Serving(w, q)
      PROVE  Serving(w, q)'
  <2>1. Answered(q)' => Answered(q)
    BY DEF Answered
  <2>. QED
    BY <1>2, <2>1, <1>1 DEF Serving
<1>3. ASSUME NEW q \in Requests, Serving(w, q), Answered(q)
      PROVE  Quiet(w)
  BY <1>3 DEF Serving
<1>4. lock = NoRequest \/ (\E q \in Requests : pc[q] \in Idle) => Quiet(w)
  BY DEF QuietInv, Idle
<1>5. \A q \in Requests : pc[q] = "wait" => Serving(w, q)
  BY DEF QuietInv
<1>6. ASSUME NEW q \in Requests, pc'[q] \in Idle
      PROVE  Quiet(w)
  BY <1>3, <1>4, <1>5, <1>6
<1>7. ASSUME NEW q \in Requests, pc'[q] = "wait"
      PROVE  Serving(w, q)'
  BY <1>2, <1>5, <1>7
<1>. QED
  BY <1>1, <1>4, <1>6, <1>7

\* So do the steps that move what one process has, when they keep that of the
\* client's worker.
LEMMA QuietMoved ==
  ASSUME QuietInv, UNCHANGED <<running, proc, lock, pc>>,
         \A w \in running : w = proc =>
           /\ Quiet(w) => Quiet(w)'
           /\ \A q \in Requests : pc[q] = "wait" /\ Serving(w, q) => Serving(w, q)'
  PROVE  QuietInv'
<1> SUFFICES ASSUME NEW w \in running, w = proc
             PROVE  /\ lock' = NoRequest => Quiet(w)'
                    /\ \A q \in Requests : /\ pc'[q] \in Idle => Quiet(w)'
                                           /\ pc'[q] = "wait" => Serving(w, q)'
  BY DEF QuietInv, Idle
<1>4. lock = NoRequest \/ (\E q \in Requests : pc[q] \in Idle) => Quiet(w)
  BY DEF QuietInv, Idle
<1>5. \A q \in Requests : pc[q] = "wait" => Serving(w, q)
  BY DEF QuietInv
<1>6. /\ Quiet(w) => Quiet(w)'
      /\ \A q \in Requests : pc[q] = "wait" /\ Serving(w, q) => Serving(w, q)'
  OBVIOUS
<1>. QED
  BY <1>4, <1>5, <1>6

\* A worker that nobody waits for has nothing to do.
LEMMA QuietNext ==
  ASSUME TypeOK, LockInv, OutcomeInv, UnspawnedInv, SentInv, AnswerInv,
         HandleInv, OwnInv, QuietInv, [Next]_vars
  PROVE  QuietInv'
<1> USE ClientAssumption DEF Goto, ConsumerGoto, Outcome, workerVars, clientVars,
      callVars, streamVars, Steps
<1>00. /\ proc \in Requests \cup {NoProcess} /\ running \subseteq Requests
       /\ pc \in [Requests -> Steps] /\ lock \in Requests \cup {NoRequest}
       /\ NoProcess \notin Requests /\ NoRequest \notin Requests
  BY DEF TypeOK
<1>1. ASSUME NEW r \in Requests, CallStep(r)
      PROVE  QuietInv'
  <2>1. CASE Acquire(r)
    <3>1. UNCHANGED <<stdin, busy, stdout, queue, proc, running>>
      BY <2>1 DEF Acquire
    <3>2. lock' = NoRequest => lock = NoRequest \/ \E q \in Requests : pc[q] \in Idle
      BY <2>1, <1>00 DEF Acquire, Idle
    <3>3. \A q \in Requests : pc'[q] \in Idle =>
            pc[q] \in Idle \/ lock = NoRequest \/ proc \notin running
      BY <2>1, <1>00 DEF Acquire, Idle
    <3>4. \A q \in Requests : pc'[q] = "wait" => pc[q] = "wait"
      BY <2>1, <1>00 DEF Acquire
    <3>. QED
      BY <3>1, <3>2, <3>3, <3>4, QuietKept
  <2>2. CASE Close(r)
    <3>1. UNCHANGED <<stdin, busy, stdout, queue, proc, running>>
      BY <2>2 DEF Close
    <3>2. lock' = NoRequest => lock = NoRequest \/ \E q \in Requests : pc[q] \in Idle
      BY <2>2, <1>00 DEF Close, Idle
    <3>3. \A q \in Requests : pc'[q] \in Idle =>
            pc[q] \in Idle \/ lock = NoRequest \/ proc \notin running
      BY <2>2, <1>00 DEF Close, Idle
    <3>4. \A q \in Requests : pc'[q] = "wait" => pc[q] = "wait"
      BY <2>2, <1>00 DEF Close
    <3>. QED
      BY <3>1, <3>2, <3>3, <3>4, QuietKept
  <2>3. CASE Kill(r)
    <3>1. /\ running' \subseteq running /\ UNCHANGED <<queue, proc, lock>>
          /\ \A w \in running' :
               stdin'[w] = stdin[w] /\ busy'[w] = busy[w] /\ stdout'[w] = stdout[w]
      BY <2>3, <1>00 DEF Kill, Exits
    <3>2. \A q \in Requests : pc'[q] = pc[q] \/ pc'[q] = "closing"
      BY <2>3, <1>00 DEF Kill
    <3>3. \A q \in Requests : pc'[q] \in Idle => pc[q] \in Idle
      BY <3>2 DEF Idle
    <3>4. \A q \in Requests : pc'[q] = "wait" => pc[q] = "wait"
      BY <3>2
    <3>. QED
      BY <3>1, <3>3, <3>4, QuietKept
  <2>4. CASE ClearEnd(r)
    <3>0. ClearProcess(seen[r]) /\ seen[r] \in Requests \cup {NoProcess}
      BY <2>4 DEF ClearEnd, TypeOK
    <3>1. /\ proc' = NoProcess /\ queue' = <<>> /\ closed' = closed \cup ({seen[r]} \ {NoProcess})
          /\ stdout' \in [Requests -> Seq(Responses)]
          /\ \A p \in Requests : /\ Extends(stdout'[p], stdout[p], {})
                                 /\ stdout[p] = <<>> => stdout'[p] = <<>>
      BY <3>0, ClearEffect
    <3>2. running' = running
      BY <2>4 DEF ClearEnd
    <3>. QED
      BY <3>1, <3>2, <1>00 DEF QuietInv
  <2>5. CASE Spawn(r)
    <3>1. UNCHANGED <<stdin, busy, stdout, queue, lock>> /\ proc' = r /\ lock = r
          /\ \A q \in Requests : pc'[q] \in {"send", "write", "leave", "wait"} => q = r /\ pc'[q] = "send"
      BY <2>5, <1>00 DEF Spawn, LockInv
    <3>2. Quiet(r)
      BY <2>5 DEF Spawn, Unspawned, UnspawnedInv, Quiet
    <3>3. Quiet(r)'
      BY <3>1, <3>2 DEF Quiet
    <3>. QED
      BY <3>1, <3>3 DEF QuietInv
  <2>6. CASE SpawnFails(r)
    <3>1. UNCHANGED <<stdin, busy, stdout, queue, proc, running>>
      BY <2>6 DEF SpawnFails
    <3>2. lock' = NoRequest => lock = NoRequest \/ \E q \in Requests : pc[q] \in Idle
      BY <2>6, <1>00 DEF SpawnFails, Idle
    <3>3. \A q \in Requests : pc'[q] \in Idle =>
            pc[q] \in Idle \/ lock = NoRequest \/ proc \notin running
      BY <2>6, <1>00 DEF SpawnFails, Idle, HandleInv
    <3>4. \A q \in Requests : pc'[q] = "wait" => pc[q] = "wait"
      BY <2>6, <1>00 DEF SpawnFails
    <3>. QED
      BY <3>1, <3>2, <3>3, <3>4, QuietKept
  <2>7. CASE Send(r)
    <3>1. UNCHANGED <<stdin, busy, stdout, queue, proc, running>>
      BY <2>7 DEF Send
    <3>2. lock' = NoRequest => lock = NoRequest \/ \E q \in Requests : pc[q] \in Idle
      BY <2>7, <1>00 DEF Send, Idle
    <3>3. \A q \in Requests : pc'[q] \in Idle =>
            pc[q] \in Idle \/ lock = NoRequest \/ proc \notin running
      BY <2>7, <1>00 DEF Send, Idle
    <3>4. \A q \in Requests : pc'[q] = "wait" => pc[q] = "wait"
      BY <2>7, <1>00 DEF Send
    <3>. QED
      BY <3>1, <3>2, <3>3, <3>4, QuietKept
  <2>8. CASE Write(r)
    <3>1. ASSUME NEW u \in Seq(Requests), Writes(r, u)
          PROVE  QuietInv'
      <4>1. /\ pc[r] = "write" /\ UNCHANGED <<running, busy, stdout, queue, proc, lock, executed>>
            /\ stdin' = [stdin EXCEPT ![seen[r]] = u] /\ pc' = [pc EXCEPT ![r] = "wait"]
            /\ u = Append(stdin[seen[r]], r)
        BY <2>8, <3>1 DEF Write, Writes
      <4>2. \A q \in Requests : pc'[q] \in {"send", "write", "leave", "wait"} => q = r /\ pc'[q] = "wait"
        BY <4>1, <1>00 DEF LockInv
      <4>3. lock # NoRequest
        BY <4>1, <1>00 DEF LockInv
      <4>4. ~Answered(r)'
        <5>1. executed[r] # 1
          BY <4>1 DEF SentInv, Unwritten
        <5>. QED
          BY <4>1, <5>1 DEF AnswerInv, Answered
      <4>5. ASSUME NEW w \in running, w = proc
            PROVE  Serving(w, r)'
        <5>1. w = seen[r] /\ Quiet(w)
          BY <4>1, <4>5, <1>00 DEF HandleInv, QuietInv
        <5>2. stdin'[w] = <<r>>
          <6>1. stdin'[w] = Append(<<>>, r)
            BY <4>1, <5>1 DEF TypeOK, Quiet
          <6>. QED
            BY <6>1
        <5>. QED
          BY <4>1, <4>4, <5>1, <5>2 DEF Serving, Quiet
      <4>. QED
        BY <4>1, <4>2, <4>3, <4>5 DEF QuietInv
    <3>2. CASE WriteFails(r)
      <4>1. UNCHANGED <<stdin, busy, stdout, queue, proc, running, lock>> /\ pc[r] = "write"
        BY <2>8, <3>2 DEF Write, WriteFails
      <4>2. \A q \in Requests : pc'[q] = pc[q] \/ (q = r /\ pc'[q] \in {"kill", "leave"})
        BY <3>2, <1>00 DEF WriteFails
      <4>3. \A q \in Requests : pc'[q] \in Idle => pc[q] \in Idle
        BY <4>1, <4>2 DEF Idle
      <4>4. \A q \in Requests : pc'[q] = "wait" => pc[q] = "wait"
        BY <4>2
      <4>. QED
        BY <4>1, <4>3, <4>4, QuietKept
    <3>. QED
      BY <2>8, <3>1, <3>2, WriteEffect
  <2>9. CASE Receive(r)
    <3>1. /\ 1 \in DOMAIN queue /\ queue[1] = Head(queue)
          /\ \A i \in DOMAIN queue' : i + 1 \in DOMAIN queue /\ queue'[i] = queue[i + 1]
      BY <2>9, ReceiveEffect DEF Follows
    <3>2. UNCHANGED <<stdin, busy, stdout, proc, running, lock>> /\ pc[r] = "wait"
      BY <2>9 DEF Receive
    <3>3. pc'[r] = "leave" => Answered(r)
      BY <2>9, <3>1, <1>00 DEF Receive, Answered
    <3>4. \A q \in Requests : pc'[q] = pc[q] \/ (q = r /\ pc'[q] \in {"kill", "leave"})
      BY <2>9, <1>00 DEF Receive
    <3>5. \A q \in Requests : pc'[q] \in Idle =>
            pc[q] \in Idle \/ (pc[q] = "wait" /\ Answered(q))
      BY <3>2, <3>3, <3>4 DEF Idle
    <3>6. \A q \in Requests : pc'[q] = "wait" => pc[q] = "wait"
      BY <3>4
    <3>7. \A i \in DOMAIN queue' : \E j \in DOMAIN queue : queue'[i] = queue[j]
      BY <3>1
    <3>. QED
      BY <3>2, <3>5, <3>6, <3>7, QuietKept
  <2>10. CASE Exited(r)
    <3>1. UNCHANGED <<stdin, busy, stdout, queue, proc, running>>
      BY <2>10 DEF Exited
    <3>2. lock' = NoRequest => lock = NoRequest \/ \E q \in Requests : pc[q] \in Idle
      BY <2>10, <1>00 DEF Exited, Idle
    <3>3. \A q \in Requests : pc'[q] \in Idle =>
            pc[q] \in Idle \/ lock = NoRequest \/ proc \notin running
      BY <2>10, <1>00 DEF Exited, Idle, HandleInv
    <3>4. \A q \in Requests : pc'[q] = "wait" => pc[q] = "wait"
      BY <2>10, <1>00 DEF Exited
    <3>. QED
      BY <3>1, <3>2, <3>3, <3>4, QuietKept
  <2>11. CASE Timeout(r)
    <3>1. UNCHANGED <<stdin, busy, stdout, queue, proc, running>>
      BY <2>11 DEF Timeout
    <3>2. lock' = NoRequest => lock = NoRequest \/ \E q \in Requests : pc[q] \in Idle
      BY <2>11, <1>00 DEF Timeout, Idle
    <3>3. \A q \in Requests : pc'[q] \in Idle =>
            pc[q] \in Idle \/ lock = NoRequest \/ proc \notin running
      BY <2>11, <1>00 DEF Timeout, Idle
    <3>4. \A q \in Requests : pc'[q] = "wait" => pc[q] = "wait"
      BY <2>11, <1>00 DEF Timeout
    <3>. QED
      BY <3>1, <3>2, <3>3, <3>4, QuietKept
  <2>12. CASE Leave(r)
    <3>1. UNCHANGED <<stdin, busy, stdout, queue, proc, running>>
      BY <2>12 DEF Leave
    <3>2. lock' = NoRequest => lock = NoRequest \/ \E q \in Requests : pc[q] \in Idle
      BY <2>12, <1>00 DEF Leave, Idle
    <3>3. \A q \in Requests : pc'[q] \in Idle =>
            pc[q] \in Idle \/ lock = NoRequest \/ proc \notin running
      BY <2>12, <1>00 DEF Leave, Idle
    <3>4. \A q \in Requests : pc'[q] = "wait" => pc[q] = "wait"
      BY <2>12, <1>00 DEF Leave
    <3>. QED
      BY <3>1, <3>2, <3>3, <3>4, QuietKept
  <2>. QED
    BY <1>1, <2>1, <2>2, <2>3, <2>4, <2>5, <2>6, <2>7, <2>8, <2>9, <2>10, <2>11,
       <2>12 DEF CallStep
<1>2. ASSUME NEW s \in Streams, SetFinished(s) \/ ConsumerStep(s) \/ Resume(s)
      PROVE  QuietInv'
  <2>1. CASE SetFinished(s)
    <3>1. UNCHANGED <<stdin, busy, stdout, queue, proc, running>>
      BY <2>1 DEF SetFinished
    <3>2. lock' = NoRequest => lock = NoRequest \/ \E q \in Requests : pc[q] \in Idle
      BY <2>1, <1>00 DEF SetFinished, Idle
    <3>3. \A q \in Requests : pc'[q] \in Idle =>
            pc[q] \in Idle \/ lock = NoRequest \/ proc \notin running
      BY <2>1, <1>00 DEF SetFinished, Idle
    <3>4. \A q \in Requests : pc'[q] = "wait" => pc[q] = "wait"
      BY <2>1, <1>00 DEF SetFinished
    <3>. QED
      BY <3>1, <3>2, <3>3, <3>4, QuietKept
  <2>2. CASE Take(s)
    <3>1. UNCHANGED <<stdin, busy, stdout, queue, proc, running>>
      BY <2>2 DEF Take
    <3>2. lock' = NoRequest => lock = NoRequest \/ \E q \in Requests : pc[q] \in Idle
      BY <2>2, <1>00 DEF Take, Idle
    <3>3. \A q \in Requests : pc'[q] \in Idle =>
            pc[q] \in Idle \/ lock = NoRequest \/ proc \notin running
      BY <2>2, <1>00 DEF Take, Idle
    <3>4. \A q \in Requests : pc'[q] = "wait" => pc[q] = "wait"
      BY <2>2, <1>00 DEF Take
    <3>. QED
      BY <3>1, <3>2, <3>3, <3>4, QuietKept
  <2>3. CASE Finally(s)
    <3>1. UNCHANGED <<stdin, busy, stdout, queue, proc, running>>
      BY <2>3 DEF Finally
    <3>2. lock' = NoRequest => lock = NoRequest \/ \E q \in Requests : pc[q] \in Idle
      BY <2>3, <1>00 DEF Finally, Idle
    <3>3. \A q \in Requests : pc'[q] \in Idle =>
            pc[q] \in Idle \/ lock = NoRequest \/ proc \notin running
      BY <2>3, <1>00 DEF Finally, Idle
    <3>4. \A q \in Requests : pc'[q] = "wait" => pc[q] = "wait"
      BY <2>3, <1>00 DEF Finally
    <3>. QED
      BY <3>1, <3>2, <3>3, <3>4, QuietKept
  <2>4. CASE ConsumerKill(s)
    <3>1. /\ running' \subseteq running /\ UNCHANGED <<queue, proc, lock>>
          /\ \A w \in running' :
               stdin'[w] = stdin[w] /\ busy'[w] = busy[w] /\ stdout'[w] = stdout[w]
      BY <2>4, <1>00 DEF ConsumerKill, Exits
    <3>2. \A q \in Requests : pc'[q] = pc[q] \/ pc'[q] = "closing"
      BY <2>4, <1>00 DEF ConsumerKill
    <3>3. \A q \in Requests : pc'[q] \in Idle => pc[q] \in Idle
      BY <3>2 DEF Idle
    <3>4. \A q \in Requests : pc'[q] = "wait" => pc[q] = "wait"
      BY <3>2
    <3>. QED
      BY <3>1, <3>3, <3>4, QuietKept
  <2>5. CASE ConsumerClearBegin(s)
    <3>1. UNCHANGED <<stdin, busy, stdout, queue, proc, running>>
      BY <2>5 DEF ConsumerClearBegin
    <3>2. lock' = NoRequest => lock = NoRequest \/ \E q \in Requests : pc[q] \in Idle
      BY <2>5, <1>00 DEF ConsumerClearBegin, Idle
    <3>3. \A q \in Requests : pc'[q] \in Idle =>
            pc[q] \in Idle \/ lock = NoRequest \/ proc \notin running
      BY <2>5, <1>00 DEF ConsumerClearBegin, Idle
    <3>4. \A q \in Requests : pc'[q] = "wait" => pc[q] = "wait"
      BY <2>5, <1>00 DEF ConsumerClearBegin
    <3>. QED
      BY <3>1, <3>2, <3>3, <3>4, QuietKept
  <2>6. CASE ConsumerClearEnd(s)
    <3>0. ClearProcess(cseen[s]) /\ cseen[s] \in Requests \cup {NoProcess}
      BY <2>6 DEF ConsumerClearEnd, TypeOK
    <3>1. /\ proc' = NoProcess /\ queue' = <<>> /\ closed' = closed \cup ({cseen[s]} \ {NoProcess})
          /\ stdout' \in [Requests -> Seq(Responses)]
          /\ \A p \in Requests : /\ Extends(stdout'[p], stdout[p], {})
                                 /\ stdout[p] = <<>> => stdout'[p] = <<>>
      BY <3>0, ClearEffect
    <3>2. running' = running
      BY <2>6 DEF ConsumerClearEnd
    <3>. QED
      BY <3>1, <3>2, <1>00 DEF QuietInv
  <2>7. CASE Resume(s)
    <3>1. UNCHANGED <<stdin, busy, stdout, queue, proc, running>>
      BY <2>7 DEF Resume
    <3>2. lock' = NoRequest => lock = NoRequest \/ \E q \in Requests : pc[q] \in Idle
      BY <2>7, <1>00 DEF Resume, Idle
    <3>3. \A q \in Requests : pc'[q] \in Idle =>
            pc[q] \in Idle \/ lock = NoRequest \/ proc \notin running
      BY <2>7, <1>00 DEF Resume, Idle
    <3>4. \A q \in Requests : pc'[q] = "wait" => pc[q] = "wait"
      BY <2>7, <1>00 DEF Resume
    <3>. QED
      BY <3>1, <3>2, <3>3, <3>4, QuietKept
  <2>. QED
    BY <1>2, <2>1, <2>2, <2>3, <2>4, <2>5, <2>6, <2>7 DEF ConsumerStep
<1>3. ASSUME NEW p \in Requests, WorkerTake(p) \/ WorkerAnswer(p) \/ WorkerExit(p) \/ Deliver(p)
      PROVE  QuietInv'
  <2>1. CASE WorkerTake(p)
    <3>0. PICK r \in Requests, rest \in Seq(Requests), u \in Seq(Responses) : Takes(p, r, rest, u)
      BY <2>1, WorkerTakeEffect
    <3>1. UNCHANGED <<queue, proc, running, lock, pc>>
      BY <2>1 DEF WorkerTake
    <3>2. \A q \in Requests : Answered(q)' = Answered(q)
      BY <3>1 DEF Answered
    <3>3. \A w \in Requests \ {p} : /\ stdin'[w] = stdin[w] /\ busy'[w] = busy[w]
                                    /\ stdout'[w] = stdout[w]
      BY <3>0 DEF Takes, TypeOK
    <3>5. stdin[p] # <<>>
      BY <3>0 DEF Takes
    <3>6. ASSUME NEW q \in Requests, Serving(p, q)
          PROVE  Serving(p, q)'
      <4>1. stdin[p] = <<q>> /\ stdout[p] = <<>> /\ ~Answered(q)
        BY <3>5, <3>6 DEF Serving, Quiet
      <4>2. r = q /\ Len(rest) = 0
        BY <3>0, <4>1 DEF Takes
      <4>3. rest = <<>>
        BY <4>2, EmptySeq
      <4>4. \A i \in DOMAIN u : u[i].kind = "event"
        BY <3>0, <4>1 DEF Takes, Extends, Event
      <4>5. stdin'[p] = rest /\ busy'[p] = r /\ stdout'[p] = u
        BY <3>0 DEF Takes, TypeOK
      <4>. QED
        BY <3>2, <4>1, <4>2, <4>3, <4>4, <4>5 DEF Serving
    <3>7. ASSUME NEW w \in running, w = proc
          PROVE  /\ Quiet(w) => Quiet(w)'
                 /\ \A q \in Requests : pc[q] = "wait" /\ Serving(w, q) => Serving(w, q)'
      <4>1. CASE w # p
        BY <3>1, <3>2, <3>3, <4>1, <1>00 DEF Quiet, Serving
      <4>2. CASE w = p
        BY <3>5, <3>6, <4>2 DEF Quiet
      <4>. QED
        BY <4>1, <4>2
    <3>. QED
      BY <3>1, <3>7, QuietMoved
  <2>2. CASE WorkerAnswer(p)
    <3>0. PICK u \in Seq(Responses) : Answers(p, u)
      BY <2>2, WorkerAnswerEffect
    <3>1. UNCHANGED <<queue, proc, running, lock, pc, stdin>>
      BY <2>2 DEF WorkerAnswer
    <3>2. \A q \in Requests : Answered(q)' = Answered(q)
      BY <3>1 DEF Answered
    <3>3. \A w \in Requests \ {p} : busy'[w] = busy[w] /\ stdout'[w] = stdout[w]
      BY <3>0 DEF Answers, TypeOK
    <3>5. busy[p] # NoRequest /\ busy'[p] = NoRequest /\ stdout'[p] = u
      BY <3>0, <1>00 DEF Answers, TypeOK
    <3>6. ASSUME NEW q \in Requests, Serving(p, q)
          PROVE  Serving(p, q)'
      <4>1. /\ stdin[p] = <<>> /\ busy[p] = q /\ ~Answered(q)
            /\ \A i \in DOMAIN stdout[p] : stdout[p][i].kind = "event"
        BY <3>5, <3>6 DEF Serving, Quiet
      <4>2. \A i \in DOMAIN u : i < Len(u) => u[i].kind = "event"
        <5>1. ASSUME NEW i \in DOMAIN u, i < Len(u)
              PROVE  u[i].kind = "event"
          <6>1. i # Len(u)
            BY <5>1, LenProperties
          <6>. QED
            BY <3>0, <4>1, <6>1 DEF Answers
        <5>. QED
          BY <5>1
      <4>. QED
        BY <3>1, <3>2, <3>5, <4>1, <4>2 DEF Serving
    <3>7. ASSUME NEW w \in running, w = proc
          PROVE  /\ Quiet(w) => Quiet(w)'
                 /\ \A q \in Requests : pc[q] = "wait" /\ Serving(w, q) => Serving(w, q)'
      <4>1. CASE w # p
        BY <3>1, <3>2, <3>3, <4>1, <1>00 DEF Quiet, Serving
      <4>2. CASE w = p
        BY <3>5, <3>6, <4>2 DEF Quiet
      <4>. QED
        BY <4>1, <4>2
    <3>. QED
      BY <3>1, <3>7, QuietMoved
  <2>3. CASE WorkerExit(p)
    <3>1. /\ running' \subseteq running /\ UNCHANGED <<queue, proc, lock>>
          /\ \A w \in running' :
               stdin'[w] = stdin[w] /\ busy'[w] = busy[w] /\ stdout'[w] = stdout[w]
      BY <2>3, <1>00 DEF WorkerExit, Exits
    <3>2. \A q \in Requests : pc'[q] = pc[q] \/ pc'[q] = "closing"
      BY <2>3, <1>00 DEF WorkerExit
    <3>3. \A q \in Requests : pc'[q] \in Idle => pc[q] \in Idle
      BY <3>2 DEF Idle
    <3>4. \A q \in Requests : pc'[q] = "wait" => pc[q] = "wait"
      BY <3>2
    <3>. QED
      BY <3>1, <3>3, <3>4, QuietKept
  <2>4. CASE Deliver(p)
    <3>0. PICK e \in Responses, u \in Seq(Responses) : Delivers(p, e, u)
      BY <2>4, DeliverEffect
    <3>1. UNCHANGED <<proc, running, lock, pc, stdin, busy>>
      BY <2>4 DEF Deliver
    <3>2. \A q \in Requests : e.to # q \/ e.kind = "event" => (Answered(q)' => Answered(q))
      BY <3>0 DEF Answered, Delivers, Extends
    <3>3. /\ \A w \in Requests \ {p} : stdout'[w] = stdout[w]
          /\ stdout'[p] = u /\ e = stdout[p][1] /\ 1 \in DOMAIN stdout[p]
          /\ Len(stdout[p]) \in Nat /\ DOMAIN stdout[p] = 1..Len(stdout[p])
          /\ Len(u) = Len(stdout[p]) - 1
          /\ \A i \in DOMAIN u : i + 1 \in DOMAIN stdout[p] /\ u[i] = stdout[p][i + 1]
      BY <3>0 DEF Delivers, Follows, TypeOK
    <3>4. ASSUME NEW w \in running, w = proc
          PROVE  /\ Quiet(w) => Quiet(w)'
                 /\ \A q \in Requests : pc[q] = "wait" /\ Serving(w, q) => Serving(w, q)'
      <4>1. CASE w # p
        <5>1. /\ Quiet(w) => Quiet(w)'
              /\ \A q \in Requests : Serving(w, q) /\ (Answered(q)' => Answered(q)) => Serving(w, q)'
          BY <3>1, <3>3, <4>1, <1>00 DEF Quiet, Serving
        <5>2. \A q \in Requests : pc[q] = "wait" => e.to # q
          BY <3>3, <3>4, <4>1, <1>00 DEF OwnInv, HandleInv
        <5>. QED
          BY <3>2, <5>1, <5>2
      <4>2. CASE w = p
        <5>1. stdout[p] # <<>> /\ ~Quiet(p)
          BY <3>3 DEF Quiet
        <5>2. ASSUME NEW q \in Requests, Serving(p, q)
              PROVE  Serving(p, q)'
          <6>1. /\ stdin'[p] = <<>> /\ ~Answered(q)
                /\ \/ /\ busy'[p] = q
                      /\ \A i \in DOMAIN stdout[p] : stdout[p][i].kind = "event"
                   \/ /\ busy'[p] = NoRequest
                      /\ \A i \in DOMAIN stdout[p] :
                           i < Len(stdout[p]) => stdout[p][i].kind = "event"
            BY <3>1, <5>1, <5>2 DEF Serving
          <6>2. CASE \A i \in DOMAIN stdout[p] : stdout[p][i].kind = "event"
            <7>1. ~Answered(q)' /\ \A i \in DOMAIN u : u[i].kind = "event"
              BY <3>2, <3>3, <6>1, <6>2
            <7>. QED
              BY <3>3, <6>1, <7>1 DEF Serving
          <6>3. CASE /\ busy'[p] = NoRequest /\ Len(stdout[p]) > 1
                     /\ \A i \in DOMAIN stdout[p] : i < Len(stdout[p]) => stdout[p][i].kind = "event"
            <7>1. ~Answered(q)'
              BY <3>2, <3>3, <6>1, <6>3
            <7>2. DOMAIN u = 1..Len(u)
              BY LenProperties
            <7>3. \A i \in DOMAIN u : i < Len(u) => u[i].kind = "event"
              BY <3>3, <6>3, <7>2
            <7>. QED
              BY <3>3, <6>1, <6>3, <7>1, <7>3 DEF Serving
          <6>4. CASE busy'[p] = NoRequest /\ Len(stdout[p]) <= 1
            <7>1. \A n \in Nat : 1 <= n /\ n <= 1 => n - 1 = 0
              OBVIOUS
            <7>3. Len(stdout[p]) \in Nat /\ 1 <= Len(stdout[p]) /\ Len(stdout[p]) <= 1
              BY <3>3, <6>4
            <7>4. Len(u) = 0
              BY <3>3, <7>1, <7>3
            <7>2. u = <<>>
              BY <7>4, EmptySeq
            <7>. QED
              BY <3>3, <6>1, <6>4, <7>2 DEF Serving, Quiet
          <6>. QED
            BY <3>3, <6>1, <6>2, <6>3, <6>4
        <5>. QED
          BY <4>2, <5>1, <5>2
      <4>. QED
        BY <4>1, <4>2
    <3>. QED
      BY <3>1, <3>4, QuietMoved
  <2>. QED
    BY <1>3, <2>1, <2>2, <2>3, <2>4
<1>4. CASE UNCHANGED vars
  BY <1>4 DEF vars, workerVars, clientVars, callVars, streamVars, QuietInv, Quiet,
     Serving, Answered
<1>. QED
  BY <1>1, <1>2, <1>3, <1>4 DEF Next, Done

-----------------------------------------------------------------------------
(***************************************************************************)
(* What holds in every reachable state.                                    *)
(***************************************************************************)
\* The invariant holds before the first call.
LEMMA ClientInit == Init => ClientInv
<1> SUFFICES ASSUME Init
             PROVE  ClientInv
  OBVIOUS
<1> USE ClientAssumption
<1>0. <<>> \in Seq(Requests) /\ <<>> \in Seq(Responses) /\ DOMAIN <<>> = {}
  BY EmptySeq
<1>00. <<>> \in Seq({"event", "done", "error"})
  BY EmptySeq
<1>1. TypeOK
  BY <1>0, <1>00 DEF Init, TypeOK, Steps, ConsumerSteps
<1>2. LockInv /\ OutcomeInv /\ HandleInv /\ OwnInv
  BY DEF Init, LockInv, OutcomeInv, HandleInv, OwnInv
<1>3. UnspawnedInv
  BY DEF Init, UnspawnedInv
<1>4. SentInv /\ AnswerInv
  BY <1>0 DEF Init, SentInv, AnswerInv
<1>5. QuietInv /\ WorkerKnown
  BY DEF Init, QuietInv, WorkerKnown
<1>. QED
  BY <1>1, <1>2, <1>3, <1>4, <1>5 DEF ClientInv

\* It holds in every reachable state.
LEMMA AlwaysClientInv == Spec => []ClientInv
<1>1. ClientInv /\ [Next]_vars => ClientInv'
  BY TypeNext, LockNext, OutcomeNext, UnspawnedNext, SentNext, AnswerNext, HandleNext,
     OwnNext, QuietNext, KnownNext DEF ClientInv
<1>. QED
  BY <1>1, ClientInit, PTL DEF Spec

\* No request is executed twice, by one worker or by two, whatever fails and
\* whoever retries: a request is written once, to one process, and what that
\* does not read dies with it (DirectHardwareClient, lines 32-35).
THEOREM ExecutedAtMostOnce == Spec => []AtMostOnce
<1>1. ClientInv => AtMostOnce
  BY DEF ClientInv, SentInv, AtMostOnce
<1>. QED
  BY <1>1, AlwaysClientInv, PTL

\* A call that returns a result was executed by the worker: an answer left in
\* a pipe or in the queue by another request never passes for its own
\* (request, the comparison of the request ids).
THEOREM AnswersAreOwn == Spec => []OwnAnswer
<1>1. ClientInv => OwnAnswer
  BY DEF ClientInv, AnswerInv, OwnAnswer
<1>. QED
  BY <1>1, AlwaysClientInv, PTL

\* Whoever takes the lock finds a worker with nothing unread, unfinished or
\* unanswered, whatever the calls before it gave up on and whichever consumers
\* stopped a process meanwhile (request, _terminate, _clear_process).
THEOREM NothingLeftOutstanding == Spec => []NothingOutstanding
<1>1. ClientInv => NothingOutstanding
  BY DEF ClientInv, QuietInv, Quiet, NothingOutstanding
<1>. QED
  BY <1>1, AlwaysClientInv, PTL

\* As long as no stream is left early, no worker is lost: the only live
\* process is the one of the handle (_ensure_started, _terminate under the
\* request lock).
THEOREM WorkerAlwaysKnown == Spec => []WorkerKnown
<1>1. ClientInv => WorkerKnown
  BY DEF ClientInv
<1>. QED
  BY <1>1, AlwaysClientInv, PTL
=============================================================================
