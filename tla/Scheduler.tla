------------------------------- MODULE Scheduler -------------------------------
(***************************************************************************)
(* DeadlineBatchScheduler (openagent_engine/scheduler.py): requests are    *)
(* ranked by priority, age, deadline and phase, and the best-ranked one    *)
(* chooses which others may share its batch.  The queue is behind a lock,  *)
(* but the clock is read before the lock is taken: by the caller that      *)
(* builds a request, and by the host that asks for a batch.  Handing out a *)
(* batch reserves nothing: the hosts that take batches and complete steps  *)
(* do so side by side, while requests are submitted and cancelled.         *)
(*                                                                         *)
(* Abstractions.  Times are in milliseconds and scores in thousandths of a *)
(* point, so every term of the score is an integer (a deadline's is        *)
(* rounded down).  The two clock readings of one caller, for the deadline  *)
(* and for the age, are one.                                               *)
(***************************************************************************)
EXTENDS Integers, Sequences, FiniteSets, FiniteSetsExt

CONSTANTS
  Shapes,       \* records [priority, phase, model, due, tokens]: what is asked,
                \* due after how many milliseconds (0: no deadline)
  Callers,      \* callers of queue_request
  Hosts,        \* callers that take batches
  MaxBatchSize, \* max_batch_size
  Reserve,      \* interactive_reserve
  MaxSubmits,   \* bound: requests submitted in all
  Waits,        \* bound: by how much the clock advances between two steps
  MaxTime       \* bound: the clock

\* What is assumed of the constants.
ASSUME SchedulerAssumption ==
  /\ MaxBatchSize \in Nat \ {0} /\ Reserve \in 0..MaxBatchSize
  /\ MaxSubmits \in Nat /\ MaxTime \in Nat /\ Waits \subseteq Nat
  /\ \A s \in Shapes : s.priority \in {10, 30, 50, 80, 100} /\ s.due \in Nat
                       /\ s.tokens \in Nat \ {0}

VARIABLES
  queue,     \* _requests: a function of the ids that are queued
  sequence,  \* _sequence
  now,
  arriving,  \* arriving[c]: the request c has built and not yet submitted
  asking,    \* asking[h]: the time that host h read for its next batch
  held       \* held[h]: ids of the batch host h works on

schedulerVars == <<queue, sequence, now, arriving, asking, held>>

SchedulerInit ==
  /\ queue = <<>>
  /\ sequence = 0
  /\ now = 0
  /\ arriving = <<>> /\ asking = <<>>
  /\ held = [h \in Hosts |-> {}]

Queued == DOMAIN queue
With(f, x, value) == [y \in DOMAIN f \cup {x} |-> IF y = x THEN value ELSE f[y]]
Without(f, x) == [y \in DOMAIN f \ {x} |-> f[y]]

-----------------------------------------------------------------------------
Smaller(m, n) == IF m < n THEN m ELSE n

\* Two points a second, for ten minutes at most.
Patience == 600000
AgeTerm(request, t) ==
  2 * (IF t < request.submitted THEN 0 ELSE Smaller(t - request.submitted, Patience))

\* A thousand points by the seconds left, of which there is a thousandth at least.
DeadlineTerm(request, t) ==
  LET left == request.deadline - t
  IN  IF request.deadline = 0 THEN 0
      ELSE IF left <= 0 THEN 10000 * 1000 ELSE 1000000000 \div left

\* _rank at time t: the score first, then the order of submission.
Score(request, t) ==
  100 * 1000 * request.priority + AgeTerm(request, t) + DeadlineTerm(request, t)
    + (IF request.phase = "decode" THEN 250 * 1000 ELSE 0)
Before(a, b, t) ==
  \/ Score(queue[a], t) > Score(queue[b], t)
  \/ Score(queue[a], t) = Score(queue[b], t) /\ queue[a].sequence < queue[b].sequence

Interactive(r) == queue[r].priority >= 80
Compatible(r, s) == queue[r].model = queue[s].model /\ queue[r].phase = queue[s].phase

AtLeastOne(n) == IF n < 1 THEN 1 ELSE n

\* _batch_limit: of the power modes "battery" and "background", of "quiet",
\* and of the others.
BatchLimits == {AtLeastOne(MaxBatchSize \div 3), AtLeastOne(MaxBatchSize \div 2), MaxBatchSize}

\* The best-ranked of the queue, and the n best-ranked of a set.
Anchor(t) == CHOOSE r \in Queued : \A s \in Queued \ {r} : Before(r, s, t)
Best(S, n, t) == {r \in S : Cardinality({s \in S : Before(s, r, t)}) < n}

\* Faulty variant: the reserve is taken before it is known what fits the anchor.
BatchAnyInteractive(limit, t) ==
  LET anchor == Anchor(t)
      first == Best({r \in Queued : Interactive(r)}, Smaller(limit, Reserve), t)
      rest == {r \in Queued : Compatible(r, anchor)} \ first
  IN  first \cup Best(rest, limit - Cardinality(first), t)

\* next_batch: of the requests that fit the best-ranked one, the anchor, first
\* the reserved number of interactive ones, then the others by rank.
Batch(limit, t) ==
  LET anchor == Anchor(t)
      compatible == {r \in Queued : Compatible(r, anchor)}
      first == Best({r \in compatible : Interactive(r)}, Smaller(limit, Reserve), t)
      rest == compatible \ first
  IN  first \cup Best(rest, limit - Cardinality(first), t)

-----------------------------------------------------------------------------
\* queue_request: the request is built, and dated, before the lock is taken.
QueueRequest(c) ==
  /\ c \notin DOMAIN arriving
  /\ sequence + Cardinality(DOMAIN arriving) < MaxSubmits
  /\ \E s \in Shapes :
       arriving' = With(arriving, c,
         [priority |-> s.priority, phase |-> s.phase, model |-> s.model,
          deadline |-> IF s.due = 0 THEN 0 ELSE now + s.due, remaining |-> s.tokens,
          submitted |-> now, sequence |-> 0])
  /\ UNCHANGED <<queue, sequence, now, asking, held>>

\* submit, under the lock: the request gets its number.  Its id, which nothing
\* reads before, is one that is not queued; new ids are all alike, and one
\* that was queued before may come again.
Submit(c) ==
  /\ c \in DOMAIN arriving
  /\ \E r \in (1..sequence + 1) \ Queued :
       queue' = With(queue, r, [arriving[c] EXCEPT !.sequence = sequence + 1])
  /\ sequence' = sequence + 1
  /\ arriving' = Without(arriving, c)
  /\ UNCHANGED <<now, asking, held>>

\* An id that is queued is refused.
SubmitRefused(c) ==
  /\ c \in DOMAIN arriving /\ Queued # {}
  /\ arriving' = Without(arriving, c)
  /\ UNCHANGED <<queue, sequence, now, asking, held>>

Cancel ==
  /\ \E r \in Queued : queue' = Without(queue, r)
  /\ UNCHANGED <<sequence, now, arriving, asking, held>>

\* next_batch reads the clock before it takes the lock ...
ReadClock(h) ==
  /\ held[h] = {} /\ h \notin DOMAIN asking
  /\ asking' = With(asking, h, now)
  /\ UNCHANGED <<queue, sequence, now, arriving, held>>

\* ... and ranks what is queued then by the time it read.
Returns(h) == h \in DOMAIN asking /\ asking' = Without(asking, h)
NextBatch(h) ==
  /\ Returns(h)
  /\ IF Queued = {} THEN UNCHANGED held
     ELSE \E limit \in BatchLimits : held' = [held EXCEPT ![h] = Batch(limit, asking[h])]
  /\ UNCHANGED <<queue, sequence, now, arriving>>

\* Faulty variant: a step that overshoots leaves the request queued.
CompleteStepExactly(h) ==
  /\ \E r \in held[h], tokens \in 1..2 :
       /\ held' = [held EXCEPT ![h] = @ \ {r}]
       /\ IF r \notin Queued THEN UNCHANGED queue
          ELSE queue' = IF queue[r].remaining = tokens THEN Without(queue, r)
                        ELSE [queue EXCEPT ![r].remaining = IF @ > tokens THEN @ - tokens ELSE @]
  /\ UNCHANGED <<sequence, now, arriving, asking>>

\* complete_step, for one request of the batch: a KeyError if it is gone.
CompleteStep(h) ==
  /\ \E r \in held[h], tokens \in 1..2 :
       /\ held' = [held EXCEPT ![h] = @ \ {r}]
       /\ IF r \notin Queued THEN UNCHANGED queue
          ELSE queue' = IF queue[r].remaining <= tokens THEN Without(queue, r)
                        ELSE [queue EXCEPT ![r].remaining = @ - tokens]
  /\ UNCHANGED <<sequence, now, arriving, asking>>

Tick ==
  /\ \E wait \in Waits : now' = now + wait /\ now' <= MaxTime
  /\ UNCHANGED <<queue, sequence, arriving, asking, held>>

SchedulerNext ==
  \/ \E c \in Callers : QueueRequest(c) \/ Submit(c) \/ SubmitRefused(c)
  \/ \E h \in Hosts : ReadClock(h) \/ NextBatch(h) \/ CompleteStep(h)
  \/ Cancel \/ Tick

SchedulerSpec == SchedulerInit /\ [][SchedulerNext]_schedulerVars

\* The hosts go on asking for batches and completing their steps, and next_batch
\* (NextBatch, the only step that ends the asking) returns.
SchedulerFairness ==
  \A h \in Hosts : WF_asking(ReadClock(h)) /\ WF_asking(Returns(h)) /\ WF_held(CompleteStep(h))

-----------------------------------------------------------------------------
Dated(request) == request.remaining \in Nat \ {0} /\ request.submitted \in 0..now

\* Every variable has its type; what is queued has tokens left.
SchedulerTypeOK ==
  /\ Queued \subseteq 1..sequence
  /\ \A r \in Queued : Dated(queue[r]) /\ queue[r].sequence \in 1..sequence
  /\ sequence \in Nat /\ now \in 0..MaxTime
  /\ DOMAIN arriving \subseteq Callers /\ \A c \in DOMAIN arriving : Dated(arriving[c])
  /\ DOMAIN asking \subseteq Hosts /\ \A h \in DOMAIN asking : asking[h] \in 0..now
  /\ held \in [Hosts -> SUBSET (1..sequence)]

Undue(r) == queue[r].deadline = 0
Overdue(r, t) == ~Undue(r) /\ queue[r].deadline <= t
Alike(a, b) == queue[a].priority = queue[b].priority /\ queue[a].phase = queue[b].phase

\* Neither age nor phase lifts a request over one of a higher priority: that
\* takes a deadline; and no request without a deadline goes before an overdue
\* one of its priority.  Among alike requests without a deadline, the one that
\* was built and numbered first goes first however long both have waited.  When
\* two threads were dated in one order and numbered in the other, the one built
\* first goes first as long as the other has not waited ten minutes, from then
\* on the one numbered first (scheduler.py, submit and _rank).
OrderKept(t) ==
  \A a, b \in Queued :
    Undue(b) =>
      /\ Undue(a) /\ queue[a].priority > queue[b].priority => Before(a, b, t)
      /\ Overdue(a, t) /\ queue[a].priority = queue[b].priority => Before(a, b, t)
      /\ Undue(a) /\ Alike(a, b) =>
           LET built == queue[b].submitted - queue[a].submitted
               numbered == queue[a].sequence < queue[b].sequence
           IN  /\ built >= 0 /\ numbered => Before(a, b, t)
               /\ built > 0 /\ queue[a].submitted < t /\ t - queue[b].submitted < Patience
                    => Before(a, b, t)
               /\ numbered /\ t - queue[a].submitted >= Patience => Before(a, b, t)

\* Whatever time a host read before it took the lock: the batch it is given
\* fits one model and phase and its limit, is empty only when nothing is
\* queued, serves the reserved number of interactive requests that fit its
\* anchor, and passes over a better-ranked request that fits only for those;
\* the anchor itself is in it when the limit exceeds the reserve (scheduler.py,
\* next_batch).  The anchor is the first in an order that keeps OrderKept.
BatchFair ==
  /\ SchedulerTypeOK
  /\ \A h \in DOMAIN asking :
       LET t == asking[h] IN
       /\ OrderKept(t)
       /\ Queued # {} =>
            LET anchor == Anchor(t)
                fitting == {r \in Queued : Compatible(r, anchor)}
                interactive == {r \in fitting : Interactive(r)}
            IN  \A limit \in BatchLimits :
                  LET batch == Batch(limit, t)
                  IN  /\ batch \subseteq fitting
                      /\ Cardinality(batch) = Min({limit, Cardinality(fitting)})
                      /\ Cardinality(batch \cap interactive)
                           >= Min({Reserve, limit, Cardinality(interactive)})
                      /\ \A r \in batch, s \in fitting \ batch :
                           Before(s, r, t) => r \in interactive /\ Reserve > 0
                      /\ limit > Reserve => anchor \in batch

\* When no more requests come, every queued request is served to its end,
\* whichever of them the hosts meet in stale batches (complete_step).
Drained == sequence = MaxSubmits ~> Queued = {}

=============================================================================
