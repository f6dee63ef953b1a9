---------------------------- MODULE DirectClient ----------------------------
(***************************************************************************)
(* DirectHardwareClient (openagent_engine/device_runtime.py): the requests *)
(* of the host's threads share one worker process over its pipes.          *)
(*                                                                         *)
(* A request thread holds _request_lock from its start to its outcome;     *)
(* _lifecycle_lock is taken only under it and adds nothing.  A stream has  *)
(* a second thread, the consumer of the generator, which stops the worker  *)
(* without any lock when it leaves before the request thread has set       *)
(* `finished'.  A reader thread per process moves responses to the queue.  *)
(*                                                                         *)
(* Abstractions.  A process is named by the request that spawned it (each  *)
(* spawns at most one).  Every sleep, join and wait is an interleaving     *)
(* point; a deadline may pass at any time.  terminate, wait and kill are   *)
(* one step, and so are the closing of the pipes, `_process = None' and    *)
(* the draining of the queue.                                              *)
(***************************************************************************)
EXTENDS Integers, Sequences, FiniteSets

CONSTANTS
  Requests,    \* the calls of request() and close(), each made once
  Streams,     \* those made by stream_generate
  MaxEvents,   \* bound: events of one stream
  NoRequest,
  NoProcess

ASSUME ClientAssumption ==
  /\ Streams \subseteq Requests
  /\ MaxEvents \in Nat
  /\ NoRequest \notin Requests
  /\ NoProcess \notin Requests

VARIABLES
  proc,       \* self._process
  running,    \* processes that have not exited
  closed,     \* processes whose pipes the client has closed
  stdin,      \* stdin[p]: requests written to p and not read by it
  busy,       \* busy[p]: the request that p executes
  stdout,     \* stdout[p]: responses of p not yet moved to the queue
  queue,      \* self._responses
  lock,       \* the holder of self._request_lock
  pc,         \* pc[r]: where r's thread is
  seen,       \* seen[r]: the local variable `process' of r's thread
  outcome,    \* outcome[r]: what r's call returned or raised
  executed,   \* executed[r]: how often a worker started to execute r
  events,     \* events[s]: the queue of stream s
  finished,   \* the streams whose `finished' is set
  cpc,        \* cpc[s]: where s's consumer is
  cseen       \* cseen[s]: its local variable `process'

workerVars == <<running, stdin, busy, stdout, executed>>
clientVars == <<proc, closed, queue>>
callVars == <<lock, pc, seen, outcome>>
streamVars == <<events, finished, cpc, cseen>>
vars == <<workerVars, clientVars, callVars, streamVars>>

Responses == [to : Requests, kind : {"event", "ok", "error"}]
Steps == {"new", "closing", "spawn", "send", "write", "wait",
          "kill", "leave", "set", "over"}
ConsumerSteps == {"reading", "yielded", "finally", "kill", "clear", "closing",
                  "stopped", "over"}

Init ==
  /\ proc = NoProcess /\ running = {} /\ closed = {}
  /\ stdin = [p \in Requests |-> <<>>]
  /\ busy = [p \in Requests |-> NoRequest]
  /\ stdout = [p \in Requests |-> <<>>]
  /\ queue = <<>> /\ lock = NoRequest
  /\ pc = [r \in Requests |-> "new"]
  /\ seen = [r \in Requests |-> NoProcess]
  /\ outcome = [r \in Requests |-> "none"]
  /\ executed = [r \in Requests |-> 0]
  /\ events = [s \in Streams |-> <<>>]
  /\ finished = {}
  /\ cpc = [s \in Streams |-> "reading"]
  /\ cseen = [s \in Streams |-> NoProcess]

-----------------------------------------------------------------------------
Goto(r, step) == pc' = [pc EXCEPT ![r] = step]
Outcome(r, what) == outcome' = [outcome EXCEPT ![r] = what]

\* A process ends, with what it had not read and not finished.
Exits(p) ==
  /\ running' = running \ {p}
  /\ stdin' = [q \in Requests |-> IF q = p THEN <<>> ELSE stdin[q]]
  /\ busy' = [q \in Requests |-> IF q = p THEN NoRequest ELSE busy[q]]

\* _clear_process after the join: pipes closed, handle forgotten, queue
\* drained.  A reader that outlived the join may still hold one line.
ClearProcess(p) ==
  /\ proc' = NoProcess
  /\ queue' = <<>>
  /\ closed' = closed \cup ({p} \ {NoProcess})
  /\ \/ stdout' = [q \in Requests |-> IF q = p THEN <<>> ELSE stdout[q]]
     \/ /\ p \in Requests /\ stdout[p] # <<>>
        /\ stdout' = [stdout EXCEPT ![p] = <<Head(@)>>]

\* Faulty variant: the request lock is not taken.
AcquireUnlocked(r) ==
  /\ pc[r] = "new"
  /\ lock' = r
  /\ IF proc \in running
     THEN Goto(r, "send") /\ UNCHANGED seen
     ELSE Goto(r, "closing") /\ seen' = [seen EXCEPT ![r] = proc]
  /\ UNCHANGED <<workerVars, clientVars, outcome, streamVars>>

\* request takes the lock and looks for a live worker (_ensure_started);
\* what a dead one left is cleared first.
Acquire(r) ==
  /\ pc[r] = "new" /\ lock = NoRequest
  /\ lock' = r
  /\ IF proc \in running
     THEN Goto(r, "send") /\ UNCHANGED seen
     ELSE Goto(r, "closing") /\ seen' = [seen EXCEPT ![r] = proc]
  /\ UNCHANGED <<workerVars, clientVars, outcome, streamVars>>

\* close takes the lock and asks the worker to shut down; if that fails the
\* worker is stopped, so both end like _terminate.
Close(r) ==
  /\ pc[r] = "new" /\ lock = NoRequest
  /\ r \notin Streams
  /\ lock' = r
  /\ seen' = [seen EXCEPT ![r] = proc]
  /\ Outcome(r, "closed") /\ Goto(r, "kill")
  /\ UNCHANGED <<workerVars, clientVars, streamVars>>

\* _terminate by the holder of the lock, up to the join of _clear_process:
\* nobody else can start a process, so both read the same handle.  The
\* worker that obeys a shutdown is the one close saw.
Kill(r) ==
  /\ pc[r] = "kill"
  /\ \/ Exits(proc)
     \/ outcome[r] = "closed" /\ Exits(seen[r])
  /\ seen' = [seen EXCEPT ![r] = proc]
  /\ Goto(r, "closing")
  /\ UNCHANGED <<stdout, executed, clientVars, lock, outcome, streamVars>>

ClearEnd(r) ==
  /\ pc[r] = "closing"
  /\ ClearProcess(seen[r])
  /\ Goto(r, IF outcome[r] = "none" THEN "spawn" ELSE "leave")
  /\ UNCHANGED <<running, stdin, busy, executed, lock, seen, outcome, streamVars>>

Spawn(r) ==
  /\ pc[r] = "spawn"
  /\ proc' = r
  /\ running' = running \cup {r}
  /\ Goto(r, "send")
  /\ UNCHANGED <<stdin, busy, stdout, executed, closed, queue, lock, seen, outcome, streamVars>>

\* No interpreter, or Popen raises OSError.
SpawnFails(r) ==
  /\ pc[r] = "spawn"
  /\ Outcome(r, "failed")
  /\ Goto(r, "leave")
  /\ UNCHANGED <<workerVars, clientVars, lock, seen, streamVars>>

\* request reads the handle; a consumer may just have forgotten it.
Send(r) ==
  /\ pc[r] = "send"
  /\ seen' = [seen EXCEPT ![r] = proc]
  /\ IF proc = NoProcess
     THEN Outcome(r, "failed") /\ Goto(r, "leave")
     ELSE UNCHANGED outcome /\ Goto(r, "write")
  /\ UNCHANGED <<workerVars, clientVars, lock, streamVars>>

\* The command is written.  A pipe the client closed raises ValueError,
\* which nobody catches; a broken pipe stops the worker.
Write(r) ==
  /\ pc[r] = "write"
  /\ IF seen[r] \in running \ closed
     THEN /\ stdin' = [stdin EXCEPT ![seen[r]] = Append(@, r)]
          /\ Goto(r, "wait") /\ UNCHANGED outcome
     ELSE /\ Outcome(r, "failed")
          /\ Goto(r, IF seen[r] \in closed THEN "leave" ELSE "kill")
          /\ UNCHANGED stdin
  /\ UNCHANGED <<running, busy, stdout, executed, clientVars, lock, seen, streamVars>>

\* A stream's queue with one entry more; once its consumer has left, nobody
\* reads it and it is kept empty.
Put(s, entry) == IF cpc[s] \in {"reading", "yielded"} THEN Append(events[s], entry) ELSE <<>>

\* Faulty variant: the request id of a response is not compared.
ReceiveUnchecked(r) ==
  /\ pc[r] = "wait" /\ queue # <<>>
  /\ queue' = Tail(queue)
  /\ IF Head(queue).kind = "event"
     THEN /\ events' = [s \in Streams |-> IF s = r THEN Put(s, "event") ELSE events[s]]
          /\ UNCHANGED <<outcome, pc>>
     ELSE /\ Outcome(r, IF Head(queue).kind = "ok" THEN "ok" ELSE "failed")
          /\ Goto(r, "leave") /\ UNCHANGED events
  /\ UNCHANGED <<workerVars, proc, closed, lock, seen, finished, cpc, cseen>>

\* The next response: another request's stops the worker, an event goes to
\* the stream, an answer ends the call.
Receive(r) ==
  /\ pc[r] = "wait" /\ queue # <<>>
  /\ queue' = Tail(queue)
  /\ \/ /\ Head(queue).to # r
        /\ Outcome(r, "failed") /\ Goto(r, "kill")
        /\ UNCHANGED events
     \/ /\ Head(queue).to = r /\ Head(queue).kind = "event"
        /\ events' = [events EXCEPT ![r] = Put(r, "event")]
        /\ UNCHANGED <<outcome, pc>>
     \/ /\ Head(queue).to = r /\ Head(queue).kind # "event"
        /\ Outcome(r, IF Head(queue).kind = "ok" THEN "ok" ELSE "failed")
        /\ Goto(r, "leave")
        /\ UNCHANGED events
  /\ UNCHANGED <<workerVars, proc, closed, lock, seen, finished, cpc, cseen>>

\* Faulty variant: a request whose worker died is sent again.
ExitedReplayed(r) ==
  /\ pc[r] = "wait" /\ queue = <<>>
  /\ seen[r] \notin running
  /\ Goto(r, "closing")
  /\ UNCHANGED <<workerVars, clientVars, lock, seen, outcome, streamVars>>

\* Nothing within a poll interval, and the process this request wrote to is
\* gone.
Exited(r) ==
  /\ pc[r] = "wait" /\ queue = <<>>
  /\ seen[r] \notin running
  /\ Outcome(r, "failed") /\ Goto(r, "leave")
  /\ UNCHANGED <<workerVars, clientVars, lock, seen, streamVars>>

\* Faulty variant: the worker is not stopped when the deadline passes.
TimeoutKeepsWorker(r) ==
  /\ pc[r] = "wait"
  /\ Outcome(r, "failed") /\ Goto(r, "leave")
  /\ UNCHANGED <<workerVars, clientVars, lock, seen, streamVars>>

Timeout(r) ==
  /\ pc[r] = "wait"
  /\ Outcome(r, "failed") /\ Goto(r, "kill")
  /\ UNCHANGED <<workerVars, clientVars, lock, seen, streamVars>>

\* What the consumer of a stream is told when its request ends.
Report(s) == Put(s, IF outcome[s] = "ok" THEN "done" ELSE "error")

\* Faulty variant: the lock is kept when the call raises.
LeaveOnSuccess(r) ==
  /\ pc[r] = "leave"
  /\ lock' = IF outcome[r] = "ok" THEN NoRequest ELSE lock
  /\ seen' = [seen EXCEPT ![r] = NoProcess]
  /\ events' = [s \in Streams |-> IF s = r THEN Report(s) ELSE events[s]]
  /\ Goto(r, IF r \in Streams THEN "set" ELSE "over")
  /\ UNCHANGED <<workerVars, clientVars, outcome, finished, cpc, cseen>>

\* The call returns or raises and gives the lock back; a stream's thread
\* puts the answer or the error, which only its consumer can see.
Leave(r) ==
  /\ pc[r] = "leave"
  /\ lock' = NoRequest
  /\ seen' = [seen EXCEPT ![r] = NoProcess]
  /\ events' = [s \in Streams |-> IF s = r THEN Report(s) ELSE events[s]]
  /\ Goto(r, IF r \in Streams THEN "set" ELSE "over")
  /\ UNCHANGED <<workerVars, clientVars, outcome, finished, cpc, cseen>>

\* Only then is the stream marked finished.
SetFinished(s) ==
  /\ pc[s] = "set"
  /\ finished' = finished \cup {s}
  /\ Goto(s, "over")
  /\ UNCHANGED <<workerVars, clientVars, lock, seen, outcome, events, cpc, cseen>>

-----------------------------------------------------------------------------
ConsumerGoto(s, step) == cpc' = [cpc EXCEPT ![s] = step]

\* The consumer takes an event and yields it.  After the last one, and after
\* an error, it is on its way to `finally' whether the caller resumes or not.
Take(s) ==
  /\ cpc[s] = "reading" /\ events[s] # <<>>
  /\ events' = [events EXCEPT ![s] = Tail(@)]
  /\ ConsumerGoto(s, IF Head(events[s]) = "event" THEN "yielded" ELSE "finally")
  /\ UNCHANGED <<workerVars, clientVars, callVars, finished, cseen>>

\* The caller asks for the next event, or closes the generator.
Resume(s) ==
  /\ cpc[s] = "yielded"
  /\ \/ ConsumerGoto(s, "reading") /\ UNCHANGED events
     \/ ConsumerGoto(s, "finally") /\ events' = [events EXCEPT ![s] = <<>>]
  /\ UNCHANGED <<workerVars, clientVars, callVars, finished, cseen>>

Finally(s) ==
  /\ cpc[s] = "finally"
  /\ ConsumerGoto(s, IF s \in finished THEN "over" ELSE "kill")
  /\ UNCHANGED <<workerVars, clientVars, callVars, events, finished, cseen>>

ConsumerKill(s) ==
  /\ cpc[s] = "kill"
  /\ Exits(proc)
  /\ ConsumerGoto(s, "clear")
  /\ UNCHANGED <<stdout, executed, clientVars, callVars, events, finished, cseen>>

ConsumerClearBegin(s) ==
  /\ cpc[s] = "clear"
  /\ cseen' = [cseen EXCEPT ![s] = proc]
  /\ ConsumerGoto(s, "closing")
  /\ UNCHANGED <<workerVars, clientVars, callVars, events, finished>>

ConsumerClearEnd(s) ==
  /\ cpc[s] = "closing"
  /\ ClearProcess(cseen[s])
  /\ ConsumerGoto(s, "stopped")
  /\ cseen' = [cseen EXCEPT ![s] = NoProcess]
  /\ UNCHANGED <<running, stdin, busy, executed, callVars, events, finished>>

-----------------------------------------------------------------------------
\* The worker reads a command and starts to execute it; a stream emits its
\* events.  What a worker prints to a closed pipe is lost.
WorkerTake(p) ==
  /\ p \in running /\ busy[p] = NoRequest /\ stdin[p] # <<>>
  /\ LET r == Head(stdin[p]) IN
     /\ busy' = [busy EXCEPT ![p] = r]
     /\ executed' = [executed EXCEPT ![r] = @ + 1]
     /\ \E n \in 0..(IF r \in Streams /\ p \notin closed THEN MaxEvents ELSE 0) :
          stdout' = [stdout EXCEPT ![p] = @ \o [i \in 1..n |-> [to |-> r, kind |-> "event"]]]
  /\ stdin' = [stdin EXCEPT ![p] = Tail(@)]
  /\ UNCHANGED <<running, clientVars, callVars, streamVars>>

WorkerAnswer(p) ==
  /\ p \in running /\ busy[p] # NoRequest
  /\ IF p \in closed THEN UNCHANGED stdout
     ELSE \E kind \in {"ok", "error"} :
            stdout' = [stdout EXCEPT ![p] = Append(@, [to |-> busy[p], kind |-> kind])]
  /\ busy' = [busy EXCEPT ![p] = NoRequest]
  /\ UNCHANGED <<running, stdin, executed, clientVars, callVars, streamVars>>

\* The worker dies, or ends because its stdin does.
WorkerExit(p) ==
  /\ p \in running
  /\ Exits(p)
  /\ UNCHANGED <<stdout, executed, clientVars, callVars, streamVars>>

\* _read_stdout of p's reader thread.
Deliver(p) ==
  /\ stdout[p] # <<>>
  /\ queue' = Append(queue, Head(stdout[p]))
  /\ stdout' = [stdout EXCEPT ![p] = Tail(@)]
  /\ UNCHANGED <<running, stdin, busy, executed, proc, closed, callVars, streamVars>>

CallStep(r) ==
  \/ Acquire(r) \/ Close(r) \/ Kill(r) \/ ClearEnd(r)
  \/ Spawn(r) \/ SpawnFails(r) \/ Send(r) \/ Write(r)
  \/ Receive(r) \/ Exited(r) \/ Timeout(r) \/ Leave(r)
ConsumerStep(s) ==
  \/ Take(s) \/ Finally(s) \/ ConsumerKill(s)
  \/ ConsumerClearBegin(s) \/ ConsumerClearEnd(s)
Done ==
  /\ \A r \in Requests : pc[r] = "over" /\ stdout[r] = <<>>
  /\ UNCHANGED vars

Next ==
  \/ \E r \in Requests : CallStep(r)
  \/ \E s \in Streams : SetFinished(s) \/ ConsumerStep(s) \/ Resume(s)
  \/ \E p \in Requests : WorkerTake(p) \/ WorkerAnswer(p) \/ WorkerExit(p) \/ Deliver(p)
  \/ Done

Spec == Init /\ [][Next]_vars

\* Threads are scheduled and deadlines pass.  Nothing is assumed of the
\* worker, nor of the caller that holds a stream.
FairSpec ==
  /\ Spec
  /\ \A r \in Requests : WF_vars(CallStep(r)) /\ WF_vars(Deliver(r))
  /\ \A s \in Streams : WF_vars(SetFinished(s)) /\ WF_vars(ConsumerStep(s))

-----------------------------------------------------------------------------
\* Every variable stays within its type.
TypeOK ==
  /\ proc \in Requests \cup {NoProcess}
  /\ running \subseteq Requests
  /\ closed \subseteq Requests
  /\ stdin \in [Requests -> Seq(Requests)]
  /\ busy \in [Requests -> Requests \cup {NoRequest}]
  /\ stdout \in [Requests -> Seq(Responses)]
  /\ queue \in Seq(Responses)
  /\ lock \in Requests \cup {NoRequest}
  /\ pc \in [Requests -> Steps]
  /\ seen \in [Requests -> Requests \cup {NoProcess}]
  /\ outcome \in [Requests -> {"none", "ok", "failed", "closed"}]
  /\ executed \in [Requests -> Nat]
  /\ events \in [Streams -> Seq({"event", "done", "error"})]
  /\ finished \subseteq Streams
  /\ cpc \in [Streams -> ConsumerSteps]
  /\ cseen \in [Streams -> Requests \cup {NoProcess}]

\* A worker starts to execute a request at most once, whatever fails: a
\* request is never replayed (the class documentation, lines 32-35).
AtMostOnce == \A r \in Requests : executed[r] <= 1

\* A call that returns a result was executed: no late response of another
\* request, left in a pipe or in the queue, passes for its answer.
OwnAnswer ==
  \A r \in Requests : outcome[r] = "ok" => executed[r] = 1

\* When the lock is free and the client has a live worker, that worker has
\* nothing unread, unfinished or unanswered: a request that gives up on its
\* answer takes the worker down with it.  The check of the response order
\* rests on it.
NothingOutstanding ==
  /\ TypeOK
  /\ (lock = NoRequest /\ proc \in running) =>
       stdin[proc] = <<>> /\ busy[proc] = NoRequest /\ stdout[proc] = <<>>

\* Streams whose consumer has stopped, or is about to stop, a worker.
Stopping == {s \in Streams : cpc[s] \in {"kill", "clear", "closing", "stopped"}}

\* The client knows every worker process it started, as long as no stream
\* is left early: the request lock alone keeps requests, timeouts and close
\* from starting a second one or losing the first.
WorkerKnown == Stopping = {} => running \subseteq {proc}

\* Every call ends, with a result or an error, whatever the worker does and
\* whoever clears the process or drains the queue meanwhile.
CallsEnd == <>(\A r \in Requests : pc[r] = "over")

\* A consumer that waits for an event gets one or learns how the stream
\* ended; it is never left waiting for a queue nobody fills.
ConsumerServed ==
  \A s \in Streams : cpc[s] = "reading" ~> cpc[s] # "reading"

\* Nobody is left waiting: neither the thread of a call nor the consumer of a
\* stream (request, stream_generate).
EveryoneServed == CallsEnd /\ ConsumerServed

\* What device_runtime.py:4-5 and 30 say: one long-lived child owns the
\* devices.  Two live processes would each hold compiled models.
OneWorker == Cardinality(running) <= 1
=============================================================================
