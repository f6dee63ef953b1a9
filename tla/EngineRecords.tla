---------------------------- MODULE EngineRecords ----------------------------
(***************************************************************************)
(* The engine's operations on models (openagent_engine/runtime.py) over    *)
(* the worker's sessions and the tables of the store (storage.py).  Host   *)
(* threads call them side by side; the worker serves one command at a      *)
(* time, every write is a transaction of its own, and an audit event is    *)
(* one more.  The worker's commands and all writes may raise; the worker   *)
(* or the whole process may end between two steps.                         *)
(*                                                                         *)
(* Abstractions.  All calls are about one model file, so its fingerprint   *)
(* is left out.  A plan's id is a digest of what was planned, of which     *)
(* only the preferred device can differ between calls here.  Rows are      *)
(* never deleted by the code.                                              *)
(***************************************************************************)
EXTENDS WorkerSessions, Sequences, SequencesExt

CONSTANTS
  Threads,   \* host threads
  Projects,
  MaxCalls   \* calls made in all: a bound of the instance

\* Callers know neither the ids nor the configuration that calibrate gives its
\* own sessions.
ASSUME EngineAssumption ==
  /\ None \notin Devices \cup Ids \cup Projects
  /\ \A d \in Devices : CalibrationName(d) \notin Names
  /\ CalibrationConfig \notin Configs \cup {None} /\ None \notin Configs
  /\ MaxCalls \in Nat

VARIABLES
  inspected,     \* projects with a row in adaptive_models
  calibrations,  \* adaptive_model_calibrations, in the order of created_at
  plans,         \* plans[d]: the project in the row of the plan that prefers d
                 \* (d = None: no device), or None for no row
  call,          \* call[t]: the step, operation and local variables of a thread
  calls,         \* calls begun
  promised,      \* history: promised[n] is the device the worker last answered
                 \* for id n, or None since an unload or the worker's end
  repeated,      \* history: a calibration met a session kept by an earlier one
  overlapped,    \* history: a calibration began while another was unrecorded,
                 \* or was never recorded
  listed         \* history: <<project, device>> of plans whose row was written

rowVars == <<inspected, calibrations, plans, listed>>
vars == <<workerVars, rowVars, call, calls, promised, repeated, overlapped>>

Operations == {"inspect", "compile", "calibrate", "load", "use", "unload"}
Steps == {"idle", "save", "row", "audit"}
Idle == [step |-> "idle", op |-> None, project |-> None, device |-> None, keep |-> None]
Calls == [step : Steps \ {"idle"}, op : Operations, project : Projects,
          device : Devices \cup {None}, keep : Names \cup {None}]

\* Every variable has its type; a thread's step belongs to its operation.
TypeOK ==
  /\ WorkerTypeOK
  /\ inspected \subseteq Projects
  /\ calibrations \in Seq([project : Projects, device : Devices, keep : Names \cup {None}])
  /\ plans \in [Devices \cup {None} -> Projects \cup {None}]
  /\ call \in [Threads -> Calls \cup {Idle}]
  /\ calls \in 0..MaxCalls
  /\ promised \in [Names -> Devices \cup {None}]
  /\ repeated \in BOOLEAN /\ overlapped \in BOOLEAN
  /\ listed \subseteq Projects \X (Devices \cup {None})

Init ==
  /\ WorkerInit
  /\ inspected = {} /\ calibrations = <<>> /\ listed = {}
  /\ plans = [d \in Devices \cup {None} |-> None]
  /\ call = [t \in Threads |-> Idle]
  /\ calls = 0
  /\ promised = [n \in Names |-> None]
  /\ repeated = FALSE /\ overlapped = FALSE

-----------------------------------------------------------------------------
\* A call's first step ends with the thread at the given step.
Began(t, op, q, step, device, keep) ==
  /\ call[t] = Idle /\ calls < MaxCalls
  /\ calls' = calls + 1
  /\ call' = [call EXCEPT ![t] = [step |-> step, op |-> op, project |-> q,
                                  device |-> device, keep |-> keep]]

\* ... or with an exception.
BeganInVain(t) ==
  /\ call[t] = Idle /\ calls < MaxCalls
  /\ calls' = calls + 1
  /\ UNCHANGED call

Goto(t, step) == call' = [call EXCEPT ![t].step = step]
Return(t) == call' = [call EXCEPT ![t] = Idle]
At(t, op, step) == call[t].op = op /\ call[t].step = step

\* Any operation that raises before it changes anything: an unknown device or
\* model, a session that is not resident, a compilation or a worker that fails.
Refused(t) ==
  /\ BeganInVain(t)
  /\ UNCHANGED <<workerVars, rowVars, promised, repeated, overlapped>>

\* load_direct_model, load_direct_llm: the worker's answer, then the event.
Load(t, q) ==
  \E n \in Names, kind \in Kinds, d \in Devices, c \in Configs :
    /\ LoadHit(n, kind, d, c) \/ LoadMiss(n, kind, d, c)
    /\ promised' = [promised EXCEPT ![n] = d]
    /\ Began(t, "load", q, "audit", d, n)
    /\ UNCHANGED <<rowVars, repeated, overlapped>>

\* infer_direct, generate_direct, benchmark_direct_model on a resident id.
Use(t, q) ==
  \E n \in Names :
    /\ BenchmarkAnswers(n) \/ Resident(n, "llm")
    /\ Began(t, "use", q, "audit", session[models[n]].device, n)
    /\ UNCHANGED <<workerVars, rowVars, promised, repeated, overlapped>>

\* unload_direct_model.
Unload(t, q) ==
  \E n \in Names :
    /\ Unloaded(n)
    /\ promised' = [promised EXCEPT ![n] = None]
    /\ Began(t, "unload", q, "audit", None, n)
    /\ UNCHANGED <<rowVars, repeated, overlapped>>

\* The calibration meets a session that carries an id kept earlier.
Meets(compiled) ==
  \E d \in compiled : models[CalibrationName(d)] # None
                        /\ session[models[CalibrationName(d)]].id # CalibrationName(d)

Unrecorded == \E t \in Threads : At(t, "calibrate", "row")

\* calibrate_direct_model, the worker's command.
CalibrateWorker(t, q) ==
  \E compiled \in (SUBSET Devices) \ {{}}, keep \in Names \cup {None} :
    /\ repeated' = (repeated \/ Meets(compiled))
    /\ UNCHANGED rowVars
    /\ \/ \E winner \in compiled :
            /\ Calibrated(compiled, winner, keep)
            /\ promised' = [n \in Names |-> IF n = keep THEN winner ELSE promised[n]]
            /\ overlapped' = (overlapped \/ Unrecorded)
            /\ Began(t, "calibrate", q, "row", winner, keep)
       \/ /\ CalibrationFailed(compiled)
          /\ BeganInVain(t)
          /\ UNCHANGED <<promised, overlapped>>

\* Faulty variant: the row names the reference device.
CalibrateRowReference(t) ==
  /\ At(t, "calibrate", "row")
  /\ \E d \in Devices : calibrations' = Append(calibrations,
                             [project |-> call[t].project, device |-> d,
                              keep |-> call[t].keep])
  /\ Goto(t, "audit")
  /\ UNCHANGED <<workerVars, inspected, plans, listed, calls, promised, repeated,
                 overlapped>>

\* ... its row: the store may raise, and the winner stays resident.
CalibrateRow(t) ==
  /\ At(t, "calibrate", "row")
  /\ \/ /\ calibrations' = Append(calibrations,
                             [project |-> call[t].project, device |-> call[t].device,
                              keep |-> call[t].keep])
        /\ Goto(t, "audit")
        /\ UNCHANGED overlapped
     \/ /\ Return(t)
        /\ overlapped' = TRUE
        /\ UNCHANGED calibrations
  /\ UNCHANGED <<workerVars, inspected, plans, listed, calls,
                 promised, repeated>>

-----------------------------------------------------------------------------
\* Faulty variant: the latest calibration of any project.
LatestOfAll(q) ==
  IF calibrations = <<>> THEN None ELSE Last(calibrations).device

\* _calibrated_profile_device: of the project's rows, the last.
Latest(q) ==
  LET own == {i \in DOMAIN calibrations : calibrations[i].project = q}
  IN  IF own = {} THEN None
      ELSE calibrations[CHOOSE i \in own : \A j \in own : j <= i].device

\* compile_model: the preferred device is read, then all is computed ...
CompileRead(t, q) ==
  /\ Began(t, "compile", q, "save", Latest(q), None)
  /\ UNCHANGED <<workerVars, rowVars, promised, repeated, overlapped>>

\* ... the model saved (_save_model) ...
CompileSave(t) ==
  /\ At(t, "compile", "save")
  /\ \/ inspected' = inspected \cup {call[t].project} /\ Goto(t, "row")
     \/ UNCHANGED inspected /\ Return(t)
  /\ UNCHANGED <<workerVars, calibrations, plans, listed, calls,
                 promised, repeated, overlapped>>

\* ... and the plan: a row of the same id is updated, all but its project.
CompileRow(t) ==
  /\ At(t, "compile", "row")
  /\ \/ /\ plans' = [plans EXCEPT ![call[t].device] = IF @ = None THEN call[t].project ELSE @]
        /\ listed' = listed \cup {<<call[t].project, call[t].device>>}
        /\ Goto(t, "audit")
     \/ UNCHANGED <<plans, listed>> /\ Return(t)
  /\ UNCHANGED <<workerVars, inspected, calibrations, calls,
                 promised, repeated, overlapped>>

\* inspect_model: the model's row.
Inspect(t, q) ==
  /\ inspected' = inspected \cup {q}
  /\ Began(t, "inspect", q, "audit", None, None)
  /\ UNCHANGED <<workerVars, calibrations, plans, listed, promised, repeated, overlapped>>

\* _audit, at the end of every operation.  When it raises the caller gets the
\* exception for an operation that was done.
Audit(t) ==
  /\ call[t].step = "audit"
  /\ Return(t)
  /\ UNCHANGED <<workerVars, rowVars, calls, promised, repeated, overlapped>>

-----------------------------------------------------------------------------
\* The worker process ends; the next request starts another.
WorkerEnds ==
  /\ WorkerLost
  /\ promised' = [n \in Names |-> None]
  /\ UNCHANGED <<rowVars, call, calls, repeated, overlapped>>

\* The host process ends, and the worker with it (_exit_when_parent_stops).
Crash ==
  /\ WorkerLost
  /\ promised' = [n \in Names |-> None]
  /\ call' = [t \in Threads |-> Idle]
  /\ UNCHANGED <<rowVars, calls, repeated, overlapped>>

Next ==
  \/ \E t \in Threads, q \in Projects :
       Load(t, q) \/ Use(t, q) \/ Unload(t, q) \/ CalibrateWorker(t, q)
         \/ CompileRead(t, q) \/ Inspect(t, q)
  \/ \E t \in Threads : Refused(t) \/ CalibrateRow(t) \/ CompileSave(t) \/ CompileRow(t) \/ Audit(t)
  \/ WorkerEnds
  \/ Crash

Spec == Init /\ [][Next]_vars

-----------------------------------------------------------------------------
\* An id for which the worker answered with a device, by a load or a kept
\* calibration, has that session, which answers infer and benchmark under
\* this id: unless a calibration was repeated over a session kept earlier
\* (worker.py, calibrate and benchmark).
KeptUnlessRepeated ==
  /\ TypeOK
  /\ ~repeated => \A n \in Names : promised[n] # None =>
                 /\ models[n] # None
                 /\ session[models[n]].device = promised[n]
                 /\ session[models[n]].id = n

\* The session a calibration kept is on the device that the latest
\* calibration row names for that id, while calibrations do not overlap, all
\* of them are recorded and none is repeated: what compile_model prefers is
\* what is resident (runtime.py, calibrate_direct_model).
RecordMatchesSession ==
  (~repeated /\ ~overlapped /\ ~Unrecorded) =>
    \A n \in Names :
      models[n] # None /\ session[models[n]].config = CalibrationConfig =>
        \E i \in DOMAIN calibrations :
          /\ calibrations[i].keep = n
          /\ calibrations[i].device = session[models[n]].device
          /\ \A j \in DOMAIN calibrations : calibrations[j].keep = n => j <= i

\* A plan is listed in a project that compiled it, has the row of its model
\* there, and prefers no device that the project has not calibrated
\* (runtime.py, compile_model), whatever overlaps or dies in between.
PlanBacked ==
  \A d \in Devices \cup {None} : plans[d] # None =>
    /\ <<plans[d], d>> \in listed
    /\ plans[d] \in inspected
    /\ d # None => \E i \in DOMAIN calibrations :
                     calibrations[i].project = plans[d] /\ calibrations[i].device = d

\* docs/ENGINE_API.md: projects keep their plans separated, so that a plan that
\* was compiled in a project is listed there.  compile_model's update of an
\* existing row leaves the project that first compiled it.
PlansSeparate == \A entry \in listed : plans[entry[2]] = entry[1]
=============================================================================
