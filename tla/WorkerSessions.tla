---------------------------- MODULE WorkerSessions ----------------------------
(***************************************************************************)
(* The resident sessions of the accelerator worker                         *)
(* (openagent_engine/worker.py, HardwareWorker).  The worker executes one  *)
(* command at a time and nothing else reads its table, so a command is one *)
(* step; what a failing command leaves behind is part of that step.        *)
(*                                                                         *)
(* A session is an object that the table may hold under several ids, and   *)
(* calibrate changes the id a session carries.  An object is named by the  *)
(* id under which it was made: a load puts its object under that id only,  *)
(* and a calibration's stays under its own id for as long as it is under   *)
(* any, so no two objects in the table have one name.                      *)
(*                                                                         *)
(* Abstractions.  There is one model file, which generic sessions load and *)
(* calibrate measures, and one directory of a language model: the kind of  *)
(* a session tells its path.  A configuration stands for its fingerprint;  *)
(* calibration's own, with its cache directory, equals no caller's.        *)
(***************************************************************************)
EXTENDS Naturals, FiniteSets

CONSTANTS
  Devices,   \* devices that OpenVINO exposes
  Names,     \* session ids that callers choose
  Configs,   \* configurations that callers choose
  None

CalibrationName(d) == <<"calibration", d>>
CalibrationConfig == "calibration"

Ids == Names \cup {CalibrationName(d) : d \in Devices}
Kinds == {"generic", "llm"}
Gone == [id |-> None, kind |-> None, device |-> None, config |-> None]
Sessions ==
  [id : Ids, kind : Kinds, device : Devices, config : Configs \cup {CalibrationConfig}]

VARIABLES
  models,    \* models[n]: the object under id n, or None (HardwareWorker.models)
  session    \* session[o]: the fields of the object made under id o, or Gone

workerVars == <<models, session>>

WorkerTypeOK ==
  /\ models \in [Ids -> Ids \cup {None}]
  /\ session \in [Ids -> Sessions \cup {Gone}]
  /\ \A o \in Ids : session[o] # Gone <=> \E n \in Ids : models[n] = o

WorkerInit ==
  /\ models = [n \in Ids |-> None]
  /\ session = [o \in Ids |-> Gone]

-----------------------------------------------------------------------------
\* An object that no id names is collected, and its native model with it.
Collected(table, fields) ==
  [o \in Ids |-> IF \E n \in Ids : table[n] = o THEN fields[o] ELSE Gone]

\* Is the session under id n the one that a load would make?
Same(n, kind, device, config) ==
  /\ models[n] # None
  /\ LET s == session[models[n]]
     IN  s.kind = kind /\ s.device = device /\ s.config = config

\* load_generic and load_llm that find their session resident.
LoadHit(n, kind, device, config) ==
  /\ Same(n, kind, device, config)
  /\ UNCHANGED workerVars

\* ... that compile the model and put it under the id, whatever was there.
LoadMiss(n, kind, device, config) ==
  /\ ~Same(n, kind, device, config)
  /\ models' = [models EXCEPT ![n] = n]
  /\ session' = Collected(models', [session EXCEPT ![n] =
                   [id |-> n, kind |-> kind, device |-> device, config |-> config]])

\* _generic and _llm: a session of the kind under the id.
Resident(n, kind) == models[n] # None /\ session[models[n]].kind = kind

\* benchmark repeats infer under the id its session carries.
BenchmarkAnswers(n) ==
  Resident(n, "generic") /\ Resident(session[models[n]].id, "generic")

\* unload drops the id, which may leave the object under another.
Unloaded(n) ==
  /\ models' = [models EXCEPT ![n] = None]
  /\ session' = Collected(models', session)

-----------------------------------------------------------------------------
\* calibrate, its loads: one per device that compiles, under the device's
\* own id; a device calibrated before still has its session there.
Opened(compiled) ==
  LET made == {d \in compiled : ~Same(CalibrationName(d), "generic", d, CalibrationConfig)}
      names == {CalibrationName(d) : d \in made}
  IN  [table |-> [n \in Ids |-> IF n \in names THEN n ELSE models[n]],
       fields |-> [o \in Ids |-> IF o \in names
                                 THEN [id |-> o, kind |-> "generic", device |-> o[2],
                                       config |-> CalibrationConfig]
                                 ELSE session[o]]]

\* Faulty variant: the winner's calibration session goes like the others.
DroppedAll(compiled, winner, keep) == compiled

\* The devices whose sessions calibrate drops at the end.
Dropped(compiled, winner, keep) ==
  IF keep = None THEN compiled ELSE compiled \ {winner}

\* calibrate, its end: the winner takes the id to keep, and every other
\* session is dropped under the id it carries by then.
Calibrated(compiled, winner, keep) ==
  LET open == Opened(compiled)
      Object(d) == open.table[CalibrationName(d)]
      fields == IF keep = None THEN open.fields
                ELSE [open.fields EXCEPT ![Object(winner)].id = keep]
      popped == {fields[Object(d)].id : d \in Dropped(compiled, winner, keep)}
  IN  /\ models' = [n \in Ids |-> IF n \in popped THEN None
                                  ELSE IF n = keep THEN Object(winner)
                                  ELSE open.table[n]]
      /\ session' = Collected(models', fields)

\* calibrate that raises after its loads, because an inference fails or no
\* device's output is valid: what it loaded stays.
CalibrationFailed(compiled) ==
  LET open == Opened(compiled)
  IN  /\ models' = open.table
      /\ session' = Collected(models', open.fields)

\* The worker process ends, of its own, with its parent, or because a request
\* ran out of time: nothing is resident in the next one.
WorkerLost ==
  /\ models' = [n \in Ids |-> None]
  /\ session' = [o \in Ids |-> Gone]
=============================================================================
