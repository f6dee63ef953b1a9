----------------------------- MODULE EngineProofs -----------------------------
(***************************************************************************)
(* Proofs about EngineRecords, for any devices, names, configurations,     *)
(* threads, projects and number of calls; and about Compiler, for any      *)
(* models, machines, asks and ladder that CompilerAssumption allows.       *)
(***************************************************************************)
EXTENDS EngineRecords, Compiler, FiniteSetTheorems, SequenceTheorems,
        WellFoundedInduction, TLAPS

\* The objects of a table of sessions.  A calibration's session is under its
\* own id or under none; a name has its own object or a calibration's that
\* took a name for its id, and that is under its own id as well.
Shape(table, fields) ==
  /\ \A d \in Devices :
       /\ table[CalibrationName(d)] \in {CalibrationName(d), None}
       /\ fields[CalibrationName(d)] # Gone =>
            /\ fields[CalibrationName(d)].kind = "generic"
            /\ fields[CalibrationName(d)].device = d
            /\ fields[CalibrationName(d)].config = CalibrationConfig
            /\ fields[CalibrationName(d)].id \in Names \cup {CalibrationName(d)}
  /\ \A n \in Names :
       /\ \/ table[n] \in {n, None}
          \/ \E d \in Devices : table[n] = CalibrationName(d)
       /\ fields[n] # Gone => fields[n].id = n /\ fields[n].config \in Configs
       /\ \A d \in Devices : table[n] = CalibrationName(d) =>
            /\ table[CalibrationName(d)] = CalibrationName(d)
            /\ fields[CalibrationName(d)].id \in Names

\* Every object of the table is a session.
Held(table, fields) == \A n \in Ids : table[n] # None => fields[table[n]] \in Sessions

-----------------------------------------------------------------------------
(***************************************************************************)
(* Ids, and what each command of the worker does to its sessions.          *)
(***************************************************************************)
\* The ids of callers and those of calibrations are apart.
LEMMA IdFacts ==
  /\ None \notin Ids /\ Names \subseteq Ids
  /\ \A d \in Devices : CalibrationName(d) \in Ids /\ CalibrationName(d) \notin Names
  /\ \A d \in Devices : CalibrationName(d)[2] = d
  /\ \A d, e \in Devices : CalibrationName(d) = CalibrationName(e) => d = e
  /\ \A x \in Ids : x \in Names \/ \E d \in Devices : x = CalibrationName(d)
  /\ Gone \notin Sessions
<1>1. /\ Names \subseteq Ids /\ None \notin Ids
      /\ \A d \in Devices : CalibrationName(d) \in Ids
      /\ \A x \in Ids : x \in Names \/ \E d \in Devices : x = CalibrationName(d)
  BY EngineAssumption DEF Ids
<1>2. \A d \in Devices : CalibrationName(d) \notin Names
  BY EngineAssumption
<1>3. \A d \in Devices : CalibrationName(d)[2] = d
  BY DEF CalibrationName
<1>4. Gone \notin Sessions
  BY <1>1 DEF Gone, Sessions
<1>. QED
  BY <1>1, <1>2, <1>3, <1>4

\* Collecting what no id names keeps the table sound and every named session.
LEMMA CollectedFacts ==
  ASSUME NEW table \in [Ids -> Ids \cup {None}], NEW fields,
         Held(table, fields), Shape(table, fields),
         models' = table, session' = Collected(table, fields)
  PROVE  /\ WorkerTypeOK' /\ Shape(models, session)'
         /\ \A n \in Ids : table[n] # None => session'[table[n]] = fields[table[n]]
<1>1. \A n \in Ids : table[n] # None => session'[table[n]] = fields[table[n]]
  BY DEF Collected
<1>2. ASSUME NEW o \in Ids, session'[o] # Gone
      PROVE  session'[o] = fields[o] /\ \E n \in Ids : table[n] = o
  <2>1. session'[o] = IF \E n \in Ids : table[n] = o THEN fields[o] ELSE Gone
    BY DEF Collected
  <2>. QED
    BY <1>2, <2>1
<1>3. WorkerTypeOK'
  <2>1. session' \in [Ids -> Sessions \cup {Gone}]
    <3>1. DOMAIN session' = Ids /\ session' = [o \in Ids |-> session'[o]]
      BY DEF Collected
    <3>2. \A o \in Ids : session'[o] \in Sessions \cup {Gone}
      BY <1>2, IdFacts DEF Held
    <3>. QED
      BY <3>1, <3>2
  <2>2. ASSUME NEW o \in Ids
        PROVE  session'[o] # Gone <=> \E n \in Ids : table[n] = o
    BY <1>1, <1>2, IdFacts DEF Held
  <2>. QED
    BY <2>1, <2>2 DEF WorkerTypeOK
<1>4. Shape(table, session')
  <2>1. ASSUME NEW d \in Devices
        PROVE  /\ table[CalibrationName(d)] \in {CalibrationName(d), None}
               /\ session'[CalibrationName(d)] # Gone =>
                    /\ session'[CalibrationName(d)].kind = "generic"
                    /\ session'[CalibrationName(d)].device = d
                    /\ session'[CalibrationName(d)].config = CalibrationConfig
                    /\ session'[CalibrationName(d)].id \in Names \cup {CalibrationName(d)}
    BY <1>2, IdFacts DEF Shape
  <2>2. ASSUME NEW n \in Names
        PROVE  /\ table[n] \in {n, None} \/ \E d \in Devices : table[n] = CalibrationName(d)
               /\ session'[n] # Gone => session'[n].id = n /\ session'[n].config \in Configs
    BY <1>2, IdFacts DEF Shape
  <2>3. ASSUME NEW n \in Names, NEW d \in Devices, table[n] = CalibrationName(d)
        PROVE  /\ table[CalibrationName(d)] = CalibrationName(d)
               /\ session'[CalibrationName(d)].id \in Names
    BY <2>3, <1>1, IdFacts DEF Shape
  <2>. QED
    BY <2>1, <2>2, <2>3 DEF Shape
<1>. QED
  BY <1>1, <1>3, <1>4 DEF Shape
\* The sessions that calibrate opens are made anew for the devices that had
\* none; the others, and all that callers' ids name, stay as they are.
OpenFor(compiled, table, fields) ==
  /\ table \in [Ids -> Ids \cup {None}]
  /\ \A n \in Names : table[n] = models[n] /\ fields[n] = session[n]
  /\ \A d \in Devices \ compiled :
       /\ table[CalibrationName(d)] = models[CalibrationName(d)]
       /\ fields[CalibrationName(d)] = session[CalibrationName(d)]
  /\ \A d \in compiled :
       /\ table[CalibrationName(d)] = CalibrationName(d)
       /\ fields[CalibrationName(d)] =
            IF models[CalibrationName(d)] # None THEN session[CalibrationName(d)]
            ELSE [id |-> CalibrationName(d), kind |-> "generic", device |-> d,
                  config |-> CalibrationConfig]

\* A session as calibrate makes it.
LEMMA MadeFacts ==
  ASSUME NEW d \in Devices
  PROVE  [id |-> CalibrationName(d), kind |-> "generic", device |-> d,
          config |-> CalibrationConfig] \in Sessions
<1>1. CalibrationName(d) \in Ids
  BY IdFacts
<1>. QED
  BY <1>1 DEF Sessions, Kinds

\* Opened is such an opening, and it keeps the table sound.
LEMMA OpenedFacts ==
  ASSUME WorkerTypeOK, Shape(models, session), NEW compiled \in SUBSET Devices
  PROVE  /\ OpenFor(compiled, Opened(compiled).table, Opened(compiled).fields)
         /\ Held(Opened(compiled).table, Opened(compiled).fields)
         /\ Shape(Opened(compiled).table, Opened(compiled).fields)
<1> DEFINE made == {d \in compiled : ~Same(CalibrationName(d), "generic", d, CalibrationConfig)}
           ids == {CalibrationName(d) : d \in made}
           table == [n \in Ids |-> IF n \in ids THEN n ELSE models[n]]
           fields == [o \in Ids |-> IF o \in ids
                                    THEN [id |-> o, kind |-> "generic", device |-> o[2],
                                          config |-> CalibrationConfig]
                                    ELSE session[o]]
<1>1. Opened(compiled).table = table /\ Opened(compiled).fields = fields
  BY DEF Opened
<1>2. /\ models \in [Ids -> Ids \cup {None}]
      /\ \A n \in Ids : models[n] # None => session[models[n]] \in Sessions
  BY IdFacts DEF WorkerTypeOK
<1>3. \A d \in compiled : d \in made <=> models[CalibrationName(d)] = None
  <2>1. ASSUME NEW d \in compiled, models[CalibrationName(d)] # None
        PROVE  Same(CalibrationName(d), "generic", d, CalibrationConfig)
    <3>1. CalibrationName(d) \in Ids /\ models[CalibrationName(d)] = CalibrationName(d)
      BY <2>1, IdFacts DEF Shape
    <3>2. session[CalibrationName(d)] # Gone
      BY <2>1, <3>1, <1>2, IdFacts
    <3>. QED
      BY <2>1, <3>1, <3>2 DEF Shape, Same
  <2>. QED
    BY <2>1 DEF Same
<1>4. /\ \A n \in Names : n \notin ids
      /\ \A d \in Devices : CalibrationName(d) \in ids <=> d \in made
  BY IdFacts
<1> HIDE DEF made, ids
<1>5. /\ table \in [Ids -> Ids \cup {None}]
      /\ \A n \in Ids : table[n] = IF n \in ids THEN n ELSE models[n]
  BY <1>2
<1>6. \A o \in Ids : fields[o] = IF o \in ids
                                THEN [id |-> o, kind |-> "generic", device |-> o[2],
                                      config |-> CalibrationConfig]
                                ELSE session[o]
  OBVIOUS
<1> HIDE DEF table, fields
<1>7. OpenFor(compiled, table, fields)
  <2>1. \A n \in Names : table[n] = models[n] /\ fields[n] = session[n]
    BY <1>4, <1>5, <1>6, IdFacts
  <2>2. \A d \in Devices : ~(d \in made) =>
          /\ table[CalibrationName(d)] = models[CalibrationName(d)]
          /\ fields[CalibrationName(d)] = session[CalibrationName(d)]
    BY <1>4, <1>5, <1>6, IdFacts
  <2>3. \A d \in made : d \in compiled
    BY DEF made
  <2>4. ASSUME NEW d \in compiled
        PROVE  /\ table[CalibrationName(d)] = CalibrationName(d)
               /\ fields[CalibrationName(d)] =
                    IF models[CalibrationName(d)] # None THEN session[CalibrationName(d)]
                    ELSE [id |-> CalibrationName(d), kind |-> "generic", device |-> d,
                          config |-> CalibrationConfig]
    <3>1. CASE models[CalibrationName(d)] = None
      <4>1. CalibrationName(d) \in Ids /\ CalibrationName(d) \in ids
            /\ CalibrationName(d)[2] = d
        BY <3>1, <1>3, <1>4, IdFacts
      <4>. QED
        BY <3>1, <4>1, <1>5, <1>6
    <3>2. CASE models[CalibrationName(d)] # None
      BY <3>2, <2>2, <1>3 DEF Shape
    <3>. QED
      BY <3>1, <3>2
  <2>. QED
    BY <1>5, <2>1, <2>2, <2>3, <2>4 DEF OpenFor
<1>8. Held(table, fields)
  <2>1. ASSUME NEW n \in Ids, table[n] # None
        PROVE  fields[table[n]] \in Sessions
    <3>1. CASE n \in ids
      <4>1. PICK d \in compiled : n = CalibrationName(d) /\ d \in made
        BY <3>1 DEF ids, made
      <4>. QED
        BY <4>1, <1>3, <1>7, MadeFacts DEF OpenFor
    <3>2. CASE n \notin ids
      <4>1. table[n] = models[n] /\ models[n] \in Ids /\ session[models[n]] \in Sessions
        BY <2>1, <3>2, <1>2, <1>5
      <4>2. CASE models[n] \in ids
        <5>1. PICK d \in compiled : models[n] = CalibrationName(d) /\ d \in made
          BY <4>2 DEF ids, made
        <5>2. fields[CalibrationName(d)] \in Sessions
          <6>1. models[CalibrationName(d)] = None
            BY <5>1, <1>3
          <6>. QED
            BY <6>1, <1>7, MadeFacts DEF OpenFor
        <5>. QED
          BY <4>1, <5>1, <5>2
      <4>3. CASE models[n] \notin ids
        <5>1. fields[models[n]] = session[models[n]]
          BY <4>1, <4>3, <1>6
        <5>. QED
          BY <4>1, <5>1
      <4>. QED
        BY <4>2, <4>3
    <3>. QED
      BY <3>1, <3>2
  <2>. QED
    BY <2>1 DEF Held
<1>9. Shape(table, fields)
  <2>1. ASSUME NEW d \in Devices
        PROVE  /\ table[CalibrationName(d)] \in {CalibrationName(d), None}
               /\ fields[CalibrationName(d)] # Gone =>
                    /\ fields[CalibrationName(d)].kind = "generic"
                    /\ fields[CalibrationName(d)].device = d
                    /\ fields[CalibrationName(d)].config = CalibrationConfig
                    /\ fields[CalibrationName(d)].id \in Names \cup {CalibrationName(d)}
    <3>1. CASE d \in made
      <4>1. d \in compiled /\ models[CalibrationName(d)] = None
        BY <3>1, <1>3 DEF made
      <4>2. /\ table[CalibrationName(d)] = CalibrationName(d)
            /\ fields[CalibrationName(d)] =
                 [id |-> CalibrationName(d), kind |-> "generic", device |-> d,
                  config |-> CalibrationConfig]
        BY <4>1, <1>7 DEF OpenFor
      <4>. QED
        BY <4>2
    <3>2. CASE d \notin made
      <4>1. /\ table[CalibrationName(d)] \in {models[CalibrationName(d)], CalibrationName(d)}
            /\ fields[CalibrationName(d)] = session[CalibrationName(d)]
        BY <3>2, <1>3, <1>7 DEF OpenFor
      <4>. QED
        BY <4>1 DEF Shape
    <3>. QED
      BY <3>1, <3>2
  <2>2. ASSUME NEW n \in Names
        PROVE  /\ table[n] \in {n, None} \/ \E d \in Devices : table[n] = CalibrationName(d)
               /\ fields[n] # Gone => fields[n].id = n /\ fields[n].config \in Configs
    BY <1>7 DEF OpenFor, Shape
  <2>3. ASSUME NEW n \in Names, NEW d \in Devices, table[n] = CalibrationName(d)
        PROVE  /\ table[CalibrationName(d)] = CalibrationName(d)
               /\ fields[CalibrationName(d)].id \in Names
    <3>1. /\ models[CalibrationName(d)] = CalibrationName(d)
          /\ session[CalibrationName(d)].id \in Names
      BY <2>3, <1>7 DEF OpenFor, Shape
    <3>. QED
      BY <3>1, <1>7, IdFacts DEF OpenFor
  <2>. QED
    BY <2>1, <2>2, <2>3 DEF Shape
<1>. QED
  BY <1>1, <1>7, <1>8, <1>9

\* The table before and after a command, as far as callers' ids go: of the
\* name n and of all others.
OthersKept(n) ==
  \A m \in Names \ {n} :
    /\ models'[m] = models[m]
    /\ models[m] # None => session'[models[m]] = session[models[m]]

\* A load puts a session of its own under the name and touches no other.
LEMMA LoadFacts ==
  ASSUME WorkerTypeOK, Shape(models, session),
         NEW n \in Names, NEW kind \in Kinds, NEW d \in Devices, NEW c \in Configs,
         LoadMiss(n, kind, d, c)
  PROVE  /\ WorkerTypeOK' /\ Shape(models, session)' /\ OthersKept(n)
         /\ models'[n] = n
         /\ session'[n] = [id |-> n, kind |-> kind, device |-> d, config |-> c]
<1> DEFINE made == [id |-> n, kind |-> kind, device |-> d, config |-> c]
           table == [models EXCEPT ![n] = n]
           fields == [session EXCEPT ![n] = made]
<1>1. n \in Ids /\ made \in Sessions /\ made.id = n /\ made.config = c
  BY IdFacts DEF Sessions
<1> HIDE DEF made
<1>2. /\ models \in [Ids -> Ids \cup {None}] /\ session \in [Ids -> Sessions \cup {Gone}]
      /\ \A m \in Ids : models[m] # None => session[models[m]] \in Sessions
  BY IdFacts DEF WorkerTypeOK
<1>3. /\ models' = table /\ session' = Collected(table, fields)
  BY DEF LoadMiss, made
<1>4. /\ table \in [Ids -> Ids \cup {None}]
      /\ table[n] = n /\ \A m \in Ids \ {n} : table[m] = models[m]
      /\ fields[n] = made /\ \A o \in Ids \ {n} : fields[o] = session[o]
  BY <1>1, <1>2
<1> HIDE DEF table, fields
<1>5. \A d2 \in Devices : /\ table[CalibrationName(d2)] = models[CalibrationName(d2)]
                          /\ fields[CalibrationName(d2)] = session[CalibrationName(d2)]
  BY <1>4, IdFacts
<1>6. Held(table, fields)
  BY <1>1, <1>2, <1>4 DEF Held
<1>7. Shape(table, fields)
  BY <1>1, <1>4, <1>5, IdFacts DEF Shape
<1>8. /\ WorkerTypeOK' /\ Shape(models, session)'
      /\ \A m \in Ids : table[m] # None => session'[table[m]] = fields[table[m]]
  BY <1>3, <1>4, <1>6, <1>7, CollectedFacts
<1>9. OthersKept(n)
  <2>1. ASSUME NEW m \in Names \ {n}
        PROVE  /\ table[m] = models[m]
               /\ models[m] # None => models[m] # n /\ models[m] \in Ids
    BY <1>4, IdFacts DEF Shape
  <2>2. ASSUME NEW m \in Names \ {n}, models[m] # None
        PROVE  session'[models[m]] = session[models[m]]
    <3>1. m \in Ids /\ table[m] = models[m] /\ models[m] \in Ids \ {n}
      BY <2>1, <2>2, IdFacts
    <3>. QED
      BY <2>2, <3>1, <1>4, <1>8
  <2>. QED
    BY <1>3, <2>1, <2>2 DEF OthersKept
<1>10. n # None /\ session'[n] = made
  BY <1>1, <1>4, <1>8, IdFacts
<1>. QED
  BY <1>3, <1>4, <1>8, <1>9, <1>10 DEF made

\* An unload takes the name only.
LEMMA UnloadFacts ==
  ASSUME WorkerTypeOK, Shape(models, session), NEW n \in Names, Unloaded(n)
  PROVE  WorkerTypeOK' /\ Shape(models, session)' /\ OthersKept(n) /\ models'[n] = None
<1> DEFINE table == [models EXCEPT ![n] = None]
<1>1. n \in Ids /\ n # None
  BY IdFacts
<1>2. /\ models \in [Ids -> Ids \cup {None}]
      /\ \A m \in Ids : models[m] # None => session[models[m]] \in Sessions
  BY IdFacts DEF WorkerTypeOK
<1>3. models' = table /\ session' = Collected(table, session)
  BY DEF Unloaded
<1>4. /\ table \in [Ids -> Ids \cup {None}]
      /\ table[n] = None /\ \A m \in Ids \ {n} : table[m] = models[m]
  BY <1>1, <1>2
<1> HIDE DEF table
<1>5. \A d2 \in Devices : table[CalibrationName(d2)] = models[CalibrationName(d2)]
  BY <1>4, IdFacts
<1>6. Held(table, session)
  BY <1>1, <1>2, <1>4 DEF Held
<1>7. Shape(table, session)
  BY <1>1, <1>4, <1>5, IdFacts DEF Shape
<1>8. /\ WorkerTypeOK' /\ Shape(models, session)'
      /\ \A m \in Ids : table[m] # None => session'[table[m]] = session[table[m]]
  BY <1>3, <1>4, <1>6, <1>7, CollectedFacts
<1>9. OthersKept(n)
  BY <1>3, <1>4, <1>8, IdFacts DEF OthersKept
<1>. QED
  BY <1>3, <1>4, <1>8, <1>9

\* The end of the worker leaves nothing.
LEMMA LostFacts ==
  ASSUME WorkerLost
  PROVE  WorkerTypeOK' /\ Shape(models, session)' /\ \A n \in Ids : models'[n] = None
<1>1. /\ \A n \in Ids : models'[n] = None /\ session'[n] = Gone
      /\ models' \in [Ids -> Ids \cup {None}] /\ session' \in [Ids -> Sessions \cup {Gone}]
  BY DEF WorkerLost
<1>2. WorkerTypeOK'
  BY <1>1, IdFacts DEF WorkerTypeOK
<1>3. Shape(models', session')
  BY <1>1, IdFacts DEF Shape
<1>. QED
  BY <1>1, <1>2, <1>3 DEF Shape

\* A calibration that fails touches no caller's id.
LEMMA CalibrationFailedFacts ==
  ASSUME WorkerTypeOK, Shape(models, session), NEW compiled \in SUBSET Devices,
         CalibrationFailed(compiled)
  PROVE  /\ WorkerTypeOK' /\ Shape(models, session)'
         /\ \A m \in Names : /\ models'[m] = models[m]
                             /\ models[m] # None => session'[models[m]] = session[models[m]]
<1> DEFINE table == Opened(compiled).table
           fields == Opened(compiled).fields
<1>1. models' = table /\ session' = Collected(table, fields)
  BY DEF CalibrationFailed
<1>2. OpenFor(compiled, table, fields) /\ Held(table, fields) /\ Shape(table, fields)
  BY OpenedFacts
<1> HIDE DEF table, fields
<1>3. table \in [Ids -> Ids \cup {None}]
  BY <1>2 DEF OpenFor
<1>4. /\ WorkerTypeOK' /\ Shape(models, session)'
      /\ \A m \in Ids : table[m] # None => session'[table[m]] = fields[table[m]]
  BY <1>1, <1>2, <1>3, CollectedFacts
<1>5. ASSUME NEW m \in Names, models[m] # None
      PROVE  session'[models[m]] = session[models[m]]
  <2>1. m \in Ids /\ table[m] = models[m]
    BY <1>2, IdFacts DEF OpenFor
  <2>2. CASE models[m] = m
    BY <1>2, <1>4, <1>5, <2>1, <2>2 DEF OpenFor
  <2>3. ASSUME NEW d \in Devices, models[m] = CalibrationName(d)
        PROVE  session'[models[m]] = session[models[m]]
    <3>1. models[CalibrationName(d)] # None
      BY <1>5, <2>3 DEF Shape
    <3>2. fields[CalibrationName(d)] = session[CalibrationName(d)]
      BY <3>1, <1>2 DEF OpenFor
    <3>. QED
      BY <1>4, <1>5, <2>1, <2>3, <3>2
  <2>. QED
    BY <1>5, <2>2, <2>3 DEF Shape
<1>. QED
  BY <1>1, <1>2, <1>4, <1>5 DEF OpenFor

\* A calibration that meets no session kept by an earlier one touches no id of
\* a caller but the one to keep, which gets the winner's session.
LEMMA CalibratedFacts ==
  ASSUME WorkerTypeOK, Shape(models, session), NEW compiled \in SUBSET Devices,
         NEW winner \in compiled, NEW keep \in Names \cup {None},
         Calibrated(compiled, winner, keep)
  PROVE  /\ WorkerTypeOK' /\ Shape(models, session)'
         /\ ~Meets(compiled) =>
              /\ OthersKept(keep)
              /\ keep # None =>
                   /\ models'[keep] # None
                   /\ session'[models'[keep]].id = keep
                   /\ session'[models'[keep]].device = winner
<1> DEFINE T == Opened(compiled).table
           G == Opened(compiled).fields
           F == IF keep = None THEN G ELSE [G EXCEPT ![T[CalibrationName(winner)]].id = keep]
           popped == {F[T[CalibrationName(d)]].id : d \in Dropped(compiled, winner, keep)}
           table == [n \in Ids |-> IF n \in popped THEN None
                                   ELSE IF n = keep THEN T[CalibrationName(winner)]
                                   ELSE T[n]]
           Cal(d) == CalibrationName(d)
<1>1. models' = table /\ session' = Collected(table, F)
  BY DEF Calibrated
<1>2. OpenFor(compiled, T, G) /\ Held(T, G) /\ Shape(T, G)
  BY OpenedFacts
<1>3. DOMAIN G = Ids
  BY DEF Opened
<1> HIDE DEF T, G
<1>4. T \in [Ids -> Ids \cup {None}] /\ winner \in Devices /\ Cal(winner) \in Ids
  BY <1>2, IdFacts DEF OpenFor
<1>5. \A d \in compiled : d \in Devices /\ T[Cal(d)] = Cal(d) /\ G[Cal(d)] \in Sessions
  <2>1. ASSUME NEW d \in compiled
        PROVE  Cal(d) \in Ids /\ Cal(d) # None /\ T[Cal(d)] = Cal(d)
    BY <1>2, IdFacts DEF OpenFor
  <2>. QED
    BY <2>1, <1>2 DEF Held
<1>6. /\ \A o \in Ids \ {Cal(winner)} : F[o] = G[o]
      /\ keep = None => F[Cal(winner)] = G[Cal(winner)]
      /\ keep # None => F[Cal(winner)] = [G[Cal(winner)] EXCEPT !.id = keep]
  BY <1>3, <1>4, <1>5
<1> HIDE DEF F
<1>7. keep # None =>
        /\ F[Cal(winner)] \in Sessions /\ F[Cal(winner)].id = keep
        /\ F[Cal(winner)].kind = G[Cal(winner)].kind
        /\ F[Cal(winner)].device = G[Cal(winner)].device
        /\ F[Cal(winner)].config = G[Cal(winner)].config
  <2>1. G[Cal(winner)] \in Sessions /\ (keep # None => keep \in Ids)
    BY <1>5, IdFacts
  <2>. QED
    BY <1>6, <2>1 DEF Sessions
<1>8. \A d \in Devices : F[Cal(d)] # Gone =>
        /\ F[Cal(d)].kind = "generic" /\ F[Cal(d)].device = d
        /\ F[Cal(d)].config = CalibrationConfig
        /\ F[Cal(d)].id \in Names \cup {Cal(d)}
  <2>1. ASSUME NEW d \in Devices, F[Cal(d)] # Gone
        PROVE  /\ F[Cal(d)].kind = "generic" /\ F[Cal(d)].device = d
               /\ F[Cal(d)].config = CalibrationConfig
               /\ F[Cal(d)].id \in Names \cup {Cal(d)}
    <3>1. CASE F[Cal(d)] = G[Cal(d)]
      BY <2>1, <3>1, <1>2 DEF Shape
    <3>2. CASE d = winner /\ keep # None
      <4>1. G[Cal(winner)] # Gone
        BY <1>5, IdFacts
      <4>. QED
        BY <3>2, <4>1, <1>2, <1>7 DEF Shape
    <3>3. Cal(d) \in Ids /\ (Cal(d) = Cal(winner) => d = winner)
      BY <1>4, IdFacts
    <3>. QED
      BY <3>1, <3>2, <3>3, <1>6
  <2>. QED
    BY <2>1
<1>9. \A d \in compiled : F[Cal(d)] \in Sessions
  BY <1>4, <1>5, <1>6, <1>7, IdFacts
<1>10. ASSUME NEW x \in popped
       PROVE  \E d \in compiled : /\ x = F[Cal(d)].id /\ x \in Names \cup {Cal(d)}
                                  /\ keep # None => d # winner
  <2>1. PICK d \in Dropped(compiled, winner, keep) : x = F[T[CalibrationName(d)]].id
    OBVIOUS
  <2>2. d \in compiled /\ (keep # None => d # winner)
    BY <2>1 DEF Dropped
  <2>3. x = F[Cal(d)].id
    BY <2>1, <2>2, <1>5
  <2>. QED
    BY <2>2, <2>3, <1>5, <1>8, <1>9, IdFacts
<1> HIDE DEF popped
<1>11. /\ table \in [Ids -> Ids \cup {None}]
       /\ \A n \in Ids : table[n] = IF n \in popped THEN None
                                    ELSE IF n = keep THEN Cal(winner) ELSE T[n]
  BY <1>4, <1>5
<1> HIDE DEF table
<1>12. \A d \in Devices : F[Cal(d)].id \in Names => Cal(d) \notin popped
  <2>1. ASSUME NEW d \in Devices, F[Cal(d)].id \in Names, Cal(d) \in popped
        PROVE  FALSE
    <3>1. PICK e \in compiled : Cal(d) = F[Cal(e)].id /\ Cal(d) \in Names \cup {Cal(e)}
      BY <2>1, <1>10
    <3>2. d = e
      BY <3>1, IdFacts
    <3>. QED
      BY <2>1, <3>1, <3>2, IdFacts
  <2>. QED
    BY <2>1
<1>13. Held(table, F)
  <2>1. ASSUME NEW n \in Ids, table[n] # None, table[n] # Cal(winner)
        PROVE  F[table[n]] \in Sessions
    <3>1. table[n] = T[n] /\ T[n] \in Ids
      BY <2>1, <1>4, <1>11
    <3>. QED
      BY <2>1, <3>1, <1>2, <1>6 DEF Held
  <2>. QED
    BY <2>1, <1>9 DEF Held
<1>14. Shape(table, F)
  <2>1. ASSUME NEW d \in Devices
        PROVE  table[Cal(d)] \in {Cal(d), None}
    <3>1. Cal(d) \in Ids /\ Cal(d) # keep
      BY IdFacts
    <3>. QED
      BY <3>1, <1>2, <1>11 DEF Shape
  <2>2. ASSUME NEW n \in Names
        PROVE  /\ table[n] \in {n, None} \/ \E d \in Devices : table[n] = Cal(d)
               /\ F[n] # Gone => F[n].id = n /\ F[n].config \in Configs
    <3>1. n \in Ids /\ F[n] = G[n]
      BY <1>4, <1>6, IdFacts
    <3>. QED
      BY <3>1, <1>2, <1>4, <1>11 DEF Shape
  <2>3. ASSUME NEW n \in Names, NEW d \in Devices, table[n] = Cal(d)
        PROVE  table[Cal(d)] = Cal(d) /\ F[Cal(d)].id \in Names
    <3>1. n \in Ids /\ Cal(d) \in Ids /\ Cal(d) # keep /\ Cal(d) # None
      BY IdFacts
    <3>2. CASE n = keep
      <4>1. Cal(d) = Cal(winner) /\ d = winner /\ keep # None
        BY <2>3, <3>1, <3>2, <1>4, <1>11, IdFacts
      <4>2. F[Cal(d)].id \in Names
        BY <3>2, <4>1, <1>7
      <4>. QED
        BY <3>1, <4>1, <4>2, <1>5, <1>11, <1>12
    <3>3. CASE n # keep
      <4>1. T[n] = Cal(d)
        BY <2>3, <3>1, <3>3, <1>11
      <4>2. T[Cal(d)] = Cal(d) /\ G[Cal(d)].id \in Names
        BY <4>1, <1>2 DEF Shape
      <4>3. F[Cal(d)].id \in Names
        BY <3>1, <4>2, <1>6, <1>7
      <4>. QED
        BY <3>1, <4>2, <4>3, <1>11, <1>12
    <3>. QED
      BY <3>2, <3>3
  <2>. QED
    BY <2>1, <2>2, <2>3, <1>8 DEF Shape
<1>15. /\ WorkerTypeOK' /\ Shape(models, session)'
       /\ \A m \in Ids : table[m] # None => session'[table[m]] = F[table[m]]
  BY <1>1, <1>11, <1>13, <1>14, CollectedFacts
<1>16. ASSUME ~Meets(compiled)
       PROVE  /\ OthersKept(keep)
              /\ keep # None =>
                   /\ models'[keep] # None
                   /\ session'[models'[keep]].id = keep
                   /\ session'[models'[keep]].device = winner
  <2>1. \A d \in compiled : G[Cal(d)].id = Cal(d)
    <3>1. ASSUME NEW d \in compiled
          PROVE  G[Cal(d)].id = Cal(d)
      <4>1. CASE models[Cal(d)] = None
        <5>1. G[Cal(d)] = [id |-> Cal(d), kind |-> "generic", device |-> d,
                           config |-> CalibrationConfig]
          BY <4>1, <1>2 DEF OpenFor
        <5>. QED
          BY <5>1
      <4>2. CASE models[Cal(d)] # None
        <5>1. models[Cal(d)] = Cal(d) /\ session[Cal(d)].id = Cal(d)
          BY <4>2, <1>5, <1>16 DEF Meets, Shape
        <5>. QED
          BY <4>2, <5>1, <1>2 DEF OpenFor
      <4>. QED
        BY <4>1, <4>2
    <3>. QED
      BY <3>1
  <2>2. \A n \in Names : n \notin popped
    <3>1. ASSUME NEW n \in Names, n \in popped
          PROVE  FALSE
      <4>1. PICK d \in compiled : n = F[Cal(d)].id /\ (keep # None => d # winner)
        BY <3>1, <1>10
      <4>2. Cal(d) \in Ids /\ (Cal(d) = Cal(winner) => d = winner)
        BY <1>4, <1>5, IdFacts
      <4>3. F[Cal(d)] = G[Cal(d)]
        BY <4>1, <4>2, <1>6
      <4>. QED
        BY <4>1, <4>3, <2>1, <1>5, IdFacts
    <3>. QED
      BY <3>1
  <2>3. ASSUME NEW m \in Names \ {keep}
        PROVE  /\ table[m] = models[m]
               /\ models[m] # None => session'[models[m]] = session[models[m]]
    <3>1. m \in Ids /\ table[m] = models[m]
      BY <2>2, <1>2, <1>11, IdFacts DEF OpenFor
    <3>2. CASE models[m] = m
      BY <3>1, <3>2, <1>2, <1>4, <1>6, <1>15, IdFacts DEF OpenFor
    <3>3. ASSUME NEW d \in Devices, models[m] = Cal(d)
          PROVE  session'[models[m]] = session[models[m]]
      <4>1. models[Cal(d)] = Cal(d) /\ session[Cal(d)].id \in Names /\ Cal(d) # None
            /\ Cal(d) \in Ids /\ Cal(d) \notin Names
        BY <3>3, IdFacts DEF Shape
      <4>2. d \notin compiled
        BY <4>1, <1>16 DEF Meets
      <4>3. Cal(d) # Cal(winner)
        BY <4>2, <1>4, IdFacts
      <4>4. F[Cal(d)] = session[Cal(d)]
        BY <4>1, <4>2, <4>3, <1>2, <1>6 DEF OpenFor
      <4>. QED
        BY <3>1, <3>3, <4>1, <4>4, <1>15
    <3>. QED
      BY <3>1, <3>2, <3>3 DEF Shape
  <2>4. ASSUME keep # None
        PROVE  /\ table[keep] = Cal(winner) /\ Cal(winner) # None
               /\ session'[Cal(winner)].id = keep
               /\ session'[Cal(winner)].device = winner
    <3>1. keep \in Ids /\ table[keep] = Cal(winner) /\ Cal(winner) # None
      BY <2>2, <2>4, <1>4, <1>11, IdFacts
    <3>2. session'[Cal(winner)] = F[Cal(winner)]
      BY <3>1, <1>15
    <3>3. F[Cal(winner)] # Gone
      BY <1>9, IdFacts
    <3>. QED
      BY <2>4, <3>1, <3>2, <3>3, <1>4, <1>7, <1>8
  <2>. QED
    BY <1>1, <2>3, <2>4 DEF OthersKept
<1>. QED
  BY <1>15, <1>16

-----------------------------------------------------------------------------
(***************************************************************************)
(* The inductive invariant.                                                *)
(***************************************************************************)
AtRow(t) == At(t, "calibrate", "row")
Backed(q, d) ==
  \E i \in DOMAIN calibrations : calibrations[i].project = q /\ calibrations[i].device = d

\* A thread is at a step of its operation; a compilation knows its device from
\* a row, and has saved the model when it writes its plan.
CallOk(t) ==
  /\ call[t].step = "row" => call[t].op \in {"calibrate", "compile"}
  /\ call[t].step = "save" => call[t].op = "compile"
  /\ AtRow(t) => call[t].device # None
  /\ call[t].op = "compile" /\ call[t].step \in {"save", "row"} /\ call[t].device # None
       => Backed(call[t].project, call[t].device)
  /\ At(t, "compile", "row") => call[t].project \in inspected
CallInv == \A t \in Threads : CallOk(t)

\* While no calibration was repeated, the session of a name carries it and is
\* the one that the worker promised.
SessionOk(n) ==
  /\ models[n] # None => /\ session[models[n]].id = n
                         /\ promised[n] = session[models[n]].device
  /\ promised[n] # None => models[n] # None
SessionKept == ~repeated => \A n \in Names : SessionOk(n)

\* A session that a calibration kept is the one that the only thread about to
\* record is to record, or the one that the last row for its name tells of.
Kept(n, d) ==
  /\ models[n] # None /\ session[models[n]].config = CalibrationConfig
  /\ session[models[n]].device = d
Pending(n, d) == \E t \in Threads : AtRow(t) /\ call[t].keep = n /\ call[t].device = d
LastRow(n, d) ==
  \E i \in DOMAIN calibrations :
    /\ calibrations[i].keep = n /\ calibrations[i].device = d
    /\ \A j \in DOMAIN calibrations : calibrations[j].keep = n => j <= i
Recorded(n, d) == (\A t \in Threads : AtRow(t) => call[t].keep # n) /\ LastRow(n, d)

RowInv ==
  ~repeated /\ ~overlapped =>
    /\ \A t, u \in Threads : AtRow(t) /\ AtRow(u) => t = u
    /\ \A n \in Names, d \in Devices : Kept(n, d) => Pending(n, d) \/ Recorded(n, d)

RecordsInv ==
  /\ TypeOK /\ Shape(models, session)
  /\ CallInv /\ SessionKept /\ RowInv /\ PlanBacked
-----------------------------------------------------------------------------
(***************************************************************************)
(* The invariant is inductive.                                             *)
(***************************************************************************)
\* The first step of a call moves its thread.
LEMMA BeganFacts ==
  ASSUME TypeOK, NEW t \in Threads, NEW op \in Operations, NEW q \in Projects,
         NEW step \in Steps \ {"idle"}, NEW d \in Devices \cup {None},
         NEW keep \in Names \cup {None}, Began(t, op, q, step, d, keep)
  PROVE  /\ call' \in [Threads -> Calls \cup {Idle}] /\ calls' \in 0..MaxCalls
         /\ call[t] = Idle
         /\ call'[t].step = step /\ call'[t].op = op /\ call'[t].project = q
         /\ call'[t].device = d /\ call'[t].keep = keep
         /\ \A u \in Threads \ {t} : call'[u] = call[u]
<1> DEFINE new == [step |-> step, op |-> op, project |-> q, device |-> d, keep |-> keep]
<1>1. /\ new \in Calls
      /\ new.step = step /\ new.op = op /\ new.project = q /\ new.device = d /\ new.keep = keep
  BY DEF Calls
<1>2. call' = [call EXCEPT ![t] = new] /\ call[t] = Idle
  BY DEF Began
<1>3. calls' \in 0..MaxCalls
  BY EngineAssumption DEF Began, TypeOK
<1> HIDE DEF new
<1>4. call \in [Threads -> Calls \cup {Idle}]
  BY DEF TypeOK
<1>. QED
  BY <1>1, <1>2, <1>3, <1>4

\* ... and so do the others.
LEMMA GotoFacts ==
  ASSUME TypeOK, NEW t \in Threads, call[t] # Idle, NEW step \in Steps \ {"idle"}, Goto(t, step)
  PROVE  /\ call' \in [Threads -> Calls \cup {Idle}]
         /\ call'[t].step = step /\ call'[t].op = call[t].op
         /\ call'[t].project = call[t].project /\ call'[t].device = call[t].device
         /\ call'[t].keep = call[t].keep
         /\ \A u \in Threads \ {t} : call'[u] = call[u]
<1> DEFINE new == [call[t] EXCEPT !.step = step]
<1>1. call[t] \in Calls /\ call \in [Threads -> Calls \cup {Idle}]
  BY DEF TypeOK
<1>2. /\ new \in Calls
      /\ new.step = step /\ new.op = call[t].op /\ new.project = call[t].project
      /\ new.device = call[t].device /\ new.keep = call[t].keep
  BY <1>1 DEF Calls
<1>3. call' = [call EXCEPT ![t] = new]
  BY DEF Goto
<1> HIDE DEF new
<1>. QED
  BY <1>1, <1>2, <1>3

\* ... or ends its call.
LEMMA ReturnFacts ==
  ASSUME TypeOK, NEW t \in Threads, Return(t)
  PROVE  /\ call' \in [Threads -> Calls \cup {Idle}] /\ call'[t] = Idle
         /\ \A u \in Threads \ {t} : call'[u] = call[u]
BY DEF Return, TypeOK

\* Every call begins with a step of its own.
LEMMA StartFacts ==
  ASSUME TypeOK, NEW t \in Threads, BeganInVain(t)
  PROVE  calls' \in 0..MaxCalls /\ call' = call
BY EngineAssumption DEF BeganInVain, TypeOK

\* A resident session has a device.
LEMMA ResidentFacts ==
  ASSUME TypeOK, NEW n \in Names, models[n] # None
  PROVE  session[models[n]] \in Sessions /\ session[models[n]].device \in Devices
<1>1. /\ n \in Ids /\ models \in [Ids -> Ids \cup {None}]
      /\ session \in [Ids -> Sessions \cup {Gone}] /\ session[models[n]] # Gone
  BY IdFacts DEF TypeOK, WorkerTypeOK
<1>. QED
  BY <1>1 DEF Sessions

\* A set of places of a sequence has a last one, if any.
LEMMA LargestOf ==
  ASSUME NEW n \in Nat, NEW own \in SUBSET (1..n), own # {}
  PROVE  \E i \in own : \A j \in own : j <= i
<1> DEFINE R == {p \in Nat \X Nat : p[1] < p[2]}
           T == {m \in Nat : n - m \in own}
<1>1. IsWellFoundedOn(R, Nat)
  BY NatLessThanWellFounded DEF OpToRel
<1>2. T \subseteq Nat /\ T # {}
  <2>1. PICK i \in own : TRUE
    OBVIOUS
  <2>2. n - i \in Nat /\ n - (n - i) = i
    OBVIOUS
  <2>. QED
    BY <2>1, <2>2
<1> HIDE DEF R
<1>3. PICK m \in T : \A k \in T : ~(<<k, m>> \in R)
  BY <1>1, <1>2, WFMin
<1>4. ASSUME NEW j \in own
      PROVE  j <= n - m
  <2>1. n - j \in Nat /\ n - (n - j) = j
    OBVIOUS
  <2>2. n - j \in T
    BY <2>1
  <2>3. ~(n - j < m)
    BY <1>3, <2>2 DEF R
  <2>. QED
    BY <2>1, <2>3
<1>. QED
  BY <1>3, <1>4

\* The device that compile_model prefers comes from a row of the project.
LEMMA LatestFacts ==
  ASSUME TypeOK, NEW q \in Projects
  PROVE  Latest(q) \in Devices \cup {None} /\ (Latest(q) # None => Backed(q, Latest(q)))
<1> DEFINE own == {i \in DOMAIN calibrations : calibrations[i].project = q}
<1>1. /\ calibrations \in Seq([project : Projects, device : Devices, keep : Names \cup {None}])
      /\ DOMAIN calibrations = 1..Len(calibrations) /\ Len(calibrations) \in Nat
  BY LenProperties DEF TypeOK
<1>2. CASE own = {}
  BY <1>2 DEF Latest
<1>3. CASE own # {}
  <2>1. \E i \in own : \A j \in own : j <= i
    <3>1. own \in SUBSET (1..Len(calibrations))
      BY <1>1
    <3> HIDE DEF own
    <3>. QED
      BY <1>1, <1>3, <3>1, LargestOf
  <2>2. PICK i \in own : i = CHOOSE k \in own : \A j \in own : j <= k
    BY <2>1
  <2>3. Latest(q) = calibrations[i].device
    BY <1>3, <2>2 DEF Latest
  <2>4. calibrations[i].project = q /\ calibrations[i].device \in Devices
    <3>1. i \in 1..Len(calibrations)
      BY <1>1, <2>2
    <3>2. calibrations[i] \in [project : Projects, device : Devices, keep : Names \cup {None}]
      BY <1>1, <3>1, ElementOfSeq
    <3>. QED
      BY <2>2, <3>2
  <2>. QED
    BY <2>2, <2>3, <2>4 DEF Backed
<1>. QED
  BY <1>2, <1>3

\* The table of calibrations grows at its end.
LEMMA GrownFacts ==
  ASSUME TypeOK, NEW row \in [project : Projects, device : Devices, keep : Names \cup {None}],
         calibrations' = Append(calibrations, row)
  PROVE  /\ calibrations' \in Seq([project : Projects, device : Devices, keep : Names \cup {None}])
         /\ Len(calibrations) \in Nat /\ DOMAIN calibrations = 1..Len(calibrations)
         /\ DOMAIN calibrations' = 1..(Len(calibrations) + 1)
         /\ \A i \in DOMAIN calibrations : calibrations'[i] = calibrations[i]
         /\ calibrations'[Len(calibrations) + 1] = row
<1> DEFINE S == [project : Projects, device : Devices, keep : Names \cup {None}]
<1>1. calibrations \in Seq(S) /\ row \in S
  BY DEF TypeOK
<1> HIDE DEF S
<1>2. /\ Append(calibrations, row) \in Seq(S)
      /\ Len(Append(calibrations, row)) = Len(calibrations) + 1
      /\ \A i \in 1..Len(calibrations) : Append(calibrations, row)[i] = calibrations[i]
      /\ Append(calibrations, row)[Len(calibrations) + 1] = row
  BY <1>1, AppendProperties
<1>3. Len(calibrations) \in Nat /\ DOMAIN calibrations = 1..Len(calibrations)
  BY <1>1, LenProperties
<1>4. DOMAIN Append(calibrations, row) = 1..Len(Append(calibrations, row))
  BY <1>2, LenProperties
<1>. QED
  BY <1>2, <1>3, <1>4 DEF S

\* Every step keeps the types and the shape of the table.
LEMMA TypeNext ==
  ASSUME TypeOK, Shape(models, session), CallInv, [Next]_vars
  PROVE  TypeOK' /\ Shape(models, session)'
<1>0. /\ WorkerTypeOK /\ call \in [Threads -> Calls \cup {Idle}]
      /\ promised \in [Names -> Devices \cup {None}]
  BY DEF TypeOK
<1>1. ASSUME NEW t \in Threads, NEW q \in Projects,
             Load(t, q) \/ Use(t, q) \/ Unload(t, q) \/ CalibrateWorker(t, q)
               \/ CompileRead(t, q) \/ Inspect(t, q)
      PROVE  TypeOK' /\ Shape(models, session)'
  <2>1. CASE Load(t, q)
    <3>1. PICK n \in Names, kind \in Kinds, d \in Devices, c \in Configs :
            /\ LoadHit(n, kind, d, c) \/ LoadMiss(n, kind, d, c)
            /\ promised' = [promised EXCEPT ![n] = d]
            /\ Began(t, "load", q, "audit", d, n)
            /\ UNCHANGED <<rowVars, repeated, overlapped>>
      BY <2>1 DEF Load
    <3>2. WorkerTypeOK' /\ Shape(models, session)'
      <4>1. CASE LoadHit(n, kind, d, c)
        BY <4>1, <1>0 DEF LoadHit, workerVars, WorkerTypeOK, Shape
      <4>2. CASE LoadMiss(n, kind, d, c)
        BY <4>2, <1>0, LoadFacts
      <4>. QED
        BY <3>1, <4>1, <4>2
    <3>3. call' \in [Threads -> Calls \cup {Idle}] /\ calls' \in 0..MaxCalls
      BY <3>1, BeganFacts DEF Operations, Steps
    <3>4. promised' \in [Names -> Devices \cup {None}]
      BY <3>1, <1>0
    <3>. QED
      BY <3>1, <3>2, <3>3, <3>4 DEF TypeOK, rowVars
  <2>2. CASE Use(t, q)
    <3>1. PICK n \in Names :
            /\ BenchmarkAnswers(n) \/ Resident(n, "llm")
            /\ Began(t, "use", q, "audit", session[models[n]].device, n)
            /\ UNCHANGED <<workerVars, rowVars, promised, repeated, overlapped>>
      BY <2>2 DEF Use
    <3>2. session[models[n]].device \in Devices
      BY <3>1, ResidentFacts DEF BenchmarkAnswers, Resident
    <3>3. call' \in [Threads -> Calls \cup {Idle}] /\ calls' \in 0..MaxCalls
      BY <3>1, <3>2, BeganFacts DEF Operations, Steps
    <3>. QED
      BY <3>1, <3>3 DEF TypeOK, rowVars, workerVars, WorkerTypeOK, Shape
  <2>3. CASE Unload(t, q)
    <3>1. PICK n \in Names :
            /\ Unloaded(n) /\ promised' = [promised EXCEPT ![n] = None]
            /\ Began(t, "unload", q, "audit", None, n)
            /\ UNCHANGED <<rowVars, repeated, overlapped>>
      BY <2>3 DEF Unload
    <3>2. WorkerTypeOK' /\ Shape(models, session)'
      BY <3>1, <1>0, UnloadFacts
    <3>3. call' \in [Threads -> Calls \cup {Idle}] /\ calls' \in 0..MaxCalls
      BY <3>1, BeganFacts DEF Operations, Steps
    <3>4. promised' \in [Names -> Devices \cup {None}]
      BY <3>1, <1>0
    <3>. QED
      BY <3>1, <3>2, <3>3, <3>4 DEF TypeOK, rowVars
  <2>4. CASE CalibrateWorker(t, q)
    <3>1. PICK compiled \in (SUBSET Devices) \ {{}}, keep \in Names \cup {None} :
            /\ repeated' = (repeated \/ Meets(compiled)) /\ UNCHANGED rowVars
            /\ \/ \E winner \in compiled :
                    /\ Calibrated(compiled, winner, keep)
                    /\ promised' = [n \in Names |-> IF n = keep THEN winner ELSE promised[n]]
                    /\ overlapped' = (overlapped \/ Unrecorded)
                    /\ Began(t, "calibrate", q, "row", winner, keep)
               \/ /\ CalibrationFailed(compiled) /\ BeganInVain(t)
                  /\ UNCHANGED <<promised, overlapped>>
      BY <2>4 DEF CalibrateWorker
    <3>2. repeated' \in BOOLEAN
      BY <3>1
    <3>3. ASSUME NEW winner \in compiled, Calibrated(compiled, winner, keep),
                 promised' = [n \in Names |-> IF n = keep THEN winner ELSE promised[n]],
                 overlapped' = (overlapped \/ Unrecorded),
                 Began(t, "calibrate", q, "row", winner, keep)
          PROVE  TypeOK' /\ Shape(models, session)'
      <4>1. WorkerTypeOK' /\ Shape(models, session)'
        BY <3>3, <1>0, CalibratedFacts
      <4>2. winner \in Devices
        BY <3>3
      <4>3. call' \in [Threads -> Calls \cup {Idle}] /\ calls' \in 0..MaxCalls
        BY <3>3, <4>2, BeganFacts DEF Operations, Steps
      <4>4. promised' \in [Names -> Devices \cup {None}]
        BY <3>3, <4>2, <1>0
      <4>5. overlapped' \in BOOLEAN
        BY <3>3
      <4>. QED
        BY <3>1, <3>2, <4>1, <4>3, <4>4, <4>5 DEF TypeOK, rowVars
    <3>4. ASSUME CalibrationFailed(compiled), BeganInVain(t), UNCHANGED <<promised, overlapped>>
          PROVE  TypeOK' /\ Shape(models, session)'
      <4>1. WorkerTypeOK' /\ Shape(models, session)'
        BY <3>4, <1>0, CalibrationFailedFacts
      <4>2. calls' \in 0..MaxCalls /\ call' = call
        BY <3>4, StartFacts
      <4>. QED
        BY <3>1, <3>2, <3>4, <4>1, <4>2 DEF TypeOK, rowVars
    <3>. QED
      BY <3>1, <3>3, <3>4
  <2>5. CASE CompileRead(t, q)
    <3>1. Latest(q) \in Devices \cup {None}
      BY LatestFacts
    <3>2. call' \in [Threads -> Calls \cup {Idle}] /\ calls' \in 0..MaxCalls
      BY <2>5, <3>1, BeganFacts DEF CompileRead, Operations, Steps
    <3>. QED
      BY <2>5, <3>2 DEF CompileRead, TypeOK, rowVars, workerVars, WorkerTypeOK, Shape
  <2>6. CASE Inspect(t, q)
    <3>1. call' \in [Threads -> Calls \cup {Idle}] /\ calls' \in 0..MaxCalls
      BY <2>6, BeganFacts DEF Inspect, Operations, Steps
    <3>. QED
      BY <2>6, <3>1 DEF Inspect, TypeOK, workerVars, WorkerTypeOK, Shape
  <2>. QED
    BY <1>1, <2>1, <2>2, <2>3, <2>4, <2>5, <2>6
<1>2. ASSUME NEW t \in Threads,
             Refused(t) \/ CalibrateRow(t) \/ CompileSave(t) \/ CompileRow(t) \/ Audit(t)
      PROVE  TypeOK' /\ Shape(models, session)'
  <2>0. call[t].step # "idle" => call[t] # Idle /\ call[t] \in Calls
    BY <1>0 DEF Idle
  <2>1. CASE Refused(t)
    BY <2>1, StartFacts DEF Refused, TypeOK, rowVars, workerVars, WorkerTypeOK, Shape
  <2>2. ASSUME call[t] \in Calls, call[t] # Idle, UNCHANGED workerVars,
               Goto(t, "audit") \/ Goto(t, "row") \/ Return(t)
        PROVE  /\ WorkerTypeOK' /\ Shape(models, session)'
               /\ call' \in [Threads -> Calls \cup {Idle}]
    <3>1. call' \in [Threads -> Calls \cup {Idle}]
      BY <2>2, GotoFacts, ReturnFacts DEF Steps
    <3>. QED
      BY <2>2, <3>1, <1>0 DEF workerVars, WorkerTypeOK, Shape
  <2>3. CASE CalibrateRow(t)
    <3>1. /\ call[t] \in Calls /\ call[t] # Idle /\ UNCHANGED workerVars
          /\ Goto(t, "audit") \/ Goto(t, "row") \/ Return(t)
      BY <2>3, <2>0 DEF CalibrateRow, At
    <3>2. calibrations' \in Seq([project : Projects, device : Devices, keep : Names \cup {None}])
      <4> DEFINE new == [project |-> call[t].project, device |-> call[t].device,
                         keep |-> call[t].keep]
      <4>1. new \in [project : Projects, device : Devices, keep : Names \cup {None}]
        BY <2>3, <3>1 DEF Calls, CallInv, CallOk, AtRow, CalibrateRow
      <4>2. calibrations' = Append(calibrations, new) \/ calibrations' = calibrations
        BY <2>3 DEF CalibrateRow
      <4> HIDE DEF new
      <4>. QED
        BY <4>1, <4>2, GrownFacts DEF TypeOK
    <3>3. overlapped' \in BOOLEAN
      BY <2>3 DEF CalibrateRow, TypeOK
    <3>. QED
      BY <2>3, <2>2, <3>1, <3>2, <3>3 DEF CalibrateRow, TypeOK
  <2>4. CASE CompileSave(t)
    <3>1. /\ call[t] \in Calls /\ call[t] # Idle /\ UNCHANGED workerVars
          /\ Goto(t, "audit") \/ Goto(t, "row") \/ Return(t)
      BY <2>4, <2>0 DEF CompileSave, At
    <3>2. call[t].project \in Projects
      BY <3>1 DEF Calls
    <3>3. inspected' \subseteq Projects
      BY <2>4, <3>2 DEF CompileSave, TypeOK
    <3>. QED
      BY <2>4, <2>2, <3>1, <3>3 DEF CompileSave, TypeOK
  <2>5. CASE CompileRow(t)
    <3>1. /\ call[t] \in Calls /\ call[t] # Idle /\ UNCHANGED workerVars
          /\ Goto(t, "audit") \/ Goto(t, "row") \/ Return(t)
      BY <2>5, <2>0 DEF CompileRow, At
    <3>2. call[t].project \in Projects /\ call[t].device \in Devices \cup {None}
      BY <3>1 DEF Calls
    <3>3. plans' \in [Devices \cup {None} -> Projects \cup {None}]
      BY <2>5, <3>2 DEF CompileRow, TypeOK
    <3>4. listed' \subseteq Projects \X (Devices \cup {None})
      BY <2>5, <3>2 DEF CompileRow, TypeOK
    <3>. QED
      BY <2>5, <2>2, <3>1, <3>3, <3>4 DEF CompileRow, TypeOK
  <2>6. CASE Audit(t)
    <3>1. /\ call[t] \in Calls /\ call[t] # Idle /\ UNCHANGED workerVars
          /\ Goto(t, "audit") \/ Goto(t, "row") \/ Return(t)
      BY <2>6, <2>0 DEF Audit
    <3>. QED
      BY <2>6, <2>2, <3>1 DEF Audit, TypeOK, rowVars
  <2>. QED
    BY <1>2, <2>1, <2>3, <2>4, <2>5, <2>6
<1>3. CASE WorkerEnds
  <2>1. promised' \in [Names -> Devices \cup {None}]
    BY <1>3 DEF WorkerEnds
  <2>. QED
    BY <1>3, <2>1, LostFacts DEF WorkerEnds, TypeOK, rowVars
<1>4. CASE Crash
  <2>1. promised' \in [Names -> Devices \cup {None}] /\ call' \in [Threads -> Calls \cup {Idle}]
    BY <1>4 DEF Crash
  <2>. QED
    BY <1>4, <2>1, LostFacts DEF Crash, TypeOK, rowVars
<1>5. CASE UNCHANGED vars
  BY <1>5 DEF vars, rowVars, workerVars, TypeOK, WorkerTypeOK, Shape
<1>. QED
  BY <1>1, <1>2, <1>3, <1>4, <1>5 DEF Next

RowOf(t) == [project |-> call[t].project, device |-> call[t].device, keep |-> call[t].keep]

\* The row that a calibration leaves, or its failure to.
LEMMA RowFacts ==
  ASSUME TypeOK, CallInv, NEW t \in Threads, CalibrateRow(t)
  PROVE  /\ AtRow(t) /\ call[t] # Idle /\ call[t] \in Calls
         /\ RowOf(t) \in [project : Projects, device : Devices, keep : Names \cup {None}]
         /\ \/ /\ calibrations' = Append(calibrations, RowOf(t))
               /\ Goto(t, "audit") /\ UNCHANGED overlapped
            \/ Return(t) /\ overlapped' = TRUE /\ UNCHANGED calibrations
<1>1. AtRow(t) /\ call[t] # Idle
  BY DEF CalibrateRow, AtRow, At, Idle
<1>2. call[t] \in Calls
  BY <1>1 DEF TypeOK
<1>3. RowOf(t) \in [project : Projects, device : Devices, keep : Names \cup {None}]
  BY <1>1, <1>2 DEF RowOf, Calls, CallInv, CallOk
<1>. QED
  BY <1>1, <1>2, <1>3 DEF CalibrateRow, RowOf

\* No step takes a row away.
LEMMA OnlyGrow ==
  ASSUME TypeOK, CallInv, [Next]_vars
  PROVE  /\ inspected \subseteq inspected' /\ listed \subseteq listed'
         /\ \A q, d : Backed(q, d) => Backed(q, d)'
<1>1. ASSUME UNCHANGED calibrations
      PROVE  \A q, d : Backed(q, d) => Backed(q, d)'
  BY <1>1 DEF Backed
<1>2. ASSUME NEW t \in Threads, NEW q \in Projects,
             Load(t, q) \/ Use(t, q) \/ Unload(t, q) \/ CalibrateWorker(t, q)
               \/ CompileRead(t, q) \/ Inspect(t, q)
      PROVE  /\ inspected \subseteq inspected' /\ listed \subseteq listed'
             /\ UNCHANGED calibrations
  BY <1>2 DEF Load, Use, Unload, CalibrateWorker, CompileRead, Inspect, rowVars
<1>3. ASSUME NEW t \in Threads, CalibrateRow(t)
      PROVE  /\ inspected \subseteq inspected' /\ listed \subseteq listed'
             /\ \A q, d : Backed(q, d) => Backed(q, d)'
  <2>1. UNCHANGED <<inspected, listed>>
    BY <1>3 DEF CalibrateRow
  <2>2. CASE calibrations' = Append(calibrations, RowOf(t))
    <3>1. /\ Len(calibrations) \in Nat /\ DOMAIN calibrations = 1..Len(calibrations)
          /\ DOMAIN calibrations' = 1..(Len(calibrations) + 1)
          /\ \A i \in DOMAIN calibrations : calibrations'[i] = calibrations[i]
      BY <2>2, <1>3, RowFacts, GrownFacts
    <3>2. \A i \in DOMAIN calibrations : i \in DOMAIN calibrations'
      BY <3>1
    <3>. QED
      BY <2>1, <3>1, <3>2 DEF Backed
  <2>. QED
    BY <1>1, <1>3, <2>1, <2>2, RowFacts
<1>4. ASSUME NEW t \in Threads, Refused(t) \/ CompileSave(t) \/ CompileRow(t) \/ Audit(t)
      PROVE  /\ inspected \subseteq inspected' /\ listed \subseteq listed'
             /\ UNCHANGED calibrations
  BY <1>4 DEF Refused, CompileSave, CompileRow, Audit, rowVars
<1>5. ASSUME WorkerEnds \/ Crash \/ UNCHANGED vars
      PROVE  UNCHANGED <<inspected, listed, calibrations>>
  BY <1>5 DEF WorkerEnds, Crash, vars, rowVars
<1>. QED
  BY <1>1, <1>2, <1>3, <1>4, <1>5 DEF Next

\* The step of one thread leaves the others where they are.
LEMMA CallMoved ==
  ASSUME TypeOK, CallInv, [Next]_vars, NEW t \in Threads,
         \A u \in Threads \ {t} : call'[u] = call[u],
         CallOk(t)' \/ call'[t] = call[t] \/ call'[t] = Idle
  PROVE  CallInv'
<1>1. /\ inspected \subseteq inspected'
      /\ \A q, d : Backed(q, d) => Backed(q, d)'
  BY OnlyGrow
<1>2. ASSUME NEW u \in Threads, call'[u] = call[u]
      PROVE  CallOk(u)'
  BY <1>1, <1>2 DEF CallInv, CallOk, AtRow, At
<1>3. ASSUME NEW u \in Threads, call'[u] = Idle
      PROVE  CallOk(u)'
  BY <1>3 DEF CallOk, AtRow, At, Idle
<1>. QED
  BY <1>2, <1>3 DEF CallInv

\* Every step leaves the threads at steps of their operations.
LEMMA CallNext ==
  ASSUME TypeOK, CallInv, [Next]_vars
  PROVE  CallInv'
<1>1. ASSUME NEW t \in Threads, NEW q \in Projects,
             Load(t, q) \/ Use(t, q) \/ Unload(t, q) \/ CalibrateWorker(t, q)
               \/ CompileRead(t, q) \/ Inspect(t, q)
      PROVE  CallInv'
  <2>1. ASSUME NEW op \in Operations, NEW step \in Steps \ {"idle"},
               NEW d \in Devices \cup {None}, NEW keep \in Names \cup {None},
               Began(t, op, q, step, d, keep),
               \/ step = "audit"
               \/ step = "row" /\ op = "calibrate" /\ d # None
               \/ step = "save" /\ op = "compile" /\ (d # None => Backed(q, d))
        PROVE  CallInv'
    <3>1. /\ call'[t].step = step /\ call'[t].op = op /\ call'[t].project = q
          /\ call'[t].device = d /\ call'[t].keep = keep
          /\ \A u \in Threads \ {t} : call'[u] = call[u]
      BY <2>1, BeganFacts
    <3>2. \A p, e : Backed(p, e) => Backed(p, e)'
      BY OnlyGrow
    <3>3. CallOk(t)'
      BY <2>1, <3>1, <3>2 DEF CallOk, AtRow, At
    <3>. QED
      BY <3>1, <3>3, CallMoved
  <2>2. CASE Load(t, q)
    <3>1. PICK n \in Names, d \in Devices : Began(t, "load", q, "audit", d, n)
      BY <2>2 DEF Load
    <3>. QED
      BY <3>1, <2>1 DEF Operations, Steps
  <2>3. CASE Use(t, q)
    <3>1. PICK n \in Names : /\ BenchmarkAnswers(n) \/ Resident(n, "llm")
                             /\ Began(t, "use", q, "audit", session[models[n]].device, n)
      BY <2>3 DEF Use
    <3>2. session[models[n]].device \in Devices
      BY <3>1, ResidentFacts DEF BenchmarkAnswers, Resident
    <3>. QED
      BY <3>1, <3>2, <2>1 DEF Operations, Steps
  <2>4. CASE Unload(t, q)
    <3>1. PICK n \in Names : Began(t, "unload", q, "audit", None, n)
      BY <2>4 DEF Unload
    <3>. QED
      BY <3>1, <2>1 DEF Operations, Steps
  <2>5. CASE CalibrateWorker(t, q)
    <3>1. ASSUME NEW winner \in Devices, NEW keep \in Names \cup {None},
                 Began(t, "calibrate", q, "row", winner, keep)
          PROVE  CallInv'
      BY <3>1, <2>1, EngineAssumption DEF Operations, Steps
    <3>2. ASSUME BeganInVain(t)
          PROVE  CallInv'
      BY <3>2, CallMoved DEF BeganInVain
    <3>. QED
      BY <2>5, <3>1, <3>2 DEF CalibrateWorker
  <2>6. CASE CompileRead(t, q)
    <3>1. Began(t, "compile", q, "save", Latest(q), None)
      BY <2>6 DEF CompileRead
    <3>2. Latest(q) \in Devices \cup {None} /\ (Latest(q) # None => Backed(q, Latest(q)))
      BY LatestFacts
    <3>. QED
      BY <3>1, <3>2, <2>1 DEF Operations, Steps
  <2>7. CASE Inspect(t, q)
    BY <2>7, <2>1 DEF Inspect, Operations, Steps
  <2>. QED
    BY <1>1, <2>2, <2>3, <2>4, <2>5, <2>6, <2>7
<1>2. ASSUME NEW t \in Threads,
             Refused(t) \/ CalibrateRow(t) \/ CompileSave(t) \/ CompileRow(t) \/ Audit(t)
      PROVE  CallInv'
  <2>1. CASE Return(t)
    BY <2>1, ReturnFacts, CallMoved
  <2>2. ASSUME call[t] # Idle, Goto(t, "audit")
        PROVE  CallInv'
    <3>1. call'[t].step = "audit" /\ \A u \in Threads \ {t} : call'[u] = call[u]
      BY <2>2, GotoFacts DEF Steps
    <3>2. CallOk(t)'
      BY <3>1 DEF CallOk, AtRow, At
    <3>. QED
      BY <3>1, <3>2, CallMoved
  <2>3. CASE Refused(t)
    BY <2>3, CallMoved DEF Refused, BeganInVain
  <2>4. CASE CalibrateRow(t)
    BY <2>1, <2>2, <2>4, RowFacts
  <2>5. CASE CompileSave(t)
    <3>1. /\ At(t, "compile", "save") /\ call[t] # Idle
          /\ \/ inspected' = inspected \cup {call[t].project} /\ Goto(t, "row")
             \/ Return(t)
      BY <2>5 DEF CompileSave, At, Idle
    <3>2. CASE Goto(t, "row") /\ inspected' = inspected \cup {call[t].project}
      <4>1. /\ call'[t].step = "row" /\ call'[t].op = "compile"
            /\ call'[t].project = call[t].project /\ call'[t].device = call[t].device
            /\ \A u \in Threads \ {t} : call'[u] = call[u]
        BY <3>1, <3>2, GotoFacts DEF Steps, At
      <4>2. PICK p, e : p = call[t].project /\ e = call[t].device
        OBVIOUS
      <4>3. e # None => Backed(p, e)'
        <5>1. e # None => Backed(p, e)
          BY <3>1, <4>2 DEF CallInv, CallOk, At
        <5>. QED
          BY <5>1, OnlyGrow
      <4>4. CallOk(t)'
        BY <3>2, <4>1, <4>2, <4>3 DEF CallOk, AtRow, At
      <4>. QED
        BY <4>1, <4>4, CallMoved
    <3>. QED
      BY <2>1, <3>1, <3>2
  <2>6. CASE CompileRow(t)
    BY <2>1, <2>2, <2>6 DEF CompileRow, At, Idle
  <2>7. CASE Audit(t)
    BY <2>1, <2>7 DEF Audit
  <2>. QED
    BY <1>2, <2>3, <2>4, <2>5, <2>6, <2>7
<1>3. CASE WorkerEnds \/ UNCHANGED vars
  <2>1. UNCHANGED <<call, calibrations, inspected>>
    BY <1>3 DEF WorkerEnds, rowVars, vars
  <2>. QED
    BY <2>1 DEF CallInv, CallOk, AtRow, At, Backed
<1>4. CASE Crash
  BY <1>4 DEF Crash, CallInv, CallOk, AtRow, At, Idle
<1>. QED
  BY <1>1, <1>2, <1>3, <1>4 DEF Next

\* A step that promises or drops at most one name keeps the sessions of all
\* others.
LEMMA SessionMoved ==
  ASSUME SessionKept, repeated => repeated', NEW n, OthersKept(n),
         \A m \in Names \ {n} : promised'[m] = promised[m],
         ~repeated' /\ n \in Names => SessionOk(n)'
  PROVE  SessionKept'
<1>1. ASSUME NEW m \in Names \ {n}, ~repeated'
      PROVE  SessionOk(m)'
  BY <1>1 DEF SessionKept, SessionOk, OthersKept
<1>. QED
  BY <1>1 DEF SessionKept

\* Every step keeps the sessions true to what the worker promised.
LEMMA SessionNext ==
  ASSUME TypeOK, Shape(models, session), SessionKept, [Next]_vars
  PROVE  SessionKept'
<1>0. /\ WorkerTypeOK /\ promised \in [Names -> Devices \cup {None}]
      /\ None \notin Names /\ Names \subseteq Ids
  BY IdFacts DEF TypeOK
<1>1. ASSUME UNCHANGED <<workerVars, promised, repeated>>
      PROVE  SessionKept'
  BY <1>1 DEF SessionKept, SessionOk, workerVars
<1>2. ASSUME NEW t \in Threads, NEW q \in Projects, Load(t, q)
      PROVE  SessionKept'
  <2>1. PICK n \in Names, kind \in Kinds, d \in Devices, c \in Configs :
          /\ LoadHit(n, kind, d, c) \/ LoadMiss(n, kind, d, c)
          /\ promised' = [promised EXCEPT ![n] = d]
          /\ UNCHANGED <<rowVars, repeated, overlapped>>
    BY <1>2 DEF Load
  <2>2. promised'[n] = d /\ \A m \in Names \ {n} : promised'[m] = promised[m]
    BY <1>0, <2>1
  <2>3. CASE LoadHit(n, kind, d, c)
    <3>1. OthersKept(n)
      BY <2>3 DEF LoadHit, workerVars, OthersKept
    <3>2. ~repeated' => SessionOk(n)'
      BY <2>1, <2>2, <2>3 DEF LoadHit, Same, workerVars, SessionKept, SessionOk
    <3>. QED
      BY <2>1, <2>2, <3>1, <3>2, SessionMoved
  <2>4. CASE LoadMiss(n, kind, d, c)
    <3>1. /\ OthersKept(n) /\ models'[n] = n
          /\ session'[n] = [id |-> n, kind |-> kind, device |-> d, config |-> c]
      BY <1>0, <2>4, LoadFacts
    <3>2. SessionOk(n)'
      BY <1>0, <2>2, <3>1 DEF SessionOk
    <3>. QED
      BY <2>1, <2>2, <3>1, <3>2, SessionMoved
  <2>. QED
    BY <2>1, <2>3, <2>4
<1>3. ASSUME NEW t \in Threads, NEW q \in Projects, Unload(t, q)
      PROVE  SessionKept'
  <2>1. PICK n \in Names : /\ Unloaded(n) /\ promised' = [promised EXCEPT ![n] = None]
                           /\ UNCHANGED <<rowVars, repeated, overlapped>>
    BY <1>3 DEF Unload
  <2>2. promised'[n] = None /\ \A m \in Names \ {n} : promised'[m] = promised[m]
    BY <1>0, <2>1
  <2>3. OthersKept(n) /\ models'[n] = None
    BY <1>0, <2>1, UnloadFacts
  <2>4. SessionOk(n)'
    BY <2>2, <2>3 DEF SessionOk
  <2>. QED
    BY <2>1, <2>2, <2>3, <2>4, SessionMoved
<1>4. ASSUME NEW t \in Threads, NEW q \in Projects, CalibrateWorker(t, q)
      PROVE  SessionKept'
  <2>1. PICK compiled \in (SUBSET Devices) \ {{}}, keep \in Names \cup {None} :
          /\ repeated' = (repeated \/ Meets(compiled))
          /\ \/ \E winner \in compiled :
                  /\ Calibrated(compiled, winner, keep)
                  /\ promised' = [n \in Names |-> IF n = keep THEN winner ELSE promised[n]]
             \/ CalibrationFailed(compiled) /\ UNCHANGED <<promised, overlapped>>
    BY <1>4 DEF CalibrateWorker
  <2>2. ASSUME NEW winner \in compiled, Calibrated(compiled, winner, keep), ~repeated',
               promised' = [n \in Names |-> IF n = keep THEN winner ELSE promised[n]]
        PROVE  SessionKept'
    <3>1. ~repeated /\ ~Meets(compiled)
      BY <2>1, <2>2
    <3>2. /\ OthersKept(keep)
          /\ keep # None => /\ models'[keep] # None
                            /\ session'[models'[keep]].id = keep
                            /\ session'[models'[keep]].device = winner
      BY <1>0, <2>2, <3>1, CalibratedFacts
    <3>3. \A m \in Names \ {keep} : promised'[m] = promised[m]
      BY <2>2
    <3>4. keep \in Names => SessionOk(keep)'
      BY <1>0, <2>2, <3>2 DEF SessionOk
    <3>. QED
      BY <3>1, <3>2, <3>3, <3>4, SessionMoved
  <2>3. CASE CalibrationFailed(compiled) /\ UNCHANGED <<promised, overlapped>>
    <3>1. OthersKept(None)
      BY <1>0, <2>3, CalibrationFailedFacts DEF OthersKept
    <3>. QED
      BY <1>0, <2>1, <2>3, <3>1, SessionMoved
  <2>4. CASE repeated'
    BY <2>4 DEF SessionKept
  <2>. QED
    BY <2>1, <2>2, <2>3, <2>4
<1>5. ASSUME WorkerEnds \/ Crash
      PROVE  SessionKept'
  <2>1. WorkerLost /\ promised' = [n \in Names |-> None]
    BY <1>5 DEF WorkerEnds, Crash
  <2>. QED
    BY <1>0, <2>1, LostFacts DEF SessionKept, SessionOk
<1>6. ASSUME NEW t \in Threads, NEW q \in Projects,
             Use(t, q) \/ CompileRead(t, q) \/ Inspect(t, q)
      PROVE  SessionKept'
  BY <1>1, <1>6 DEF Use, CompileRead, Inspect
<1>7. ASSUME NEW t \in Threads,
             Refused(t) \/ CalibrateRow(t) \/ CompileSave(t) \/ CompileRow(t) \/ Audit(t)
      PROVE  SessionKept'
  BY <1>1, <1>7 DEF Refused, CalibrateRow, CompileSave, CompileRow, Audit
<1>8. CASE UNCHANGED vars
  BY <1>1, <1>8 DEF vars
<1>. QED
  BY <1>2, <1>3, <1>4, <1>5, <1>6, <1>7, <1>8 DEF Next

\* A step that writes no calibration and adds no session of one keeps the rows
\* true to the sessions.
LEMMA RowKept ==
  ASSUME RowInv, UNCHANGED calibrations, repeated => repeated', overlapped => overlapped',
         \A t \in Threads : AtRow(t) \/ AtRow(t)' => call'[t] = call[t],
         ~repeated' => \A n \in Names, d \in Devices : Kept(n, d)' => Kept(n, d)
  PROVE  RowInv'
<1>1. \A t \in Threads : AtRow(t)' <=> AtRow(t)
  BY DEF AtRow, At
<1>2. ASSUME NEW n \in Names, NEW d \in Devices, Pending(n, d)
      PROVE  Pending(n, d)'
  BY <1>1, <1>2 DEF Pending
<1>3. ASSUME NEW n \in Names, NEW d \in Devices, Recorded(n, d)
      PROVE  Recorded(n, d)'
  BY <1>1, <1>3 DEF Recorded, LastRow
<1>. QED
  BY <1>1, <1>2, <1>3 DEF RowInv

\* The move of a thread that is not to write a calibration and will not be.
LEMMA RowUntouched ==
  ASSUME TypeOK, RowInv, UNCHANGED calibrations, repeated => repeated',
         overlapped => overlapped', NEW t \in Threads,
         \A u \in Threads \ {t} : call'[u] = call[u],
         call'[t] = call[t] \/ (~AtRow(t) /\ ~AtRow(t)'),
         NEW n, OthersKept(n),
         ~repeated' => n \notin Names \/ \A d \in Devices : Kept(n, d)' => Kept(n, d)
  PROVE  RowInv'
<1>1. \A u \in Threads : AtRow(u) \/ AtRow(u)' => call'[u] = call[u]
  OBVIOUS
<1>2. ASSUME NEW m \in Names \ {n}, NEW d \in Devices, Kept(m, d)'
      PROVE  Kept(m, d)
  BY <1>2 DEF Kept, OthersKept
<1>. QED
  BY <1>1, <1>2, RowKept

\* A calibration that meets none of another's sessions and no unwritten row.
LEMMA RowCalibrated ==
  ASSUME TypeOK, RowInv, ~repeated, ~overlapped, ~Unrecorded, UNCHANGED calibrations,
         NEW t \in Threads, NEW keep \in Names \cup {None}, NEW winner \in Devices,
         \A u \in Threads \ {t} : call'[u] = call[u],
         AtRow(t)', call'[t].keep = keep, call'[t].device = winner,
         OthersKept(keep), keep # None => session'[models'[keep]].device = winner
  PROVE  RowInv'
<1>1. \A u \in Threads : ~AtRow(u)
  BY DEF Unrecorded, AtRow
<1>2. \A u \in Threads : AtRow(u)' => u = t
  BY <1>1 DEF AtRow, At
<1>3. ASSUME NEW d \in Devices, keep # None, Kept(keep, d)'
      PROVE  Pending(keep, d)'
  BY <1>3 DEF Kept, Pending
<1>4. ASSUME NEW n \in Names, n # keep, NEW d \in Devices, Kept(n, d)'
      PROVE  Recorded(n, d)'
  <2>1. Kept(n, d)
    BY <1>4 DEF Kept, OthersKept
  <2>2. LastRow(n, d)
    BY <1>1, <2>1 DEF RowInv, Pending, Recorded
  <2>3. LastRow(n, d)'
    BY <2>2 DEF LastRow
  <2>. QED
    BY <1>2, <1>4, <2>3 DEF Recorded
<1>5. None \notin Names
  BY IdFacts
<1>. QED
  BY <1>2, <1>3, <1>4, <1>5 DEF RowInv

\* The row of a calibration tells of the session that it kept, and of no other.
LEMMA RowWritten ==
  ASSUME TypeOK, CallInv, RowInv, NEW t \in Threads, CalibrateRow(t)
  PROVE  RowInv'
<1>1. /\ AtRow(t) /\ call[t] # Idle /\ call[t] \in Calls
      /\ RowOf(t) \in [project : Projects, device : Devices, keep : Names \cup {None}]
      /\ \/ /\ calibrations' = Append(calibrations, RowOf(t))
            /\ Goto(t, "audit") /\ UNCHANGED overlapped
         \/ Return(t) /\ overlapped' = TRUE /\ UNCHANGED calibrations
  BY RowFacts
<1>2. CASE overlapped'
  BY <1>2 DEF RowInv
<1>3. CASE repeated
  BY <1>3 DEF CalibrateRow, RowInv
<1>4. ASSUME ~repeated, ~overlapped, Goto(t, "audit"),
             calibrations' = Append(calibrations, RowOf(t))
      PROVE  RowInv'
  <2>1. /\ Len(calibrations) \in Nat /\ DOMAIN calibrations = 1..Len(calibrations)
        /\ DOMAIN calibrations' = 1..(Len(calibrations) + 1)
        /\ \A i \in DOMAIN calibrations : calibrations'[i] = calibrations[i]
        /\ calibrations'[Len(calibrations) + 1] = RowOf(t)
    BY <1>1, <1>4, GrownFacts
  <2>2. call'[t].step = "audit" /\ \A u \in Threads \ {t} : call'[u] = call[u]
    BY <1>1, <1>4, GotoFacts DEF Steps
  <2>3. \A u \in Threads : ~AtRow(u)'
    BY <1>1, <1>4, <2>2 DEF RowInv, AtRow, At
  <2>4. RowOf(t).keep = call[t].keep /\ RowOf(t).device = call[t].device
    BY DEF RowOf
  <2>5. ASSUME NEW n \in Names, NEW d \in Devices, Kept(n, d)'
        PROVE  LastRow(n, d)'
    <3>1. Kept(n, d)
      BY <2>5 DEF Kept, CalibrateRow, workerVars
    <3>2. CASE call[t].keep = n
      <4>1. Pending(n, d)
        BY <1>1, <1>4, <3>1, <3>2 DEF RowInv, Recorded
      <4>2. call[t].device = d
        BY <1>1, <1>4, <4>1 DEF Pending, RowInv
      <4>. QED
        BY <2>1, <2>4, <3>2, <4>2 DEF LastRow
    <3>3. CASE call[t].keep # n
      <4>1. ~Pending(n, d)
        BY <1>1, <1>4, <3>3 DEF Pending, RowInv
      <4>2. LastRow(n, d)
        BY <1>4, <3>1, <4>1 DEF RowInv, Recorded
      <4>3. PICK i \in DOMAIN calibrations :
              /\ calibrations[i].keep = n /\ calibrations[i].device = d
              /\ \A j \in DOMAIN calibrations : calibrations[j].keep = n => j <= i
        BY <4>2 DEF LastRow
      <4>4. i \in DOMAIN calibrations' /\ calibrations'[i] = calibrations[i]
        BY <2>1, <4>3
      <4>5. ASSUME NEW j \in DOMAIN calibrations', calibrations'[j].keep = n
            PROVE  j <= i
        <5>1. j # Len(calibrations) + 1
          BY <2>1, <2>4, <3>3, <4>5
        <5>2. j \in DOMAIN calibrations
          BY <2>1, <5>1
        <5>. QED
          BY <2>1, <4>3, <4>5, <5>2
      <4>. QED
        BY <4>3, <4>4, <4>5 DEF LastRow
    <3>. QED
      BY <3>2, <3>3
  <2>. QED
    BY <2>3, <2>5 DEF RowInv, Recorded
<1>. QED
  BY <1>1, <1>2, <1>3, <1>4

\* Every step keeps the rows true to the sessions.
LEMMA RowNext ==
  ASSUME TypeOK, Shape(models, session), CallInv, RowInv, [Next]_vars
  PROVE  RowInv'
<1>0. WorkerTypeOK /\ None \notin Names /\ Names \subseteq Ids
  BY IdFacts DEF TypeOK
<1>1. ASSUME NEW t \in Threads, NEW op \in Operations, op # "calibrate", NEW q \in Projects,
             NEW step \in Steps \ {"idle"}, NEW e \in Devices \cup {None},
             NEW keep \in Names \cup {None}, Began(t, op, q, step, e, keep)
      PROVE  ~AtRow(t) /\ ~AtRow(t)' /\ \A u \in Threads \ {t} : call'[u] = call[u]
  <2>1. /\ call[t] = Idle /\ call'[t].op = op
        /\ \A u \in Threads \ {t} : call'[u] = call[u]
    BY <1>1, BeganFacts
  <2>. QED
    BY <1>1, <2>1 DEF AtRow, At, Idle
<1>2. ASSUME NEW t \in Threads, NEW q \in Projects, Load(t, q)
      PROVE  RowInv'
  <2>1. PICK n \in Names, kind \in Kinds, d \in Devices, c \in Configs :
          /\ LoadHit(n, kind, d, c) \/ LoadMiss(n, kind, d, c)
          /\ Began(t, "load", q, "audit", d, n)
          /\ UNCHANGED <<rowVars, repeated, overlapped>>
    BY <1>2 DEF Load
  <2>2. ~AtRow(t) /\ ~AtRow(t)' /\ \A u \in Threads \ {t} : call'[u] = call[u]
    BY <1>1, <2>1 DEF Operations, Steps
  <2>3. OthersKept(n) /\ \A e \in Devices : Kept(n, e)' => Kept(n, e)
    <3>1. CASE LoadHit(n, kind, d, c)
      BY <3>1 DEF LoadHit, workerVars, OthersKept, Kept
    <3>2. CASE LoadMiss(n, kind, d, c)
      <4>1. /\ OthersKept(n) /\ models'[n] = n
            /\ session'[n] = [id |-> n, kind |-> kind, device |-> d, config |-> c]
        BY <1>0, <3>2, LoadFacts
      <4>. QED
        BY <4>1, EngineAssumption DEF Kept
    <3>. QED
      BY <2>1, <3>1, <3>2
  <2>. QED
    BY <2>1, <2>2, <2>3, RowUntouched DEF rowVars
<1>3. ASSUME NEW t \in Threads, NEW q \in Projects, Unload(t, q)
      PROVE  RowInv'
  <2>1. PICK n \in Names : /\ Unloaded(n) /\ Began(t, "unload", q, "audit", None, n)
                           /\ UNCHANGED <<rowVars, repeated, overlapped>>
    BY <1>3 DEF Unload
  <2>2. ~AtRow(t) /\ ~AtRow(t)' /\ \A u \in Threads \ {t} : call'[u] = call[u]
    BY <1>1, <2>1 DEF Operations, Steps
  <2>3. OthersKept(n) /\ \A e \in Devices : ~Kept(n, e)'
    BY <1>0, <2>1, UnloadFacts DEF Kept
  <2>. QED
    BY <2>1, <2>2, <2>3, RowUntouched DEF rowVars
<1>4. ASSUME NEW t \in Threads, NEW q \in Projects, CalibrateWorker(t, q)
      PROVE  RowInv'
  <2>1. PICK compiled \in (SUBSET Devices) \ {{}}, keep \in Names \cup {None} :
          /\ repeated' = (repeated \/ Meets(compiled)) /\ UNCHANGED rowVars
          /\ \/ \E winner \in compiled :
                  /\ Calibrated(compiled, winner, keep)
                  /\ overlapped' = (overlapped \/ Unrecorded)
                  /\ Began(t, "calibrate", q, "row", winner, keep)
             \/ /\ CalibrationFailed(compiled) /\ BeganInVain(t)
                /\ UNCHANGED <<promised, overlapped>>
    BY <1>4 DEF CalibrateWorker
  <2>2. ASSUME NEW winner \in compiled, Calibrated(compiled, winner, keep),
               overlapped' = (overlapped \/ Unrecorded), ~repeated', ~overlapped',
               Began(t, "calibrate", q, "row", winner, keep)
        PROVE  RowInv'
    <3>1. ~repeated /\ ~Meets(compiled) /\ ~overlapped /\ ~Unrecorded /\ winner \in Devices
      BY <2>1, <2>2
    <3>2. OthersKept(keep) /\ (keep # None => session'[models'[keep]].device = winner)
      BY <1>0, <2>2, <3>1, CalibratedFacts
    <3>3. /\ call'[t].step = "row" /\ call'[t].op = "calibrate"
          /\ call'[t].device = winner /\ call'[t].keep = keep
          /\ \A u \in Threads \ {t} : call'[u] = call[u]
      <4>1. Began(t, "calibrate", q, "row", winner, keep) /\ winner \in Devices \cup {None}
        BY <2>2, <3>1
      <4>2. "calibrate" \in Operations /\ "row" \in Steps \ {"idle"}
        BY DEF Operations, Steps
      <4>. QED
        BY <4>1, <4>2, BeganFacts
    <3>4. AtRow(t)'
      BY <3>3 DEF AtRow, At
    <3>. QED
      BY <2>1, <3>1, <3>2, <3>3, <3>4, RowCalibrated DEF rowVars
  <2>3. CASE CalibrationFailed(compiled) /\ BeganInVain(t) /\ UNCHANGED <<promised, overlapped>>
    <3>1. OthersKept(None)
      BY <1>0, <2>3, CalibrationFailedFacts DEF OthersKept
    <3>2. call' = call
      BY <2>3 DEF BeganInVain
    <3>. QED
      BY <1>0, <2>1, <2>3, <3>1, <3>2, RowUntouched DEF rowVars
  <2>4. CASE repeated' \/ overlapped'
    BY <2>4 DEF RowInv
  <2>. QED
    BY <2>1, <2>2, <2>3, <2>4
<1>5. ASSUME UNCHANGED <<workerVars, calibrations, repeated, overlapped>>, NEW t \in Threads,
             \A u \in Threads \ {t} : call'[u] = call[u],
             call'[t] = call[t] \/ (~AtRow(t) /\ ~AtRow(t)')
      PROVE  RowInv'
  <2>1. OthersKept(None)
    BY <1>5 DEF OthersKept, workerVars
  <2>. QED
    BY <1>0, <1>5, <2>1, RowUntouched
<1>6. ASSUME NEW t \in Threads, NEW q \in Projects,
             Use(t, q) \/ CompileRead(t, q) \/ Inspect(t, q)
      PROVE  RowInv'
  <2>1. UNCHANGED <<workerVars, calibrations, repeated, overlapped>>
    BY <1>6 DEF Use, CompileRead, Inspect, rowVars
  <2>2. CASE Use(t, q)
    <3>1. PICK n \in Names : /\ BenchmarkAnswers(n) \/ Resident(n, "llm")
                             /\ Began(t, "use", q, "audit", session[models[n]].device, n)
      BY <2>2 DEF Use
    <3>2. session[models[n]].device \in Devices
      BY <3>1, ResidentFacts DEF BenchmarkAnswers, Resident
    <3>3. ~AtRow(t) /\ ~AtRow(t)' /\ \A u \in Threads \ {t} : call'[u] = call[u]
      BY <1>1, <3>1, <3>2 DEF Operations, Steps
    <3>. QED
      BY <1>5, <2>1, <3>3
  <2>3. CASE CompileRead(t, q)
    <3>1. ~AtRow(t) /\ ~AtRow(t)' /\ \A u \in Threads \ {t} : call'[u] = call[u]
      BY <1>1, <2>3, LatestFacts DEF CompileRead, Operations, Steps
    <3>. QED
      BY <1>5, <2>1, <3>1
  <2>4. CASE Inspect(t, q)
    <3>1. ~AtRow(t) /\ ~AtRow(t)' /\ \A u \in Threads \ {t} : call'[u] = call[u]
      BY <1>1, <2>4 DEF Inspect, Operations, Steps
    <3>. QED
      BY <1>5, <2>1, <3>1
  <2>. QED
    BY <1>6, <2>2, <2>3, <2>4
<1>7. ASSUME NEW t \in Threads, Refused(t) \/ CompileSave(t) \/ CompileRow(t) \/ Audit(t)
      PROVE  RowInv'
  <2>1. UNCHANGED <<workerVars, calibrations, repeated, overlapped>>
    BY <1>7 DEF Refused, CompileSave, CompileRow, Audit, rowVars
  <2>2. CASE Refused(t)
    BY <1>5, <2>1, <2>2 DEF Refused, BeganInVain
  <2>3. CASE CompileSave(t) \/ CompileRow(t) \/ Audit(t)
    <3>1. ~AtRow(t) /\ call[t] # Idle
      BY <2>3 DEF CompileSave, CompileRow, Audit, AtRow, At, Idle
    <3>2. (Goto(t, "row") /\ At(t, "compile", "save")) \/ Goto(t, "audit") \/ Return(t)
      BY <2>3 DEF CompileSave, CompileRow, Audit
    <3>3. ~AtRow(t)' /\ \A u \in Threads \ {t} : call'[u] = call[u]
      <4>1. CASE Goto(t, "row") /\ At(t, "compile", "save")
        BY <3>1, <4>1, GotoFacts DEF Steps, AtRow, At
      <4>2. CASE Goto(t, "audit")
        BY <3>1, <4>2, GotoFacts DEF Steps, AtRow, At
      <4>3. CASE Return(t)
        BY <4>3, ReturnFacts DEF AtRow, At, Idle
      <4>. QED
        BY <3>2, <4>1, <4>2, <4>3
    <3>. QED
      BY <1>5, <2>1, <3>1, <3>3
  <2>. QED
    BY <1>7, <2>2, <2>3
<1>8. CASE WorkerEnds \/ Crash
  <2>1. \A n \in Names, d \in Devices : ~Kept(n, d)'
    BY <1>0, <1>8, LostFacts DEF WorkerEnds, Crash, Kept
  <2>2. UNCHANGED <<repeated, overlapped>>
    BY <1>8 DEF WorkerEnds, Crash
  <2>3. \A t \in Threads : AtRow(t)' => AtRow(t)
    BY <1>8 DEF WorkerEnds, Crash, AtRow, At, Idle
  <2>. QED
    BY <2>1, <2>2, <2>3 DEF RowInv
<1>9. CASE UNCHANGED vars
  BY <1>9 DEF vars, rowVars, workerVars, RowInv, Kept, Pending, Recorded, LastRow,
     AtRow, At
<1>. QED
  BY <1>2, <1>3, <1>4, <1>6, <1>7, <1>8, <1>9, RowWritten DEF Next

PlanOk(q, d) == <<q, d>> \in listed /\ q \in inspected /\ (d # None => Backed(q, d))

\* A plan's row names what backs it, and nothing that does is taken away.
LEMMA PlanNext ==
  ASSUME TypeOK, CallInv, PlanBacked, [Next]_vars
  PROVE  PlanBacked'
<1>1. \A q, d : PlanOk(q, d) => PlanOk(q, d)'
  BY OnlyGrow DEF PlanOk
<1>2. ASSUME UNCHANGED plans
      PROVE  PlanBacked'
  <2>1. ASSUME NEW d \in Devices \cup {None}, plans[d] # None
        PROVE  \E q : q = plans[d] /\ PlanOk(q, d)
    BY <2>1 DEF PlanBacked, PlanOk, Backed
  <2>2. ASSUME NEW d \in Devices \cup {None}, plans'[d] # None
        PROVE  \E q : q = plans'[d] /\ PlanOk(q, d)'
    BY <1>1, <1>2, <2>1, <2>2
  <2>. QED
    BY <2>2 DEF PlanBacked, PlanOk, Backed
<1>3. ASSUME NEW t \in Threads, CompileRow(t)
      PROVE  PlanBacked'
  <2>1. /\ At(t, "compile", "row")
        /\ plans' = [plans EXCEPT ![call[t].device] =
                       IF plans[call[t].device] = None THEN call[t].project
                       ELSE plans[call[t].device]] \/ UNCHANGED plans
        /\ UNCHANGED plans \/ listed' = listed \cup {<<call[t].project, call[t].device>>}
    BY <1>3 DEF CompileRow
  <2>2. CASE UNCHANGED plans
    BY <1>2, <2>2
  <2>3. ASSUME ~UNCHANGED plans
        PROVE  PlanBacked'
    <3>1. PICK p, e : p = call[t].project /\ e = call[t].device
      OBVIOUS
    <3>2. /\ plans' = [plans EXCEPT ![e] = IF plans[e] = None THEN p ELSE plans[e]]
          /\ <<p, e>> \in listed'
      BY <2>1, <2>3, <3>1
    <3>3. p \in inspected' /\ (e # None => Backed(p, e)')
      <4>1. p \in inspected /\ (e # None => Backed(p, e))
        BY <2>1, <3>1 DEF CallInv, CallOk, At
      <4>. QED
        BY <4>1, OnlyGrow
    <3>4. PlanOk(p, e)'
      BY <3>2, <3>3 DEF PlanOk
    <3>5. ASSUME NEW d \in Devices \cup {None}, plans'[d] # None
          PROVE  \E q : q = plans'[d] /\ PlanOk(q, d)'
      <4>1. plans \in [Devices \cup {None} -> Projects \cup {None}]
        BY DEF TypeOK
      <4>2. CASE d = e /\ plans[d] = None
        BY <3>2, <3>4, <4>1, <4>2
      <4>3. CASE d # e \/ plans[d] # None
        <5>1. plans'[d] = plans[d]
          BY <3>2, <4>1, <4>3
        <5>2. \E q : q = plans[d] /\ PlanOk(q, d)
          BY <3>5, <5>1 DEF PlanBacked, PlanOk, Backed
        <5>. QED
          BY <1>1, <5>1, <5>2
      <4>. QED
        BY <4>2, <4>3
    <3>. QED
      BY <3>5 DEF PlanBacked, PlanOk, Backed
  <2>. QED
    BY <2>2, <2>3
<1>4. ASSUME NEW t \in Threads, NEW q \in Projects,
             Load(t, q) \/ Use(t, q) \/ Unload(t, q) \/ CalibrateWorker(t, q)
               \/ CompileRead(t, q) \/ Inspect(t, q)
      PROVE  UNCHANGED plans
  BY <1>4 DEF Load, Use, Unload, CalibrateWorker, CompileRead, Inspect, rowVars
<1>5. ASSUME NEW t \in Threads, Refused(t) \/ CalibrateRow(t) \/ CompileSave(t) \/ Audit(t)
      PROVE  UNCHANGED plans
  BY <1>5 DEF Refused, CalibrateRow, CompileSave, Audit, rowVars
<1>6. ASSUME WorkerEnds \/ Crash \/ UNCHANGED vars
      PROVE  UNCHANGED plans
  BY <1>6 DEF WorkerEnds, Crash, vars, rowVars
<1>. QED
  BY <1>2, <1>3, <1>4, <1>5, <1>6 DEF Next

\* The engine starts with no session, no row and no call.
LEMMA RecordsInit == Init => RecordsInv
<1>. SUFFICES ASSUME Init PROVE RecordsInv
  OBVIOUS
<1>1. /\ \A n \in Ids : models[n] = None /\ session[n] = Gone
      /\ models \in [Ids -> Ids \cup {None}] /\ session \in [Ids -> Sessions \cup {Gone}]
      /\ None \notin Ids /\ Names \subseteq Ids
      /\ \A d \in Devices : CalibrationName(d) \in Ids
  BY IdFacts DEF Init, WorkerInit
<1>2. WorkerTypeOK /\ Shape(models, session)
  BY <1>1 DEF WorkerTypeOK, Shape
<1>3. TypeOK
  <2>1. call \in [Threads -> Calls \cup {Idle}] /\ calls \in 0..MaxCalls
    BY EngineAssumption DEF Init
  <2>2. calibrations \in Seq([project : Projects, device : Devices, keep : Names \cup {None}])
    BY DEF Init
  <2>. QED
    BY <1>2, <2>1, <2>2 DEF Init, TypeOK
<1>4. CallInv
  BY DEF Init, CallInv, CallOk, AtRow, At, Idle
<1>5. SessionKept
  BY <1>1 DEF Init, SessionKept, SessionOk
<1>6. RowInv
  BY <1>1 DEF Init, RowInv, Kept, AtRow, At, Idle
<1>7. PlanBacked
  BY DEF Init, PlanBacked
<1>. QED
  BY <1>2, <1>3, <1>4, <1>5, <1>6, <1>7 DEF RecordsInv

\* The invariant holds in every reachable state.
LEMMA AlwaysRecordsInv == Spec => []RecordsInv
<1>1. RecordsInv /\ [Next]_vars => RecordsInv'
  BY TypeNext, CallNext, SessionNext, RowNext, PlanNext DEF RecordsInv
<1>. QED
  BY <1>1, RecordsInit, PTL DEF Spec

-----------------------------------------------------------------------------
(***************************************************************************)
(* What follows.                                                           *)
(***************************************************************************)
\* While no calibration is repeated over a session kept earlier, an id for
\* which the worker answered has that session on that device, under this id
\* (worker.py, calibrate and unload; runtime.py, load_direct_model).
THEOREM SessionsAlwaysKept == Spec => []KeptUnlessRepeated
<1>1. RecordsInv => KeptUnlessRepeated
  BY DEF RecordsInv, SessionKept, SessionOk, KeptUnlessRepeated
<1>. QED
  BY <1>1, AlwaysRecordsInv, PTL

\* While calibrations neither repeat nor overlap and all are recorded, the last
\* row for an id names the device of the session that a calibration kept there
\* (runtime.py, calibrate_direct_model and _calibrated_profile_device).
THEOREM RecordsMatchSessions == Spec => []RecordMatchesSession
<1>1. RecordsInv => RecordMatchesSession
  <2>1. ASSUME RecordsInv, ~repeated, ~overlapped, ~Unrecorded,
               NEW n \in Names, models[n] # None, session[models[n]].config = CalibrationConfig
        PROVE  LastRow(n, session[models[n]].device)
    <3>1. TypeOK /\ RowInv
      BY <2>1 DEF RecordsInv
    <3>2. PICK d \in Devices : d = session[models[n]].device
      BY <2>1, <3>1, ResidentFacts
    <3>3. Kept(n, d) /\ ~Pending(n, d)
      BY <2>1, <3>2 DEF Kept, Pending, Unrecorded, AtRow
    <3>. QED
      BY <2>1, <3>1, <3>2, <3>3 DEF RowInv, Recorded
  <2>. QED
    BY <2>1 DEF RecordMatchesSession, LastRow
<1>. QED
  BY <1>1, AlwaysRecordsInv, PTL

\* Whatever calls overlap and whatever ends in between, a plan's row is backed
\* by the listing, the model's row and the calibration that it was made from
\* (runtime.py, compile_model and _save_model).
THEOREM PlansAlwaysBacked == Spec => []PlanBacked
<1>1. RecordsInv => PlanBacked
  BY DEF RecordsInv
<1>. QED
  BY <1>1, AlwaysRecordsInv, PTL

-----------------------------------------------------------------------------
(***************************************************************************)
(* Induction over sizes, and sums of functions.  A sum is defined by a     *)
(* function on the subsets of a set that is defined by itself: that there  *)
(* is one is proved by induction on their size.                            *)
(***************************************************************************)
\* Induction, with a set in the place of a predicate: what holds of 0 and,
\* with n, of n + 1 holds of every natural number.
LEMMA NatSets ==
  ASSUME NEW T, 0 \in T, \A n \in Nat : n \in T => n + 1 \in T
  PROVE  Nat \subseteq T
<1> DEFINE R == {p \in Nat \X Nat : p[1] < p[2]}
           U == Nat \ T
<1>1. IsWellFoundedOn(R, Nat)
  BY NatLessThanWellFounded DEF OpToRel
<1> SUFFICES ASSUME U # {} PROVE FALSE
  OBVIOUS
<1> HIDE DEF R
<1>2. PICK m \in U : \A k \in U : ~(<<k, m>> \in R)
  BY <1>1, WFMin
<1>3. m - 1 \in Nat /\ m - 1 + 1 = m
  BY <1>2
<1>4. <<m - 1, m>> \in R
  BY <1>3 DEF R
<1> QED
  BY <1>2, <1>3, <1>4

\* One element less is a size less by one.
LEMMA Removed ==
  ASSUME NEW S, IsFiniteSet(S), NEW x \in S
  PROVE  /\ IsFiniteSet(S \ {x}) /\ Cardinality(S) \in Nat \ {0}
         /\ Cardinality(S \ {x}) = Cardinality(S) - 1
<1>1. Cardinality(S) \in Nat /\ S # {}
  BY FS_CardinalityType
<1>2. Cardinality(S) # 0
  BY <1>1, FS_EmptySet
<1>3. IsFiniteSet(S \ {x}) /\ Cardinality(S \ {x}) = Cardinality(S) - 1
  BY FS_RemoveElement
<1> QED
  BY <1>1, <1>2, <1>3

\* Induction over a finite set, with a family of sets in the place of a
\* predicate: what holds of {} and stays true when one element is added holds
\* of the set.
LEMMA SetFamilies ==
  ASSUME NEW S, IsFiniteSet(S), NEW F, {} \in F,
         \A A \in SUBSET S : A \in F => \A x \in S \ A : A \cup {x} \in F
  PROVE  S \in F
<1> DEFINE T == {n \in Nat : \A A \in SUBSET S : Cardinality(A) = n => A \in F}
<1>1. \A A \in SUBSET S : IsFiniteSet(A) /\ Cardinality(A) \in Nat
  BY FS_Subset, FS_CardinalityType
<1>2. 0 \in T
  BY <1>1, FS_EmptySet
<1>3. ASSUME NEW n \in Nat, n \in T PROVE n + 1 \in T
  <2> SUFFICES ASSUME NEW A \in SUBSET S, Cardinality(A) = n + 1 PROVE A \in F
    OBVIOUS
  <2>1. A # {}
    BY FS_EmptySet
  <2>2. PICK x \in A : TRUE
    BY <2>1
  <2>3. Cardinality(A \ {x}) = n
    <3>1. IsFiniteSet(A)
      BY <1>1
    <3> QED
      BY <2>2, <3>1, Removed
  <2>4. A \ {x} \in F /\ x \in S \ (A \ {x})
    BY <1>3, <2>3
  <2>5. (A \ {x}) \cup {x} = A
    BY <2>2
  <2> QED
    BY <2>4, <2>5
<1>4. Nat \subseteq T
  <2> HIDE DEF T
  <2> QED
    BY <1>2, <1>3, NatSets
<1>5. Cardinality(S) \in T
  BY <1>1, <1>4
<1> QED
  BY <1>5

Chooser(S) == CHOOSE x \in S : TRUE
Step(f, g, s) == IF s = {} THEN 0 ELSE f[Chooser(s)] + g[s \ {Chooser(s)}]
Summing(f, g, S) == g = [s \in SUBSET S |-> Step(f, g, s)]

\* What SumFunctionOnSet means.
LEMMA SumMeans ==
  ASSUME NEW f, NEW S
  PROVE  SumFunctionOnSet(f, S) = (CHOOSE g : Summing(f, g, S))[S]
BY DEF SumFunctionOnSet, FoldFunctionOnSet, MapThenFoldSet, Summing, Step, Chooser

\* A set that is not empty has the element that is chosen of it.
LEMMA Choosing ==
  ASSUME NEW S, IsFiniteSet(S), S # {}
  PROVE  /\ Chooser(S) \in S /\ S \ {Chooser(S)} \in SUBSET S /\ IsFiniteSet(S \ {Chooser(S)})
         /\ Cardinality(S) \in Nat /\ Cardinality(S \ {Chooser(S)}) = Cardinality(S) - 1
<1>1. Chooser(S) \in S
  BY DEF Chooser
<1> QED
  BY <1>1, FS_RemoveElement, FS_CardinalityType

\* There is a function that sums over the subsets of a finite set.
LEMMA SummingExists ==
  ASSUME NEW f, NEW S, IsFiniteSet(S)
  PROVE  \E g : Summing(f, g, S)
<1> DEFINE Below(n) == {s \in SUBSET S : Cardinality(s) <= n}
           T == {n \in Nat : \E g : g = [s \in Below(n) |-> Step(f, g, s)]}
<1>1. \A A \in SUBSET S : IsFiniteSet(A) /\ Cardinality(A) \in Nat
  BY FS_Subset, FS_CardinalityType
<1>2. 0 \in T
  <2>1. Below(0) = {{}}
    <3>1. \A A \in SUBSET S : Cardinality(A) <= 0 => A = {}
      BY <1>1, FS_EmptySet
    <3> QED
      BY <3>1, FS_EmptySet
  <2> DEFINE g == [s \in Below(0) |-> 0]
  <2>2. g = [s \in Below(0) |-> Step(f, g, s)]
    BY <2>1 DEF Step
  <2> QED
    BY <2>2
<1>3. ASSUME NEW n \in Nat, n \in T PROVE n + 1 \in T
  <2>1. PICK g : g = [s \in Below(n) |-> Step(f, g, s)]
    BY <1>3
  <2> DEFINE h == [s \in Below(n + 1) |-> Step(f, g, s)]
  <2>2. ASSUME NEW s \in Below(n + 1) PROVE Step(f, h, s) = Step(f, g, s)
    <3>1. CASE s = {}
      BY <3>1 DEF Step
    <3>2. CASE s # {}
      <4> DEFINE r == s \ {Chooser(s)}
      <4>1. r \in SUBSET S /\ Cardinality(r) = Cardinality(s) - 1 /\ Cardinality(s) \in Nat
        BY <1>1, <3>2, Choosing
      <4>2. r \in Below(n) /\ r \in Below(n + 1)
        BY <4>1
      <4>3. h[r] = g[r]
        <5> HIDE DEF r
        <5> QED
          BY <4>2, <2>1
      <4> QED
        BY <3>2, <4>3 DEF Step
    <3> QED
      BY <3>1, <3>2
  <2>3. h = [s \in Below(n + 1) |-> Step(f, h, s)]
    BY <2>2
  <2>4. \E k : k = [s \in Below(n + 1) |-> Step(f, k, s)]
    <3> HIDE DEF h, Below
    <3> QED
      BY <2>3
  <2>5. n + 1 \in Nat
    OBVIOUS
  <2> HIDE DEF Below
  <2> QED
    BY <2>4, <2>5
<1>4. Nat \subseteq T
  <2> HIDE DEF T
  <2> QED
    BY <1>2, <1>3, NatSets
<1>5. Cardinality(S) \in T
  BY <1>1, <1>4
<1>6. Below(Cardinality(S)) = SUBSET S
  BY FS_Subset
<1> QED
  BY <1>5, <1>6 DEF Summing

\* Two such functions agree where both are defined.
LEMMA SummingAgrees ==
  ASSUME NEW f, NEW S, NEW T, IsFiniteSet(S), T \in SUBSET S,
         NEW g, NEW h, Summing(f, g, S), Summing(f, h, T)
  PROVE  \A A \in SUBSET T : g[A] = h[A]
<1> DEFINE N == {n \in Nat : \A A \in SUBSET T : Cardinality(A) = n => g[A] = h[A]}
<1>1. \A A \in SUBSET T : IsFiniteSet(A) /\ Cardinality(A) \in Nat /\ A \in SUBSET S
  BY FS_Subset, FS_CardinalityType
<1>2. \A A \in SUBSET T : g[A] = Step(f, g, A) /\ h[A] = Step(f, h, A)
  BY <1>1 DEF Summing
<1>3. 0 \in N
  <2>1. \A A \in SUBSET T : Cardinality(A) = 0 => A = {}
    BY <1>1, FS_EmptySet
  <2> QED
    BY <1>2, <2>1 DEF Step
<1>4. ASSUME NEW n \in Nat, n \in N PROVE n + 1 \in N
  <2> SUFFICES ASSUME NEW A \in SUBSET T, Cardinality(A) = n + 1 PROVE g[A] = h[A]
    OBVIOUS
  <2>1. A # {}
    BY FS_EmptySet
  <2>2. A \ {Chooser(A)} \in SUBSET T /\ Cardinality(A \ {Chooser(A)}) = n
    BY <1>1, <2>1, Choosing
  <2>3. g[A \ {Chooser(A)}] = h[A \ {Chooser(A)}]
    BY <1>4, <2>2
  <2> QED
    BY <1>2, <2>1, <2>3 DEF Step
<1>5. Nat \subseteq N
  <2> HIDE DEF N
  <2> QED
    BY <1>3, <1>4, NatSets
<1> QED
  BY <1>1, <1>5

\* A sum is that of one element and of the rest.
LEMMA SumStep ==
  ASSUME NEW f, NEW S, IsFiniteSet(S)
  PROVE  /\ S = {} => SumFunctionOnSet(f, S) = 0
         /\ S # {} => SumFunctionOnSet(f, S)
                        = f[Chooser(S)] + SumFunctionOnSet(f, S \ {Chooser(S)})
<1>1. PICK g : g = (CHOOSE h : Summing(f, h, S)) /\ Summing(f, g, S)
  BY SummingExists
<1>2. SumFunctionOnSet(f, S) = g[S] /\ g[S] = Step(f, g, S)
  BY <1>1, SumMeans DEF Summing
<1>3. CASE S = {}
  BY <1>2, <1>3 DEF Step
<1>4. CASE S # {}
  <2> DEFINE R == S \ {Chooser(S)}
  <2>1. IsFiniteSet(R) /\ R \in SUBSET S
    BY <1>4, Choosing
  <2> HIDE DEF R
  <2>2. PICK h : h = (CHOOSE k : Summing(f, k, R)) /\ Summing(f, h, R)
    BY <2>1, SummingExists
  <2>3. SumFunctionOnSet(f, R) = h[R]
    BY <2>2, SumMeans
  <2>4. \A A \in SUBSET R : g[A] = h[A]
    BY <1>1, <2>1, <2>2, SummingAgrees
  <2>5. g[R] = SumFunctionOnSet(f, R)
    BY <2>3, <2>4
  <2> QED
    BY <1>2, <1>4, <2>5 DEF Step, R
<1> QED
  BY <1>3, <1>4

\* A sum of integers is one, and any element can be taken out of it.
LEMMA SumFacts ==
  ASSUME NEW f, NEW S, IsFiniteSet(S), \A x \in S : f[x] \in Int
  PROVE  /\ SumFunctionOnSet(f, S) \in Int
         /\ S = {} => SumFunctionOnSet(f, S) = 0
         /\ \A x \in S : SumFunctionOnSet(f, S) = f[x] + SumFunctionOnSet(f, S \ {x})
<1> DEFINE Sum(A) == SumFunctionOnSet(f, A)
           Taken(A) == Sum(A) \in Int /\ \A x \in A : Sum(A) = f[x] + Sum(A \ {x})
           N == {n \in Nat : \A A \in SUBSET S : Cardinality(A) <= n => Taken(A)}
<1>1. \A A \in SUBSET S : /\ IsFiniteSet(A) /\ Cardinality(A) \in Nat
                          /\ A = {} => Sum(A) = 0
                          /\ A # {} => Sum(A) = f[Chooser(A)] + Sum(A \ {Chooser(A)})
  BY FS_Subset, FS_CardinalityType, SumStep
<1> HIDE DEF Sum
<1>2. 0 \in N
  <2> SUFFICES ASSUME NEW A \in SUBSET S, Cardinality(A) <= 0 PROVE Taken(A)
    OBVIOUS
  <2>1. IsFiniteSet(A) /\ Cardinality(A) \in Nat
    BY <1>1
  <2>2. A = {}
    BY <2>1, FS_EmptySet
  <2>3. Sum(A) = 0
    BY <1>1, <2>2
  <2> QED
    BY <2>2, <2>3
<1>3. ASSUME NEW n \in Nat, n \in N PROVE n + 1 \in N
  <2>0. ASSUME NEW A \in SUBSET S, Cardinality(A) = n + 1 PROVE Taken(A)
    <3>1. A # {}
      <4>1. Cardinality({}) = 0
        BY FS_EmptySet
      <4> QED
        BY <2>0, <4>1
    <3> DEFINE c == Chooser(A)
    <3>2. c \in A /\ IsFiniteSet(A)
      BY <1>1, <3>1, Choosing
    <3>3. Sum(A) = f[c] + Sum(A \ {c})
      BY <1>1, <3>1
    <3> HIDE DEF c
    <3>4. ASSUME NEW x \in A
          PROVE  /\ A \ {x} \in SUBSET S /\ Cardinality(A \ {x}) = n /\ Taken(A \ {x})
      <4>1. A \ {x} \in SUBSET S
        OBVIOUS
      <4>2. Cardinality(A \ {x}) = n
        BY <2>0, <3>2, Removed
      <4>3. n \in N /\ n <= n
        BY <1>3
      <4> HIDE DEF Taken
      <4>4. Taken(A \ {x})
        BY <4>1, <4>2, <4>3
      <4> QED
        BY <4>1, <4>2, <4>4
    <3>5. Sum(A) \in Int
      <4>1. Sum(A \ {c}) \in Int /\ f[c] \in Int
        BY <3>2, <3>4
      <4> QED
        BY <3>3, <4>1
    <3>6. ASSUME NEW x \in A PROVE Sum(A) = f[x] + Sum(A \ {x})
      <4>1. CASE x = c
        BY <4>1, <3>3
      <4>2. CASE x # c
        <5> DEFINE R == A \ {c, x}
        <5>1. (A \ {c}) \ {x} = R /\ (A \ {x}) \ {c} = R
          OBVIOUS
        <5>2. Sum(A \ {c}) = f[x] + Sum(R)
          BY <3>2, <3>4, <4>2, <5>1
        <5>3. Sum(A \ {x}) = f[c] + Sum(R)
          BY <3>2, <3>4, <4>2, <5>1
        <5>4. Cardinality(R) <= n
          <6>1. R = (A \ {c}) \ {x}
            OBVIOUS
          <6>2. IsFiniteSet(A \ {c}) /\ Cardinality(A \ {c}) = n
            BY <3>2, <3>4, Removed
          <6>3. x \in A \ {c}
            BY <4>2
          <6>4. Cardinality((A \ {c}) \ {x}) = n - 1
            BY <6>2, <6>3, Removed
          <6> QED
            BY <6>1, <6>4
        <5>5. Sum(R) \in Int
          <6>1. R \in SUBSET S
            OBVIOUS
          <6> QED
            BY <1>3, <5>4, <6>1
        <5>6. f[c] \in Int /\ f[x] \in Int
          BY <3>2
        <5> QED
          BY <3>3, <5>2, <5>3, <5>5, <5>6
      <4> QED
        BY <4>1, <4>2
    <3> QED
      BY <3>5, <3>6
  <2> SUFFICES ASSUME NEW A \in SUBSET S, Cardinality(A) <= n + 1 PROVE Taken(A)
    OBVIOUS
  <2>1. Cardinality(A) \in Nat
    BY <1>1
  <2>2. CASE Cardinality(A) <= n
    BY <1>3, <2>2
  <2>3. CASE Cardinality(A) = n + 1
    BY <2>0, <2>3
  <2> QED
    BY <2>1, <2>2, <2>3
<1>4. Nat \subseteq N
  <2> HIDE DEF N
  <2> QED
    BY <1>2, <1>3, NatSets
<1>5. Cardinality(S) \in N
  BY <1>1, <1>4
<1>6. Taken(S)
  <2>1. Cardinality(S) \in Nat
    BY <1>1
  <2>2. Cardinality(S) <= Cardinality(S)
    BY <2>1
  <2> HIDE DEF Taken
  <2> QED
    BY <1>5, <2>2
<1> QED
  BY <1>1, <1>6 DEF Sum

\* Functions that are ordered everywhere have sums that are.
LEMMA SumOrdered ==
  ASSUME NEW f, NEW h, NEW S, IsFiniteSet(S),
         \A x \in S : f[x] \in Int /\ h[x] \in Int /\ f[x] <= h[x]
  PROVE  SumFunctionOnSet(f, S) <= SumFunctionOnSet(h, S)
<1> DEFINE F == {A \in SUBSET S : SumFunctionOnSet(f, A) <= SumFunctionOnSet(h, A)}
<1>1. \A A \in SUBSET S : IsFiniteSet(A)
  BY FS_Subset
<1>2. {} \in F
  BY <1>1, SumFacts
<1>3. ASSUME NEW A \in SUBSET S, A \in F, NEW x \in S \ A PROVE A \cup {x} \in F
  <2> DEFINE B == A \cup {x}
  <2>1. B \ {x} = A /\ x \in B /\ B \in SUBSET S
    OBVIOUS
  <2> HIDE DEF B
  <2>2. /\ SumFunctionOnSet(f, B) = f[x] + SumFunctionOnSet(f, A)
        /\ SumFunctionOnSet(h, B) = h[x] + SumFunctionOnSet(h, A)
        /\ SumFunctionOnSet(f, A) \in Int /\ SumFunctionOnSet(h, A) \in Int
    <3>1. IsFiniteSet(B) /\ IsFiniteSet(A)
      BY <1>1, <2>1
    <3>2. \A y \in B : f[y] \in Int /\ h[y] \in Int
      BY <2>1
    <3> QED
      BY <2>1, <3>1, <3>2, SumFacts
  <2>3. SumFunctionOnSet(f, B) <= SumFunctionOnSet(h, B)
    BY <1>3, <2>2
  <2> QED
    BY <2>1, <2>3 DEF B
<1>4. S \in F
  <2> HIDE DEF F
  <2> QED
    BY <1>2, <1>3, SetFamilies
<1> QED
  BY <1>4

\* Functions that agree on a set have the same sum.
LEMMA SumSame ==
  ASSUME NEW f, NEW h, NEW S, IsFiniteSet(S), \A x \in S : f[x] \in Int /\ h[x] = f[x]
  PROVE  SumFunctionOnSet(f, S) = SumFunctionOnSet(h, S)
<1>1. SumFunctionOnSet(f, S) <= SumFunctionOnSet(h, S)
  BY SumOrdered
<1>2. SumFunctionOnSet(h, S) <= SumFunctionOnSet(f, S)
  BY SumOrdered
<1>3. SumFunctionOnSet(f, S) \in Int /\ SumFunctionOnSet(h, S) \in Int
  BY SumFacts
<1> QED
  BY <1>1, <1>2, <1>3

\* A sum of zeros is zero.
LEMMA SumOfZeros ==
  ASSUME NEW f, NEW S, IsFiniteSet(S), \A x \in S : f[x] = 0
  PROVE  SumFunctionOnSet(f, S) = 0
<1> DEFINE F == {A \in SUBSET S : SumFunctionOnSet(f, A) = 0}
<1>1. \A A \in SUBSET S : IsFiniteSet(A)
  BY FS_Subset
<1>2. {} \in F
  BY <1>1, SumFacts
<1>3. ASSUME NEW A \in SUBSET S, A \in F, NEW x \in S \ A PROVE A \cup {x} \in F
  <2> DEFINE B == A \cup {x}
  <2>1. B \ {x} = A /\ x \in B /\ B \in SUBSET S /\ IsFiniteSet(B)
    BY <1>1
  <2> HIDE DEF B
  <2>2. SumFunctionOnSet(f, B) = f[x] + SumFunctionOnSet(f, A)
    BY <2>1, SumFacts
  <2>3. SumFunctionOnSet(f, B) = 0
    BY <1>3, <2>2
  <2> QED
    BY <2>1, <2>3 DEF B
<1>4. S \in F
  <2> HIDE DEF F
  <2> QED
    BY <1>2, <1>3, SetFamilies
<1> QED
  BY <1>4

\* A sum of natural numbers is one.
LEMMA SumNatural ==
  ASSUME NEW f, NEW S, IsFiniteSet(S), \A x \in S : f[x] \in Nat
  PROVE  SumFunctionOnSet(f, S) \in Nat
<1> DEFINE z == [x \in S |-> 0]
<1>1. SumFunctionOnSet(z, S) = 0
  BY SumOfZeros
<1>2. SumFunctionOnSet(z, S) <= SumFunctionOnSet(f, S)
  BY SumOrdered
<1>3. SumFunctionOnSet(f, S) \in Int
  BY SumFacts
<1> QED
  BY <1>1, <1>2, <1>3

\* One value changes a sum by what it changes.
LEMMA SumChanged ==
  ASSUME NEW f, NEW h, NEW S, IsFiniteSet(S), NEW x \in S,
         \A y \in S : f[y] \in Int /\ h[y] \in Int, \A y \in S \ {x} : h[y] = f[y]
  PROVE  SumFunctionOnSet(h, S) = SumFunctionOnSet(f, S) - f[x] + h[x]
<1> DEFINE R == S \ {x}
<1>1. IsFiniteSet(R)
  BY FS_RemoveElement
<1>2. SumFunctionOnSet(f, R) = SumFunctionOnSet(h, R)
  BY <1>1, SumSame
<1>3. SumFunctionOnSet(f, S) = f[x] + SumFunctionOnSet(f, R)
  BY SumFacts
<1>4. SumFunctionOnSet(h, S) = h[x] + SumFunctionOnSet(h, R)
  BY SumFacts
<1>5. SumFunctionOnSet(f, R) \in Int /\ f[x] \in Int /\ h[x] \in Int
  BY <1>1, SumFacts
<1> QED
  BY <1>2, <1>3, <1>4, <1>5

-----------------------------------------------------------------------------
(***************************************************************************)
(* The compiler: what is known of its inputs, and of the precisions that   *)
(* a node may have.                                                        *)
(***************************************************************************)
\* A set of natural numbers has a least element.
LEMMA LeastOf ==
  ASSUME NEW S \in SUBSET Nat, S # {}
  PROVE  \E m \in S : \A k \in S : m <= k
<1> DEFINE R == {p \in Nat \X Nat : p[1] < p[2]}
<1>1. IsWellFoundedOn(R, Nat)
  BY NatLessThanWellFounded DEF OpToRel
<1> HIDE DEF R
<1>2. PICK m \in S : \A k \in S : ~(<<k, m>> \in R)
  BY <1>1, WFMin
<1>3. \A k \in S : ~(k < m)
  BY <1>2 DEF R
<1> QED
  BY <1>3

\* A finite set of integers has a greatest and a least element.
LEMMA IntegerSets ==
  ASSUME NEW S \in SUBSET Int, IsFiniteSet(S), S # {}
  PROVE  /\ Max(S) \in S /\ \A x \in S : x <= Max(S)
         /\ Min(S) \in S /\ \A x \in S : Min(S) <= x
<1> DEFINE Bounded(A) == /\ \E m \in A : \A x \in A : m >= x
                         /\ \E m \in A : \A x \in A : m =< x
           F == {A \in SUBSET S : A # {} => Bounded(A)}
<1>1. {} \in F
  OBVIOUS
<1>2. ASSUME NEW A \in SUBSET S, A \in F, NEW y \in S \ A PROVE A \cup {y} \in F
  <2>1. CASE A = {}
    <3>1. Bounded({y})
      OBVIOUS
    <3> QED
      BY <2>1, <3>1
  <2>2. CASE A # {}
    <3>1. PICK m \in A : \A x \in A : m >= x
      BY <1>2, <2>2
    <3>2. PICK k \in A : \A x \in A : k =< x
      BY <1>2, <2>2
    <3>3. \E b \in A \cup {y} : \A x \in A \cup {y} : b >= x
      <4>1. CASE m >= y
        BY <3>1, <4>1
      <4>2. CASE ~(m >= y)
        <5>1. \A x \in A \cup {y} : y >= x
          BY <3>1, <4>2
        <5> QED
          BY <5>1
      <4> QED
        BY <4>1, <4>2
    <3>4. \E b \in A \cup {y} : \A x \in A \cup {y} : b =< x
      <4>1. CASE k =< y
        BY <3>2, <4>1
      <4>2. CASE ~(k =< y)
        <5>1. \A x \in A \cup {y} : y =< x
          BY <3>2, <4>2
        <5> QED
          BY <5>1
      <4> QED
        BY <4>1, <4>2
    <3> QED
      BY <3>3, <3>4
  <2> QED
    BY <2>1, <2>2
<1>3. S \in F
  <2> HIDE DEF F
  <2> QED
    BY <1>1, <1>2, SetFamilies
<1>4. Max(S) \in S /\ \A x \in S : Max(S) >= x
  BY <1>3 DEF Max
<1>5. Min(S) \in S /\ \A x \in S : Min(S) =< x
  BY <1>3 DEF Min
<1> QED
  BY <1>4, <1>5

\* A set of two is finite.
LEMMA PairsFinite == \A a, b : IsFiniteSet({a, b})
<1> TAKE a, b
<1>1. IsFiniteSet({a} \cup {b})
  BY FS_Singleton, FS_AddElement
<1>2. {a, b} = {a} \cup {b}
  OBVIOUS
<1> QED
  BY <1>1, <1>2

Given == model \in Models /\ machine \in Machines /\ ask \in Asks

\* What CompilerAssumption says of what compile was called with.
LEMMA GivenFacts ==
  ASSUME Given
  PROVE  /\ Len(model.nodes) \in Nat /\ Nodes = 1..Len(model.nodes) /\ IsFiniteSet(Nodes)
         /\ model.bits \in Nat /\ model.bits > 0
         /\ \A n \in Nodes :
              /\ size[n] = Node(n).size /\ size[n] \in Nat /\ Node(n).work \in Nat
              /\ Node(n).activation \in Nat /\ Node(n).sensitivity \in Nat
              /\ Node(n).precisions \subseteq Ladder /\ Node(n).precisions # {}
         /\ ask.budget \in Int /\ ask.limit \in Int /\ ask.transitions \in Int
         /\ ask.tokens \in Nat /\ ask.kv \in Nat
         /\ IsFiniteSet(Units)
         /\ \A d \in Units : /\ machine[d].kind \in {"cpu", "gpu", "npu"}
                             /\ machine[d].memory \in Nat
                             /\ machine[d].speed \in Nat /\ machine[d].speed > 0
                             /\ machine[d].bandwidth \in Nat /\ machine[d].bandwidth > 0
<1> USE DEF Given
<1>1. DOMAIN model.nodes = 1..Len(model.nodes) /\ Len(model.nodes) \in Nat
  BY CompilerAssumption
<1>2. IsFiniteSet(1..Len(model.nodes))
  BY <1>1, FS_Interval
<1>3. model.bits \in Nat /\ model.bits > 0
  BY CompilerAssumption
<1>4. ASSUME NEW n \in Nodes
      PROVE  /\ size[n] = Node(n).size /\ size[n] \in Nat /\ Node(n).work \in Nat
             /\ Node(n).activation \in Nat /\ Node(n).sensitivity \in Nat
             /\ Node(n).precisions \subseteq Ladder /\ Node(n).precisions # {}
  <2>1. LET node == model.nodes[n] IN
            /\ node.size \in Nat /\ node.work \in Nat /\ node.activation \in Nat
            /\ node.sensitivity \in Nat /\ node.precisions \in (SUBSET Ladder) \ {{}}
    BY <1>4, CompilerAssumption DEF Nodes
  <2>2. size[n] = Node(n).size
    BY <1>4 DEF size
  <2>3. Node(n) = model.nodes[n]
    BY DEF Node
  <2> QED
    BY <2>1, <2>2, <2>3
<1>5. /\ ask.budget \in Int /\ ask.limit \in Int /\ ask.transitions \in Int
      /\ ask.tokens \in Nat /\ ask.kv \in Nat
  BY CompilerAssumption
<1>6. IsFiniteSet(Units)
  BY CompilerAssumption DEF Units
<1>7. ASSUME NEW d \in Units
      PROVE  /\ machine[d].kind \in {"cpu", "gpu", "npu"} /\ machine[d].memory \in Nat
             /\ machine[d].speed \in Nat /\ machine[d].speed > 0
             /\ machine[d].bandwidth \in Nat /\ machine[d].bandwidth > 0
  BY <1>7, CompilerAssumption DEF Units
<1> QED
  BY <1>1, <1>2, <1>3, <1>4, <1>5, <1>6, <1>7 DEF Nodes

\* The ladder is that of the code.
LEMMA LadderFacts ==
  /\ Ladder \subseteq Nat /\ IsFiniteSet(Ladder)
  /\ \A b \in Ladder : b \in {32, 16, 8, 4, 3, 2} /\ b > 0
<1>1. Ladder \subseteq 0..32
  BY CompilerAssumption
<1>2. Ladder \in SUBSET Nat /\ \A b \in Ladder : b <= 32
  BY <1>1
<1>3. IsFiniteSet(Ladder)
  BY <1>2, FS_BoundedSetOfNaturals
<1> QED
  BY <1>3, CompilerAssumption

\* A node has a precision of the ladder that it is planned at first.
LEMMA ChosenFacts ==
  ASSUME Given, NEW n \in Nodes
  PROVE  /\ Supported(n) \subseteq Ladder /\ Supported(n) # {} /\ IsFiniteSet(Supported(n))
         /\ Chosen(n) \in Supported(n)
<1>1. Supported(n) \subseteq Ladder /\ Supported(n) # {}
  BY GivenFacts DEF Supported
<1>2. IsFiniteSet(Supported(n))
  BY <1>1, LadderFacts, FS_Subset
<1>3. Max(Supported(n)) \in Supported(n)
  BY <1>1, <1>2, LadderFacts, IntegerSets
<1>4. \E b \in Supported(n) :
        \A c \in Supported(n) : Distance(b, model.bits) <= Distance(c, model.bits)
  <2> DEFINE D == {Distance(b, model.bits) : b \in Supported(n)}
  <2>1. D \subseteq Nat /\ D # {}
    <3>1. \A b \in Supported(n) : b \in Nat
      BY <1>1, LadderFacts
    <3>2. \A b \in Supported(n) : Distance(b, model.bits) \in Nat
      BY <3>1, GivenFacts DEF Distance
    <3> QED
      BY <1>1, <3>2
  <2>2. PICK m \in D : \A k \in D : m <= k
    BY <2>1, LeastOf
  <2> QED
    BY <2>2
<1>5. model.format # "gguf" => Chosen(n) \in Supported(n)
  BY <1>3 DEF Chosen
<1>6. model.format = "gguf" /\ Native(model.bits) \in Supported(n) => Chosen(n) \in Supported(n)
  BY DEF Chosen
<1>7. model.format = "gguf" /\ Native(model.bits) \notin Supported(n) => Chosen(n) \in Supported(n)
  BY <1>4 DEF Chosen
<1> QED
  BY <1>1, <1>2, <1>5, <1>6, <1>7

\* A number of bytes is a natural number.
LEMMA BytesFacts ==
  ASSUME Given, NEW n \in Nodes, NEW b \in Ladder
  PROVE  Bytes(n, b) \in Nat
<1>1. size[n] \in Nat /\ b \in Nat /\ model.bits \in Nat /\ model.bits > 0
  BY GivenFacts, LadderFacts
<1>2. size[n] * b \in Nat
  BY <1>1
<1>3. (size[n] * b) \div model.bits \in Nat
  BY <1>1, <1>2
<1> QED
  BY <1>3 DEF Bytes

\* The useful precisions of a node, and the one above each: it is useful, and
\* no useful one lies between (compiler.py, select_precision_plan).
LEMMA UsefulFacts ==
  ASSUME Given, NEW n \in Nodes
  PROVE  /\ Useful(n) \subseteq Ladder /\ IsFiniteSet(Useful(n)) /\ Chosen(n) \in Useful(n)
         /\ \A b \in Useful(n) : b <= Chosen(n)
         /\ \A b, c \in Useful(n) : b < c => Bytes(n, c) > Bytes(n, b)
         /\ \A b \in Useful(n) \ {Chosen(n)} :
              /\ Above(n, b) \in Useful(n) /\ Above(n, b) > b
              /\ \A c \in Useful(n) : c > b => Above(n, b) <= c
<1>1. Useful(n) \subseteq Ladder /\ Chosen(n) \in Ladder
  BY ChosenFacts DEF Useful
<1>2. \A b \in Ladder : b \in Nat /\ b > 0
  BY LadderFacts
<1>3. \A b \in Useful(n) : b <= Chosen(n)
  BY <1>1, <1>2 DEF Useful
<1>4. Chosen(n) \in Useful(n)
  BY <1>1, <1>2, ChosenFacts DEF Useful
<1>5. \A b, c \in Useful(n) : b < c => Bytes(n, c) > Bytes(n, b)
  BY DEF Useful
<1>6. IsFiniteSet(Useful(n))
  BY <1>1, LadderFacts, FS_Subset
<1>7. ASSUME NEW b \in Useful(n) \ {Chosen(n)}
      PROVE  /\ Above(n, b) \in Useful(n) /\ Above(n, b) > b
             /\ \A c \in Useful(n) : c > b => Above(n, b) <= c
  <2> DEFINE H == {c \in Useful(n) : c > b}
  <2>1. H \subseteq Int /\ IsFiniteSet(H)
    BY <1>1, <1>2, <1>6, FS_Subset
  <2>2. Chosen(n) > b
    BY <1>1, <1>2, <1>3, <1>4
  <2>3. H # {}
    BY <1>4, <2>2
  <2>4. Min(H) \in H /\ \A x \in H : Min(H) <= x
    BY <2>1, <2>3, IntegerSets
  <2>5. Above(n, b) = Min(H)
    BY DEF Above
  <2> QED
    BY <2>4, <2>5
<1> QED
  BY <1>1, <1>3, <1>4, <1>5, <1>6, <1>7

-----------------------------------------------------------------------------
(***************************************************************************)
(* The compiler: the plan of the precisions.  Of two alternatives of one   *)
(* node, the one that lowers it less comes earlier, when its size divides: *)
(* it costs no more for a byte and saves no less.                          *)
(***************************************************************************)
\* What a node whose size divides is stored in.
LEMMA EvenBytes ==
  ASSUME Given, NEW n \in Nodes, Even(n), NEW b \in Ladder
  PROVE  Bytes(n, b) * model.bits = size[n] * b
<1> DEFINE s == size[n] * b
           m == model.bits
<1>1. size[n] \in Nat /\ b \in Nat /\ b > 0 /\ m \in Nat /\ m > 0
  BY GivenFacts, LadderFacts
<1>2. s % m = 0
  BY DEF Even
<1>3. CASE size[n] = 0
  BY <1>1, <1>3 DEF Bytes
<1>4. CASE size[n] > 0
  <2>1. s \in Nat /\ s > 0
    BY <1>1, <1>4
  <2> HIDE DEF s, m
  <2>2. s \div m \in Nat /\ s = m * (s \div m)
    BY <1>1, <1>2, <2>1
  <2>3. s \div m # 0
    <3> SUFFICES ASSUME s \div m = 0 PROVE FALSE
      OBVIOUS
    <3>1. s = m * 0
      BY <2>2
    <3> QED
      BY <1>1, <2>1, <3>1
  <2>4. Bytes(n, b) = s \div m
    BY <1>4, <1>1, <2>2, <2>3 DEF Bytes, s, m
  <2>5. (s \div m) * m = s
    BY <1>1, <2>2
  <2> QED
    BY <2>4, <2>5 DEF s, m
<1> QED
  BY <1>1, <1>3, <1>4

\* Two alternatives of one size: prices by the byte are in the order of the
\* curve, savings in that of the bits.
LEMMA Prices ==
  ASSUME NEW s \in Nat, NEW S \in Nat, NEW m \in Nat, m > 0, NEW i \in Nat, NEW j \in Nat,
         NEW p \in Nat, NEW q \in Nat, NEW x \in Nat, NEW y \in Nat,
         x * m = s * i, y * m = s * j, p >= q, i <= j
  PROVE  /\ x <= y
         /\ (i * S * s * p) * y >= (j * S * s * q) * x
<1>1. s * i <= s * j
  BY Z3
<1>2. x <= y
  <2> SUFFICES ASSUME x > y PROVE FALSE
    OBVIOUS
  <2>1. x - y >= 1 /\ x - y \in Nat
    OBVIOUS
  <2>2. (x - y) * m >= 1
    BY <2>1
  <2>3. x * m - y * m = (x - y) * m
    OBVIOUS
  <2> QED
    BY <1>1, <2>2, <2>3
<1>3. DEFINE A == i * S * s
             B == j * S * s
<1>4. A \in Nat /\ B \in Nat
  OBVIOUS
<1>5. A * y = B * x
  <2>1. (A * y) * m = A * (y * m)
    OBVIOUS
  <2>2. (B * x) * m = B * (x * m)
    OBVIOUS
  <2>3. A * (s * j) = B * (s * i)
    OBVIOUS
  <2>4. (A * y) * m = (B * x) * m
    BY <2>1, <2>2, <2>3
  <2>5. A * y \in Nat /\ B * x \in Nat
    BY <1>4
  <2> DEFINE u == A * y
             v == B * x
  <2> HIDE DEF u, v, A, B
  <2>6. u * m = v * m => u = v
    <3>1. u \in Nat /\ v \in Nat
      BY <2>5 DEF u, v
    <3> QED
      BY <3>1
  <2> QED
    BY <2>4, <2>6 DEF u, v
<1>6. (A * p) * y = (A * y) * p /\ (B * q) * x = (A * y) * q
  <2>1. (A * p) * y = (A * y) * p
    OBVIOUS
  <2>2. (B * q) * x = (B * x) * q
    OBVIOUS
  <2> QED
    BY <1>5, <2>1, <2>2
<1>7. (A * y) * p >= (A * y) * q
  <2> DEFINE u == A * y
  <2>1. u \in Nat
    BY <1>4
  <2> HIDE DEF u
  <2>2. u * p - u * q = u * (p - q)
    BY <2>1
  <2>3. u * (p - q) >= 0
    BY <2>1
  <2>4. u * p >= u * q
    BY <2>1, <2>2, <2>3
  <2> QED
    BY <2>4 DEF u
<1> QED
  BY <1>2, <1>6, <1>7

\* The curve rises as the bits fall, and the steps of the ladder with the bits.
LEMMA LadderSteps ==
  ASSUME NEW b \in Ladder, NEW B \in Ladder, NEW c \in Ladder, NEW C \in Ladder,
         b < B, B <= c, c < C
  PROVE  /\ B - b <= C - c /\ B - b \in Nat /\ C - c \in Nat
         /\ Curve(b) \in Nat /\ Curve(c) \in Nat /\ Curve(b) >= Curve(c)
<1>1. /\ b \in {32, 16, 8, 4, 3, 2} /\ B \in {32, 16, 8, 4, 3, 2}
      /\ c \in {32, 16, 8, 4, 3, 2} /\ C \in {32, 16, 8, 4, 3, 2}
  BY LadderFacts
<1> QED
  BY <1>1 DEF Curve

\* What an alternative costs and saves.
LEMMA AlternativeFacts ==
  ASSUME Given, NEW n \in Nodes, NEW b \in Useful(n) \ {Chosen(n)}
  PROVE  /\ Cost(<<n, b>>) \in Nat /\ Saving(<<n, b>>) \in Nat /\ Saving(<<n, b>>) > 0
         /\ Sensitivity(n) \in Nat
         /\ Cost(<<n, b>>) = (Above(n, b) - b) * Sensitivity(n) * size[n] * Curve(b)
         /\ Saving(<<n, b>>) = Bytes(n, Above(n, b)) - Bytes(n, b)
<1> DEFINE B == Above(n, b)
<1>1. B \in Useful(n) /\ B > b /\ b \in Useful(n)
  BY UsefulFacts
<1>2. b \in Ladder /\ B \in Ladder /\ b \in Nat /\ B \in Nat
  BY <1>1, UsefulFacts, LadderFacts
<1>3. Bytes(n, B) \in Nat /\ Bytes(n, b) \in Nat /\ Bytes(n, B) > Bytes(n, b)
  BY <1>1, <1>2, BytesFacts, UsefulFacts
<1> HIDE DEF B
<1>4. Saving(<<n, b>>) = Bytes(n, B) - Bytes(n, b)
  BY DEF Saving, B
<1>5. Sensitivity(n) \in Nat
  <2>1. Node(n).sensitivity \in Nat
    BY GivenFacts
  <2> QED
    BY <2>1 DEF Sensitivity
<1>6. Curve(b) \in Nat
  BY <1>2 DEF Curve
<1>7. size[n] \in Nat /\ B - b \in Nat
  BY <1>1, <1>2, GivenFacts
<1>8. Cost(<<n, b>>) = (B - b) * Sensitivity(n) * size[n] * Curve(b)
  BY DEF Cost, Loss, B
<1>9. (B - b) * Sensitivity(n) * size[n] * Curve(b) \in Nat
  BY <1>5, <1>6, <1>7
<1> QED
  BY <1>3, <1>4, <1>5, <1>8, <1>9 DEF B

\* Of two alternatives of a node whose size divides, the lower is not earlier
\* (compiler.py, select_precision_plan).
LEMMA InOrder ==
  ASSUME Given, NEW n \in Nodes, Even(n),
         NEW b \in Useful(n) \ {Chosen(n)}, NEW c \in Useful(n) \ {Chosen(n)}, b < c
  PROVE  ~Earlier(<<n, b>>, <<n, c>>)
<1> DEFINE B == Above(n, b)
           C == Above(n, c)
           x == Saving(<<n, b>>)
           y == Saving(<<n, c>>)
           s == size[n]
           S == Sensitivity(n)
           m == model.bits
<1>1. /\ b \in Ladder /\ B \in Ladder /\ c \in Ladder /\ C \in Ladder
      /\ b < B /\ B <= c /\ c < C
  BY UsefulFacts
<1>2. /\ B - b <= C - c /\ B - b \in Nat /\ C - c \in Nat
      /\ Curve(b) \in Nat /\ Curve(c) \in Nat /\ Curve(b) >= Curve(c)
  <2> HIDE DEF B, C
  <2> QED
    BY <1>1, LadderSteps
<1>3. s \in Nat /\ m \in Nat /\ m > 0 /\ n \in Nat
  BY GivenFacts
<1>4. /\ x \in Nat /\ y \in Nat /\ S \in Nat
      /\ Cost(<<n, b>>) = (B - b) * S * s * Curve(b)
      /\ Cost(<<n, c>>) = (C - c) * S * s * Curve(c)
      /\ x = Bytes(n, B) - Bytes(n, b) /\ y = Bytes(n, C) - Bytes(n, c)
  BY AlternativeFacts
<1>5. /\ Bytes(n, B) * m = s * B /\ Bytes(n, b) * m = s * b
      /\ Bytes(n, C) * m = s * C /\ Bytes(n, c) * m = s * c
  BY <1>1, EvenBytes
<1>6. /\ Bytes(n, B) \in Nat /\ Bytes(n, b) \in Nat /\ Bytes(n, C) \in Nat /\ Bytes(n, c) \in Nat
      /\ b \in Nat /\ c \in Nat /\ B \in Nat /\ C \in Nat
  BY <1>1, BytesFacts, LadderFacts
<1> HIDE DEF B, C, x, y, s, S, m
<1>7. x * m = s * (B - b)
  <2> DEFINE p == Bytes(n, B)
             q == Bytes(n, b)
  <2>1. p \in Nat /\ q \in Nat /\ p * m = s * B /\ q * m = s * b /\ x = p - q
    BY <1>4, <1>5, <1>6
  <2> HIDE DEF p, q
  <2>2. (p - q) * m = p * m - q * m /\ s * (B - b) = s * B - s * b
    BY <1>3, <1>6, <2>1
  <2> QED
    BY <2>1, <2>2
<1>8. y * m = s * (C - c)
  <2> DEFINE p == Bytes(n, C)
             q == Bytes(n, c)
  <2>1. p \in Nat /\ q \in Nat /\ p * m = s * C /\ q * m = s * c /\ y = p - q
    BY <1>4, <1>5, <1>6
  <2> HIDE DEF p, q
  <2>2. (p - q) * m = p * m - q * m /\ s * (C - c) = s * C - s * c
    BY <1>3, <1>6, <2>1
  <2> QED
    BY <2>1, <2>2
<1>9. x <= y /\ Cost(<<n, b>>) * y >= Cost(<<n, c>>) * x
  BY <1>2, <1>3, <1>4, <1>7, <1>8, Prices
<1>10. ~Cheaper(<<n, b>>, <<n, c>>)
  <2>1. Cost(<<n, b>>) \in Nat /\ Cost(<<n, c>>) \in Nat
    BY AlternativeFacts
  <2>2. Cost(<<n, b>>) * y \in Nat /\ Cost(<<n, c>>) * x \in Nat
    BY <1>4, <2>1
  <2> QED
    BY <1>9, <2>2 DEF Cheaper, x, y
<1>11. ~(x > y)
  BY <1>4, <1>9
<1>12. ~FoundEarlier(<<n, b>>, <<n, c>>)
  BY <1>3, <1>6 DEF FoundEarlier
<1> QED
  BY <1>10, <1>11, <1>12 DEF Earlier, x, y

\* The next lower alternatives of a node are those below its precision, and its
\* penalty is the loss of the way down.
InStep(n) ==
  /\ {b \in Ladder : <<n, b>> \in left} = {b \in Useful(n) : b < precision[n]}
  /\ penalty[n] = TrueLoss(n)

\* What compile is about, once it has begun.
PlanTypes ==
  /\ Acceptable
  /\ precision \in [Nodes -> Ladder] /\ \A n \in Nodes : precision[n] \in Useful(n)
  /\ penalty \in [Nodes -> Nat]
  /\ planned \in Nat /\ loss \in Nat /\ loss <= LossLimit
  /\ left \subseteq Alternatives /\ refused \subseteq Nodes

Accounts ==
  /\ planned = Stored /\ loss = SumFunction(penalty)
  /\ \A n \in Nodes \ refused : Even(n) => InStep(n)

Stages == Phases \cup {"asked", "precision", "package", "done", "rejected", "failed"}

PlanInv ==
  /\ Given /\ stage \in Stages
  /\ stage \in {"asked", "rejected"} =>
       precision = <<>> /\ penalty = <<>> /\ planned = 0 /\ loss = 0 /\ left = {} /\ refused = {}
  /\ stage \notin {"asked", "rejected"} => PlanTypes
  /\ stage = "precision" => Accounts

\* The limit of the loss is a natural number, and the request's unless that
\* is negative.
LEMMA LimitFacts ==
  ASSUME Given
  PROVE  /\ LossLimit \in Nat /\ 0 <= LossLimit
         /\ ask.limit >= 0 => LossLimit <= ask.limit
<1>1. SumFunction(size) \in Nat
  <2>1. DOMAIN size = Nodes /\ IsFiniteSet(Nodes) /\ \A n \in Nodes : size[n] \in Nat
    BY GivenFacts DEF size
  <2> QED
    BY <2>1, SumNatural DEF SumFunction
<1>2. Whole \in Nat
  BY <1>1 DEF Whole
<1>3. ask.limit \in Int
  BY GivenFacts
<1> QED
  BY <1>2, <1>3 DEF LossLimit, NonNegative

\* What follows from the inputs alone stays while they do.
LEMMA GivenKept ==
  ASSUME inputs' = inputs
  PROVE  /\ Given' = Given /\ Nodes' = Nodes /\ Units' = Units /\ Mode' = Mode
         /\ \A n : Node(n)' = Node(n)
         /\ Acceptable' = Acceptable /\ LossLimit' = LossLimit
         /\ \A n, b : Bytes(n, b)' = Bytes(n, b)
         /\ \A n : Useful(n)' = Useful(n) /\ Chosen(n)' = Chosen(n)
         /\ Alternatives' = Alternatives
         /\ \A n : Even(n)' = Even(n)
         /\ \A n, b : Above(n, b)' = Above(n, b)
         /\ \A n, b, c : Loss(n, b, c)' = Loss(n, b, c)
<1>1. model' = model /\ machine' = machine /\ ask' = ask
  BY DEF inputs
<1>2. Given' = Given /\ Nodes' = Nodes /\ Units' = Units /\ Mode' = Mode
  BY <1>1 DEF Given, Nodes, Units, Mode
<1>3. \A n : Node(n)' = Node(n)
  BY <1>1 DEF Node
<1>4. size' = size
  BY <1>2, <1>3 DEF size
<1>5. \A n, b : Bytes(n, b)' = Bytes(n, b)
  BY <1>1, <1>4 DEF Bytes
<1>6. \A n : Supported(n)' = Supported(n)
  <2> TAKE n
  <2> DEFINE P == {machine[d].precisions : d \in Units}
  <2>1. P' = P
    BY <1>1, <1>2
  <2> HIDE DEF P
  <2>2. Supported(n) = LET had == Node(n).precisions \cap UNION P
                       IN  IF had = {} THEN Node(n).precisions ELSE had
    BY DEF Supported, P
  <2>3. Supported(n)' = LET had == Node(n)'.precisions \cap UNION (P')
                        IN  IF had = {} THEN Node(n)'.precisions ELSE had
    BY DEF Supported, P
  <2> QED
    BY <1>3, <2>1, <2>2, <2>3
<1>7. \A n : Chosen(n)' = Chosen(n)
  BY <1>1, <1>6 DEF Chosen
<1>8. \A n : Useful(n)' = Useful(n)
  BY <1>5, <1>6, <1>7 DEF Useful
<1>9. Alternatives' = Alternatives
  BY <1>2, <1>7, <1>8 DEF Alternatives
<1>10. \A n : Even(n)' = Even(n)
  BY <1>1, <1>4 DEF Even
<1>11. \A n, b : Above(n, b)' = Above(n, b)
  BY <1>8 DEF Above
<1>12. \A n, b, c : Loss(n, b, c)' = Loss(n, b, c)
  BY <1>3, <1>4 DEF Loss, Sensitivity
<1>13. Acceptable' = Acceptable
  BY <1>1, <1>2 DEF Acceptable
<1>14. LossLimit' = LossLimit
  BY <1>1, <1>2, <1>4 DEF LossLimit, Whole
<1> QED
  BY <1>2, <1>3, <1>5, <1>7, <1>8, <1>9, <1>10, <1>11, <1>12, <1>13, <1>14

\* The loss of the way down to a precision, as a sum over the ones passed.
Passed(n, p) == {c \in Useful(n) \ {Chosen(n)} : c >= p}
WayLoss(n, p) == SumFunction([b \in Passed(n, p) |-> Loss(n, Above(n, b), b)])

\* One precision further costs what its alternative does.
LEMMA WayFurther ==
  ASSUME Given, NEW n \in Nodes, NEW b \in Useful(n) \ {Chosen(n)}
  PROVE  /\ WayLoss(n, Chosen(n)) = 0
         /\ WayLoss(n, Above(n, b)) \in Int
         /\ WayLoss(n, b) = WayLoss(n, Above(n, b)) + Cost(<<n, b>>)
<1> DEFINE B == Above(n, b)
           f(p) == [c \in Passed(n, p) |-> Loss(n, Above(n, c), c)]
<1>1. Useful(n) \subseteq Nat /\ Chosen(n) \in Nat /\ \A c \in Useful(n) : c <= Chosen(n)
  BY UsefulFacts, LadderFacts
<1>2. \A p : IsFiniteSet(Passed(n, p))
  BY UsefulFacts, FS_Subset DEF Passed
<1>3. \A c \in Useful(n) \ {Chosen(n)} : Loss(n, Above(n, c), c) \in Int
  <2> TAKE c \in Useful(n) \ {Chosen(n)}
  <2>1. Cost(<<n, c>>) \in Nat
    BY AlternativeFacts
  <2>2. Cost(<<n, c>>) = Loss(n, Above(n, c), c)
    BY DEF Cost
  <2> QED
    BY <2>1, <2>2
<1>4. \A p : \A c \in Passed(n, p) : f(p)[c] = Loss(n, Above(n, c), c) /\ f(p)[c] \in Int
  BY <1>3 DEF Passed
<1>5. \A p : WayLoss(n, p) = SumFunctionOnSet(f(p), Passed(n, p))
  BY DEF WayLoss, SumFunction
<1> HIDE DEF f
<1>6. WayLoss(n, Chosen(n)) = 0
  <2>1. Passed(n, Chosen(n)) = {}
    BY <1>1 DEF Passed
  <2>2. SumFunctionOnSet(f(Chosen(n)), Passed(n, Chosen(n))) = 0
    BY <1>2, <1>4, <2>1, SumFacts
  <2> QED
    BY <1>5, <2>2
<1>7. WayLoss(n, B) \in Int
  BY <1>2, <1>4, <1>5, SumFacts
<1>8. /\ B \in Useful(n) /\ B > b /\ b \in Useful(n)
      /\ \A c \in Useful(n) : c > b => B <= c
  BY UsefulFacts
<1> HIDE DEF B
<1>9. b \in Passed(n, b) /\ Passed(n, b) \ {b} = Passed(n, B)
  BY <1>1, <1>8 DEF Passed
<1>10. SumFunctionOnSet(f(b), Passed(n, b))
         = f(b)[b] + SumFunctionOnSet(f(b), Passed(n, b) \ {b})
  BY <1>2, <1>4, <1>9, SumFacts
<1>11. SumFunctionOnSet(f(b), Passed(n, B)) = SumFunctionOnSet(f(B), Passed(n, B))
  <2>1. \A c \in Passed(n, B) : f(b)[c] \in Int /\ f(B)[c] = f(b)[c]
    BY <1>4, <1>9
  <2> QED
    BY <1>2, <2>1, SumSame
<1>12. f(b)[b] = Cost(<<n, b>>)
  BY <1>4, <1>9 DEF Cost
<1>13. Cost(<<n, b>>) \in Nat
  BY AlternativeFacts
<1>14. WayLoss(n, b) = WayLoss(n, B) + Cost(<<n, b>>)
  <2>1. WayLoss(n, b) = SumFunctionOnSet(f(b), Passed(n, b))
    BY <1>5
  <2>2. WayLoss(n, B) = SumFunctionOnSet(f(b), Passed(n, B))
    BY <1>5, <1>11
  <2>3. WayLoss(n, b) = Cost(<<n, b>>) + WayLoss(n, B)
    BY <1>9, <1>10, <1>12, <2>1, <2>2
  <2> QED
    BY <1>7, <1>13, <2>3
<1> QED
  BY <1>6, <1>7, <1>14 DEF B

\* The first loop leaves every node at its own precision, for no loss.
LEMMA PlanBegins ==
  ASSUME PlanInv, Begin
  PROVE  PlanInv'
<1>1. /\ stage = "asked" /\ Acceptable /\ stage' = "precision" /\ Given
      /\ precision' = [n \in Nodes |-> Chosen(n)] /\ penalty' = [n \in Nodes |-> 0]
      /\ planned' = SumFunction([n \in Nodes |-> Bytes(n, Chosen(n))])
      /\ left' = Alternatives /\ inputs' = inputs
      /\ loss' = 0 /\ refused' = {}
  BY DEF PlanInv, Begin, Stages
<1>2. /\ Given' = Given /\ Nodes' = Nodes /\ Acceptable' = Acceptable
      /\ LossLimit' = LossLimit
      /\ \A n, b : Bytes(n, b)' = Bytes(n, b)
      /\ \A n : Useful(n)' = Useful(n) /\ Chosen(n)' = Chosen(n) /\ Even(n)' = Even(n)
      /\ Alternatives' = Alternatives
      /\ \A n, b : Above(n, b)' = Above(n, b)
      /\ \A n, b, c : Loss(n, b, c)' = Loss(n, b, c)
  BY <1>1, GivenKept
<1>3. /\ IsFiniteSet(Nodes) /\ Ladder \subseteq Nat
      /\ \A n \in Nodes : Chosen(n) \in Useful(n) /\ Chosen(n) \in Ladder
                            /\ Useful(n) \subseteq Ladder /\ \A b \in Useful(n) : b <= Chosen(n)
                            /\ Chosen(n) \in Nat /\ \A c \in Useful(n) : c \in Nat
  BY <1>1, GivenFacts, UsefulFacts, LadderFacts
<1>4. \A n \in Nodes : precision'[n] = Chosen(n) /\ penalty'[n] = 0
  BY <1>1
<1>5. planned' \in Nat /\ planned' = Stored'
  <2> DEFINE f == [n \in Nodes |-> Bytes(n, Chosen(n))]
  <2>1. DOMAIN f = Nodes /\ \A n \in Nodes : f[n] \in Nat
    BY <1>1, <1>3, BytesFacts
  <2> DEFINE z == [n \in Nodes |-> 0]
  <2>2. f = [n \in Nodes |-> Bytes(n, precision[n])]'
    BY <1>2, <1>4
  <2>3. Stored' = SumFunction(f)
    BY <2>2 DEF Stored
  <2>4. planned' = SumFunctionOnSet(f, Nodes)
    BY <1>1 DEF SumFunction
  <2> HIDE DEF f
  <2>5. SumFunctionOnSet(f, Nodes) \in Int
    BY <1>3, <2>1, SumFacts
  <2>6. SumFunctionOnSet(f, Nodes) >= 0
    BY <1>3, <2>1, SumNatural
  <2>7. planned' \in Nat
    BY <2>4, <2>5, <2>6
  <2>8. planned' = Stored'
    BY <2>1, <2>3, <2>4 DEF SumFunction
  <2> QED
    BY <2>7, <2>8
<1>6. SumFunction(penalty') = 0
  <2>1. DOMAIN penalty' = Nodes
    BY <1>1
  <2>2. SumFunctionOnSet(penalty', Nodes) = 0
    BY <1>3, <1>4, SumOfZeros
  <2> QED
    BY <2>1, <2>2 DEF SumFunction
<1>7. PlanTypes'
  <2>1. 0 <= LossLimit
    BY <1>1, LimitFacts
  <2>2. precision' \in [Nodes -> Ladder] /\ penalty' \in [Nodes -> Nat]
    BY <1>1, <1>3
  <2> QED
    BY <1>1, <1>2, <1>3, <1>4, <1>5, <2>1, <2>2 DEF PlanTypes
<1>8. ASSUME NEW n \in Nodes PROVE InStep(n)'
  <2>1. {b \in Ladder : <<n, b>> \in left'} = {b \in Useful(n) : b < precision'[n]}
    <3>1. \A b \in Ladder : <<n, b>> \in Alternatives <=> b \in Useful(n) \ {Chosen(n)}
      BY DEF Alternatives
    <3>2. \A b \in Useful(n) : b # Chosen(n) <=> b < Chosen(n)
      BY <1>3
    <3> QED
      BY <1>1, <1>3, <1>4, <3>1, <3>2
  <2>2. TrueLoss(n)' = 0
    <3> DEFINE f == [b \in Passed(n, Chosen(n)) |-> Loss(n, Above(n, b), b)]
    <3>1. TrueLoss(n)' = SumFunction(f)
      BY <1>2, <1>4 DEF TrueLoss, Passed
    <3>2. Passed(n, Chosen(n)) = {}
      <4>1. \A c \in Useful(n) : c >= Chosen(n) => c = Chosen(n)
        BY <1>3
      <4> QED
        BY <4>1 DEF Passed
    <3>3. DOMAIN f = {}
      BY <3>2
    <3>4. SumFunctionOnSet(f, {}) = 0
      BY FS_EmptySet, SumStep
    <3> QED
      BY <3>1, <3>3, <3>4 DEF SumFunction
  <2> QED
    BY <1>2, <1>4, <2>1, <2>2 DEF InStep
<1>9. Accounts'
  BY <1>1, <1>2, <1>5, <1>6, <1>8 DEF Accounts
<1> QED
  BY <1>1, <1>2, <1>7, <1>9 DEF PlanInv, Stages

\* A turn of the loop of select_precision_plan keeps the sums true, and lowers
\* a node by one useful precision at a time.
LEMMA PlanLowers ==
  ASSUME PlanInv, Lower
  PROVE  PlanInv'
<1>1. /\ stage = "precision" /\ stage' = "precision" /\ Given /\ PlanTypes /\ Accounts
      /\ inputs' = inputs
  BY DEF PlanInv, Lower, Stages, Phases
<1>2. /\ Given' = Given /\ Nodes' = Nodes /\ Acceptable' = Acceptable
      /\ LossLimit' = LossLimit
      /\ \A n, b : Bytes(n, b)' = Bytes(n, b)
      /\ \A n : Useful(n)' = Useful(n) /\ Chosen(n)' = Chosen(n) /\ Even(n)' = Even(n)
      /\ Alternatives' = Alternatives
      /\ \A n, b : Above(n, b)' = Above(n, b)
      /\ \A n, b, c : Loss(n, b, c)' = Loss(n, b, c)
  BY <1>1, GivenKept
<1>3. PICK a \in left :
        /\ \A b \in left \ {a} : Earlier(a, b)
        /\ left' = left \ {a}
        /\ LET saving == Bytes(a[1], precision[a[1]]) - Bytes(a[1], a[2]) IN
           \/ /\ saving > 0 /\ Affordable(a)
              /\ precision' = [precision EXCEPT ![a[1]] = a[2]]
              /\ penalty' = [penalty EXCEPT ![a[1]] = @ + Cost(a)]
              /\ planned' = planned - saving
              /\ loss' = loss + Cost(a)
              /\ UNCHANGED refused
           \/ /\ saving <= 0 \/ ~Affordable(a)
              /\ refused' = IF saving > 0 THEN refused \cup {a[1]} ELSE refused
              /\ UNCHANGED <<precision, penalty, planned, loss>>
  BY DEF Lower
<1> DEFINE n == a[1]
           b == a[2]
           p == precision[n]
           saving == Bytes(n, p) - Bytes(n, b)
<1>4. a = <<n, b>> /\ n \in Nodes /\ b \in Useful(n) \ {Chosen(n)} /\ b \in Ladder
  BY <1>1 DEF PlanTypes, Alternatives
<1>5. /\ p \in Useful(n) /\ p \in Ladder /\ p \in Nat /\ b \in Nat
      /\ Bytes(n, p) \in Nat /\ Bytes(n, b) \in Nat /\ saving \in Int
  <2>1. p \in Useful(n) /\ p \in Ladder
    BY <1>1, <1>4 DEF PlanTypes
  <2>2. Bytes(n, p) \in Nat /\ Bytes(n, b) \in Nat
    BY <1>1, <1>4, <2>1, BytesFacts
  <2> HIDE DEF p, b, n
  <2> QED
    BY <2>1, <2>2, <1>4, LadderFacts
<1>6. /\ Cost(a) \in Nat /\ IsFiniteSet(Nodes)
      /\ \A m \in Nodes : penalty[m] \in Nat /\ precision[m] \in Ladder
      /\ DOMAIN penalty = Nodes /\ DOMAIN precision = Nodes
  BY <1>1, <1>4, AlternativeFacts, GivenFacts DEF PlanTypes
\* What stays true of a node that this turn is not about.
<1>7. ASSUME NEW m \in Nodes, m # n, precision'[m] = precision[m], penalty'[m] = penalty[m],
             InStep(m)
      PROVE  InStep(m)'
  <2>1. {c \in Ladder : <<m, c>> \in left'} = {c \in Ladder : <<m, c>> \in left}
    <3>1. \A c \in Ladder : <<m, c>> # a
      BY <1>4, <1>7
    <3> QED
      BY <1>3, <3>1
  <2>2. TrueLoss(m)' = TrueLoss(m)
    BY <1>2, <1>7 DEF TrueLoss
  <2> QED
    BY <1>2, <1>7, <2>1, <2>2 DEF InStep
\* A node that is in step has no alternative before this one.
<1>8. ASSUME InStep(n), Even(n)
      PROVE  /\ b < p /\ p = Above(n, b) /\ saving > 0
  <2>1. b < p
    <3>1. b \in {c \in Ladder : <<n, c>> \in left}
      BY <1>4
    <3> QED
      BY <1>8, <3>1 DEF InStep
  <2>2. Above(n, b) \in Useful(n) /\ Above(n, b) > b /\ Above(n, b) <= p
    BY <1>1, <1>4, <1>5, <2>1, UsefulFacts
  <2>3. Above(n, b) \in Nat
    BY <1>1, <1>4, <2>2, UsefulFacts, LadderFacts
  <2>4. ~(Above(n, b) < p)
    <3> SUFFICES ASSUME Above(n, b) < p PROVE FALSE
      OBVIOUS
    <3> DEFINE c == Above(n, b)
    <3>1. c \in {x \in Useful(n) : x < precision[n]}
      BY <2>2
    <3>2. <<n, c>> \in left
      BY <1>8, <3>1 DEF InStep
    <3>3. c # Chosen(n)
      <4>1. <<n, c>> \in Alternatives
        BY <1>1, <3>2 DEF PlanTypes
      <4> QED
        BY <4>1 DEF Alternatives
    <3>4. c > b /\ c \in Useful(n)
      BY <2>2
    <3> HIDE DEF c, n, b
    <3>5. <<n, c>> # a
      <4>1. c # b
        BY <1>5, <3>4
      <4> QED
        BY <1>4, <4>1
    <3>6. Earlier(a, <<n, c>>)
      BY <1>3, <3>2, <3>5
    <3>7. ~Earlier(<<n, b>>, <<n, c>>)
      BY <1>1, <1>4, <1>8, <3>3, <3>4, InOrder
    <3> QED
      BY <1>4, <3>6, <3>7
  <2>5. p = Above(n, b)
    BY <1>5, <2>2, <2>3, <2>4
  <2>6. Bytes(n, p) > Bytes(n, b)
    BY <1>1, <1>4, <1>5, <2>1, UsefulFacts
  <2> QED
    BY <1>5, <2>1, <2>5, <2>6
<1>9. CASE /\ saving > 0 /\ Affordable(a)
           /\ precision' = [precision EXCEPT ![n] = b]
           /\ penalty' = [penalty EXCEPT ![n] = @ + Cost(a)]
           /\ planned' = planned - saving /\ loss' = loss + Cost(a) /\ refused' = refused
  <2>1. /\ precision'[n] = b /\ \A m \in Nodes : m # n => precision'[m] = precision[m]
        /\ penalty'[n] = penalty[n] + Cost(a)
        /\ \A m \in Nodes : m # n => penalty'[m] = penalty[m]
        /\ DOMAIN penalty' = Nodes /\ precision' \in [Nodes -> Ladder]
        /\ penalty' \in [Nodes -> Nat]
    <3>1. penalty[n] + Cost(a) \in Nat
      BY <1>4, <1>6
    <3> HIDE DEF n, b
    <3> QED
      BY <1>1, <1>4, <1>6, <1>9, <3>1 DEF PlanTypes
  <2>2. planned' = Stored' /\ planned' \in Nat
    <3> DEFINE f == [m \in Nodes |-> Bytes(m, precision[m])]
               g == [m \in Nodes |-> Bytes(m, precision'[m])]
    <3>1. Stored = SumFunctionOnSet(f, Nodes) /\ planned = Stored
      BY <1>1 DEF Stored, SumFunction, Accounts
    <3>2. Stored' = SumFunctionOnSet(g, Nodes)
      <4>1. g = [m \in Nodes |-> Bytes(m, precision[m])]'
        BY <1>2
      <4>2. DOMAIN g = Nodes
        OBVIOUS
      <4> HIDE DEF g
      <4> QED
        BY <4>1, <4>2 DEF Stored, SumFunction
    <3>3. \A m \in Nodes : f[m] \in Nat /\ g[m] \in Nat
      BY <1>1, <1>6, <2>1, BytesFacts
    <3>4. \A m \in Nodes \ {n} : g[m] = f[m]
      BY <2>1
    <3>5. f[n] = Bytes(n, p) /\ g[n] = Bytes(n, b)
      BY <1>4, <2>1
    <3> HIDE DEF f, g, n, b, p
    <3>6. SumFunctionOnSet(g, Nodes) = SumFunctionOnSet(f, Nodes) - f[n] + g[n]
      BY <1>4, <1>6, <3>3, <3>4, SumChanged
    <3>7. SumFunctionOnSet(g, Nodes) \in Nat /\ SumFunctionOnSet(f, Nodes) \in Nat
      BY <1>6, <3>3, SumNatural
    <3>8. planned' = planned - (Bytes(n, p) - Bytes(n, b))
      BY <1>9
    <3>9. planned' = Stored'
      BY <1>5, <3>1, <3>2, <3>5, <3>6, <3>7, <3>8
    <3> QED
      BY <3>2, <3>7, <3>9
  <2>3. loss' = SumFunction(penalty') /\ loss' \in Nat
    <3>1. loss = SumFunctionOnSet(penalty, Nodes) /\ loss \in Nat
      BY <1>1, <1>6 DEF Accounts, SumFunction, PlanTypes
    <3>2. \A m \in Nodes : penalty[m] \in Int /\ penalty'[m] \in Int
      BY <1>6, <2>1
    <3>3. \A m \in Nodes \ {n} : penalty'[m] = penalty[m]
      BY <2>1
    <3> HIDE DEF n, b
    <3>4. SumFunctionOnSet(penalty', Nodes)
            = SumFunctionOnSet(penalty, Nodes) - penalty[n] + penalty'[n]
      BY <1>4, <1>6, <3>2, <3>3, SumChanged
    <3>5. loss' = loss + Cost(a) /\ penalty'[n] = penalty[n] + Cost(a)
      BY <1>9, <2>1
    <3>6. penalty[n] \in Nat
      BY <1>4, <1>6
    <3>7. loss' = SumFunctionOnSet(penalty', Nodes)
      BY <1>6, <3>1, <3>4, <3>5, <3>6
    <3>8. loss' \in Nat
      BY <1>6, <3>1, <3>5
    <3> QED
      BY <2>1, <3>7, <3>8 DEF SumFunction
  <2>4. loss' <= LossLimit
    BY <1>9 DEF Affordable
  <2>5. \A m \in Nodes : precision'[m] \in Useful(m)
    <3> TAKE m \in Nodes
    <3>1. CASE m = n
      BY <1>4, <2>1, <3>1
    <3>2. CASE m # n
      BY <1>1, <2>1, <3>2 DEF PlanTypes
    <3> QED
      BY <3>1, <3>2
  <2>6. PlanTypes'
    <3>1. left' \subseteq Alternatives /\ refused' \subseteq Nodes /\ Acceptable
      BY <1>1, <1>3, <1>9 DEF PlanTypes
    <3> QED
      BY <1>2, <2>1, <2>2, <2>3, <2>4, <2>5, <3>1 DEF PlanTypes
  <2>7. ASSUME NEW m \in Nodes \ refused, Even(m) PROVE InStep(m)'
    <3>1. InStep(m)
      BY <1>1, <2>7 DEF Accounts
    <3>2. CASE m # n
      BY <1>7, <2>1, <3>1, <3>2
    <3>3. CASE m = n
      <4>1. b < p /\ p = Above(n, b) /\ InStep(n)
        BY <1>8, <2>7, <3>1, <3>3
      <4>2. {c \in Ladder : <<n, c>> \in left'} = {c \in Useful(n) : c < b}
        <5>1. {c \in Ladder : <<n, c>> \in left} = {c \in Useful(n) : c < p}
          BY <4>1 DEF InStep
        <5>2. ASSUME NEW c \in Ladder
              PROVE  <<n, c>> \in left' <=> c \in Useful(n) /\ c < b
          <6>1. <<n, c>> \in left' <=> <<n, c>> \in left /\ c # b
            BY <1>3, <1>4
          <6>2. <<n, c>> \in left <=> c \in Useful(n) /\ c < p
            BY <5>1
          <6>3. c \in Nat
            BY LadderFacts
          <6>4. c \in Useful(n) => (c < p /\ c # b <=> c < b)
            <7>1. c \in Useful(n) /\ c > b => Above(n, b) <= c
              BY <1>1, <1>4, UsefulFacts
            <7> QED
              BY <1>5, <4>1, <6>3, <7>1
          <6> QED
            BY <6>1, <6>2, <6>4
        <5>3. Useful(n) \subseteq Ladder
          BY <1>1, <1>4, UsefulFacts
        <5> QED
          BY <5>2, <5>3
      <4>3. TrueLoss(n)' = WayLoss(n, b)
        BY <1>2, <2>1 DEF TrueLoss, WayLoss, Passed
      <4>4. penalty[n] = WayLoss(n, p)
        BY <4>1 DEF InStep, TrueLoss, WayLoss, Passed
      <4>5. WayLoss(n, b) = WayLoss(n, Above(n, b)) + Cost(<<n, b>>)
        BY <1>1, <1>4, WayFurther
      <4>6. penalty'[n] = TrueLoss(n)'
        <5> HIDE DEF n, b, p
        <5> QED
          BY <1>4, <2>1, <4>1, <4>3, <4>4, <4>5
      <4> QED
        BY <1>2, <2>1, <3>3, <4>2, <4>6 DEF InStep
    <3> QED
      BY <3>2, <3>3
  <2>8. Accounts'
    BY <1>2, <1>9, <2>2, <2>3, <2>7 DEF Accounts
  <2> QED
    BY <1>1, <1>2, <2>6, <2>8 DEF PlanInv
<1>10. CASE /\ saving <= 0 \/ ~Affordable(a)
            /\ refused' = IF saving > 0 THEN refused \cup {n} ELSE refused
            /\ precision' = precision /\ penalty' = penalty
            /\ planned' = planned /\ loss' = loss
  <2>1. left' \subseteq Alternatives /\ refused' \subseteq Nodes
    BY <1>1, <1>3, <1>4, <1>10 DEF PlanTypes
  <2>2. PlanTypes'
    BY <1>1, <1>2, <1>10, <2>1 DEF PlanTypes
  <2>3. Stored' = Stored
    <3>1. [m \in Nodes |-> Bytes(m, precision[m])]' = [m \in Nodes |-> Bytes(m, precision[m])]
      BY <1>2, <1>10
    <3> QED
      BY <3>1 DEF Stored
  <2>4. ASSUME NEW m \in Nodes \ refused', Even(m) PROVE InStep(m)'
    <3>1. m \in Nodes \ refused
      BY <1>10, <2>4
    <3>2. InStep(m)
      BY <1>1, <2>4, <3>1 DEF Accounts
    <3>3. m # n
      <4> SUFFICES ASSUME m = n PROVE FALSE
        OBVIOUS
      <4>1. saving > 0
        BY <1>8, <2>4, <3>2
      <4> QED
        BY <1>10, <2>4, <4>1
    <3> QED
      BY <1>7, <1>10, <3>1, <3>2, <3>3
  <2>5. Accounts'
    BY <1>1, <1>2, <1>10, <2>3, <2>4 DEF Accounts
  <2> QED
    BY <1>1, <1>2, <2>2, <2>5 DEF PlanInv
<1> QED
  BY <1>3, <1>9, <1>10

\* The plan of precisions: every node is at a useful one within the limit on
\* the loss, and while alternatives are left those of a node whose size divides
\* are the ones below its precision (compiler.py, select_precision_plan).
THEOREM PlanInvariance == CompilerSpec => []PlanInv
<1>1. CompilerInit => PlanInv
  BY DEF CompilerInit, PlanInv, Given, Stages
<1>2. ASSUME PlanInv, [CompilerNext]_compilerVars
      PROVE  PlanInv'
  <2>1. CASE Begin
    BY <1>2, <2>1, PlanBegins
  <2>2. CASE Lower
    BY <1>2, <2>2, PlanLowers
  <2>3. ASSUME inputs' = inputs, plan' = plan, stage' \in Stages,
               stage' = "precision" => stage = "precision",
               stage' \in {"asked", "rejected"} <=> stage \in {"asked", "rejected"}
        PROVE  PlanInv'
    <3>1. /\ precision' = precision /\ penalty' = penalty /\ planned' = planned /\ loss' = loss
          /\ left' = left /\ refused' = refused
      BY <2>3 DEF plan
    <3>2. /\ Given' = Given /\ Nodes' = Nodes /\ Acceptable' = Acceptable
          /\ LossLimit' = LossLimit
          /\ \A n, b : Bytes(n, b)' = Bytes(n, b)
          /\ \A n : Useful(n)' = Useful(n) /\ Chosen(n)' = Chosen(n) /\ Even(n)' = Even(n)
          /\ Alternatives' = Alternatives
          /\ \A n, b : Above(n, b)' = Above(n, b)
          /\ \A n, b, c : Loss(n, b, c)' = Loss(n, b, c)
      BY <2>3, GivenKept
    <3>3. PlanTypes => PlanTypes'
      BY <3>1, <3>2 DEF PlanTypes
    <3>4. Stored' = Stored
      <4>1. [m \in Nodes |-> Bytes(m, precision[m])]' = [m \in Nodes |-> Bytes(m, precision[m])]
        BY <3>1, <3>2
      <4> QED
        BY <4>1 DEF Stored
    <3>5. \A n : InStep(n)' = InStep(n)
      <4>1. \A n : TrueLoss(n)' = TrueLoss(n)
        BY <3>1, <3>2 DEF TrueLoss
      <4> QED
        BY <3>1, <3>2, <4>1 DEF InStep
    <3>6. Accounts => Accounts'
      BY <3>1, <3>2, <3>4, <3>5 DEF Accounts
    <3> QED
      BY <1>2, <2>3, <3>1, <3>2, <3>3, <3>6 DEF PlanInv
  <2>4. CASE Reject
    BY <2>3, <2>4 DEF Reject, Stages
  <2>5. CASE PrecisionDone
    <3>1. /\ stage = "precision" /\ stage' = "prefill" /\ left' = {} /\ inputs' = inputs
          /\ precision' = precision /\ penalty' = penalty /\ planned' = planned /\ loss' = loss
          /\ refused' = refused
      BY <2>5 DEF PrecisionDone
    <3>2. /\ Given' = Given /\ Nodes' = Nodes /\ Acceptable' = Acceptable
          /\ LossLimit' = LossLimit
          /\ \A n : Useful(n)' = Useful(n) /\ Alternatives' = Alternatives
      BY <3>1, GivenKept
    <3>3. PlanTypes
      BY <1>2, <3>1 DEF PlanInv, Stages
    <3>4. PlanTypes'
      BY <3>1, <3>2, <3>3 DEF PlanTypes
    <3> QED
      BY <1>2, <3>1, <3>2, <3>4 DEF PlanInv, Stages, Phases
  <2>6. CASE Place
    <3>1. /\ inputs' = inputs /\ plan' = plan
          /\ stage \in Phases /\ stage' \in {stage, "failed"}
      BY <2>6 DEF Place
    <3> QED
      BY <2>3, <3>1 DEF Stages, Phases
  <2>7. CASE Backtrace
    <3>1. /\ inputs' = inputs /\ plan' = plan
          /\ stage \in Phases /\ stage' \in {"decode", "package"}
      BY <2>7 DEF Backtrace
    <3> QED
      BY <2>3, <3>1 DEF Stages, Phases
  <2>8. CASE Package
    <3>1. inputs' = inputs /\ plan' = plan /\ stage = "package" /\ stage' = "done"
      BY <2>8 DEF Package
    <3> QED
      BY <2>3, <3>1 DEF Stages
  <2>9. CASE UNCHANGED compilerVars
    BY <1>2, <2>3, <2>9 DEF compilerVars, PlanInv
  <2> QED
    BY <1>2, <2>1, <2>2, <2>4, <2>5, <2>6, <2>7, <2>8, <2>9 DEF CompilerNext
<1> QED
  BY <1>1, <1>2, PTL DEF CompilerSpec

-----------------------------------------------------------------------------
(***************************************************************************)
(* The compiler: costs are integers, and change with nothing but what they *)
(* are made of.                                                            *)
(***************************************************************************)
\* Products and quotients of natural numbers.
LEMMA Quotients ==
  ASSUME NEW a \in Nat, NEW b \in Nat, NEW c \in Nat, NEW d \in Nat, b > 0, c > 0
  PROVE  /\ (a * d) \in Nat /\ b * c \in Nat /\ b * c > 0 /\ a \div b \in Nat
  OBVIOUS

DeviceKinds == {"cpu", "gpu", "npu"}

\* The powers of two are positive.
LEMMA PowerOfTwo == \A k \in Nat : 2^k \in Nat /\ 2^k > 0
<1> TAKE k \in Nat
<1>1. IsFiniteSet(1..k) /\ Cardinality(1..k) = k
  BY FS_Interval
<1>2. IsFiniteSet(SUBSET (1..k)) /\ Cardinality(SUBSET (1..k)) = 2^k
  BY <1>1, FS_SUBSET
<1>3. Cardinality(SUBSET (1..k)) \in Nat /\ Cardinality(SUBSET (1..k)) # 0
  BY <1>2, FS_CardinalityType, FS_EmptySet
<1> QED
  BY <1>2, <1>3

\* The dispatch time of a prompt of any length is no less than that of a short
\* one.
LEMMA GrowthFacts == \A tokens \in Nat : DispatchGrowth(tokens) \in Nat /\ DispatchGrowth(tokens) >= 100
<1> TAKE tokens \in Nat
<1> DEFINE k == Log2(tokens)
           power == 2^k
           rest == 20 * (tokens - power)
           grown == 20 * k + rest \div power
<1>1. k \in Nat
  <2> DEFINE most == 30
             S == {j \in 1..most : 2^j <= tokens}
  <2>1. k = Cardinality(S) /\ most \in Int
    BY DEF Log2
  <2> HIDE DEF most, k
  <2>2. IsFiniteSet(1..most)
    BY <2>1, FS_Interval
  <2>3. IsFiniteSet(S)
    BY <2>2, FS_Subset
  <2> QED
    BY <2>1, <2>3, FS_CardinalityType
<1>2. power \in Nat /\ power > 0
  BY <1>1, PowerOfTwo
<1>3. DispatchGrowth(tokens) = Max({100, grown})
  BY DEF DispatchGrowth
<1> HIDE DEF k, power
<1>4. rest \in Int
  BY <1>2
<1> HIDE DEF rest
<1>5. rest \div power \in Int
  BY <1>2, <1>4
<1>6. grown \in Int
  BY <1>1, <1>5
<1> HIDE DEF grown
<1>7. {100, grown} \in SUBSET Int
  BY <1>6
<1>8. IsFiniteSet({100, grown})
  BY PairsFinite
<1>9. Max({100, grown}) \in {100, grown} /\ \A x \in {100, grown} : x <= Max({100, grown})
  BY <1>7, <1>8, IntegerSets
<1> DEFINE most == Max({100, grown})
<1> HIDE DEF most
<1>10. most \in {100, grown} /\ 100 <= most
  BY <1>9 DEF most
<1>11. most \in Nat /\ most >= 100
  BY <1>6, <1>10
<1> QED
  BY <1>3, <1>11 DEF most

\* Every device works at some speed in every mode.
LEMMA RateFacts ==
  ASSUME NEW kind \in DeviceKinds, NEW phase \in Phases, NEW op, NEW mode \in PowerModes
  PROVE  /\ Efficiency(kind, phase, op) \in Nat /\ Efficiency(kind, phase, op) >= 300
         /\ PowerScale[mode][kind] \in 38..112
         /\ \A tokens \in Nat : Dispatch(kind, phase, tokens) \in Nat
<1>1. BaseEfficiency[phase][kind] \in 12..62
  BY DEF BaseEfficiency, DeviceKinds, Phases
<1>2. PowerScale[mode][kind] \in 38..112
  BY DEF PowerScale, DeviceKinds, PowerModes
<1>3. DispatchTime[kind] \in Nat
  BY DEF DispatchTime, DeviceKinds
<1>4. Efficiency(kind, phase, op) \in {4500, 25 * BaseEfficiency[phase][kind],
                                       100 * BaseEfficiency[phase][kind],
                                       70 * BaseEfficiency[phase][kind]}
  BY DEF Efficiency
<1>5. Efficiency(kind, phase, op) \in Nat /\ Efficiency(kind, phase, op) >= 300
  <2> DEFINE e == Efficiency(kind, phase, op)
             base == BaseEfficiency[phase][kind]
  <2> HIDE DEF e, base
  <2>1. base \in 12..62 /\ e \in {4500, 25 * base, 100 * base, 70 * base}
    BY <1>1, <1>4 DEF e, base
  <2>2. e \in Nat /\ e >= 300
    BY <2>1
  <2> QED
    BY <2>2 DEF e
<1>6. ASSUME NEW tokens \in Nat
      PROVE  Dispatch(kind, phase, tokens) \in Nat
  <2> DEFINE time == DispatchTime[kind]
             growth == DispatchGrowth(tokens)
  <2>1. time \in Nat /\ growth \in Nat
    BY <1>3, GrowthFacts
  <2>2. Dispatch(kind, phase, tokens) = IF phase = "decode" THEN time ELSE (time * growth) \div 100
    BY DEF Dispatch
  <2> HIDE DEF time, growth
  <2>3. time * growth \in Nat
    BY <2>1
  <2>4. (time * growth) \div 100 \in Nat
    BY <2>3
  <2> QED
    BY <2>1, <2>2, <2>4
<1> QED
  BY <1>2, <1>5, <1>6

\* A node takes some time on every device.
LEMMA TimeFacts ==
  ASSUME PlanTypes, Given, NEW n \in Nodes, NEW d \in Units, NEW phase \in Phases
  PROVE  Time(n, d, phase) \in Nat
<1> DEFINE op == Node(n).op
           stored == Bytes(n, precision[n])
           kind == machine[d].kind
           scale == Workload(op, phase, ask.tokens)
           power == PowerScale[Mode][kind]
           eff == Efficiency(kind, phase, op)
           rate == (eff * power) \div 100
           speed == machine[d].speed
           bandwidth == machine[d].bandwidth
           work == Node(n).work
           activation == Node(n).activation
           floor == IF power < 20 THEN 20 ELSE power
           compute == (work * scale * 100) \div (speed * rate)
           memory == (100 * stored + activation * scale) \div (bandwidth * floor)
           dispatch == Dispatch(kind, phase, ask.tokens)
<1>1. /\ kind \in DeviceKinds /\ speed \in Nat /\ speed > 0 /\ bandwidth \in Nat /\ bandwidth > 0
      /\ work \in Nat /\ activation \in Nat /\ ask.tokens \in Nat
  BY GivenFacts DEF DeviceKinds
<1>2. Mode \in PowerModes /\ precision[n] \in Ladder
  BY DEF PlanTypes, Acceptable
<1>3. stored \in Nat
  BY <1>2, BytesFacts
<1>4. eff \in Nat /\ eff >= 300 /\ power \in 38..112 /\ dispatch \in Nat
  BY <1>1, <1>2, RateFacts
<1>5. scale \in Nat
  BY <1>1 DEF Workload
<1>6. Time(n, d, phase) = compute + memory + dispatch
  BY DEF Time, Estimate
<1> HIDE DEF op, stored, kind, scale, power, eff, speed, bandwidth, work, activation, dispatch
<1>7. rate \in Nat /\ rate > 0
  <2>1. eff * power >= 300 * 38 /\ eff * power \in Nat
    <3>1. power >= 38 /\ power \in Nat
      BY <1>4
    <3>2. eff * power >= 300 * power
      BY <1>4, <3>1
    <3> QED
      BY <1>4, <3>1, <3>2
  <2> DEFINE product == eff * power
  <2> HIDE DEF product
  <2>2. product \in Nat /\ product >= 11400
    BY <2>1 DEF product
  <2>3. product \div 100 \in Nat /\ product \div 100 > 0
    BY <2>2
  <2> QED
    BY <2>3 DEF product
<1>8. floor \in Nat /\ floor > 0
  BY <1>4
<1> HIDE DEF rate, floor
<1>9. compute \in Nat
  <2>1. work * scale * 100 \in Nat /\ speed * rate \in Nat /\ speed * rate > 0
    BY <1>1, <1>5, <1>7, Quotients
  <2> QED
    BY <2>1, Quotients
<1>10. memory \in Nat
  <2>1. activation * scale \in Nat /\ bandwidth * floor \in Nat /\ bandwidth * floor > 0
    BY <1>1, <1>5, <1>8, Quotients
  <2>2. 100 * stored + activation * scale \in Nat
    BY <1>3, <2>1
  <2> QED
    BY <2>1, <2>2, Quotients
<1> QED
  BY <1>4, <1>6, <1>9, <1>10

\* ... and so does a move between two devices.
LEMMA TransferFacts ==
  ASSUME PlanTypes, Given, NEW n \in Nodes, NEW d \in Units, NEW e \in Units,
         NEW phase \in Phases
  PROVE  Transfer(n, d, e, phase) \in Nat
<1> DEFINE left_ == machine[d]
           right == machine[e]
           activation == Node(n).activation
           shared == left_.unified /\ right.unified
           bandwidth == Min({left_.bandwidth, right.bandwidth})
           per == bandwidth * (IF shared THEN 48 ELSE 18)
           copy == (100 * activation) \div per
           synchronization == (IF shared THEN 80 ELSE 350)
                                + (IF "npu" \in {left_.kind, right.kind} THEN 180 ELSE 0)
<1>1. /\ left_.bandwidth \in Nat /\ left_.bandwidth > 0 /\ right.bandwidth \in Nat
      /\ right.bandwidth > 0 /\ activation \in Nat
  BY GivenFacts
<1>2. bandwidth \in Nat /\ bandwidth > 0
  <2>1. {left_.bandwidth, right.bandwidth} \in SUBSET Int
    BY <1>1
  <2>2. IsFiniteSet({left_.bandwidth, right.bandwidth})
    BY PairsFinite
  <2>3. bandwidth \in {left_.bandwidth, right.bandwidth}
    BY <2>1, <2>2, IntegerSets
  <2> QED
    BY <1>1, <2>3
<1>3. synchronization \in Nat
  OBVIOUS
<1>4. TransferTime(left_, right, activation, phase)
        = copy + (IF phase = "decode" THEN (135 * synchronization) \div 100 ELSE synchronization)
  BY DEF TransferTime
<1>5. Transfer(n, d, e, phase) \in {0, TransferTime(left_, right, activation, phase)}
  BY DEF Transfer
<1> HIDE DEF left_, right, activation, shared, bandwidth, synchronization
<1>6. per \in Nat /\ per > 0
  BY <1>2
<1> HIDE DEF per
<1>7. copy \in Nat
  <2>1. 100 * activation \in Nat
    BY <1>1
  <2> QED
    BY <1>6, <2>1, Quotients
<1>8. (135 * synchronization) \div 100 \in Nat
  BY <1>3
<1> HIDE DEF copy
<1> QED
  BY <1>3, <1>4, <1>5, <1>7, <1>8

\* Costs are integers; a node is drawn to its prefill device by 3000 at least.
LEMMA CostFacts ==
  ASSUME PlanTypes, Given, NEW n \in Nodes, NEW d \in Units, NEW e \in Units,
         NEW phase \in Phases
  PROVE  /\ MoveCost(n, d, e, phase) \in Int /\ StepCost(n, d, e, phase) \in Int
         /\ 1 \in Nodes => FirstCost(e, phase) \in Int
         /\ \A t \in Nat : /\ Affinity(n, e, t, phase) \in Int
                           /\ phase = "prefill" => Affinity(n, e, t, phase) = 0
                           /\ phase = "decode" =>
                                /\ paths.prefill[n] = e => Affinity(n, e, t, phase) = 0
                                /\ paths.prefill[n] # e => Affinity(n, e, t, phase) >= 3000
<1> DEFINE U(t) == Max({3000, 6 * t})
           V(t) == Min({2000, t})
<1>1. \A t \in Nat : U(t) \in Int /\ U(t) >= 3000 /\ V(t) \in Int
  <2> TAKE t \in Nat
  <2>1. {3000, 6 * t} \in SUBSET Int /\ {2000, t} \in SUBSET Int
    OBVIOUS
  <2>2. IsFiniteSet({3000, 6 * t})
    <3> DEFINE a == 3000
               b == 6 * t
    <3> HIDE DEF a, b
    <3>1. IsFiniteSet({a, b})
      BY PairsFinite
    <3> QED
      BY <3>1 DEF a, b
  <2>3. IsFiniteSet({2000, t})
    <3> DEFINE a == 2000
    <3> HIDE DEF a
    <3>1. IsFiniteSet({a, t})
      BY PairsFinite
    <3> QED
      BY <3>1 DEF a
  <2>4. V(t) \in {2000, t}
    BY <2>1, <2>3, IntegerSets
  <2>5. U(t) \in {3000, 6 * t} /\ \A x \in {3000, 6 * t} : x <= U(t)
    BY <2>1, <2>2, IntegerSets
  <2> HIDE DEF U, V
  <2>6. U(t) \in {3000, 6 * t} /\ 3000 <= U(t)
    BY <2>5
  <2>7. U(t) \in Int /\ U(t) >= 3000
    BY <2>6
  <2>8. V(t) \in Int
    BY <2>4
  <2> QED
    BY <2>7, <2>8
<1> HIDE DEF U, V
<1>2. \A t \in Nat : \A m :
        /\ Affinity(m, e, t, phase) \in Int
        /\ phase = "prefill" => Affinity(m, e, t, phase) = 0
        /\ phase = "decode" =>
             /\ paths.prefill[m] = e => Affinity(m, e, t, phase) = 0
             /\ paths.prefill[m] # e => Affinity(m, e, t, phase) >= 3000
  <2> TAKE t \in Nat
  <2> TAKE m
  <2>1. U(t) \in Int /\ U(t) >= 3000
    BY <1>1
  <2>2. Affinity(m, e, t, phase) = IF phase = "prefill" \/ paths.prefill[m] = e THEN 0 ELSE U(t)
    BY DEF Affinity, U
  <2> QED
    BY <2>1, <2>2
<1> DEFINE transfer == Transfer(n, d, e, phase)
           time == Time(n, e, phase) + transfer
<1>3. transfer \in Nat /\ time \in Nat
  BY TimeFacts, TransferFacts
<1>4. MoveCost(n, d, e, phase)
        = 100 * time + IF d = e THEN -V(time) ELSE 125 * transfer
  BY DEF MoveCost, V
<1>5. StepCost(n, d, e, phase) = MoveCost(n, d, e, phase) + Affinity(n, e, time, phase)
  BY DEF StepCost
<1> HIDE DEF transfer, time
<1>6. MoveCost(n, d, e, phase) \in Int
  <2>1. V(time) \in Int
    BY <1>1, <1>3
  <2> QED
    BY <1>3, <1>4, <2>1
<1>7. StepCost(n, d, e, phase) \in Int
  <2>1. Affinity(n, e, time, phase) \in Int
    BY <1>2, <1>3
  <2> QED
    BY <1>5, <1>6, <2>1
<1>8. ASSUME 1 \in Nodes PROVE FirstCost(e, phase) \in Int
  <2>1. Time(1, e, phase) \in Nat
    BY <1>8, TimeFacts
  <2>2. Affinity(1, e, Time(1, e, phase), phase) \in Int
    BY <1>2, <2>1
  <2> QED
    BY <2>1, <2>2 DEF FirstCost
<1> QED
  BY <1>2, <1>6, <1>7, <1>8

\* Costs stay while what they are made of does: those of decode hang on where
\* prefill placed the nodes, those of prefill do not.
LEMMA CostsKept ==
  ASSUME inputs' = inputs, precision' = precision
  PROVE  /\ Maximum' = Maximum /\ \A n : Candidates(n)' = Candidates(n)
         /\ \A n, d, phase : Time(n, d, phase)' = Time(n, d, phase)
         /\ \A n, d, e, phase : /\ Transfer(n, d, e, phase)' = Transfer(n, d, e, phase)
                                /\ MoveCost(n, d, e, phase)' = MoveCost(n, d, e, phase)
         /\ \A n, d, e : StepCost(n, d, e, "prefill")' = StepCost(n, d, e, "prefill")
         /\ \A d : FirstCost(d, "prefill")' = FirstCost(d, "prefill")
         /\ paths'.prefill = paths.prefill =>
              /\ \A n, d, e, phase : StepCost(n, d, e, phase)' = StepCost(n, d, e, phase)
              /\ \A d, phase : FirstCost(d, phase)' = FirstCost(d, phase)
<1>1. model' = model /\ machine' = machine /\ ask' = ask
  BY DEF inputs
<1>2. /\ Units' = Units /\ Mode' = Mode /\ \A n : Node(n)' = Node(n)
      /\ \A n, b : Bytes(n, b)' = Bytes(n, b)
  BY GivenKept
<1>3. Maximum' = Maximum
  BY <1>1 DEF Maximum
<1>4. \A n : Candidates(n)' = Candidates(n)
  BY <1>1, <1>2 DEF Candidates
<1>5. \A n, d, phase : Time(n, d, phase)' = Time(n, d, phase)
  BY <1>1, <1>2 DEF Time
<1>6. \A n, d, e, phase : Transfer(n, d, e, phase)' = Transfer(n, d, e, phase)
  BY <1>1, <1>2 DEF Transfer
<1>7. \A n, d, e, phase : MoveCost(n, d, e, phase)' = MoveCost(n, d, e, phase)
  BY <1>5, <1>6 DEF MoveCost
<1>8. \A n, d, t : Affinity(n, d, t, "prefill")' = Affinity(n, d, t, "prefill")
  BY DEF Affinity
<1>9. \A n, d, e : StepCost(n, d, e, "prefill")' = StepCost(n, d, e, "prefill")
  BY <1>5, <1>6, <1>7, <1>8 DEF StepCost
<1>10. \A d : FirstCost(d, "prefill")' = FirstCost(d, "prefill")
  BY <1>5, <1>8 DEF FirstCost
<1>11. ASSUME paths'.prefill = paths.prefill
       PROVE  /\ \A n, d, e, phase : StepCost(n, d, e, phase)' = StepCost(n, d, e, phase)
              /\ \A d, phase : FirstCost(d, phase)' = FirstCost(d, phase)
  <2>1. \A n, d, t, phase : Affinity(n, d, t, phase)' = Affinity(n, d, t, phase)
    BY <1>11 DEF Affinity
  <2>2. \A n, d, e, phase : StepCost(n, d, e, phase)' = StepCost(n, d, e, phase)
    BY <1>5, <1>6, <1>7, <2>1 DEF StepCost
  <2>3. \A d, phase : FirstCost(d, phase)' = FirstCost(d, phase)
    BY <1>5, <2>1 DEF FirstCost
  <2> QED
    BY <2>2, <2>3
<1> QED
  BY <1>3, <1>4, <1>5, <1>6, <1>7, <1>9, <1>10, <1>11

-----------------------------------------------------------------------------
(***************************************************************************)
(* The compiler: the first nodes of a placement.                           *)
(***************************************************************************)
\* The moves among the first i nodes of p, and what they cost.
Switches(p, i) == Cardinality({n \in 2..i : p[n] # p[n - 1]})
StepCosts(p, i, phase) == [n \in 2..i |-> StepCost(n, p[n - 1], p[n], phase)]
CostTo(p, i, phase) ==
  FirstCost(p[1], phase) + SumFunctionOnSet(StepCosts(p, i, phase), 2..i)

\* The first nodes are finitely many, and so are the moves among them.
LEMMA MovesFinite ==
  ASSUME NEW p, NEW i \in Nat
  PROVE  /\ IsFiniteSet(2..i) /\ IsFiniteSet({n \in 2..i : p[n] # p[n - 1]})
         /\ Switches(p, i) \in Nat
<1>1. IsFiniteSet(2..i)
  BY FS_Interval
<1>2. IsFiniteSet({n \in 2..i : p[n] # p[n - 1]})
  BY <1>1, FS_Subset
<1> QED
  BY <1>1, <1>2, FS_CardinalityType DEF Switches

\* One node more is one step more.
LEMMA Further ==
  ASSUME PlanTypes, Given, NEW phase \in Phases, NEW i \in Nat, i >= 1, i + 1 \in Nodes,
         NEW p, \A n \in 1..(i + 1) : p[n] \in Units
  PROVE  /\ Switches(p, i + 1) = Switches(p, i) + Count(p[i], p[i + 1])
         /\ CostTo(p, i, phase) \in Int
         /\ CostTo(p, i + 1, phase) = CostTo(p, i, phase) + StepCost(i + 1, p[i], p[i + 1], phase)
<1> DEFINE old == {n \in 2..i : p[n] # p[n - 1]}
           new == {n \in 2..(i + 1) : p[n] # p[n - 1]}
<1>0. \A n \in 1..(i + 1) : n \in Nodes
  BY GivenFacts
<1>1. Switches(p, i + 1) = Switches(p, i) + Count(p[i], p[i + 1])
  <2>1. IsFiniteSet(old) /\ Cardinality(old) \in Nat
    BY MovesFinite, FS_CardinalityType
  <2>2. i + 1 \notin old
    OBVIOUS
  <2>3. CASE p[i + 1] = p[i]
    <3>1. new = old
      BY <2>3
    <3>2. Cardinality(new) = Cardinality(old) + 0
      BY <2>1, <3>1
    <3> QED
      BY <2>3, <3>2 DEF Switches, Count
  <2>4. CASE p[i + 1] # p[i]
    <3>1. new = old \cup {i + 1}
      BY <2>4
    <3> HIDE DEF old, new
    <3>2. Cardinality(new) = Cardinality(old) + 1
      BY <2>1, <2>2, <3>1, FS_AddElement
    <3> QED
      BY <2>4, <3>2 DEF Switches, Count, old, new
  <2> QED
    BY <2>3, <2>4
<1>2. \A n \in 2..(i + 1) : StepCost(n, p[n - 1], p[n], phase) \in Int
  <2> TAKE n \in 2..(i + 1)
  <2>1. n \in Nodes /\ p[n] \in Units /\ p[n - 1] \in Units
    BY <1>0
  <2> QED
    BY <2>1, CostFacts
<1>3. FirstCost(p[1], phase) \in Int
  BY <1>0, CostFacts
<1> DEFINE f == StepCosts(p, i, phase)
           g == StepCosts(p, i + 1, phase)
           last == StepCost(i + 1, p[i], p[i + 1], phase)
<1>4. IsFiniteSet(2..i) /\ IsFiniteSet(2..(i + 1))
  BY FS_Interval
<1>5. /\ \A n \in 2..i : f[n] \in Int /\ g[n] = f[n]
      /\ \A n \in 2..(i + 1) : g[n] \in Int
      /\ g[i + 1] = last /\ last \in Int
  BY <1>2 DEF StepCosts
<1>6. (2..(i + 1)) \ {i + 1} = 2..i /\ i + 1 \in 2..(i + 1)
  OBVIOUS
<1> HIDE DEF f, g, last
<1>7. SumFunctionOnSet(g, 2..(i + 1)) = g[i + 1] + SumFunctionOnSet(g, (2..(i + 1)) \ {i + 1})
  BY <1>4, <1>5, <1>6, SumFacts
<1>8. SumFunctionOnSet(f, 2..i) = SumFunctionOnSet(g, 2..i) /\ SumFunctionOnSet(f, 2..i) \in Int
  BY <1>4, <1>5, SumSame, SumFacts
<1>9. SumFunctionOnSet(g, 2..(i + 1)) = last + SumFunctionOnSet(f, 2..i)
  BY <1>5, <1>6, <1>7, <1>8
<1>10. CostTo(p, i, phase) = FirstCost(p[1], phase) + SumFunctionOnSet(f, 2..i)
  BY DEF CostTo, f
<1>11. CostTo(p, i + 1, phase) = FirstCost(p[1], phase) + SumFunctionOnSet(g, 2..(i + 1))
  BY DEF CostTo, g
<1>12. CostTo(p, i, phase) \in Int
  BY <1>3, <1>8, <1>10
<1>13. CostTo(p, i + 1, phase) = CostTo(p, i, phase) + last
  BY <1>3, <1>5, <1>8, <1>9, <1>10, <1>11
<1> QED
  BY <1>1, <1>12, <1>13 DEF last

\* The first node alone moves nowhere.
LEMMA FirstAlone ==
  ASSUME PlanTypes, Given, NEW phase \in Phases, NEW p, p[1] \in Units
  PROVE  /\ 1 \in Nodes /\ Switches(p, 1) = 0
         /\ CostTo(p, 1, phase) = FirstCost(p[1], phase) /\ CostTo(p, 1, phase) \in Int
<1>1. 1 \in Nodes
  BY GivenFacts DEF PlanTypes, Acceptable
<1>2. 2..1 = {}
  OBVIOUS
<1>3. {n \in 2..1 : p[n] # p[n - 1]} = {}
  BY <1>2
<1>4. Switches(p, 1) = 0
  BY <1>3, FS_EmptySet DEF Switches
<1>5. SumFunctionOnSet(StepCosts(p, 1, phase), 2..1) = 0
  BY <1>2, FS_EmptySet, SumStep
<1>6. FirstCost(p[1], phase) \in Int
  BY <1>1, CostFacts
<1> QED
  BY <1>1, <1>4, <1>5, <1>6 DEF CostTo

\* Placements that begin alike move alike, and cost alike as far.
LEMMA BeginAlike ==
  ASSUME PlanTypes, Given, NEW phase \in Phases, NEW i \in Nat, i >= 1, i \in Nodes,
         NEW p, NEW q, \A n \in 1..i : p[n] \in Units /\ q[n] = p[n]
  PROVE  Switches(p, i) = Switches(q, i) /\ CostTo(p, i, phase) = CostTo(q, i, phase)
<1>0. \A n \in 1..i : n \in Nodes
  BY GivenFacts
<1>1. \A n \in 2..i : n - 1 \in 1..i /\ n \in 1..i
  OBVIOUS
<1>2. {n \in 2..i : p[n] # p[n - 1]} = {n \in 2..i : q[n] # q[n - 1]}
  BY <1>1
<1>3. StepCosts(p, i, phase) = StepCosts(q, i, phase)
  BY <1>1 DEF StepCosts
<1>4. 1 \in 1..i
  OBVIOUS
<1>5. p[1] = q[1]
  BY <1>4
<1> QED
  BY <1>2, <1>3, <1>5 DEF Switches, CostTo

\* As far as the last node, these are the moves and the cost of a placement.
LEMMA WholePlacement ==
  ASSUME PlanTypes, Given, NEW phase, NEW p \in [Nodes -> Units]
  PROVE  /\ Transitions(p) = Switches(p, Len(model.nodes))
         /\ PathCost(p, phase) = CostTo(p, Len(model.nodes), phase)
<1>1. Nodes = 1..Len(model.nodes) /\ Len(model.nodes) \in Nat /\ DOMAIN p = Nodes
  BY GivenFacts
<1>2. Nodes \ {1} = 2..Len(model.nodes)
  BY <1>1
<1>3. Transitions(p) = Switches(p, Len(model.nodes))
  BY <1>1, <1>2 DEF Transitions, Switches
<1> DEFINE f == [n \in Nodes \ {1} |-> StepCost(n, p[n - 1], p[n], phase)]
<1>4. f = StepCosts(p, Len(model.nodes), phase) /\ DOMAIN f = 2..Len(model.nodes)
  BY <1>2 DEF StepCosts
<1>5. PathCost(p, phase) = FirstCost(p[1], phase) + SumFunction(f)
  BY DEF PathCost
<1> HIDE DEF f
<1>6. SumFunction(f) = SumFunctionOnSet(StepCosts(p, Len(model.nodes), phase), 2..Len(model.nodes))
  BY <1>4 DEF SumFunction
<1> QED
  BY <1>3, <1>5, <1>6 DEF CostTo

-----------------------------------------------------------------------------
(***************************************************************************)
(* The compiler: the table of the dynamic program, layer by layer.  An     *)
(* entry is linked when it costs what its way costs, and a layer is        *)
(* cheapest when no placement of the nodes so far costs less than its      *)
(* entry.                                                                  *)
(***************************************************************************)
Keys == Units \X (0..Maximum)
Entries == [cost : Int, from : SUBSET Keys]
Layers == UNION {[D -> Entries] : D \in SUBSET Keys}

Linked(layer, before, i, phase) ==
  \A k \in DOMAIN layer :
    /\ k[1] \in Candidates(i)
    /\ i = 1 => k[2] = 0 /\ layer[k].cost = FirstCost(k[1], phase)
    /\ i > 1 => \A j \in layer[k].from :
                  /\ j \in DOMAIN before /\ k[2] = j[2] + Count(j[1], k[1])
                  /\ layer[k].cost = before[j].cost + StepCost(i, j[1], k[1], phase)

Reaches(p, i) == (\A n \in 1..i : p[n] \in Candidates(n)) /\ Switches(p, i) <= Maximum

Cheapest(layer, i, phase) ==
  \A p \in [Nodes -> Units] : Reaches(p, i) =>
    /\ <<p[i], Switches(p, i)>> \in DOMAIN layer
    /\ layer[<<p[i], Switches(p, i)>>].cost <= CostTo(p, i, phase)

Table(phase) ==
  /\ histories \in Seq(Layers) /\ Len(histories) <= Len(model.nodes)
  /\ \A i \in 1..Len(histories) :
       /\ Linked(histories[i], histories[i - 1], i, phase)
       /\ phase \notin pruned => Cheapest(histories[i], i, phase)

\* The limit and the candidates.
LEMMA KeyFacts ==
  ASSUME Given
  PROVE  /\ Maximum \in 0..32 /\ Maximum \in Nat /\ IsFiniteSet(Keys)
         /\ \A n : Candidates(n) \subseteq Units
<1>1. Maximum \in 0..32
  <2>1. ask.transitions \in Int
    BY GivenFacts
  <2> QED
    BY <2>1 DEF Maximum, Clamp
<1>2. IsFiniteSet(Units) /\ IsFiniteSet(0..Maximum)
  BY <1>1, GivenFacts, FS_Interval
<1>3. IsFiniteSet(Keys)
  BY <1>2, FS_Product DEF Keys
<1>4. \A n : Candidates(n) \subseteq Units
  <2> TAKE n
  <2> DEFINE able == {d \in Units : Supports(machine[d], Node(n).op, precision[n])}
  <2>1. Candidates(n) = IF ask.preferred \in able /\ Node(n).op \notin HostOps
                        THEN {ask.preferred} ELSE able
    BY DEF Candidates
  <2>2. able \subseteq Units
    OBVIOUS
  <2> HIDE DEF able
  <2> QED
    BY <2>1, <2>2
<1> QED
  BY <1>1, <1>3, <1>4

\* A layer is a function from keys to entries.
LEMMA LayerFacts ==
  ASSUME NEW layer \in Layers
  PROVE  /\ DOMAIN layer \subseteq Keys
         /\ \A k \in DOMAIN layer : /\ layer[k].cost \in Int /\ layer[k].from \subseteq Keys
                                    /\ k[1] \in Units /\ k[2] \in 0..Maximum
                                    /\ k = <<k[1], k[2]>>
<1>1. PICK D \in SUBSET Keys : layer \in [D -> Entries]
  BY DEF Layers
<1>2. \A k \in D : layer[k] \in Entries
  BY <1>1
<1>3. \A k \in D : layer[k].cost \in Int /\ layer[k].from \subseteq Keys
  BY <1>2 DEF Entries
<1>4. \A k \in D : k[1] \in Units /\ k[2] \in 0..Maximum /\ k = <<k[1], k[2]>>
  BY DEF Keys
<1> QED
  BY <1>1, <1>3, <1>4

\* The images of a finite set are finite.
LEMMA ImageFinite ==
  ASSUME NEW S, IsFiniteSet(S), NEW f, DOMAIN f = S
  PROVE  IsFiniteSet({f[x] : x \in S})
<1> DEFINE T == {f[x] : x \in S}
           g == [x \in S |-> f[x]]
<1>1. g \in Surjection(S, T)
  BY DEF Surjection
<1>2. IsFiniteSet(T)
  BY <1>1, FS_Surjection
<1> QED
  BY <1>2

\* The first layer.
LEMMA FirstLayerRight ==
  ASSUME PlanTypes, Given, NEW phase \in Phases, NEW before
  PROVE  /\ FirstLayer(phase) \in Layers
         /\ Linked(FirstLayer(phase), before, 1, phase) /\ Cheapest(FirstLayer(phase), 1, phase)
<1> DEFINE D == Candidates(1) \X {0}
           layer == FirstLayer(phase)
<1>1. Candidates(1) \subseteq Units /\ 0 \in 0..Maximum
  BY KeyFacts
<1>2. D \subseteq Keys
  BY <1>1 DEF Keys
<1>3. 1 \in Nodes
  BY GivenFacts DEF PlanTypes, Acceptable
<1>4. layer = [k \in D |-> [cost |-> FirstCost(k[1], phase), from |-> {}]]
  BY DEF FirstLayer
<1>5. \A k \in D : k[1] \in Candidates(1) /\ k[2] = 0
  OBVIOUS
<1> HIDE DEF layer
<1>6. \A k \in D : layer[k].cost = FirstCost(k[1], phase)
  BY <1>4
<1>7. \A k \in D : FirstCost(k[1], phase) \in Int
  BY <1>1, <1>3, <1>5, CostFacts
<1>8. layer \in [D -> Entries]
  BY <1>4, <1>7 DEF Entries
<1>9. layer \in Layers
  BY <1>2, <1>8 DEF Layers
<1>10. Linked(layer, before, 1, phase)
  BY <1>4, <1>5, <1>6 DEF Linked
<1>11. Cheapest(layer, 1, phase)
  <2> SUFFICES ASSUME NEW p \in [Nodes -> Units], Reaches(p, 1)
               PROVE  /\ <<p[1], Switches(p, 1)>> \in DOMAIN layer
                      /\ layer[<<p[1], Switches(p, 1)>>].cost <= CostTo(p, 1, phase)
    BY DEF Cheapest
  <2>1. p[1] \in Candidates(1)
    <3>1. 1 \in 1..1
      OBVIOUS
    <3> QED
      BY <3>1 DEF Reaches
  <2>2. /\ Switches(p, 1) = 0 /\ CostTo(p, 1, phase) = FirstCost(p[1], phase)
        /\ CostTo(p, 1, phase) \in Int
    BY <1>1, <2>1, FirstAlone
  <2>3. <<p[1], 0>> \in D /\ DOMAIN layer = D
    BY <1>4, <2>1
  <2>4. layer[<<p[1], 0>>].cost = FirstCost(p[1], phase)
    BY <1>6, <2>3
  <2> QED
    BY <2>2, <2>3, <2>4
<1> QED
  BY <1>9, <1>10, <1>11 DEF layer

\* A further layer, from one that was linked.
LEMMA NextLayerRight ==
  ASSUME PlanTypes, Given, NEW phase \in Phases, NEW old \in Layers,
         NEW i \in Nat, i >= 1, i + 1 \in Nodes
  PROVE  /\ NextLayer(old, i + 1, phase) \in Layers
         /\ Linked(NextLayer(old, i + 1, phase), old, i + 1, phase)
         /\ Cheapest(old, i, phase) => Cheapest(NextLayer(old, i + 1, phase), i + 1, phase)
<1> DEFINE n == i + 1
           layer == NextLayer(old, n, phase)
           ways(k) == {j \in DOMAIN old : k \in StepsFrom(j, k[1])}
           step == [move \in Units \X Candidates(n) |-> StepCost(n, move[1], move[2], phase)]
           cost(j, k) == old[j].cost + step[<<j[1], k[1]>>]
           least(k) == Min({cost(j, k) : j \in ways(k)})
           reached == UNION {StepsFrom(j, e) : j \in DOMAIN old, e \in Candidates(n)}
<1>1. layer = [k \in reached |-> [cost |-> least(k),
                                  from |-> {j \in ways(k) : cost(j, k) = least(k)}]]
  BY DEF NextLayer
<1>2. /\ DOMAIN old \subseteq Keys
      /\ \A j \in DOMAIN old : /\ old[j].cost \in Int /\ j[1] \in Units /\ j[2] \in 0..Maximum
                               /\ j = <<j[1], j[2]>>
  BY LayerFacts
<1>3. Candidates(n) \subseteq Units /\ Maximum \in Nat /\ IsFiniteSet(DOMAIN old)
  BY <1>2, KeyFacts, FS_Subset
<1>4. \A d \in Units, e \in Candidates(n) :
        step[<<d, e>>] = StepCost(n, d, e, phase) /\ StepCost(n, d, e, phase) \in Int
  BY <1>3, CostFacts
<1>5. \A j, e : \A k \in StepsFrom(j, e) :
        k[1] = e /\ k[2] = j[2] + Count(j[1], e) /\ ~(k[2] > Maximum) /\ k = <<k[1], k[2]>>
  <2> TAKE j, e
  <2> TAKE k \in StepsFrom(j, e)
  <2> DEFINE moves == j[2] + Count(j[1], e)
  <2>1. StepsFrom(j, e) = IF moves > Maximum THEN {} ELSE {<<e, moves>>}
    BY DEF StepsFrom
  <2> HIDE DEF moves
  <2>2. ~(moves > Maximum) /\ k = <<e, moves>>
    BY <2>1
  <2> QED
    BY <2>2 DEF moves
<1> HIDE DEF step, layer
<1>6. ASSUME NEW k \in reached
      PROVE  /\ k[1] \in Candidates(n) /\ ways(k) # {} /\ k \in Keys /\ ways(k) \subseteq DOMAIN old
             /\ \A j \in ways(k) : /\ k[2] = j[2] + Count(j[1], k[1])
                                   /\ cost(j, k) = old[j].cost + StepCost(n, j[1], k[1], phase)
                                   /\ cost(j, k) \in Int
  <2>1. PICK j \in DOMAIN old, e \in Candidates(n) : k \in StepsFrom(j, e)
    BY <1>6
  <2>2. k[1] = e /\ k[2] = j[2] + Count(j[1], e) /\ ~(k[2] > Maximum) /\ k = <<k[1], k[2]>>
    BY <1>5, <2>1
  <2>3. j \in ways(k)
    BY <2>1, <2>2
  <2>4. Count(j[1], e) \in {0, 1}
    BY DEF Count
  <2>5. k[2] \in 0..Maximum
    <3>1. j[2] \in 0..Maximum
      BY <1>2
    <3> QED
      BY <1>3, <2>2, <2>4, <3>1
  <2>6. k[1] \in Units
    BY <1>3, <2>2
  <2>7. k \in Keys
    BY <2>2, <2>5, <2>6 DEF Keys
  <2>8. ASSUME NEW u \in ways(k)
        PROVE  /\ k[2] = u[2] + Count(u[1], k[1])
               /\ cost(u, k) = old[u].cost + StepCost(n, u[1], k[1], phase)
               /\ cost(u, k) \in Int
    <3>1. k[2] = u[2] + Count(u[1], k[1])
      BY <1>5
    <3>2. u[1] \in Units /\ old[u].cost \in Int /\ k[1] \in Candidates(n)
      BY <1>2, <2>2
    <3>3. step[<<u[1], k[1]>>] = StepCost(n, u[1], k[1], phase) /\ StepCost(n, u[1], k[1], phase) \in Int
      BY <1>4, <3>2
    <3> QED
      BY <3>1, <3>2, <3>3
  <2> QED
    BY <2>2, <2>3, <2>7, <2>8
<1> HIDE DEF reached
<1>7. ASSUME NEW k \in reached
      PROVE  least(k) \in Int /\ \A j \in ways(k) : least(k) <= cost(j, k)
  <2> DEFINE f == [j \in ways(k) |-> cost(j, k)]
             costs == {f[j] : j \in ways(k)}
  <2>1. IsFiniteSet(ways(k))
    BY <1>3, <1>6, FS_Subset
  <2>2. \A j \in ways(k) : f[j] = cost(j, k) /\ f[j] \in Int
    BY <1>6
  <2>3. DOMAIN f = ways(k)
    OBVIOUS
  <2>4. costs = {cost(j, k) : j \in ways(k)}
    BY <2>2
  <2> HIDE DEF f
  <2>5. IsFiniteSet(costs)
    BY <2>1, <2>3, ImageFinite
  <2>6. costs \in SUBSET Int
    BY <2>2
  <2>7. costs # {}
    BY <1>6
  <2>8. Min(costs) \in costs /\ \A x \in costs : Min(costs) <= x
    BY <2>5, <2>6, <2>7, IntegerSets
  <2>9. least(k) = Min(costs)
    BY <2>4
  <2> HIDE DEF costs
  <2>10. Min(costs) \in Int
    BY <2>6, <2>8
  <2>11. \A j \in ways(k) : f[j] \in costs
    BY DEF costs
  <2>12. \A j \in ways(k) : Min(costs) <= f[j]
    BY <2>8, <2>11
  <2> QED
    BY <2>2, <2>9, <2>10, <2>12
<1> HIDE DEF least
<1>8. DOMAIN layer = reached
  BY <1>1
<1>9. \A k \in reached : /\ layer[k].cost = least(k)
                         /\ layer[k].from = {j \in ways(k) : cost(j, k) = least(k)}
  BY <1>1
<1>10. layer \in Layers
  <2>1. \A k \in reached : ways(k) \subseteq Keys
    BY <1>2, <1>6
  <2>2. \A k \in reached : layer[k] \in Entries
    <3> TAKE k \in reached
    <3>1. {j \in ways(k) : cost(j, k) = least(k)} \subseteq Keys /\ least(k) \in Int
      BY <1>7, <2>1
    <3> QED
      BY <1>1, <3>1 DEF Entries
  <2>3. layer \in [reached -> Entries]
    BY <1>1, <2>2
  <2>4. reached \subseteq Keys
    BY <1>6
  <2> QED
    BY <2>3, <2>4 DEF Layers
<1>11. Linked(layer, old, n, phase)
  <2>1. \A k \in DOMAIN layer : k[1] \in Candidates(n)
    BY <1>6, <1>8
  <2>2. ASSUME NEW k \in DOMAIN layer, NEW j \in layer[k].from
        PROVE  /\ j \in DOMAIN old /\ k[2] = j[2] + Count(j[1], k[1])
               /\ layer[k].cost = old[j].cost + StepCost(n, j[1], k[1], phase)
    <3>1. k \in reached /\ j \in ways(k) /\ cost(j, k) = least(k) /\ layer[k].cost = least(k)
      BY <1>8, <1>9
    <3> HIDE DEF ways, cost
    <3>2. /\ k[2] = j[2] + Count(j[1], k[1])
          /\ cost(j, k) = old[j].cost + StepCost(n, j[1], k[1], phase)
          /\ j \in DOMAIN old
      BY <1>6, <3>1
    <3> QED
      BY <3>1, <3>2
  <2>3. n # 1
    OBVIOUS
  <2> QED
    BY <2>1, <2>2, <2>3 DEF Linked
<1>12. ASSUME Cheapest(old, i, phase) PROVE Cheapest(layer, n, phase)
  <2> SUFFICES ASSUME NEW p \in [Nodes -> Units], Reaches(p, n)
               PROVE  /\ <<p[n], Switches(p, n)>> \in DOMAIN layer
                      /\ layer[<<p[n], Switches(p, n)>>].cost <= CostTo(p, n, phase)
    BY DEF Cheapest
  <2>1. \A m \in 1..n : p[m] \in Units /\ p[m] \in Candidates(m)
    BY KeyFacts DEF Reaches
  <2>2. /\ Switches(p, n) = Switches(p, i) + Count(p[i], p[n])
        /\ CostTo(p, i, phase) \in Int
        /\ CostTo(p, n, phase) = CostTo(p, i, phase) + StepCost(n, p[i], p[n], phase)
    BY <2>1, Further
  <2>3. Count(p[i], p[n]) \in {0, 1} /\ Switches(p, i) \in Nat /\ Switches(p, n) <= Maximum
    BY MovesFinite DEF Count, Reaches
  <2>4. Reaches(p, i)
    <3>1. Switches(p, i) <= Maximum
      BY <1>3, <2>2, <2>3
    <3> QED
      BY <2>1, <3>1 DEF Reaches
  <2> DEFINE j == <<p[i], Switches(p, i)>>
             k == <<p[n], Switches(p, n)>>
  <2>5. j \in DOMAIN old /\ old[j].cost <= CostTo(p, i, phase)
    BY <1>12, <2>4 DEF Cheapest
  <2>6. k \in StepsFrom(j, p[n]) /\ p[n] \in Candidates(n) /\ k[1] = p[n] /\ j[1] = p[i]
    <3>1. ~(j[2] + Count(j[1], p[n]) > Maximum)
      BY <1>3, <2>2, <2>3
    <3>2. k = <<p[n], j[2] + Count(j[1], p[n])>>
      BY <2>2
    <3>3. n \in 1..n
      OBVIOUS
    <3> QED
      BY <2>1, <3>1, <3>2, <3>3 DEF StepsFrom
  <2> HIDE DEF j, k
  <2>7. k \in reached
    BY <2>5, <2>6 DEF reached
  <2>8. j \in ways(k)
    BY <2>5, <2>6
  <2>9. least(k) <= cost(j, k) /\ least(k) \in Int /\ layer[k].cost = least(k)
    BY <1>7, <1>9, <2>7, <2>8
  <2>10. cost(j, k) = old[j].cost + StepCost(n, p[i], p[n], phase) /\ cost(j, k) \in Int
    BY <1>6, <2>6, <2>7, <2>8
  <2>11. old[j].cost \in Int /\ StepCost(n, p[i], p[n], phase) \in Int
    <3>1. p[i] \in Units /\ p[n] \in Candidates(n)
      BY <2>1
    <3> QED
      BY <1>2, <1>4, <2>5, <3>1
  <2> HIDE DEF cost
  <2>12. layer[k].cost <= CostTo(p, n, phase)
    BY <2>2, <2>5, <2>9, <2>10, <2>11
  <2> QED
    BY <1>8, <2>7, <2>12 DEF k
<1> QED
  BY <1>10, <1>11, <1>12 DEF layer

-----------------------------------------------------------------------------
(***************************************************************************)
(* The compiler: the ways back through the table.                          *)
(***************************************************************************)
BackFrom(W, i) ==
  [k \in DOMAIN histories[i] |->
     IF i = 1 THEN {<<k[1]>>}
     ELSE UNION {{Append(p, k[1]) : p \in W[i - 1][j]} : j \in histories[i][k].from}]

\* The ways back are what their definition says: that a function is so defined
\* is proved by induction on the number of layers.
LEMMA WaysBackMeans ==
  ASSUME Len(histories) \in Nat
  PROVE  \A i \in 1..Len(histories) : WaysBack[i] = BackFrom(WaysBack, i)
<1> DEFINE T == {n \in Nat : \E W : W = [i \in 1..n |-> BackFrom(W, i)]}
<1>1. 0 \in T
  <2> DEFINE W == [i \in 1..0 |-> 0]
  <2>1. W = [i \in 1..0 |-> BackFrom(W, i)]
    OBVIOUS
  <2> QED
    BY <2>1
<1>2. ASSUME NEW n \in Nat, n \in T PROVE n + 1 \in T
  <2>1. PICK W : W = [i \in 1..n |-> BackFrom(W, i)]
    BY <1>2
  <2> DEFINE V == [i \in 1..(n + 1) |-> BackFrom(W, i)]
  <2>2. \A i \in 1..n : V[i] = W[i]
    <3> TAKE i \in 1..n
    <3>1. W[i] = BackFrom(W, i)
      BY <2>1
    <3>2. V[i] = BackFrom(W, i)
      OBVIOUS
    <3> QED
      BY <3>1, <3>2
  <2>3. \A i \in 1..(n + 1) : BackFrom(V, i) = BackFrom(W, i)
    <3> TAKE i \in 1..(n + 1)
    <3>1. CASE i = 1
      BY <3>1 DEF BackFrom
    <3>2. CASE i # 1
      <4>1. i - 1 \in 1..n
        BY <3>2
      <4>2. V[i - 1] = W[i - 1]
        BY <2>2, <4>1
      <4> HIDE DEF V
      <4> QED
        BY <4>2 DEF BackFrom
    <3> QED
      BY <3>1, <3>2
  <2>4. V = [i \in 1..(n + 1) |-> BackFrom(V, i)]
    BY <2>3
  <2>5. \E U : U = [i \in 1..(n + 1) |-> BackFrom(U, i)]
    <3> HIDE DEF V
    <3> QED
      BY <2>4
  <2>6. n + 1 \in Nat
    OBVIOUS
  <2> QED
    BY <2>5, <2>6
<1>3. Nat \subseteq T
  <2> HIDE DEF T
  <2> QED
    BY <1>1, <1>2, NatSets
<1>4. Len(histories) \in T
  BY <1>3
<1>5. PICK W : W = [i \in 1..Len(histories) |-> BackFrom(W, i)]
  BY <1>4
<1>6. WaysBack = [i \in 1..Len(histories) |-> BackFrom(WaysBack, i)]
  <2>1. WaysBack = CHOOSE Q : Q = [i \in 1..Len(histories) |-> BackFrom(Q, i)]
    BY DEF WaysBack, BackFrom
  <2> QED
    BY <1>5, <2>1
<1> QED
  BY <1>6

\* A way back from an entry is a placement of the nodes so far, and it ends and
\* costs as the entry says.
WayRight(p, i, k, phase) ==
  /\ p \in Seq(Units) /\ Len(p) = i /\ p[i] = k[1]
  /\ \A n \in 1..i : p[n] \in Candidates(n)
  /\ Switches(p, i) = k[2] /\ CostTo(p, i, phase) = histories[i][k].cost

\* Every way back that the table holds is such a placement.
LEMMA WaysRight ==
  ASSUME PlanTypes, Given, NEW phase \in Phases, Table(phase)
  PROVE  \A i \in 1..Len(histories) : \A k \in DOMAIN histories[i] :
           \A p \in WaysBack[i][k] : WayRight(p, i, k, phase)
<1> DEFINE Right(i) == \A k \in DOMAIN histories[i] : \A p \in WaysBack[i][k] : WayRight(p, i, k, phase)
           T == {n \in Nat : n + 1 \in 1..Len(histories) => Right(n + 1)}
<1>1. /\ Len(histories) \in Nat /\ Len(histories) <= Len(model.nodes)
      /\ Len(model.nodes) \in Nat /\ Nodes = 1..Len(model.nodes)
      /\ \A i \in 1..Len(histories) : /\ histories[i] \in Layers
                                      /\ Linked(histories[i], histories[i - 1], i, phase)
  BY GivenFacts, ElementOfSeq, LenProperties DEF Table
<1>2. \A i \in 1..Len(histories) : i \in Nodes /\ WaysBack[i] = BackFrom(WaysBack, i)
  BY <1>1, WaysBackMeans
<1>3. \A i : Candidates(i) \subseteq Units
  BY KeyFacts
<1>4. 0 \in T
  <2> SUFFICES ASSUME 1 \in 1..Len(histories),
                      NEW k \in DOMAIN histories[1], NEW p \in WaysBack[1][k]
               PROVE  WayRight(p, 1, k, phase)
    OBVIOUS
  <2>1. WaysBack[1][k] = {<<k[1]>>}
    BY <1>2 DEF BackFrom
  <2>2. p = <<k[1]>>
    BY <2>1
  <2>3. /\ k[1] \in Candidates(1) /\ k[2] = 0
        /\ histories[1][k].cost = FirstCost(k[1], phase)
    BY <1>1 DEF Linked
  <2>4. p \in Seq(Units) /\ Len(p) = 1 /\ p[1] = k[1] /\ p[1] \in Units
    BY <1>3, <2>2, <2>3
  <2>5. Switches(p, 1) = 0 /\ CostTo(p, 1, phase) = FirstCost(p[1], phase)
    BY <2>4, FirstAlone
  <2>6. \A n \in 1..1 : p[n] \in Candidates(n)
    BY <2>3, <2>4
  <2> QED
    BY <2>3, <2>4, <2>5, <2>6 DEF WayRight
<1>5. ASSUME NEW n \in Nat, n \in T PROVE n + 1 \in T
  <2> DEFINE i == n + 1
  <2> SUFFICES ASSUME i + 1 \in 1..Len(histories),
                      NEW k \in DOMAIN histories[i + 1], NEW p \in WaysBack[i + 1][k]
               PROVE  WayRight(p, i + 1, k, phase)
    OBVIOUS
  <2>1. i \in 1..Len(histories) /\ i >= 1 /\ i \in Nat /\ i + 1 \in Nodes
    BY <1>1
  <2>2. Right(i)
    BY <1>5, <2>1
  <2> HIDE DEF i
  <2>3. /\ i + 1 # 1 /\ i + 1 - 1 = i
    BY <2>1
  <2>4. WaysBack[i + 1][k]
          = UNION {{Append(q, k[1]) : q \in WaysBack[i][j]} : j \in histories[i + 1][k].from}
    <3> DEFINE m == i + 1
    <3>0. m \in 1..Len(histories) /\ m # 1 /\ m - 1 = i
      BY <2>1, <2>3
    <3>1. WaysBack[m] = BackFrom(WaysBack, m) /\ m # 1 /\ m - 1 = i
      BY <1>2, <3>0
    <3> HIDE DEF m
    <3>2. BackFrom(WaysBack, m)[k]
            = UNION {{Append(q, k[1]) : q \in WaysBack[m - 1][j]} : j \in histories[m][k].from}
      <4>1. k \in DOMAIN histories[m]
        BY DEF m
      <4> QED
        BY <3>1, <4>1 DEF BackFrom
    <3>3. WaysBack[m][k]
            = UNION {{Append(q, k[1]) : q \in WaysBack[i][j]} : j \in histories[m][k].from}
      BY <3>1, <3>2
    <3> QED
      BY <3>3 DEF m
  <2>0. PICK j \in histories[i + 1][k].from : \E q \in WaysBack[i][j] : p = Append(q, k[1])
    BY <2>4
  <2>5. PICK q \in WaysBack[i][j] : p = Append(q, k[1])
    BY <2>0
  <2>6. /\ k[1] \in Candidates(i + 1) /\ j \in DOMAIN histories[i]
        /\ k[2] = j[2] + Count(j[1], k[1])
        /\ histories[i + 1][k].cost = histories[i][j].cost + StepCost(i + 1, j[1], k[1], phase)
    <3>1. Linked(histories[i + 1], histories[i], i + 1, phase) /\ i + 1 > 1
      BY <1>1, <2>1, <2>3
    <3> QED
      BY <2>5, <3>1 DEF Linked
  <2>7. WayRight(q, i, j, phase)
    BY <2>2, <2>5, <2>6
  <2>8. q \in Seq(Units) /\ Len(q) = i /\ k[1] \in Units
    BY <1>3, <2>6, <2>7 DEF WayRight
  <2>9. /\ p \in Seq(Units) /\ Len(p) = i + 1 /\ p[i + 1] = k[1]
        /\ \A m \in 1..i : p[m] = q[m]
    BY <2>5, <2>8, AppendProperties
  <2>10. \A m \in 1..(i + 1) : m \in 1..i \/ m = i + 1
    BY <2>1
  <2>11. \A m \in 1..(i + 1) : p[m] \in Candidates(m) /\ p[m] \in Units
    <3> TAKE m \in 1..(i + 1)
    <3>1. CASE m \in 1..i
      BY <1>3, <2>7, <2>9, <3>1 DEF WayRight
    <3>2. CASE m = i + 1
      BY <2>6, <2>8, <2>9, <3>2
    <3> QED
      BY <2>10, <3>1, <3>2
  <2>12. \A m \in 1..i : q[m] \in Units /\ p[m] = q[m]
    BY <1>3, <2>7, <2>9 DEF WayRight
  <2>13. Switches(p, i) = Switches(q, i) /\ CostTo(p, i, phase) = CostTo(q, i, phase)
    <3>1. i \in Nodes
      BY <1>2, <2>1
    <3> QED
      BY <2>1, <2>12, <3>1, BeginAlike
  <2>14. p[i] = j[1]
    <3>1. i \in 1..i
      BY <2>1
    <3> QED
      BY <2>7, <2>12, <3>1 DEF WayRight
  <2>15. /\ Switches(p, i + 1) = Switches(p, i) + Count(p[i], p[i + 1])
         /\ CostTo(p, i + 1, phase) = CostTo(p, i, phase) + StepCost(i + 1, p[i], p[i + 1], phase)
    BY <2>1, <2>11, Further
  <2>16. Switches(q, i) = j[2] /\ CostTo(q, i, phase) = histories[i][j].cost
    BY <2>7 DEF WayRight
  <2>17. Switches(p, i + 1) = k[2] /\ CostTo(p, i + 1, phase) = histories[i + 1][k].cost
    BY <2>6, <2>9, <2>13, <2>14, <2>15, <2>16
  <2> QED
    BY <2>9, <2>11, <2>17 DEF WayRight
<1>6. Nat \subseteq T
  <2> HIDE DEF T
  <2> QED
    BY <1>4, <1>5, NatSets
<1> SUFFICES ASSUME NEW i \in 1..Len(histories) PROVE Right(i)
  OBVIOUS
<1>7. i - 1 \in Nat /\ i - 1 + 1 = i
  BY <1>1
<1> HIDE DEF Right
<1>8. i - 1 \in T
  BY <1>6, <1>7
<1> QED
  BY <1>7, <1>8

-----------------------------------------------------------------------------
(***************************************************************************)
(* The compiler: the placements.                                           *)
(***************************************************************************)
Optimal(p, phase) ==
  /\ p \in Placements
  /\ phase \notin pruned => \A q \in Placements : PathCost(p, phase) <= PathCost(q, phase)

PathInv ==
  /\ paths = [p \in Phases |-> paths[p]]
  /\ \A p \in Phases : paths[p] = <<>> \/ paths[p] \in [Nodes -> Units]
  /\ pruned \subseteq Phases /\ histories \in Seq(Layers)
  /\ stage \in {"asked", "precision", "package", "done", "rejected"} => histories = <<>>
  /\ stage \in Phases => Table(stage)
  /\ stage \in {"decode", "package", "done"} => Optimal(paths.prefill, "prefill")
  /\ stage \in {"package", "done"} => Optimal(paths.decode, "decode")
  /\ stage = "failed" /\ pruned = {} => Placements = {}

\* What is known of placements stays while inputs and precisions do.
LEMMA PlacementsKept ==
  ASSUME inputs' = inputs, precision' = precision
  PROVE  /\ Nodes' = Nodes /\ Units' = Units /\ Layers' = Layers /\ Placements' = Placements
         /\ model' = model /\ Maximum' = Maximum
         /\ \A p : PathCost(p, "prefill")' = PathCost(p, "prefill")
         /\ \A layer, before, i :
              Linked(layer, before, i, "prefill")' = Linked(layer, before, i, "prefill")
         /\ \A layer, i : Cheapest(layer, i, "prefill")' = Cheapest(layer, i, "prefill")
         /\ paths'.prefill = paths.prefill =>
              /\ \A p, phase : PathCost(p, phase)' = PathCost(p, phase)
              /\ \A layer, before, i, phase :
                   Linked(layer, before, i, phase)' = Linked(layer, before, i, phase)
              /\ \A layer, i, phase : Cheapest(layer, i, phase)' = Cheapest(layer, i, phase)
<1>1. /\ Maximum' = Maximum /\ \A n : Candidates(n)' = Candidates(n)
      /\ Nodes' = Nodes /\ Units' = Units /\ model' = model
  BY CostsKept, GivenKept DEF inputs
<1>2. Layers' = Layers
  BY <1>1 DEF Layers, Entries, Keys
<1>3. Placements' = Placements
  BY <1>1 DEF Placements, Transitions
<1>4. \A p, i : Reaches(p, i)' = Reaches(p, i)
  BY <1>1 DEF Reaches, Switches
<1>5. ASSUME NEW phase,
             \A n, d, e : StepCost(n, d, e, phase)' = StepCost(n, d, e, phase),
             \A d : FirstCost(d, phase)' = FirstCost(d, phase)
      PROVE  /\ \A p : PathCost(p, phase)' = PathCost(p, phase)
             /\ \A layer, before, i :
                  Linked(layer, before, i, phase)' = Linked(layer, before, i, phase)
             /\ \A layer, i : Cheapest(layer, i, phase)' = Cheapest(layer, i, phase)
  <2>1. \A p : PathCost(p, phase)' = PathCost(p, phase)
    <3> TAKE p
    <3> DEFINE f == [n \in Nodes \ {1} |-> StepCost(n, p[n - 1], p[n], phase)]
    <3>1. f' = f
      BY <1>1, <1>5
    <3>2. PathCost(p, phase) = FirstCost(p[1], phase) + SumFunction(f)
      BY DEF PathCost
    <3>3. PathCost(p, phase)' = FirstCost(p[1], phase)' + SumFunction(f')
      BY DEF PathCost
    <3> HIDE DEF f
    <3> QED
      BY <1>5, <3>1, <3>2, <3>3
  <2>2. \A layer, before, i : Linked(layer, before, i, phase)' = Linked(layer, before, i, phase)
    BY <1>1, <1>5 DEF Linked, Count
  <2>3. \A p, i : CostTo(p, i, phase)' = CostTo(p, i, phase)
    <3> TAKE p, i
    <3>1. StepCosts(p, i, phase)' = StepCosts(p, i, phase)
      BY <1>5 DEF StepCosts
    <3> QED
      BY <1>5, <3>1 DEF CostTo
  <2>4. \A layer, i : Cheapest(layer, i, phase)' = Cheapest(layer, i, phase)
    <3> TAKE layer, i
    <3>1. \A p : Switches(p, i)' = Switches(p, i)
      BY DEF Switches
    <3> QED
      BY <1>1, <1>4, <2>3, <3>1 DEF Cheapest
  <2> QED
    BY <2>1, <2>2, <2>4
<1>6. /\ \A p : PathCost(p, "prefill")' = PathCost(p, "prefill")
      /\ \A layer, before, i :
           Linked(layer, before, i, "prefill")' = Linked(layer, before, i, "prefill")
      /\ \A layer, i : Cheapest(layer, i, "prefill")' = Cheapest(layer, i, "prefill")
  BY <1>5, CostsKept
<1>7. ASSUME paths'.prefill = paths.prefill
      PROVE  /\ \A p, phase : PathCost(p, phase)' = PathCost(p, phase)
             /\ \A layer, before, i, phase :
                  Linked(layer, before, i, phase)' = Linked(layer, before, i, phase)
             /\ \A layer, i, phase : Cheapest(layer, i, phase)' = Cheapest(layer, i, phase)
  <2>1. \A phase : /\ \A n, d, e : StepCost(n, d, e, phase)' = StepCost(n, d, e, phase)
                   /\ \A d : FirstCost(d, phase)' = FirstCost(d, phase)
    BY <1>7, CostsKept
  <2> QED
    BY <1>5, <2>1
<1> QED
  BY <1>1, <1>2, <1>3, <1>6, <1>7

\* The layer that comes next in the loop over the nodes.
LEMMA LayerRight ==
  ASSUME PlanTypes, Given, NEW phase \in Phases, Table(phase),
         Len(histories) < Len(model.nodes)
  PROVE  /\ Len(histories) \in Nat /\ Len(histories) + 1 \in Nodes
         /\ Layer(phase) \in Layers
         /\ Linked(Layer(phase), histories[Len(histories)], Len(histories) + 1, phase)
         /\ phase \notin pruned => Cheapest(Layer(phase), Len(histories) + 1, phase)
<1> DEFINE i == Len(histories)
<1>1. i \in Nat /\ i + 1 \in Nodes /\ histories \in Seq(Layers)
  BY GivenFacts, LenProperties DEF Table
<1>2. CASE histories = <<>>
  <2>1. i = 0
    BY <1>2
  <2>2. Layer(phase) = FirstLayer(phase)
    BY <1>2 DEF Layer
  <2>3. /\ FirstLayer(phase) \in Layers
        /\ Linked(FirstLayer(phase), histories[0], 1, phase)
        /\ Cheapest(FirstLayer(phase), 1, phase)
    BY FirstLayerRight
  <2> QED
    BY <1>1, <2>1, <2>2, <2>3
<1>3. CASE histories # <<>>
  <2>1. i >= 1 /\ i \in 1..Len(histories)
    BY <1>1, <1>3
  <2> DEFINE old == histories[i]
  <2>2. old \in Layers /\ (phase \notin pruned => Cheapest(old, i, phase))
    BY <1>1, <2>1, ElementOfSeq DEF Table
  <2>3. Layer(phase) = NextLayer(old, i + 1, phase)
    BY <1>3 DEF Layer, Last
  <2> HIDE DEF old, i
  <2>4. /\ NextLayer(old, i + 1, phase) \in Layers
        /\ Linked(NextLayer(old, i + 1, phase), old, i + 1, phase)
        /\ Cheapest(old, i, phase) => Cheapest(NextLayer(old, i + 1, phase), i + 1, phase)
    BY <1>1, <2>1, <2>2, NextLayerRight
  <2> QED
    BY <1>1, <2>2, <2>3, <2>4 DEF i, old
<1> QED
  BY <1>2, <1>3

\* A layer added, whole or cut to some of its keys, leaves a table.
LEMMA TableGrows ==
  ASSUME PlanTypes, Given, NEW phase \in Phases, Table(phase),
         Len(histories) < Len(model.nodes),
         inputs' = inputs, precision' = precision, paths' = paths,
         NEW kept \in SUBSET DOMAIN Layer(phase),
         histories' = Append(histories, Restrict(Layer(phase), kept)),
         phase \in pruned => phase \in pruned',
         phase \notin pruned' => kept = DOMAIN Layer(phase)
  PROVE  Table(phase)'
<1> DEFINE i == Len(histories)
           layer == Layer(phase)
           cut == Restrict(layer, kept)
<1>1. /\ i \in Nat /\ i + 1 \in Nodes /\ layer \in Layers
      /\ Linked(layer, histories[i], i + 1, phase)
      /\ phase \notin pruned => Cheapest(layer, i + 1, phase)
      /\ histories \in Seq(Layers)
  BY LayerRight DEF Table
<1> HIDE DEF layer
<1>2. DOMAIN cut = kept /\ \A k \in kept : cut[k] = layer[k]
  BY DEF Restrict
<1>3. cut \in Layers
  <2>1. PICK D \in SUBSET Keys : layer \in [D -> Entries]
    BY <1>1 DEF Layers
  <2>2. kept \in SUBSET Keys /\ \A k \in kept : layer[k] \in Entries
    BY <2>1 DEF layer
  <2>3. cut \in [kept -> Entries]
    BY <2>2 DEF Restrict
  <2> QED
    BY <2>2, <2>3 DEF Layers
<1>4. Linked(cut, histories[i], i + 1, phase)
  <2>1. kept \subseteq DOMAIN layer
    BY DEF layer
  <2> QED
    BY <1>1, <1>2, <2>1 DEF Linked
<1>5. ASSUME phase \notin pruned' PROVE Cheapest(cut, i + 1, phase)
  <2>1. kept = DOMAIN layer
    BY <1>5 DEF layer
  <2>2. Cheapest(layer, i + 1, phase)
    BY <1>1, <1>5
  <2> QED
    BY <1>2, <2>1, <2>2 DEF Cheapest
<1>6. /\ histories' \in Seq(Layers) /\ Len(histories') = i + 1
      /\ \A m \in 1..i : histories'[m] = histories[m]
      /\ histories'[i + 1] = cut
  <2>1. histories' = Append(histories, cut)
    BY DEF layer
  <2> HIDE DEF cut
  <2> QED
    BY <1>1, <1>3, <2>1, AppendProperties
<1>7. /\ Nodes' = Nodes /\ Layers' = Layers /\ model' = model
      /\ \A l, before, m : Linked(l, before, m, phase)' = Linked(l, before, m, phase)
      /\ \A l, m : Cheapest(l, m, phase)' = Cheapest(l, m, phase)
  BY PlacementsKept
<1> HIDE DEF cut
<1>8. ASSUME NEW m \in 1..Len(histories')
      PROVE  /\ Linked(histories'[m], histories'[m - 1], m, phase)
             /\ phase \notin pruned' => Cheapest(histories'[m], m, phase)
  <2>1. CASE m = i + 1
    <3>1. CASE i = 0
      <4>1. \A b : Linked(cut, b, 1, phase)
        <5>1. Linked(cut, histories[i], 1, phase)
          BY <1>4, <3>1
        <5> QED
          BY <5>1 DEF Linked
      <4> QED
        BY <1>5, <1>6, <2>1, <3>1, <4>1
    <3>2. CASE i # 0
      <4>1. m - 1 \in 1..i /\ m - 1 = i
        BY <1>1, <2>1, <3>2
      <4>2. histories'[m - 1] = histories[i]
        BY <1>6, <4>1
      <4> QED
        BY <1>4, <1>5, <1>6, <2>1, <4>2
    <3> QED
      BY <3>1, <3>2
  <2>2. CASE m # i + 1
    <3>1. m \in 1..i
      BY <1>1, <1>6, <2>2
    <3>2. /\ Linked(histories[m], histories[m - 1], m, phase)
          /\ phase \notin pruned' => Cheapest(histories[m], m, phase)
      BY <3>1 DEF Table
    <3>3. CASE m = 1
      <4>1. \A b : Linked(histories[m], b, m, phase)
        BY <3>2, <3>3 DEF Linked
      <4> QED
        BY <1>6, <3>1, <3>2, <4>1
    <3>4. CASE m # 1
      <4>1. m - 1 \in 1..i
        BY <3>1, <3>4
      <4> QED
        BY <1>6, <3>1, <3>2, <4>1
    <3> QED
      BY <3>3, <3>4
  <2> QED
    BY <2>1, <2>2
<1>9. i + 1 <= Len(model.nodes)
  BY <1>1, GivenFacts
<1>10. Len(histories') <= Len(model.nodes)
  BY <1>6, <1>9
<1>11. ASSUME NEW m \in 1..Len(histories')
       PROVE  /\ Linked(histories[m], histories[m - 1], m, phase)'
              /\ phase \notin pruned' => Cheapest(histories[m], m, phase)'
  BY <1>7, <1>8
<1> QED
  BY <1>6, <1>7, <1>10, <1>11 DEF Table

\* A whole placement reaches every layer.
LEMMA PlacementReaches ==
  ASSUME PlanTypes, Given, NEW q \in Placements, NEW i \in Nodes
  PROVE  q \in [Nodes -> Units] /\ Reaches(q, i)
<1>1. /\ q \in [Nodes -> Units] /\ \A n \in Nodes : q[n] \in Candidates(n)
      /\ Transitions(q) <= Maximum
  BY DEF Placements
<1> DEFINE len == Len(model.nodes)
           part == {n \in 2..i : q[n] # q[n - 1]}
           whole == {n \in 2..len : q[n] # q[n - 1]}
<1>2. len \in Nat /\ Nodes = 1..len /\ i \in Nat /\ i <= len
  BY GivenFacts
<1>3. Switches(q, len) <= Maximum
  BY <1>1, WholePlacement
<1>4. part \subseteq whole /\ IsFiniteSet(whole)
  <2> HIDE DEF len
  <2>1. 2..i \subseteq 2..len
    BY <1>2
  <2>2. part \subseteq whole
    BY <2>1
  <2>3. IsFiniteSet(whole)
    BY <1>2, MovesFinite
  <2> QED
    BY <2>2, <2>3
<1>5. Cardinality(part) <= Cardinality(whole)
  <2> HIDE DEF part, whole
  <2> QED
    BY <1>4, FS_Subset
<1>6. Switches(q, i) <= Switches(q, len) /\ Switches(q, i) \in Nat /\ Switches(q, len) \in Nat
  BY <1>2, <1>5, MovesFinite DEF Switches
<1>7. Switches(q, i) <= Maximum
  BY <1>3, <1>6, KeyFacts
<1>8. \A n \in 1..i : q[n] \in Candidates(n)
  BY <1>1, <1>2
<1> QED
  BY <1>1, <1>7, <1>8 DEF Reaches

\* Giving up: there is no placement, unless the table was cut.
LEMMA GivingUp ==
  ASSUME PlanTypes, Given, NEW phase \in Phases, Table(phase),
         Len(histories) < Len(model.nodes), phase \notin pruned, Layer(phase) = <<>>
  PROVE  Placements = {}
<1> SUFFICES ASSUME NEW q \in Placements PROVE FALSE
  OBVIOUS
<1> DEFINE i == Len(histories) + 1
<1>1. i \in Nodes /\ Cheapest(Layer(phase), i, phase)
  BY LayerRight
<1>2. q \in [Nodes -> Units] /\ Reaches(q, i)
  BY <1>1, PlacementReaches
<1>3. <<q[i], Switches(q, i)>> \in DOMAIN Layer(phase)
  <2> HIDE DEF i
  <2> QED
    BY <1>1, <1>2 DEF Cheapest
<1>4. DOMAIN Layer(phase) = {}
  <2>1. DOMAIN <<>> = {}
    OBVIOUS
  <2> QED
    BY <2>1
<1> QED
  BY <1>3, <1>4

\* The way back from the cheapest entry of the last layer is a placement, and no
\* other is cheaper unless the table was cut.
LEMMA WayBackOptimal ==
  ASSUME PlanTypes, Given, NEW phase \in Phases, Table(phase),
         Len(histories) = Len(model.nodes),
         NEW k \in DOMAIN histories[Len(histories)],
         \A j \in DOMAIN histories[Len(histories)] :
           histories[Len(histories)][k].cost <= histories[Len(histories)][j].cost,
         NEW p \in WaysBack[Len(histories)][k]
  PROVE  Optimal(p, phase)
<1> DEFINE len == Len(model.nodes)
           last == histories[len]
<1>1. len \in Nat /\ len >= 1 /\ Nodes = 1..len /\ len \in 1..Len(histories) /\ len \in Nodes
  BY GivenFacts DEF PlanTypes, Acceptable
<1>2. WayRight(p, len, k, phase)
  BY <1>1, WaysRight
<1>3. p \in [Nodes -> Units]
  <2>1. p \in Seq(Units) /\ Len(p) = len
    BY <1>2 DEF WayRight
  <2> QED
    BY <1>1, <2>1, LenProperties
<1>4. last \in Layers /\ k[2] \in 0..Maximum
  BY <1>1, ElementOfSeq, LayerFacts DEF Table
<1>5. Transitions(p) = k[2] /\ PathCost(p, phase) = last[k].cost
  BY <1>2, <1>3, WholePlacement DEF WayRight
<1>6. \A n \in Nodes : p[n] \in Candidates(n)
  BY <1>1, <1>2 DEF WayRight
<1>7. p \in Placements
  <2>1. Transitions(p) <= Maximum
    BY <1>4, <1>5, KeyFacts
  <2> QED
    BY <1>3, <1>6, <2>1 DEF Placements
<1>8. ASSUME phase \notin pruned, NEW q \in Placements PROVE PathCost(p, phase) <= PathCost(q, phase)
  <2> DEFINE j == <<q[len], Switches(q, len)>>
  <2>1. q \in [Nodes -> Units] /\ Reaches(q, len)
    BY <1>1, PlacementReaches
  <2>2. Cheapest(last, len, phase)
    BY <1>1, <1>8 DEF Table
  <2>3. j \in DOMAIN last /\ last[j].cost <= CostTo(q, len, phase)
    <3> HIDE DEF len, last
    <3> QED
      BY <2>1, <2>2 DEF Cheapest
  <2>4. CostTo(q, len, phase) = PathCost(q, phase)
    BY <2>1, WholePlacement
  <2>5. last[k].cost \in Int /\ last[j].cost \in Int
    <3> HIDE DEF j
    <3> QED
      BY <1>4, <2>3, LayerFacts
  <2>6. CostTo(q, len, phase) \in Int
    <3>1. q[1] \in Units /\ 1 \in Nodes
      BY <1>1, <2>1
    <3>2. CASE len = 1
      BY <3>1, <3>2, FirstAlone
    <3>3. CASE len # 1
      <4>1. len - 1 \in Nat /\ len - 1 >= 1 /\ (len - 1) + 1 = len
        <5>1. len \in Nat /\ len >= 1 /\ len # 1
          BY <1>1, <3>3
        <5> HIDE DEF len
        <5> QED
          BY <5>1
      <4>2. \A n \in 1..len : q[n] \in Units
        BY <1>1, <2>1
      <4> DEFINE m == len - 1
      <4>3. CostTo(q, m + 1, phase) = CostTo(q, m, phase) + StepCost(m + 1, q[m], q[m + 1], phase)
            /\ CostTo(q, m, phase) \in Int
        <5>1. m \in Nat /\ m >= 1 /\ m + 1 \in Nodes /\ \A n \in 1..(m + 1) : q[n] \in Units
          BY <1>1, <4>1, <4>2
        <5> HIDE DEF m
        <5> QED
          BY <5>1, Further
      <4>4. StepCost(m + 1, q[m], q[m + 1], phase) \in Int
        <5>1. m + 1 \in Nodes /\ q[m] \in Units /\ q[m + 1] \in Units
          BY <1>1, <4>1, <4>2
        <5> HIDE DEF m
        <5> QED
          BY <5>1, CostFacts
      <4>5. m + 1 = len
        BY <4>1
      <4> HIDE DEF m
      <4> QED
        BY <4>3, <4>4, <4>5
    <3> QED
      BY <3>2, <3>3
  <2>7. last[k].cost <= last[j].cost
    BY <2>3
  <2> HIDE DEF last, j, len
  <2> QED
    BY <1>5, <2>3, <2>4, <2>5, <2>6, <2>7
<1> QED
  BY <1>7, <1>8 DEF Optimal

\* What is optimal stays so.
LEMMA OptimalKept ==
  ASSUME inputs' = inputs, precision' = precision, pruned \subseteq pruned', NEW p
  PROVE  /\ Optimal(p, "prefill") => Optimal(p, "prefill")'
         /\ paths'.prefill = paths.prefill /\ Optimal(p, "decode") => Optimal(p, "decode")'
BY PlacementsKept DEF Optimal

\* A table of no layers.
LEMMA EmptyTable ==
  ASSUME Given, histories = <<>>, NEW phase
  PROVE  Table(phase)
<1>1. Len(histories) = 0 /\ histories \in Seq(Layers)
  BY EmptySeq
<1>2. 0 <= Len(model.nodes)
  BY GivenFacts
<1>3. 1..0 = {}
  OBVIOUS
<1> QED
  BY <1>1, <1>2, <1>3 DEF Table

\* Before the placements begin, the precisions may change.
LEMMA PathWaits ==
  ASSUME PathInv, stage \in {"asked", "precision"}, stage' \in {"rejected", "precision"},
         inputs' = inputs, UNCHANGED <<histories, paths, pruned>>
  PROVE  PathInv'
<1>1. Nodes' = Nodes /\ Units' = Units
  BY GivenKept
<1>2. histories = <<>> /\ histories' = <<>>
  BY DEF PathInv
<1>3. histories' \in Seq(Layers)'
  BY <1>2, EmptySeq
<1> QED
  BY <1>1, <1>2, <1>3 DEF PathInv, Phases

\* A step that leaves alone the placements and what they are made of.
LEMMA PathQuiet ==
  ASSUME PathInv, Given, inputs' = inputs, precision' = precision,
         UNCHANGED <<histories, paths, pruned>>,
         \/ stage' = stage
         \/ stage = "precision" /\ stage' = "prefill"
         \/ stage = "package" /\ stage' = "done"
  PROVE  PathInv'
<1>1. /\ Nodes' = Nodes /\ Units' = Units /\ Layers' = Layers /\ Placements' = Placements
      /\ model' = model
      /\ \A p, phase : PathCost(p, phase)' = PathCost(p, phase)
      /\ \A l, before, m, phase : Linked(l, before, m, phase)' = Linked(l, before, m, phase)
      /\ \A l, m, phase : Cheapest(l, m, phase)' = Cheapest(l, m, phase)
  BY PlacementsKept
<1>2. \A p, phase : Optimal(p, phase)' = Optimal(p, phase)
  BY <1>1 DEF Optimal
<1>3. \A phase : Table(phase)' = Table(phase)
  BY <1>1 DEF Table
<1>4. stage = "precision" => Table("prefill")
  BY EmptyTable DEF PathInv
<1>5. Optimal(paths.prefill, "prefill")' = Optimal(paths.prefill, "prefill")
  BY <1>2
<1>6. Optimal(paths.decode, "decode")' = Optimal(paths.decode, "decode")
  BY <1>2
<1> QED
  BY <1>1, <1>3, <1>4, <1>5, <1>6 DEF PathInv, Phases

\* One turn of the loop over the nodes.
LEMMA PathPlaces ==
  ASSUME PathInv, PlanTypes, Given, Place
  PROVE  PathInv'
<1> DEFINE layer == Layer(stage)
<1>1. /\ stage \in Phases /\ Len(histories) < Len(model.nodes) /\ Table(stage)
      /\ inputs' = inputs /\ precision' = precision /\ paths' = paths
      /\ pruned \subseteq Phases
  BY DEF Place, PathInv, plan
<1>2. /\ Nodes' = Nodes /\ Units' = Units /\ Layers' = Layers /\ Placements' = Placements
  BY <1>1, PlacementsKept
<1>3. paths' = [p \in Phases |-> paths'[p]]
      /\ \A p \in Phases : paths'[p] = <<>> \/ paths'[p] \in [Nodes' -> Units']
  BY <1>1, <1>2 DEF PathInv
<1>4. CASE layer = <<>> /\ stage' = "failed" /\ histories' = histories /\ pruned' = pruned
  <2>1. pruned = {} => Placements = {}
    BY <1>1, <1>4, GivingUp
  <2>2. histories' \in Seq(Layers)'
    BY <1>2, <1>4 DEF PathInv
  <2> QED
    BY <1>1, <1>2, <1>3, <1>4, <2>1, <2>2 DEF PathInv, Phases
<1>5. ASSUME NEW kept \in SUBSET DOMAIN layer, histories' = Append(histories, Restrict(layer, kept)),
             stage' = stage, pruned' \in {pruned, pruned \cup {stage}},
             stage \notin pruned' => kept = DOMAIN layer
      PROVE  PathInv'
  <2>1. pruned \subseteq pruned' /\ pruned' \subseteq Phases
    BY <1>1, <1>5
  <2>2. Table(stage)'
    <3> DEFINE phase == stage
    <3>1. phase \in Phases /\ Table(phase) /\ kept \in SUBSET DOMAIN Layer(phase)
      BY <1>1
    <3>2. /\ histories' = Append(histories, Restrict(Layer(phase), kept))
          /\ phase \in pruned => phase \in pruned'
          /\ phase \notin pruned' => kept = DOMAIN Layer(phase)
      BY <1>5, <2>1
    <3>3. ASSUME NEW ph, ph = phase PROVE Table(ph)'
      <4>1. /\ ph \in Phases /\ Table(ph) /\ kept \in SUBSET DOMAIN Layer(ph)
            /\ histories' = Append(histories, Restrict(Layer(ph), kept))
            /\ ph \in pruned => ph \in pruned'
            /\ ph \notin pruned' => kept = DOMAIN Layer(ph)
        BY <3>1, <3>2, <3>3
      <4> HIDE DEF phase
      <4> QED
        BY <1>1, <4>1, TableGrows
    <3>4. PICK ph : ph = phase
      OBVIOUS
    <3>5. Table(ph)' /\ ph = stage'
      BY <1>5, <3>3, <3>4
    <3> QED
      BY <3>5
  <2>3. histories' \in Seq(Layers)'
    BY <2>2 DEF Table
  <2>4. stage = "decode" => Optimal(paths.prefill, "prefill")'
    <3>1. stage = "decode" => Optimal(paths.prefill, "prefill")
      BY DEF PathInv
    <3>2. PICK p : p = paths.prefill
      OBVIOUS
    <3>3. Optimal(p, "prefill") => Optimal(p, "prefill")'
      BY <1>1, <2>1, OptimalKept
    <3> QED
      BY <1>1, <3>1, <3>2, <3>3
  <2> QED
    BY <1>1, <1>3, <1>5, <2>1, <2>2, <2>3, <2>4 DEF PathInv, Phases
<1>6. CASE /\ Cardinality(DOMAIN layer) <= Beam
           /\ histories' = Append(histories, layer) /\ stage' = stage /\ pruned' = pruned
  <2>1. Restrict(layer, DOMAIN layer) = layer
    <3>1. layer \in Layers
      BY <1>1, LayerRight
    <3> HIDE DEF layer
    <3>2. PICK D \in SUBSET Keys : layer \in [D -> Entries]
      BY <3>1 DEF Layers
    <3> QED
      BY <3>2 DEF Restrict
  <2> HIDE DEF layer
  <2> QED
    BY <1>5, <1>6, <2>1
<1>7. CASE /\ \E kept \in kSubset(Beam, DOMAIN layer) : histories' = Append(histories, Restrict(layer, kept))
           /\ pruned' = pruned \cup {stage} /\ stage' = stage
  <2>1. PICK kept \in SUBSET DOMAIN layer : histories' = Append(histories, Restrict(layer, kept))
    BY <1>7 DEF kSubset
  <2> HIDE DEF layer
  <2> QED
    BY <1>5, <1>7, <2>1
<1> QED
  BY <1>4, <1>6, <1>7 DEF Place

\* The end of a phase.
LEMMA PathBacktraces ==
  ASSUME PathInv, PlanTypes, Given, Backtrace
  PROVE  PathInv'
<1>1. /\ stage \in Phases /\ Table(stage) /\ Len(histories) = Len(model.nodes)
      /\ inputs' = inputs /\ precision' = precision /\ pruned' = pruned /\ histories' = <<>>
      /\ stage' = IF stage = "prefill" THEN "decode" ELSE "package"
      /\ pruned \subseteq Phases
  BY DEF Backtrace, PathInv, plan
<1>2. PICK k \in DOMAIN Last(histories) :
        /\ \A j \in DOMAIN Last(histories) : Last(histories)[k].cost <= Last(histories)[j].cost
        /\ \E p \in WaysBack[Len(histories)][k] : paths' = [paths EXCEPT ![stage] = p]
  BY DEF Backtrace
<1>3. PICK p \in WaysBack[Len(histories)][k] : paths' = [paths EXCEPT ![stage] = p]
  BY <1>2
<1>4. Optimal(p, stage)
  <2>1. PICK ph : ph = stage
    OBVIOUS
  <2>2. Last(histories) = histories[Len(histories)]
    BY DEF Last
  <2>3. ph \in Phases /\ Table(ph)
    BY <1>1, <2>1
  <2>4. Optimal(p, ph)
    BY <1>1, <1>2, <1>3, <2>2, <2>3, WayBackOptimal
  <2> QED
    BY <2>1, <2>4
<1>5. p \in [Nodes -> Units]
  BY <1>4 DEF Optimal, Placements
<1>6. /\ Nodes' = Nodes /\ Units' = Units /\ Given'
  BY <1>1, PlacementsKept, GivenKept
<1>7. /\ paths' = [q \in Phases |-> paths'[q]] /\ paths'[stage] = p
      /\ \A q \in Phases : q # stage => paths'[q] = paths[q]
  BY <1>1, <1>3 DEF PathInv
<1>8. \A q \in Phases : paths'[q] = <<>> \/ paths'[q] \in [Nodes' -> Units']
  BY <1>5, <1>6, <1>7 DEF PathInv
<1>9. histories' \in Seq(Layers)'
  BY <1>1, EmptySeq
<1>10. CASE stage = "prefill"
  <2>1. Optimal(p, "prefill")'
    BY <1>1, <1>4, <1>10, OptimalKept
  <2>2. Optimal(paths.prefill, "prefill")'
    BY <1>7, <1>10, <2>1
  <2>3. Table("decode")'
    <3>1. Len(histories') = 0
      BY <1>1
    <3>2. Len(model'.nodes) = Len(model.nodes) /\ 0 <= Len(model.nodes)
      BY <1>1, GivenFacts DEF inputs
    <3>3. 1..0 = {}
      OBVIOUS
    <3> QED
      BY <1>9, <3>1, <3>2, <3>3 DEF Table
  <2> QED
    BY <1>1, <1>7, <1>8, <1>9, <1>10, <2>2, <2>3 DEF PathInv, Phases
<1>11. CASE stage = "decode"
  <2>1. paths'.prefill = paths.prefill
    BY <1>7, <1>11 DEF Phases
  <2>2. Optimal(p, "decode")'
    BY <1>1, <1>4, <1>11, <2>1, OptimalKept
  <2>3. Optimal(paths.decode, "decode")'
    BY <1>7, <1>11, <2>2
  <2>4. Optimal(paths.prefill, "prefill")
    BY <1>11 DEF PathInv
  <2>5. PICK q : q = paths.prefill
    OBVIOUS
  <2>6. Optimal(q, "prefill")'
    BY <1>1, <2>4, <2>5, OptimalKept
  <2>7. Optimal(paths.prefill, "prefill")'
    BY <2>1, <2>5, <2>6
  <2> QED
    BY <1>1, <1>7, <1>8, <1>9, <1>11, <2>3, <2>7 DEF PathInv, Phases
<1> QED
  BY <1>1, <1>10, <1>11 DEF Phases

\* The placements that the dynamic program returns are optimal, as long as its
\* table was never cut, whatever the graph, the machine and the request.
THEOREM PathInvariance == CompilerSpec => []PathInv
<1>1. CompilerInit => PathInv
  <2> SUFFICES ASSUME CompilerInit PROVE PathInv
    OBVIOUS
  <2>1. histories = <<>> /\ histories \in Seq(Layers)
    BY EmptySeq DEF CompilerInit
  <2> QED
    BY <2>1 DEF CompilerInit, PathInv, Phases
<1>2. ASSUME PathInv, PlanInv, [CompilerNext]_compilerVars
      PROVE  PathInv'
  <2>1. Given /\ (stage \notin {"asked", "rejected"} => PlanTypes)
    BY <1>2 DEF PlanInv
  <2>2. CASE Reject
    BY <1>2, <2>2, PathWaits DEF Reject
  <2>3. CASE Begin
    BY <1>2, <2>3, PathWaits DEF Begin
  <2>4. CASE Lower
    BY <1>2, <2>4, PathWaits DEF Lower
  <2>5. CASE PrecisionDone
    BY <1>2, <2>1, <2>5, PathQuiet DEF PrecisionDone
  <2>6. CASE Place
    <3>1. PlanTypes
      BY <2>1, <2>6 DEF Place, Phases
    <3> QED
      BY <1>2, <2>1, <2>6, <3>1, PathPlaces
  <2>7. CASE Backtrace
    <3>1. PlanTypes
      BY <2>1, <2>7 DEF Backtrace, Phases
    <3> QED
      BY <1>2, <2>1, <2>7, <3>1, PathBacktraces
  <2>8. CASE Package
    BY <1>2, <2>1, <2>8, PathQuiet DEF Package, plan
  <2>9. CASE UNCHANGED compilerVars
    BY <1>2, <2>1, <2>9, PathQuiet DEF compilerVars, plan
  <2> QED
    BY <1>2, <2>2, <2>3, <2>4, <2>5, <2>6, <2>7, <2>8, <2>9 DEF CompilerNext
<1> QED
  BY <1>1, <1>2, PlanInvariance, PTL DEF CompilerSpec

\* The sums that the plan carries along are those of the plan, and a node's
\* penalty is the loss of its precision, for every graph, machine and request.
THEOREM PlansAlwaysAccounted == CompilerSpec => []PlanAccounted
<1>1. ASSUME PlanInv, PathInv PROVE PlanAccounted
  <2>1. /\ Given /\ (stage \in {"asked", "rejected"} \/ PlanTypes)
        /\ stage \in Stages
    BY <1>1 DEF PlanInv
  <2>2. planned \in Nat /\ loss \in Nat /\ refused \subseteq Nodes
    BY <1>1, <2>1 DEF PlanInv, PlanTypes
  <2>3. left \subseteq Nodes \X Ladder
    BY <1>1, <2>1 DEF PlanInv, PlanTypes, Alternatives
  <2>4. \A i \in DOMAIN histories : DOMAIN histories[i] \subseteq Units \X (0..Maximum)
    <3> TAKE i \in DOMAIN histories
    <3>1. histories \in Seq(Layers)
      BY <1>1 DEF PathInv
    <3>2. histories[i] \in Layers
      BY <3>1
    <3>3. PICK D \in SUBSET Keys : histories[i] \in [D -> Entries]
      BY <3>2 DEF Layers
    <3>4. DOMAIN histories[i] = D
      BY <3>3
    <3> QED
      BY <3>4 DEF Keys
  <2>5. stage \in Phases \cup {"precision", "package", "done"} =>
          precision \in [Nodes -> Ladder] /\ penalty \in [Nodes -> Nat]
    BY <2>1 DEF PlanTypes, Phases
  <2>6. /\ \A p \in Phases : paths[p] = <<>> \/ paths[p] \in [Nodes -> Units]
        /\ pruned \subseteq Phases
    BY <1>1 DEF PathInv
  <2>7. CompilerTypeOK
    BY <2>1, <2>2, <2>3, <2>4, <2>5, <2>6 DEF CompilerTypeOK, Stages
  <2>8. ASSUME stage = "precision"
        PROVE  /\ planned = Stored /\ loss = SumFunction(penalty)
               /\ loss <= LossLimit
               /\ \A n \in Nodes \ refused : Even(n) => penalty[n] = TrueLoss(n)
    <3>1. Accounts /\ PlanTypes
      BY <1>1, <2>8 DEF PlanInv
    <3> QED
      BY <3>1 DEF Accounts, PlanTypes, InStep
  <2> QED
    BY <2>7, <2>8 DEF PlanAccounted
<1> QED
  BY <1>1, PlanInvariance, PathInvariance, PTL

\* The sum of nothing.
LEMMA SumOfNothing == \A f : SumFunctionOnSet(f, {}) = 0
BY FS_EmptySet, SumStep

\* The size of a set with one element more.
LEMMA Added ==
  ASSUME NEW S, IsFiniteSet(S), NEW x, x \notin S
  PROVE  Cardinality(S \cup {x}) = Cardinality(S) + 1
BY FS_AddElement

\* The terms of h are those of f or greater, by 3000 in M.
Raises(f, h, S, M) ==
  /\ M \in SUBSET S
  /\ \A x \in S : f[x] \in Int /\ h[x] \in Int /\ f[x] <= h[x]
  /\ \A x \in M : f[x] + 3000 <= h[x]

\* Such a sum is greater by 3000 for each of them.
LEMMA SumRaised ==
  ASSUME NEW f, NEW h, NEW S, IsFiniteSet(S), NEW M, Raises(f, h, S, M)
  PROVE  /\ Cardinality(M) \in Nat
         /\ SumFunctionOnSet(f, S) + 3000 * Cardinality(M) <= SumFunctionOnSet(h, S)
<1> DEFINE Raised(A) == Cardinality(A \cap M)
           F == {A \in SUBSET S : SumFunctionOnSet(f, A) + 3000 * Raised(A) <= SumFunctionOnSet(h, A)}
<1>1. \A A \in SUBSET S : IsFiniteSet(A)
  BY FS_Subset
<1>2. \A A \in SUBSET S : IsFiniteSet(A \cap M) /\ Raised(A) \in Nat
  <2> TAKE A \in SUBSET S
  <2>1. IsFiniteSet(A) /\ A \cap M \in SUBSET A
    BY <1>1
  <2>2. IsFiniteSet(A \cap M)
    BY <2>1, FS_Subset
  <2> QED
    BY <2>2, FS_CardinalityType
<1>3. \A A \in SUBSET S : SumFunctionOnSet(f, A) \in Int /\ SumFunctionOnSet(h, A) \in Int
  <2> TAKE A \in SUBSET S
  <2>1. IsFiniteSet(A) /\ \A x \in A : f[x] \in Int /\ h[x] \in Int
    BY <1>1 DEF Raises
  <2> QED
    BY <2>1, SumFacts
<1>4. {} \in F
  <2>2. SumFunctionOnSet(f, {}) = 0
    BY SumOfNothing
  <2>3. SumFunctionOnSet(h, {}) = 0
    BY SumOfNothing
  <2>4. Raised({}) = 0
    <3>1. {} \cap M = {}
      OBVIOUS
    <3> QED
      BY <3>1, FS_EmptySet
  <2> HIDE DEF Raised
  <2> QED
    BY <2>2, <2>3, <2>4
<1>5. ASSUME NEW A \in SUBSET S, A \in F, NEW x \in S \ A PROVE A \cup {x} \in F
  <2> DEFINE B == A \cup {x}
             a == SumFunctionOnSet(f, A)
             b == SumFunctionOnSet(h, A)
             m == Raised(A)
             r == Raised(B)
             u == f[x]
             v == h[x]
  <2>1. B \in SUBSET S /\ x \in B /\ B \ {x} = A
    OBVIOUS
  <2>2. r = IF x \in M THEN m + 1 ELSE m
    <3>1. CASE x \in M
      <4> DEFINE C == A \cap M
      <4>1. B \cap M = C \cup {x} /\ x \notin C
        BY <3>1
      <4>2. IsFiniteSet(C)
        BY <1>2
      <4> HIDE DEF C, B
      <4>3. Cardinality(C \cup {x}) = Cardinality(C) + 1
        BY <4>1, <4>2, Added
      <4> QED
        BY <3>1, <4>1, <4>3 DEF C
    <3>2. CASE x \notin M
      <4>1. B \cap M = A \cap M
        BY <3>2
      <4> HIDE DEF B
      <4> QED
        BY <3>2, <4>1
    <3> QED
      BY <3>1, <3>2
  <2> HIDE DEF B, Raised
  <2>3. m \in Nat /\ a \in Int /\ b \in Int
    <3>1. m \in Nat
      BY <1>2
    <3>2. a \in Int /\ b \in Int
      BY <1>3
    <3> QED
      BY <3>1, <3>2
  <2>4. a + 3000 * m <= b
    BY <1>5
  <2>5. /\ SumFunctionOnSet(f, B) = u + a
        /\ SumFunctionOnSet(h, B) = v + b
    <3>1. IsFiniteSet(B) /\ \A y \in B : f[y] \in Int /\ h[y] \in Int
      BY <1>1, <2>1 DEF Raises
    <3> QED
      BY <2>1, <3>1, SumFacts
  <2>6. u \in Int /\ v \in Int /\ u <= v /\ (x \in M => u + 3000 <= v)
    BY DEF Raises
  <2> HIDE DEF a, b, m, r, u, v, F
  <2>7. (u + a) + 3000 * r <= v + b
    <3>1. CASE x \in M
      BY <2>2, <2>3, <2>4, <2>6, <3>1
    <3>2. CASE x \notin M
      BY <2>2, <2>3, <2>4, <2>6, <3>2
    <3> QED
      BY <3>1, <3>2
  <2> QED
    BY <2>1, <2>5, <2>7 DEF B, F, r
<1>6. S \in F
  <2> HIDE DEF F
  <2> QED
    BY <1>4, <1>5, SetFamilies
<1>7. S \cap M = M
  BY DEF Raises
<1>8. Raised(S) = Cardinality(M)
  BY <1>7
<1> QED
  BY <1>2, <1>6, <1>8

\* The nodes placed elsewhere than prefill places them.
Drawn(p) == {n \in Nodes : p[n] # paths.prefill[n]}

\* What decode's placement costs above what it would cost unbound: nothing for
\* prefill's own, and 3000 at least for every node placed elsewhere.
LEMMA DrawnBack ==
  ASSUME PlanTypes, Given, NEW p \in [Nodes -> Units]
  PROVE  /\ Unbound(p) \in Int /\ PathCost(p, "decode") \in Int /\ Cardinality(Drawn(p)) \in Nat
         /\ Drawn(p) = {} => PathCost(p, "decode") = Unbound(p)
         /\ Unbound(p) + 3000 * Cardinality(Drawn(p)) <= PathCost(p, "decode")
<1> DEFINE moved == {n \in Nodes : p[n] # paths.prefill[n]}
           S == Nodes \ {1}
           M == moved \ {1}
           f == [n \in S |-> MoveCost(n, p[n - 1], p[n], "decode")]
           h == [n \in S |-> StepCost(n, p[n - 1], p[n], "decode")]
           sf == SumFunctionOnSet(f, S)
           sh == SumFunctionOnSet(h, S)
           t == 100 * Time(1, p[1], "decode")
           a == FirstCost(p[1], "decode")
           k == Cardinality(moved)
           m == Cardinality(M)
<1>1. "decode" \in Phases /\ "decode" # "prefill"
  BY DEF Phases
<1>2. /\ IsFiniteSet(Nodes) /\ IsFiniteSet(S) /\ IsFiniteSet(moved) /\ M \in SUBSET S
      /\ 1 \in Nodes /\ \A n \in S : n \in Nodes /\ n - 1 \in Nodes
  <2>1. IsFiniteSet(Nodes) /\ Nodes = 1..Len(model.nodes) /\ Len(model.nodes) \in Nat
        /\ Nodes # {}
    BY GivenFacts DEF PlanTypes, Acceptable
  <2>2. IsFiniteSet(S) /\ IsFiniteSet(moved)
    BY <2>1, FS_Subset
  <2> QED
    BY <2>1, <2>2
<1>3. ASSUME NEW n \in S
      PROVE  /\ f[n] \in Int /\ h[n] \in Int /\ f[n] <= h[n]
             /\ n \in M => f[n] + 3000 <= h[n]
             /\ n \notin M => f[n] = h[n]
  <2> DEFINE time == Time(n, p[n], "decode") + Transfer(n, p[n - 1], p[n], "decode")
             drawn == Affinity(n, p[n], time, "decode")
  <2>1. n \in Nodes /\ p[n - 1] \in Units /\ p[n] \in Units
    BY <1>2
  <2>2. Time(n, p[n], "decode") \in Nat
    BY <1>1, <2>1, TimeFacts
  <2>3. Transfer(n, p[n - 1], p[n], "decode") \in Nat
    BY <1>1, <2>1, TransferFacts
  <2>4. time \in Nat
    BY <2>2, <2>3
  <2>5. MoveCost(n, p[n - 1], p[n], "decode") \in Int
    BY <1>1, <2>1, CostFacts
  <2>6. h[n] = f[n] + drawn
    BY DEF StepCost
  <2> HIDE DEF time
  <2>7. /\ drawn \in Int
        /\ paths.prefill[n] = p[n] => drawn = 0
        /\ paths.prefill[n] # p[n] => drawn >= 3000
    BY <1>1, <2>1, <2>4, CostFacts
  <2>8. f[n] \in Int
    BY <2>5
  <2>9. n \in M <=> paths.prefill[n] # p[n]
    BY <2>1
  <2> DEFINE x == f[n]
             y == h[n]
  <2> HIDE DEF drawn, f, h, M, moved
  <2>10. x \in Int /\ y = x + drawn
    BY <2>6, <2>8
  <2> HIDE DEF x, y
  <2>11. /\ y \in Int /\ x <= y /\ (n \in M => x + 3000 <= y) /\ (n \notin M => x = y)
    BY <2>7, <2>9, <2>10
  <2> QED
    BY <2>10, <2>11 DEF x, y
<1>4. /\ t \in Int /\ a \in Int /\ t <= a
      /\ (1 \in moved => t + 3000 <= a) /\ (1 \notin moved => t = a)
  <2> DEFINE time == Time(1, p[1], "decode")
             drawn == Affinity(1, p[1], time, "decode")
  <2>1. p[1] \in Units
    BY <1>2
  <2>2. time \in Nat
    BY <1>1, <1>2, <2>1, TimeFacts
  <2>3. a = t + drawn
    BY DEF FirstCost
  <2> HIDE DEF time
  <2>4. /\ drawn \in Int
        /\ paths.prefill[1] = p[1] => drawn = 0
        /\ paths.prefill[1] # p[1] => drawn >= 3000
    BY <1>1, <1>2, <2>1, <2>2, CostFacts
  <2>5. 1 \in moved <=> paths.prefill[1] # p[1]
    BY <1>2
  <2>6. t = 100 * time
    BY DEF time
  <2>7. t \in Int
    BY <2>2, <2>6
  <2> HIDE DEF drawn, t, a, moved
  <2> QED
    BY <2>3, <2>4, <2>5, <2>7
<1>5. Unbound(p) = t + sf
  <2>1. Unbound(p) = t + SumFunction(f)
    BY DEF Unbound
  <2>2. SumFunction(f) = sf
    BY DEF SumFunction
  <2> QED
    BY <2>1, <2>2
<1>6. PathCost(p, "decode") = a + sh
  <2>1. PathCost(p, "decode") = a + SumFunction(h)
    BY DEF PathCost
  <2>2. SumFunction(h) = sh
    BY DEF SumFunction
  <2> QED
    BY <2>1, <2>2
<1> HIDE DEF f, h, a, t
<1>7. sf \in Int /\ sh \in Int
  BY <1>2, <1>3, SumFacts
<1>8. m \in Nat /\ sf + 3000 * m <= sh
  <2>1. Raises(f, h, S, M)
    BY <1>2, <1>3 DEF Raises
  <2> HIDE DEF M, S
  <2> QED
    BY <1>2, <2>1, SumRaised
<1>9. k \in Nat
  BY <1>2, FS_CardinalityType
<1>10. moved = {} => sf = sh
  <2>1. moved = {} => \A n \in S : f[n] \in Int /\ h[n] = f[n]
    BY <1>3
  <2> QED
    BY <1>2, <2>1, SumSame
<1>11. t + sf + 3000 * k <= a + sh
  <2>1. CASE 1 \in moved
    <3>1. m = k - 1
      BY <1>2, <2>1, Removed
    <3>2. t + 3000 <= a
      BY <1>4, <2>1
    <3> HIDE DEF k, m, sf, sh, M, moved, S
    <3> QED
      BY <1>4, <1>7, <1>8, <1>9, <3>1, <3>2
  <2>2. CASE 1 \notin moved
    <3>1. M = moved
      BY <2>2
    <3>2. m = k
      BY <3>1
    <3> HIDE DEF k, m, sf, sh, M, moved, S
    <3> QED
      BY <1>4, <1>7, <1>8, <1>9, <3>2
  <2> QED
    BY <2>1, <2>2
<1>12. moved = {} => a + sh = t + sf
  BY <1>4, <1>10
<1> HIDE DEF k, m, sf, sh, M, S
<1>13. t + sf \in Int /\ a + sh \in Int
  BY <1>4, <1>7
<1>14. Drawn(p) = moved
  BY DEF Drawn
<1> HIDE DEF moved
<1> QED
  BY <1>5, <1>6, <1>9, <1>11, <1>12, <1>13, <1>14 DEF k

\* The dynamic program finds the cheapest placement unless its table was cut,
\* gives up only when there is none, and decode leaves prefill's devices only
\* for a gain of 30 microseconds a node, for every graph, machine and request.
THEOREM PathsAlwaysRight == CompilerSpec => []PathRight
<1>1. ASSUME PlanInv, PathInv PROVE PathRight
  <2>1. Given /\ (stage \notin {"asked", "rejected"} => PlanTypes)
    BY <1>1 DEF PlanInv
  <2>2. ASSUME NEW phase, Optimal(paths[phase], phase)
        PROVE  /\ paths[phase] \in Placements
               /\ phase \notin pruned =>
                    LET cost == PathCost(paths[phase], phase)
                    IN  \A p \in Placements : cost <= PathCost(p, phase)
    BY <2>2 DEF Optimal
  <2>3. stage = "decode" => Optimal(paths["prefill"], "prefill")
    BY <1>1 DEF PathInv
  <2>4. stage = "package" => Optimal(paths["prefill"], "prefill") /\ Optimal(paths["decode"], "decode")
    BY <1>1 DEF PathInv
  <2>5. ASSUME stage = "package", "decode" \notin pruned PROVE NoOscillation
    <3>1. PlanTypes
      BY <2>1, <2>5
    <3> DEFINE moved == {n \in Nodes : paths.decode[n] # paths.prefill[n]}
    <3>2. /\ paths.prefill \in Placements /\ paths.decode \in Placements
          /\ PathCost(paths.decode, "decode") <= PathCost(paths.prefill, "decode")
      BY <2>4, <2>5 DEF Optimal
    <3>3. PICK p \in [Nodes -> Units] : p = paths.prefill
      BY <3>2 DEF Placements
    <3>4. PICK q \in [Nodes -> Units] : q = paths.decode
      BY <3>2 DEF Placements
    <3>5. Unbound(p) \in Int /\ PathCost(p, "decode") = Unbound(p)
      <4>1. Drawn(p) = {}
        BY <3>3 DEF Drawn
      <4> QED
        BY <2>1, <3>1, <4>1, DrawnBack
    <3> DEFINE there == Drawn(q)
    <3>6. /\ Unbound(q) \in Int /\ PathCost(q, "decode") \in Int /\ Cardinality(there) \in Nat
          /\ Unbound(q) + 3000 * Cardinality(there) <= PathCost(q, "decode")
      BY <2>1, <3>1, DrawnBack
    <3>7. there = moved
      BY <3>4 DEF Drawn
    <3> DEFINE u == Unbound(p)
               v == Unbound(q)
               c == PathCost(q, "decode")
               k == Cardinality(there)
    <3>8. c <= u
      BY <3>2, <3>3, <3>4, <3>5
    <3> HIDE DEF u, v, c, k
    <3>9. u - v >= 3000 * k
      <4>1. u \in Int /\ v \in Int /\ c \in Int /\ k \in Nat /\ v + 3000 * k <= c
        BY <3>5, <3>6 DEF u, v, c, k
      <4> QED
        BY <3>8, <4>1
    <3>10. Unbound(paths.prefill) - Unbound(paths.decode) >= 3000 * Cardinality(there)
      BY <3>3, <3>4, <3>9 DEF u, v, k
    <3> HIDE DEF there
    <3> QED
      BY <3>7, <3>10 DEF NoOscillation
  <2>6. stage = "failed" /\ pruned = {} => Placements = {}
    BY <1>1 DEF PathInv
  <2> QED
    BY <2>2, <2>3, <2>4, <2>5, <2>6 DEF PathRight
<1> QED
  BY <1>1, PlanInvariance, PathInvariance, PTL

-----------------------------------------------------------------------------
(***************************************************************************)
(* The compiler: the package.                                              *)
(***************************************************************************)
\* The smaller of two numbers, and the smallest of three.
LEMMA SmallestOf ==
  ASSUME NEW a \in Int, NEW b \in Int, NEW c \in Int
  PROVE  /\ Min({a, b}) = IF a <= b THEN a ELSE b
         /\ Min({a, b, c}) \in {a, b, c}
         /\ Min({a, b, c}) <= a /\ Min({a, b, c}) <= b /\ Min({a, b, c}) <= c
<1> DEFINE S == {a, b}
           T == {a, b, c}
<1>1. IsFiniteSet(S)
  BY PairsFinite
<1>2. IsFiniteSet(T)
  <2>1. T = S \cup {c}
    OBVIOUS
  <2> HIDE DEF S, T
  <2> QED
    BY <1>1, <2>1, FS_AddElement
<1>3. S \in SUBSET Int /\ S # {} /\ T \in SUBSET Int /\ T # {}
  OBVIOUS
<1>4. a \in S /\ b \in S /\ a \in T /\ b \in T /\ c \in T /\ \A x \in S : x = a \/ x = b
  OBVIOUS
<1> HIDE DEF S, T
<1>5. Min(S) \in S /\ \A x \in S : Min(S) <= x
  BY <1>1, <1>3, IntegerSets
<1>6. Min(T) \in T /\ \A x \in T : Min(T) <= x
  BY <1>2, <1>3, IntegerSets
<1>7. Min(S) = IF a <= b THEN a ELSE b
  <2> DEFINE m == Min(S)
  <2>1. (m = a \/ m = b) /\ m <= a /\ m <= b
    BY <1>4, <1>5
  <2> HIDE DEF m
  <2> QED
    BY <2>1 DEF m
<1> QED
  BY <1>4, <1>6, <1>7 DEF S, T

\* The memory plan: the weights are all somewhere, within the device, within
\* the budget beside the KV cache, and on disk only when they must be.
LEMMA TierFacts ==
  ASSUME NEW weights \in Nat, NEW budget \in Int, budget > 0, NEW capacity \in Nat, NEW kv \in Nat
  PROVE  LET tiers == MemoryTiers(weights, budget, capacity, kv)
         IN  /\ tiers.hot + tiers.warm + tiers.cold = weights
             /\ tiers.hot <= capacity /\ tiers.cold >= 0
             /\ tiers.warm > 0 => tiers.hot + tiers.warm + kv <= budget
             /\ tiers.cold > 0 /\ weights <= budget => weights > capacity /\ weights + kv > budget
<1> DEFINE hot == Min({weights, capacity, budget})
           free == budget - hot - kv
           rest == IF free > 0 THEN free ELSE 0
           warm == Min({weights - hot, rest})
           cold == weights - hot - warm
<1>1. /\ hot \in {weights, capacity, budget} /\ hot <= weights /\ hot <= capacity
      /\ hot <= budget
  <2>1. weights \in Int /\ capacity \in Int /\ budget \in Int
    OBVIOUS
  <2> QED
    BY <2>1, SmallestOf
<1>2. MemoryTiers(weights, budget, capacity, kv) = [hot |-> hot, warm |-> warm, cold |-> cold]
  BY DEF MemoryTiers
<1>3. hot \in Int
  BY <1>1
<1> DEFINE w == weights - hot
<1> HIDE DEF hot
<1>4. free \in Int /\ w \in Int
  BY <1>3
<1>5. rest \in Int
  BY <1>4
<1>6. warm = IF w <= rest THEN w ELSE rest
  <2> HIDE DEF rest, w
  <2>1. Min({w, rest}) = IF w <= rest THEN w ELSE rest
    BY <1>4, <1>5, SmallestOf
  <2> QED
    BY <2>1 DEF w
<1> HIDE DEF warm
<1>7. warm \in Int
  BY <1>4, <1>5, <1>6
<1>8. hot + warm + cold = weights
  BY <1>3, <1>7
<1>9. cold >= 0
  BY <1>3, <1>4, <1>5, <1>6, <1>7
<1>10. warm > 0 => hot + warm + kv <= budget
  BY <1>3, <1>6, <1>7
<1>11. cold > 0 /\ weights <= budget => weights > capacity /\ weights + kv > budget
  <2>1. ASSUME weights <= budget, weights <= capacity PROVE cold = 0
    <3>1. hot = weights
      BY <1>1, <1>3, <2>1
    <3>2. w = 0 /\ rest >= 0
      BY <1>4, <3>1
    <3>3. warm = 0
      BY <1>5, <1>6, <3>2
    <3> QED
      BY <3>1, <3>3
  <2>2. ASSUME weights + kv <= budget PROVE cold = 0
    <3>1. w <= free /\ w >= 0
      BY <1>1, <1>3, <2>2
    <3>2. w <= rest
      BY <1>4, <3>1
    <3>3. warm = w
      BY <1>6, <3>2
    <3> QED
      BY <1>3, <3>3
  <2> QED
    BY <2>1, <2>2
<1> QED
  BY <1>1, <1>2, <1>8, <1>9, <1>10, <1>11

\* Triples of two values each are eight at most.
LEMMA TriplesFew ==
  ASSUME NEW a, NEW b, NEW c, NEW d, NEW e, NEW f
  PROVE  LET T == {a, b} \X {c, d} \X {e, f}
         IN  IsFiniteSet(T) /\ Cardinality(T) \in 1..8
<1> DEFINE A == {a, b}
           B == {c, d}
           C == {e, f}
           T == A \X B \X C
           P == (A \X B) \X C
           g == [t \in P |-> <<t[1][1], t[1][2], t[2]>>]
<1>1. \A x, y : IsFiniteSet({x, y}) /\ Cardinality({x, y}) \in {1, 2}
  <2> TAKE x, y
  <2>1. IsFiniteSet({x}) /\ Cardinality({x}) = 1
    BY FS_Singleton
  <2>2. {x, y} = {x} \cup {y}
    OBVIOUS
  <2> QED
    BY <2>1, <2>2, FS_AddElement
<1>2. IsFiniteSet(P) /\ Cardinality(P) = Cardinality(A) * Cardinality(B) * Cardinality(C)
  <2>1. IsFiniteSet(A) /\ IsFiniteSet(B) /\ IsFiniteSet(C)
    BY <1>1
  <2> HIDE DEF A, B, C
  <2>2. IsFiniteSet(A \X B) /\ Cardinality(A \X B) = Cardinality(A) * Cardinality(B)
    BY <2>1, FS_Product
  <2> QED
    BY <2>1, <2>2, FS_Product
<1>3. Cardinality(P) <= 8
  <2> DEFINE i == Cardinality(A)
             j == Cardinality(B)
             k == Cardinality(C)
  <2>1. i \in {1, 2} /\ j \in {1, 2} /\ k \in {1, 2}
    BY <1>1
  <2>2. Cardinality(P) = i * j * k
    BY <1>2
  <2> HIDE DEF i, j, k
  <2>3. i * j * k <= 8
    BY <2>1
  <2> QED
    BY <2>2, <2>3
<1>4. g \in Surjection(P, T)
  <2>1. g \in [P -> T]
    BY DEF g
  <2>2. \A t \in T : \E p \in P : g[p] = t
    <3> TAKE t \in T
    <3>1. PICK x \in A, y \in B, z \in C : t = <<x, y, z>>
      OBVIOUS
    <3> HIDE DEF A, B, C
    <3>2. <<<<x, y>>, z>> \in P /\ g[<<<<x, y>>, z>>] = t
      BY <3>1
    <3> QED
      BY <3>2
  <2> HIDE DEF g, P, T
  <2> QED
    BY <2>1, <2>2 DEF Surjection
<1>5. T # {}
  <2>1. <<a, c, e>> \in T
    OBVIOUS
  <2> QED
    BY <2>1
<1>6. IsFiniteSet(T) /\ Cardinality(T) <= Cardinality(P)
  <2> HIDE DEF g, P, T
  <2> QED
    BY <1>2, <1>4, FS_Surjection
<1> HIDE DEF P, T
<1>7. Cardinality(T) \in Nat /\ Cardinality(T) # 0 /\ Cardinality(P) \in Nat
  BY <1>2, <1>5, <1>6, FS_CardinalityType, FS_EmptySet
<1>8. Cardinality(T) \in 1..8
  BY <1>3, <1>6, <1>7
<1> QED
  BY <1>6, <1>8 DEF T

\* A kernel has one candidate at least and eight at most.
LEMMA CandidatesFew ==
  ASSUME NEW kind, NEW phase, NEW op
  PROVE  Cardinality(KernelCandidates(kind, phase, op)) \in 1..8
<1> DEFINE K == KernelCandidates(kind, phase, op)
<1>1. \A x : Cardinality({x}) = 1
  BY FS_Singleton
<1>2. \/ K = {<<1, 1, 1>>}
      \/ K = {<<0, 0, 0>>}
      \/ K = {16, 32} \X {16, 32} \X {2, 4}
      \/ K = {8, 16} \X {16, 32} \X {2, 4}
      \/ K = {8, 16} \X {1, 1} \X {4, 8}
  <2>1. {1, 1} = {1}
    OBVIOUS
  <2>2. {8, 16} \X {1, 1} \X {4, 8} = {8, 16} \X {1} \X {4, 8}
    BY <2>1
  <2> QED
    BY <2>2 DEF KernelCandidates
<1> HIDE DEF K
<1>3. Cardinality(K) \in 1..8
  <2>1. CASE K = {<<1, 1, 1>>} \/ K = {<<0, 0, 0>>}
    <3>1. Cardinality(K) = 1
      BY <1>1, <2>1
    <3> QED
      BY <3>1
  <2>2. CASE K = {16, 32} \X {16, 32} \X {2, 4}
    BY <2>2, TriplesFew
  <2>3. CASE K = {8, 16} \X {16, 32} \X {2, 4}
    BY <2>3, TriplesFew
  <2>4. CASE K = {8, 16} \X {1, 1} \X {4, 8}
    BY <2>4, TriplesFew
  <2> QED
    BY <1>2, <2>1, <2>2, <2>3, <2>4
<1> QED
  BY <1>3 DEF K

\* A region of one node, and the regions with one node more.
RegionOf(n, phase) ==
  [device |-> paths[phase][n], backend |-> BackendOf(n, phase)[1], first |-> n, last |-> n]
Extended(regions, n, phase) ==
  IF /\ regions # <<>>
     /\ Last(regions).device = RegionOf(n, phase).device
     /\ Last(regions).backend = RegionOf(n, phase).backend
  THEN [regions EXCEPT ![Len(regions)].last = n]
  ELSE Append(regions, RegionOf(n, phase))
RegionStep(R, n, phase) == IF n = 0 THEN <<>> ELSE Extended(R[n - 1], n, phase)
RegionsAfter(phase) ==
  CHOOSE R : R = [n \in 0..Len(model.nodes) |-> RegionStep(R, n, phase)]

\* What the loop over the placements leaves is what the recursion says: that
\* there is a function so defined is proved by induction.
LEMMA RegionsMean ==
  ASSUME NEW phase, Len(model.nodes) \in Nat
  PROVE  /\ Regions(phase) = RegionsAfter(phase)[Len(model.nodes)]
         /\ \A n \in 0..Len(model.nodes) :
              RegionsAfter(phase)[n] = RegionStep(RegionsAfter(phase), n, phase)
<1> DEFINE T == {n \in Nat : \E R : R = [i \in 0..n |-> RegionStep(R, i, phase)]}
<1>1. 0 \in T
  <2> DEFINE R == [i \in 0..0 |-> <<>>]
  <2>1. R = [i \in 0..0 |-> RegionStep(R, i, phase)]
    BY DEF RegionStep
  <2> HIDE DEF R
  <2> QED
    BY <2>1
<1>2. ASSUME NEW n \in Nat, n \in T PROVE n + 1 \in T
  <2>1. PICK R : R = [i \in 0..n |-> RegionStep(R, i, phase)]
    BY <1>2
  <2> DEFINE V == [i \in 0..(n + 1) |-> RegionStep(R, i, phase)]
  <2>2. \A i \in 0..n : V[i] = R[i]
    <3> TAKE i \in 0..n
    <3>1. R[i] = RegionStep(R, i, phase)
      BY <2>1
    <3>2. V[i] = RegionStep(R, i, phase)
      OBVIOUS
    <3> QED
      BY <3>1, <3>2
  <2>3. \A i \in 0..(n + 1) : RegionStep(V, i, phase) = RegionStep(R, i, phase)
    <3> TAKE i \in 0..(n + 1)
    <3>1. CASE i = 0
      BY <3>1 DEF RegionStep
    <3>2. CASE i # 0
      <4>1. i - 1 \in 0..n
        BY <3>2
      <4>2. V[i - 1] = R[i - 1]
        BY <2>2, <4>1
      <4> HIDE DEF V
      <4> QED
        BY <4>2 DEF RegionStep
    <3> QED
      BY <3>1, <3>2
  <2>4. V = [i \in 0..(n + 1) |-> RegionStep(V, i, phase)]
    BY <2>3
  <2>5. \E U : U = [i \in 0..(n + 1) |-> RegionStep(U, i, phase)]
    <3> HIDE DEF V
    <3> QED
      BY <2>4
  <2>6. n + 1 \in Nat
    OBVIOUS
  <2> QED
    BY <2>5, <2>6
<1>3. Nat \subseteq T
  <2> HIDE DEF T
  <2> QED
    BY <1>1, <1>2, NatSets
<1>4. Len(model.nodes) \in T
  BY <1>3
<1>5. PICK R : R = [n \in 0..Len(model.nodes) |-> RegionStep(R, n, phase)]
  BY <1>4
<1>6. RegionsAfter(phase) = [n \in 0..Len(model.nodes) |-> RegionStep(RegionsAfter(phase), n, phase)]
  BY <1>5 DEF RegionsAfter
<1>7. Regions(phase) = RegionsAfter(phase)[Len(model.nodes)]
  BY DEF Regions, RegionsAfter, RegionStep, Extended, RegionOf
<1> QED
  BY <1>6, <1>7

\* Regions cover the first nodes in order and part where the placements do.
AnyRegion == [device : Units, backend : {BackendOf(n, p)[1] : n \in Nodes, p \in Phases},
              first : Nat, last : Nat]

Covers(regions, i, phase) ==
  /\ regions \in Seq(AnyRegion)
  /\ regions = <<>> <=> i = 0
  /\ i > 0 => regions[1].first = 1 /\ regions[Len(regions)].last = i
  /\ \A r \in DOMAIN regions \ {1} :
       /\ regions[r].first = regions[r - 1].last + 1
       /\ \/ regions[r].device # regions[r - 1].device
          \/ regions[r].backend # regions[r - 1].backend
  /\ \A r \in DOMAIN regions : \A n \in regions[r].first..regions[r].last :
       paths[phase][n] = regions[r].device

\* A region longer by one node.
LEMMA RegionLonger ==
  ASSUME NEW phase \in Phases, NEW i \in Nat, i + 1 \in Nodes, paths[phase] \in [Nodes -> Units],
         NEW R, Covers(R, i, phase), R # <<>>, Last(R).device = paths[phase][i + 1]
  PROVE  Covers([R EXCEPT ![Len(R)].last = i + 1], i + 1, phase)
<1> DEFINE n == i + 1
           l == Len(R)
           old == R[l]
           new == [old EXCEPT !.last = n]
           S == [R EXCEPT ![l] = new]
<1>1. /\ R \in Seq(AnyRegion) /\ l \in Nat /\ l >= 1 /\ DOMAIN R = 1..l /\ i > 0
      /\ R[1].first = 1 /\ old.last = i /\ old.device = paths[phase][n]
  <2>1. R \in Seq(AnyRegion) /\ R # <<>>
    BY DEF Covers
  <2>2. l \in Nat /\ l >= 1 /\ DOMAIN R = 1..l
    BY <2>1
  <2> QED
    BY <2>1, <2>2 DEF Covers, Last
<1>2. n \in Nat /\ n > 0 /\ n = i + 1
  OBVIOUS
<1> HIDE DEF n
<1>3. old \in AnyRegion
  BY <1>1
<1>4. /\ new \in AnyRegion /\ new.device = old.device /\ new.backend = old.backend
      /\ new.first = old.first /\ new.last = n
  BY <1>2, <1>3 DEF AnyRegion
<1> HIDE DEF l, old, new
<1>5. /\ S \in Seq(AnyRegion) /\ Len(S) = l /\ DOMAIN S = 1..l /\ S[l] = new
      /\ \A r \in 1..l : r # l => S[r] = R[r]
  <2>1. S \in [1..l -> AnyRegion]
    BY <1>1, <1>4
  <2> QED
    BY <1>1, <1>4, <2>1
<1>6. S # <<>>
  BY <1>1, <1>5
<1>7. /\ \A r \in 1..l : /\ S[r].first = R[r].first /\ S[r].device = R[r].device
                         /\ S[r].backend = R[r].backend
      /\ \A r \in 1..l : r # l => S[r].last = R[r].last
  BY <1>1, <1>4, <1>5 DEF old
<1> HIDE DEF S
<1>8. S[1].first = 1 /\ S[l].last = n
  BY <1>1, <1>4, <1>5, <1>7
<1>9. \A r \in 1..l : r # 1 =>
         /\ S[r].first = S[r - 1].last + 1
         /\ S[r].device # S[r - 1].device \/ S[r].backend # S[r - 1].backend
  <2> TAKE r \in 1..l
  <2> HAVE r # 1
  <2>1. r - 1 \in 1..l /\ r - 1 # l
    BY <1>1
  <2>2. r \in DOMAIN R \ {1}
    BY <1>1
  <2>3. /\ R[r].first = R[r - 1].last + 1
        /\ R[r].device # R[r - 1].device \/ R[r].backend # R[r - 1].backend
    BY <2>2 DEF Covers
  <2> QED
    BY <1>7, <2>1, <2>3
<1>10. \A r \in 1..l : \A m \in S[r].first..S[r].last : paths[phase][m] = S[r].device
  <2> TAKE r \in 1..l
  <2>1. \A m \in R[r].first..R[r].last : paths[phase][m] = R[r].device
    BY <1>1 DEF Covers
  <2>2. CASE r # l
    BY <1>7, <2>1, <2>2
  <2>3. CASE r = l
    <3>1. R[r].last = i /\ S[r].last = i + 1 /\ S[r].first = R[r].first /\ R[r].first \in Nat
      BY <1>1, <1>2, <1>3, <1>4, <1>5, <1>7, <2>3 DEF old, AnyRegion
    <3>2. \A m \in S[r].first..S[r].last : m \in R[r].first..R[r].last \/ m = i + 1
      BY <3>1
    <3>3. paths[phase][i + 1] = R[r].device
      BY <1>1, <1>2, <2>3 DEF old
    <3> QED
      BY <1>7, <2>1, <3>2, <3>3
  <2> QED
    BY <2>2, <2>3
<1>11. Covers(S, n, phase)
  <2>1. S[1].first = 1 /\ S[Len(S)].last = n
    BY <1>5, <1>8
  <2>2. DOMAIN S \ {1} \subseteq 1..l /\ 1 \notin DOMAIN S \ {1} /\ DOMAIN S = 1..l
    BY <1>5
  <2>3. S \in Seq(AnyRegion) /\ (S = <<>> <=> n = 0)
    BY <1>2, <1>5, <1>6
  <2>4. \A r \in DOMAIN S \ {1} :
          /\ S[r].first = S[r - 1].last + 1
          /\ S[r].device # S[r - 1].device \/ S[r].backend # S[r - 1].backend
    BY <1>9, <2>2
  <2>5. \A r \in DOMAIN S : \A m \in S[r].first..S[r].last : paths[phase][m] = S[r].device
    BY <1>10, <2>2
  <2> QED
    BY <2>1, <2>3, <2>4, <2>5 DEF Covers
<1>12. S = [R EXCEPT ![Len(R)].last = i + 1]
  BY DEF S, new, old, l, n
<1> QED
  BY <1>2, <1>11, <1>12

\* One region more.
LEMMA RegionAdded ==
  ASSUME NEW phase \in Phases, NEW i \in Nat, i + 1 \in Nodes, paths[phase] \in [Nodes -> Units],
         NEW R, Covers(R, i, phase),
         \/ R = <<>>
         \/ Last(R).device # RegionOf(i + 1, phase).device
         \/ Last(R).backend # RegionOf(i + 1, phase).backend
  PROVE  Covers(Append(R, RegionOf(i + 1, phase)), i + 1, phase)
<1> DEFINE n == i + 1
           l == Len(R)
           new == RegionOf(n, phase)
           S == Append(R, new)
<1>1. R \in Seq(AnyRegion) /\ l \in Nat /\ DOMAIN R = 1..l /\ (l = 0 <=> i = 0)
  <2>1. R \in Seq(AnyRegion) /\ (R = <<>> <=> i = 0)
    BY DEF Covers
  <2>2. l \in Nat /\ DOMAIN R = 1..l /\ (l = 0 <=> R = <<>>)
    BY <2>1, EmptySeq
  <2> QED
    BY <2>1, <2>2
<1>2. n \in Nat /\ n > 0 /\ n = i + 1
  OBVIOUS
<1> HIDE DEF n
<1>3. /\ new \in AnyRegion /\ new.device = paths[phase][n] /\ new.first = n /\ new.last = n
  BY <1>2 DEF AnyRegion, RegionOf
<1> HIDE DEF l, new
<1>4. /\ S \in Seq(AnyRegion) /\ Len(S) = l + 1 /\ DOMAIN S = 1..(l + 1) /\ S[l + 1] = new
      /\ \A r \in 1..l : S[r] = R[r]
  BY <1>1, <1>3 DEF l
<1>5. S # <<>>
  <2>1. Len(S) # 0 /\ Len(<<>>) = 0
    BY <1>1, <1>4
  <2> QED
    BY <2>1
<1> HIDE DEF S
<1>6. S[1].first = 1 /\ S[l + 1].last = n
  <2>1. CASE l = 0
    BY <1>1, <1>2, <1>3, <1>4, <2>1
  <2>2. CASE l # 0
    <3>1. R[1].first = 1 /\ 1 \in 1..l
      BY <1>1, <2>2 DEF Covers
    <3> QED
      BY <1>3, <1>4, <3>1
  <2> QED
    BY <2>1, <2>2
<1>7. \A r \in 1..(l + 1) : r # 1 =>
         /\ S[r].first = S[r - 1].last + 1
         /\ S[r].device # S[r - 1].device \/ S[r].backend # S[r - 1].backend
  <2> TAKE r \in 1..(l + 1)
  <2> HAVE r # 1
  <2>1. r - 1 \in 1..l /\ S[r - 1] = R[r - 1]
    BY <1>1, <1>4
  <2>2. CASE r = l + 1
    <3>1. r - 1 = l /\ R # <<>> /\ i > 0
      <4>1. r - 1 = l /\ l # 0
        BY <1>1, <2>1, <2>2
      <4> QED
        BY <1>1, <4>1 DEF Covers
    <3>2. R[l].last = i
      BY <3>1 DEF Covers, l
    <3>3. R[l].device # new.device \/ R[l].backend # new.backend
      BY <3>1 DEF Last, l, new, n
    <3> QED
      BY <1>2, <1>3, <1>4, <2>1, <2>2, <3>1, <3>2, <3>3
  <2>3. CASE r # l + 1
    <3>1. r \in DOMAIN R \ {1} /\ r \in 1..l
      BY <1>1, <2>3
    <3>2. /\ R[r].first = R[r - 1].last + 1
          /\ R[r].device # R[r - 1].device \/ R[r].backend # R[r - 1].backend
      BY <3>1 DEF Covers
    <3> QED
      BY <1>4, <2>1, <3>1, <3>2
  <2> QED
    BY <2>2, <2>3
<1>8. \A r \in 1..(l + 1) : \A m \in S[r].first..S[r].last : paths[phase][m] = S[r].device
  <2> TAKE r \in 1..(l + 1)
  <2>1. CASE r = l + 1
    <3>1. \A m \in n..n : m = n
      BY <1>2
    <3> QED
      BY <1>3, <1>4, <2>1, <3>1
  <2>2. CASE r # l + 1
    <3>1. r \in DOMAIN R /\ r \in 1..l
      BY <1>1, <2>2
    <3>2. \A m \in R[r].first..R[r].last : paths[phase][m] = R[r].device
      BY <3>1 DEF Covers
    <3> QED
      BY <1>4, <3>1, <3>2
  <2> QED
    BY <2>1, <2>2
<1>9. Covers(S, n, phase)
  BY <1>2, <1>4, <1>5, <1>6, <1>7, <1>8 DEF Covers
<1> QED
  BY <1>9 DEF S, new, n

\* The regions of a placement.
LEMMA RegionsRight ==
  ASSUME PlanTypes, Given, NEW phase \in Phases, paths[phase] \in [Nodes -> Units]
  PROVE  Covers(Regions(phase), Len(model.nodes), phase)
<1> DEFINE N == Len(model.nodes)
           R == RegionsAfter(phase)
           T == {i \in Nat : i \in 0..N => Covers(R[i], i, phase)}
<1>1. N \in Nat /\ Nodes = 1..N
  BY GivenFacts
<1>2. Regions(phase) = R[N] /\ \A i \in 0..N : R[i] = RegionStep(R, i, phase)
  BY <1>1, RegionsMean
<1> HIDE DEF N, R
<1>3. 0 \in T
  <2>1. 0 \in 0..N
    BY <1>1
  <2>2. R[0] = <<>>
    BY <1>2, <2>1 DEF RegionStep
  <2>3. <<>> \in Seq(AnyRegion) /\ DOMAIN <<>> = {}
    BY EmptySeq
  <2>4. Covers(<<>>, 0, phase)
    BY <2>3 DEF Covers
  <2> QED
    BY <2>2, <2>4
<1>4. ASSUME NEW i \in Nat, i \in T PROVE i + 1 \in T
  <2> SUFFICES ASSUME i + 1 \in 0..N PROVE Covers(R[i + 1], i + 1, phase)
    OBVIOUS
  <2> DEFINE Q == R[i]
  <2>1. i \in 0..N /\ i + 1 \in Nodes
    BY <1>1
  <2>2. Covers(Q, i, phase)
    BY <1>4, <2>1
  <2>3. R[i + 1] = Extended(Q, i + 1, phase)
    <3>1. R[i + 1] = RegionStep(R, i + 1, phase) /\ i + 1 # 0 /\ i + 1 - 1 = i
      BY <1>2
    <3> QED
      BY <3>1 DEF RegionStep
  <2> HIDE DEF Q
  <2> DEFINE new == RegionOf(i + 1, phase)
  <2>4. new.device = paths[phase][i + 1]
    BY DEF RegionOf
  <2>5. CASE Q # <<>> /\ Last(Q).device = new.device /\ Last(Q).backend = new.backend
    <3>1. R[i + 1] = [Q EXCEPT ![Len(Q)].last = i + 1]
      BY <2>3, <2>5 DEF Extended
    <3>2. Covers([Q EXCEPT ![Len(Q)].last = i + 1], i + 1, phase)
      BY <2>1, <2>2, <2>4, <2>5, RegionLonger
    <3> QED
      BY <3>1, <3>2
  <2>6. CASE ~(Q # <<>> /\ Last(Q).device = new.device /\ Last(Q).backend = new.backend)
    <3>1. R[i + 1] = Append(Q, new)
      BY <2>3, <2>6 DEF Extended
    <3>2. Covers(Append(Q, new), i + 1, phase)
      BY <2>1, <2>2, <2>6, RegionAdded
    <3> QED
      BY <3>1, <3>2
  <2> QED
    BY <2>5, <2>6
<1>5. Nat \subseteq T
  <2> HIDE DEF T
  <2> QED
    BY <1>3, <1>4, NatSets
<1>6. N \in 0..N
  BY <1>1
<1>7. Covers(R[N], N, phase)
  BY <1>1, <1>5, <1>6
<1> QED
  BY <1>2, <1>7 DEF N

\* Of the nodes placed alike, the first gives the kernel.
KeyOf(n, phase) == <<paths[phase][n], Node(n).op, precision[n]>>
KernelOf(n, phase) ==
  [key |-> KeyOf(n, phase), backend |-> BackendOf(n, phase)[1],
   candidates |-> KernelCandidates(machine[paths[phase][n]].kind, phase, Node(n).op)]

\* A placement has exactly one kernel, of its backend (codegen.py, lower).
LEMMA KernelsRight ==
  ASSUME Given, NEW phase, NEW n \in Nodes
  PROVE  LET mine == {k \in Kernels(phase) : k.key = <<paths[phase][n], Node(n).op, precision[n]>>}
         IN  Cardinality(mine) = 1 /\ \A k \in mine :
               k.backend = BackendOf(n, phase)[1] /\ Cardinality(k.candidates) \in 1..8
<1> DEFINE firsts == {m \in Nodes : \A i \in 1..m - 1 : KeyOf(i, phase) # KeyOf(m, phase)}
           alike == {m \in Nodes : KeyOf(m, phase) = KeyOf(n, phase)}
           mine == {k \in Kernels(phase) : k.key = KeyOf(n, phase)}
<1>1. Kernels(phase) = {KernelOf(m, phase) : m \in firsts}
  BY DEF Kernels, KernelOf, KeyOf
<1>2. Nodes = 1..Len(model.nodes) /\ Len(model.nodes) \in Nat
  BY GivenFacts
<1>3. PICK f \in alike : \A m \in alike : f <= m
  <2>1. alike \in SUBSET Nat /\ alike # {}
    BY <1>2
  <2> HIDE DEF alike
  <2> QED
    BY <2>1, LeastOf
<1>4. f \in firsts
  <2>1. ASSUME NEW i \in 1..f - 1 PROVE KeyOf(i, phase) # KeyOf(f, phase)
    <3>1. i \in Nodes /\ i < f
      BY <1>2
    <3>2. i \notin alike
      BY <1>2, <1>3, <3>1
    <3> QED
      BY <3>1, <3>2
  <2> QED
    BY <2>1
<1>5. \A m \in firsts : KeyOf(m, phase) = KeyOf(n, phase) => m = f
  <2> TAKE m \in firsts
  <2> HAVE KeyOf(m, phase) = KeyOf(n, phase)
  <2>1. m \in alike /\ f <= m
    BY <1>3
  <2>2. f \in 1..m - 1 => KeyOf(f, phase) # KeyOf(m, phase)
    OBVIOUS
  <2>3. ~(f \in 1..m - 1)
    BY <2>2
  <2>4. m \in Nat /\ f \in Nat /\ f >= 1
    BY <1>2
  <2> QED
    BY <2>1, <2>3, <2>4
<1> DEFINE k == KernelOf(f, phase)
<1>6. k.key = KeyOf(n, phase)
  BY DEF KernelOf
<1>7. mine = {k}
  <2>1. k \in mine
    BY <1>1, <1>4, <1>6
  <2>2. ASSUME NEW j \in mine PROVE j = k
    <3>1. PICK m \in firsts : j = KernelOf(m, phase)
      BY <1>1
    <3>2. KeyOf(m, phase) = KeyOf(n, phase)
      BY <3>1 DEF KernelOf
    <3> QED
      BY <1>5, <3>1, <3>2
  <2> HIDE DEF mine, k
  <2> QED
    BY <2>1, <2>2
<1>8. k.backend = BackendOf(n, phase)[1]
  <2>1. paths[phase][f] = paths[phase][n] /\ Node(f).op = Node(n).op
    BY DEF KeyOf
  <2>2. k.backend = BackendOf(f, phase)[1]
    BY DEF KernelOf
  <2> QED
    BY <2>1, <2>2 DEF BackendOf
<1>9. Cardinality(k.candidates) \in 1..8
  BY CandidatesFew DEF KernelOf
<1> HIDE DEF k
<1>10. Cardinality(mine) = 1
  BY <1>7, FS_Singleton
<1>11. mine = {j \in Kernels(phase) : j.key = <<paths[phase][n], Node(n).op, precision[n]>>}
  BY DEF KeyOf
<1> HIDE DEF mine
<1> QED
  BY <1>7, <1>8, <1>9, <1>10, <1>11

\* What PackageRight says of a package.
Packaged(p) ==
  LET tiers == p.tiers
      room == Capacity(p.dominant)
  IN  /\ tiers.hot + tiers.warm + tiers.cold = planned
      /\ tiers.hot <= room /\ tiers.cold >= 0
      /\ tiers.warm > 0 => tiers.hot + tiers.warm + ask.kv <= ask.budget
      /\ tiers.cold > 0 /\ "memory" \notin p.warnings =>
           planned > room /\ planned + ask.kv > ask.budget
Covered(regions, phase) ==
  /\ regions[1].first = 1 /\ Last(regions).last = Len(model.nodes)
  /\ \A i \in DOMAIN regions \ {1} :
       /\ regions[i].first = regions[i - 1].last + 1
       /\ \/ regions[i].device # regions[i - 1].device
          \/ regions[i].backend # regions[i - 1].backend
  /\ \A i \in DOMAIN regions : \A n \in regions[i].first..regions[i].last :
       paths[phase][n] = regions[i].device
Lowered(kernels, phase) ==
  \A n \in Nodes :
    LET mine == {k \in kernels : k.key = <<paths[phase][n], Node(n).op, precision[n]>>}
    IN  Cardinality(mine) = 1 /\ \A k \in mine :
          k.backend = BackendOf(n, phase)[1] /\ Cardinality(k.candidates) \in 1..8
Warned(p) ==
  /\ p.executable =>
       /\ "conversion" \notin p.warnings
       /\ \A n \in Nodes, q \in Phases :
            Node(n).op \in HostOps => machine[paths[q][n]].kind = "cpu"
  /\ "quality" \in p.warnings => ask.limit < 0

PackageFine(p) ==
  /\ Packaged(p)
  /\ \A q \in Phases : Covered(p.regions[q], q) /\ Lowered(p.kernels[q], q)
  /\ Warned(p)

\* The end of compile makes such a package.
LEMMA PackageMade ==
  ASSUME PathInv, PlanTypes, Given, Package
  PROVE  PackageFine(package')
<1>1. PICK d \in Range(paths.decode) :
        package' = [dominant |-> d,
                    tiers |-> MemoryTiers(planned, ask.budget, Capacity(d), ask.kv),
                    regions |-> [p \in Phases |-> Regions(p)],
                    kernels |-> [p \in Phases |-> Kernels(p)],
                    warnings |-> Warnings,
                    executable |-> Runs]
  BY DEF Package
<1>2. \A q \in Phases : paths[q] \in [Nodes -> Units]
  <2>1. Optimal(paths.prefill, "prefill") /\ Optimal(paths.decode, "decode")
    BY DEF Package, PathInv
  <2> QED
    BY <2>1 DEF Optimal, Placements, Phases
<1>3. d \in Units /\ Capacity(d) \in Nat
  <2>1. d \in Units
    BY <1>2 DEF Range, Phases
  <2>2. machine[d].memory \in Nat
    BY <2>1, GivenFacts
  <2> DEFINE m == machine[d].memory
  <2>3. Capacity(d) = (m * 80) \div 100
    BY DEF Capacity
  <2> HIDE DEF m
  <2>4. (m * 80) \div 100 \in Nat
    BY <2>2 DEF m
  <2> QED
    BY <2>1, <2>3, <2>4
<1>4. /\ planned \in Nat /\ loss \in Nat /\ loss <= LossLimit
      /\ ask.budget \in Int /\ ask.budget > 0 /\ ask.kv \in Nat /\ ask.limit \in Int
  BY GivenFacts DEF PlanTypes, Acceptable
<1>5. Packaged(package')
  <2> DEFINE room == Capacity(d)
             tiers == MemoryTiers(planned, ask.budget, room, ask.kv)
  <2>1. /\ package'.tiers = tiers /\ package'.dominant = d /\ package'.warnings = Warnings
    BY <1>1
  <2>2. "memory" \notin Warnings => planned <= ask.budget
    BY <1>4 DEF Warnings
  <2>3. /\ tiers.hot + tiers.warm + tiers.cold = planned
        /\ tiers.hot <= room /\ tiers.cold >= 0
        /\ tiers.warm > 0 => tiers.hot + tiers.warm + ask.kv <= ask.budget
        /\ tiers.cold > 0 /\ planned <= ask.budget => planned > room /\ planned + ask.kv > ask.budget
    BY <1>3, <1>4, TierFacts
  <2> HIDE DEF tiers, room
  <2> QED
    BY <2>1, <2>2, <2>3 DEF Packaged, room
<1>6. ASSUME NEW q \in Phases PROVE Covered(package'.regions[q], q)
  <2> DEFINE R == Regions(q)
  <2>1. package'.regions[q] = R
    BY <1>1
  <2>2. Covers(R, Len(model.nodes), q)
    BY <1>2, RegionsRight
  <2>3. Len(model.nodes) > 0
    BY GivenFacts DEF PlanTypes, Acceptable
  <2> HIDE DEF R
  <2> QED
    BY <2>1, <2>2, <2>3 DEF Covers, Covered, Last
<1>7. ASSUME NEW q \in Phases PROVE Lowered(package'.kernels[q], q)
  <2>1. package'.kernels[q] = Kernels(q)
    BY <1>1
  <2>2. Lowered(Kernels(q), q)
    BY KernelsRight DEF Lowered
  <2> QED
    BY <2>1, <2>2
<1>8. Warned(package')
  <2>1. package'.executable = Runs /\ package'.warnings = Warnings
    BY <1>1
  <2>2. Runs => "conversion" \notin Warnings
    BY DEF Runs, Warnings
  <2>3. ASSUME Runs, NEW n \in Nodes, NEW q \in Phases, Node(n).op \in HostOps
        PROVE  machine[paths[q][n]].kind = "cpu"
    <3>1. BackendOf(n, q)[2]
      BY <2>3 DEF Runs
    <3> DEFINE m == machine[paths[q][n]]
               op == Node(n).op
    <3>2. op \in HostOps /\ Backend(model.format, m, op)[2]
      BY <2>3, <3>1 DEF BackendOf
    <3> HIDE DEF m, op
    <3>3. Backend(model.format, m, op) = <<"host-cpu", m.kind = "cpu">>
      BY <3>2, Zenon DEF Backend
    <3>4. m.kind = "cpu"
      <4> DEFINE cpu == m.kind = "cpu"
      <4>1. cpu \in BOOLEAN
        OBVIOUS
      <4>2. Backend(model.format, m, op) = <<"host-cpu", cpu>>
        BY <3>3
      <4> HIDE DEF cpu
      <4>3. Backend(model.format, m, op)[2] = cpu
        BY <4>2
      <4>4. cpu
        BY <3>2, <4>3
      <4> QED
        BY <4>4 DEF cpu
    <3> QED
      BY <3>4 DEF m
  <2>4. "quality" \in Warnings => ask.limit < 0
    <3>1. "quality" \in Warnings => loss > ask.limit
      BY DEF Warnings
    <3>2. LossLimit \in Nat /\ (ask.limit >= 0 => LossLimit <= ask.limit)
      BY <1>5, LimitFacts
    <3> QED
      BY <1>4, <3>1, <3>2
  <2> QED
    BY <2>1, <2>2, <2>3, <2>4 DEF Warned
<1> QED
  BY <1>5, <1>6, <1>7, <1>8 DEF PackageFine

\* What compile returns describes the plan it made: the memory tiers, regions,
\* kernels and warnings are those of its placements and precisions, for every
\* graph, machine and request.
THEOREM PackagesAlwaysRight == CompilerSpec => []PackageRight
<1> DEFINE Inv == stage = "done" => PackageFine(package)
<1>1. CompilerInit => Inv
  BY DEF CompilerInit
<1>2. ASSUME Inv, PlanInv, PathInv, [CompilerNext]_compilerVars
      PROVE  Inv'
  <2> SUFFICES ASSUME stage' = "done" PROVE PackageFine(package)'
    OBVIOUS
  <2>1. ASSUME inputs' = inputs, precision' = precision, planned' = planned, paths' = paths,
               PackageFine(package')
        PROVE  PackageFine(package)'
    <3>1. /\ Nodes' = Nodes /\ model' = model /\ machine' = machine /\ ask' = ask
          /\ \A n : Node(n)' = Node(n)
      BY <2>1, GivenKept DEF inputs
    <3>2. \A d : Capacity(d)' = Capacity(d)
      BY <3>1 DEF Capacity
    <3>3. \A n, q : BackendOf(n, q)' = BackendOf(n, q)
      BY <2>1, <3>1 DEF BackendOf
    <3>4. Packaged(package)'
      <4>1. Capacity(package.dominant)' = Capacity(package'.dominant)
        BY <3>2
      <4>2. Packaged(package')
        BY <2>1 DEF PackageFine
      <4> QED
        BY <2>1, <3>1, <4>1, <4>2 DEF Packaged
    <3>5. ASSUME NEW q \in Phases
          PROVE  Covered(package.regions[q], q)' /\ Lowered(package.kernels[q], q)'
      <4>1. Covered(package'.regions[q], q) /\ Lowered(package'.kernels[q], q)
        BY <2>1 DEF PackageFine
      <4>2. Covered(package.regions[q], q)'
        BY <2>1, <3>1, <4>1 DEF Covered
      <4>3. Lowered(package.kernels[q], q)'
        BY <2>1, <3>1, <3>3, <4>1 DEF Lowered
      <4> QED
        BY <4>2, <4>3
    <3>6. Warned(package)'
      <4>1. Warned(package')
        BY <2>1 DEF PackageFine
      <4> QED
        BY <2>1, <3>1, <4>1 DEF Warned
    <3> QED
      BY <3>4, <3>5, <3>6 DEF PackageFine
  <2>2. CASE Package
    <3>1. /\ inputs' = inputs /\ precision' = precision /\ planned' = planned /\ paths' = paths
          /\ stage = "package"
      BY <2>2 DEF Package, plan
    <3>2. Given /\ PlanTypes
      BY <1>2, <3>1 DEF PlanInv
    <3>3. PackageFine(package')
      BY <1>2, <2>2, <3>2, PackageMade
    <3> QED
      BY <2>1, <3>1, <3>3
  <2>3. CASE UNCHANGED compilerVars
    <3>1. /\ inputs' = inputs /\ precision' = precision /\ planned' = planned /\ paths' = paths
          /\ stage' = stage /\ package' = package
      BY <2>3 DEF compilerVars, plan
    <3>2. PackageFine(package')
      BY <1>2, <3>1
    <3> QED
      BY <2>1, <3>1, <3>2
  <2>4. CASE Reject \/ Begin \/ Lower \/ PrecisionDone
    BY <2>4 DEF Reject, Begin, Lower, PrecisionDone
  <2>5. CASE Place
    BY <2>5 DEF Place, Phases
  <2>6. CASE Backtrace
    BY <2>6 DEF Backtrace
  <2> QED
    BY <1>2, <2>2, <2>3, <2>4, <2>5, <2>6 DEF CompilerNext
<1>3. Inv => PackageRight
  <2> SUFFICES ASSUME PackageFine(package), stage = "done" PROVE PackageRight
    BY DEF PackageRight
  <2> QED
    BY DEF PackageFine, Packaged, Covered, Lowered, Warned, PackageRight
<1> HIDE DEF Inv
<1> QED
  BY <1>1, <1>2, <1>3, PlanInvariance, PathInvariance, PTL DEF CompilerSpec
=============================================================================
