------------------------------- MODULE FaissStore -------------------------------
(***************************************************************************)
(* FaissVectorStore (kernelloom/faiss_store.py).  A namespace is a FAISS   *)
(* index of numbered vectors and two tables between documents and numbers. *)
(* An operation looks at _closed, prepares its arguments and only then     *)
(* takes the lock, under which it runs in one step.                        *)
(*                                                                         *)
(* Abstractions.  FAISS itself does not fail.  IndexIDMap2 is the set of   *)
(* its entries; numbers grow, so that no two have one number.              *)
(***************************************************************************)
EXTENDS VectorTypes

CONSTANTS
  Threads,
  MaxCalls   \* bound: operations begun

VARIABLES
  spaces,   \* _namespaces: spaces[ns] is None or
            \* [width, index, byDocument, byNumber, next]
  closed,
  entered,  \* threads between _ensure_open and the lock
  reply,
  begun

faissVars == <<spaces, closed, entered, reply, begun>>

\* _NamespaceIndex.
Spaces ==
  [width : Widths, index : SUBSET (Nat \X Versions), byDocument : [Documents -> Nat],
   byNumber : SUBSET (Nat \X Documents \X Versions), next : Nat \ {0}]

ASSUME FaissAssumption == None \notin Spaces

\* _new_namespace.
Fresh(width) ==
  [width |-> width, index |-> {}, byDocument |-> [i \in Documents |-> 0], byNumber |-> {}, next |-> 1]

FaissInit ==
  /\ spaces = [ns \in Namespaces |-> None]
  /\ closed = FALSE
  /\ entered = {}
  /\ reply = None
  /\ begun = 0

-----------------------------------------------------------------------------
\* _ensure_open, before the lock.
Enter(t) ==
  /\ t \notin entered /\ begun < MaxCalls
  /\ begun' = begun + 1
  /\ IF closed THEN reply' = <<"raised">> /\ UNCHANGED entered
     ELSE entered' = entered \cup {t} /\ UNCHANGED reply
  /\ UNCHANGED <<spaces, closed>>

Leave(t) ==
  /\ t \in entered
  /\ entered' = entered \ {t}
  /\ UNCHANGED <<closed, begun>>

\* The place of a document among those of a batch in the order in which they
\* first occur.
Place(batch, i) ==
  Cardinality({j \in Named(batch) : Min(Occurrences(batch, j)) <= Min(Occurrences(batch, i))})

\* Faulty variant: the entries of replaced documents stay in the index.
WithoutTables(space, ids) ==
  LET numbers == {space.byDocument[i] : i \in ids}
  IN  [space EXCEPT !.byNumber = {row \in @ : row[1] \notin numbers},
                    !.byDocument = [i \in Documents |-> IF i \in ids THEN 0 ELSE @[i]]]

\* remove_ids, and the numbers' rows in both tables.
Without(space, ids) ==
  LET numbers == {space.byDocument[i] : i \in ids}
  IN  [space EXCEPT !.index = {entry \in @ : entry[1] \notin numbers},
                    !.byNumber = {row \in @ : row[1] \notin numbers},
                    !.byDocument = [i \in Documents |-> IF i \in ids THEN 0 ELSE @[i]]]

Upsert(t, ns, batch) ==
  /\ Leave(t)
  /\ LET space == IF spaces[ns] = None THEN Fresh(Width(batch)) ELSE spaces[ns]
         rest == Without(space, Named(batch))
         number == [i \in Named(batch) |-> space.next + Place(batch, i) - 1]
         version == [i \in Named(batch) |-> Latest(batch, i)]
     IN  IF space.width # Width(batch) THEN reply' = <<"raised">> /\ UNCHANGED spaces
         ELSE /\ spaces' = [spaces EXCEPT ![ns] =
                   [rest EXCEPT
                      !.index = @ \cup {<<number[i], version[i]>> : i \in Named(batch)},
                      !.byNumber = @ \cup {<<number[i], i, version[i]>> : i \in Named(batch)},
                      !.byDocument = [i \in Documents |-> IF i \in Named(batch) THEN number[i]
                                                          ELSE @[i]],
                      !.next = @ + Cardinality(Named(batch))]]
              /\ reply' = <<"count", Len(batch)>>

\* delete without ids drops the namespace; the last document takes it along.
DeleteIds(t, ns, ids) ==
  /\ Leave(t)
  /\ IF spaces[ns] = None THEN reply' = <<"count", 0>> /\ UNCHANGED spaces
     ELSE LET selected == {i \in ids : spaces[ns].byDocument[i] # 0}
              rest == Without(spaces[ns], selected)
          IN  /\ spaces' = [spaces EXCEPT ![ns] = IF rest.byNumber = {} THEN None ELSE rest]
              /\ reply' = <<"count", Cardinality(selected)>>

\* Faulty variant: filters are applied to the best entries only.
CandidatesFew(space, filters, limit) ==
  IF limit < Cardinality(space.byNumber) THEN limit ELSE Cardinality(space.byNumber)

\* Filters are applied to what FAISS returns, so all entries are asked for.
Candidates(space, filters, limit) ==
  IF filters # None \/ limit > Cardinality(space.byNumber) THEN Cardinality(space.byNumber)
  ELSE limit

\* An entry without a row is skipped, and the first limit matches are kept.
Search(t, ns, filters, limit, width) ==
  /\ Leave(t)
  /\ UNCHANGED spaces
  /\ IF spaces[ns] = None THEN reply' = <<"found", {}>>
     ELSE LET space == spaces[ns]
          IN  IF space.width # width THEN reply' = <<"raised">>
              ELSE \E hits \in Best(space.index, Candidates(space, filters, limit)) :
                     LET found == {row \in space.byNumber :
                                     /\ \E entry \in hits : entry[1] = row[1]
                                     /\ Passes(row[3], filters)}
                     IN  \E top \in Best({<<row[2], row[3]>> : row \in found}, limit) :
                           reply' = <<"found", top>>

\* count; warmup of the namespace answers the same and changes nothing.
Count(t, ns) ==
  /\ Leave(t)
  /\ UNCHANGED spaces
  /\ reply' = <<"count", IF spaces[ns] = None THEN 0 ELSE Cardinality(spaces[ns].byNumber)>>

Close ==
  /\ spaces' = [ns \in Namespaces |-> None]
  /\ closed' = TRUE
  /\ reply' = None
  /\ UNCHANGED <<entered, begun>>

FaissNext ==
  \/ \E t \in Threads :
       \/ Enter(t)
       \/ \E ns \in Namespaces :
            \/ \E batch \in Batches : Upsert(t, ns, batch)
            \/ \E ids \in SUBSET Documents : DeleteIds(t, ns, ids)
            \/ \E filters \in Filters, limit \in 1..2, width \in Widths :
                 Search(t, ns, filters, limit, width)
            \/ Count(t, ns)
  \/ Close

FaissSpec == FaissInit /\ [][FaissNext]_faissVars

-----------------------------------------------------------------------------
\* The index and the two tables of a namespace tell the same story after any
\* upserts, replacements and deletions: one number per document, one entry
\* and one row per number, all of the namespace's width; and a namespace that
\* has lost its last document is gone, its width with it (upsert, delete).
IndexExact ==
  \A ns \in Namespaces : spaces[ns] # None =>
    LET space == spaces[ns]
    IN  /\ space.byNumber # {}
        /\ space.index = {<<row[1], row[3]>> : row \in space.byNumber}
        /\ \A row, other \in space.byNumber : row[1] = other[1] => row = other
        /\ \A row \in space.byNumber :
             /\ row[1] \in 1..(space.next - 1)
             /\ row[3].width = space.width
             /\ space.byDocument[row[2]] = row[1]
        /\ \A i \in Documents : space.byDocument[i] # 0 =>
             \E row \in space.byNumber : row[1] = space.byDocument[i] /\ row[2] = i

\* What a namespace holds: the version in the row of a document's number.
Contents(space) ==
  [i \in Documents |->
     IF space = None \/ space.byDocument[i] = 0 THEN None
     ELSE (CHOOSE row \in space.byNumber : row[1] = space.byDocument[i])[3]]
Held == [ns \in Namespaces |-> Contents(spaces[ns])]

Contract == INSTANCE VectorStore WITH records <- Held

\* The FAISS store keeps the promises of VectorStore.
FaissImplements == Contract!Spec
=============================================================================
