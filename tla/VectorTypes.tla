------------------------------ MODULE VectorTypes ------------------------------
(***************************************************************************)
(* What the vector stores of kernelloom/rag.py and kernelloom/faiss_store  *)
(* are given: documents with an id and an embedding.                       *)
(*                                                                         *)
(* Abstractions.  A version is what a document and its embedding amount to *)
(* in a search: its score against the one query that is asked, the one     *)
(* metadata value that filters look at (a JSON value, which SQLite stores  *)
(* unchanged) and the width of the embedding.                              *)
(***************************************************************************)
EXTENDS Integers, Sequences, FiniteSets, SequencesExt, FiniteSetsExt

CONSTANTS
  Namespaces,
  Documents,  \* document ids
  Versions,   \* records [score, tag, width]
  MaxBatch,   \* bound: records of an upsert
  None

ASSUME VectorAssumption ==
  /\ \A v \in Versions : v.score \in Int /\ v.width \in Nat \ {0}
  /\ None \notin Documents \cup Versions
  /\ MaxBatch \in Nat

Tags == {v.tag : v \in Versions}
Widths == {v.width : v \in Versions}
Empty == [i \in Documents |-> None]

\* _validate_records: all embeddings of a batch have one width.
Batches ==
  {b \in SeqOf(Documents \X Versions, MaxBatch) \ {<<>>} :
     \A i, j \in DOMAIN b : b[i][2].width = b[j][2].width}
Width(batch) == batch[1][2].width
Named(batch) == {batch[i][1] : i \in DOMAIN batch}

\* Where a batch has a document, and the version that occurs last.
Occurrences(batch, i) == {k \in DOMAIN batch : batch[k][1] = i}
Latest(batch, i) == batch[Max(Occurrences(batch, i))][2]

\* _matches: filters may be absent.
Filters == Tags \cup {None}
Passes(version, filters) == filters = None \/ version.tag = filters

\* The sets of k members of S, or all of S, that no other member outscores;
\* a member is a tuple that ends with a version.
Score(member) == member[Len(member)].score
Best(S, k) ==
  {top \in kSubset(IF k < Cardinality(S) THEN k ELSE Cardinality(S), S) :
     \A member \in top, other \in S \ top : Score(member) >= Score(other)}

Stored(rows) == {i \in Documents : rows[i] # None}
Pairs(rows, ids) == {<<i, rows[i]>> : i \in ids}
=============================================================================
