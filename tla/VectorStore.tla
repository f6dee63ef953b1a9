------------------------------ MODULE VectorStore ------------------------------
(***************************************************************************)
(* What a vector store promises to a RAG pipeline: the protocol            *)
(* VectorStore of kernelloom/rag.py, as InMemoryVectorStore keeps it.      *)
(* Every operation takes effect in one step, an operation that raises      *)
(* changes nothing, and a search answers with the best of what is stored.  *)
(***************************************************************************)
EXTENDS VectorTypes

VARIABLES
  records,  \* records[ns][id]: the version stored, or None
  closed,
  reply     \* the last answer

vars == <<records, closed, reply>>

Init ==
  /\ records = [ns \in Namespaces |-> Empty]
  /\ closed = FALSE
  /\ reply = None

\* Rows in order, so that the last of one id wins.
Written(rows, batch) ==
  [i \in Documents |-> IF i \in Named(batch) THEN Latest(batch, i) ELSE rows[i]]

Upsert(ns, batch) ==
  /\ reply' = <<"count", Len(batch)>>
  /\ records' = [records EXCEPT ![ns] = Written(@, batch)]
  /\ UNCHANGED closed

Delete(ns, ids) ==
  /\ reply' = <<"count", Cardinality(Stored(records[ns]) \cap ids)>>
  /\ records' = [records EXCEPT ![ns] = [i \in Documents |-> IF i \in ids THEN None ELSE @[i]]]
  /\ UNCHANGED closed

\* A write that is refused.
WriteRaises == reply' = <<"raised">> /\ UNCHANGED <<records, closed>>

\* Embeddings of two widths cannot be compared.
Comparable(ns, width) == \A i \in Stored(records[ns]) : records[ns][i].width = width

Search(ns, filters, limit, width) ==
  /\ \/ ~Comparable(ns, width) /\ reply' = <<"raised">>
     \/ LET found == {i \in Stored(records[ns]) : Passes(records[ns][i], filters)}
        IN  /\ \A i \in found : records[ns][i].width = width
            /\ \E top \in Best(Pairs(records[ns], found), limit) : reply' = <<"found", top>>
  /\ UNCHANGED <<records, closed>>

Count(ns) ==
  /\ reply' = <<"count", Cardinality(Stored(records[ns]))>>
  /\ UNCHANGED <<records, closed>>

\* A store that is closed, or opened again, keeps its records or drops them
\* all; while closed it may refuse to read.
Close ==
  /\ closed' \in BOOLEAN
  /\ records' \in {records, [ns \in Namespaces |-> Empty]}
  /\ reply' = None

ReadRaises == closed /\ reply' = <<"raised">> /\ UNCHANGED <<records, closed>>

Next ==
  \/ \E ns \in Namespaces :
       \/ \E batch \in Batches : Upsert(ns, batch)
       \/ \E ids \in SUBSET Documents : Delete(ns, ids)
       \/ \E filters \in Filters, limit \in 1..2, width \in Widths :
            Search(ns, filters, limit, width)
       \/ Count(ns)
  \/ WriteRaises \/ Close \/ ReadRaises

Spec == Init /\ [][Next]_vars
=============================================================================
