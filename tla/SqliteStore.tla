------------------------------ MODULE SqliteStore ------------------------------
(***************************************************************************)
(* SQLiteVectorStore (kernelloom/rag.py): stores of one process over one   *)
(* file, each with a connection and a lock.  An upsert writes its rows one *)
(* by one in a transaction; SQLite lets one connection write at a time and *)
(* shows the others what is committed.  A write may fail at any row, and   *)
(* the process may end at any step.                                        *)
(***************************************************************************)
EXTENDS VectorTypes

CONSTANTS
  Stores,    \* SQLiteVectorStore objects over the file
  MaxWrites  \* bound: transactions begun

VARIABLES
  table,   \* rag_vectors, as committed: table[ns][id]
  txn,     \* the transaction under way, or None
  shut,    \* stores whose connection is closed
  reply,
  writes

vars == <<table, txn, shut, reply, writes>>

Init ==
  /\ table = [ns \in Namespaces |-> Empty]
  /\ txn = None
  /\ shut = {}
  /\ reply = None
  /\ writes = 0

Open(s) == s \notin shut
Locked(s) == txn # None /\ txn.store = s
Raised == reply' = <<"raised">>

\* The first row's INSERT begins the transaction.
UpsertBegin(s, ns, batch) ==
  /\ Open(s) /\ txn = None /\ writes < MaxWrites
  /\ writes' = writes + 1
  /\ txn' = [store |-> s, ns |-> ns, todo |-> batch, rows |-> table[ns], size |-> Len(batch)]
  /\ UNCHANGED <<table, shut, reply>>

\* ON CONFLICT DO UPDATE: a row of the same id is replaced.
UpsertRow ==
  /\ txn # None /\ txn.todo # <<>>
  /\ LET row == Head(txn.todo)
     IN  txn' = [txn EXCEPT !.todo = Tail(@), !.rows = [@ EXCEPT ![row[1]] = row[2]]]
  /\ UNCHANGED <<table, shut, reply, writes>>

\* `with self._connection' rolls back when a row fails ...
UpsertFails ==
  /\ txn # None
  /\ txn' = None
  /\ Raised
  /\ UNCHANGED <<table, shut, writes>>

\* ... and commits otherwise.
UpsertCommit ==
  /\ txn # None /\ txn.todo = <<>>
  /\ table' = [table EXCEPT ![txn.ns] = txn.rows]
  /\ reply' = <<"count", txn.size>>
  /\ txn' = None
  /\ UNCHANGED <<shut, writes>>

\* delete is one statement, of the namespace or of the ids in it.
Delete(s, ns, ids) ==
  /\ Open(s) /\ txn = None
  /\ table' = [table EXCEPT ![ns] = [i \in Documents |-> IF i \in ids THEN None ELSE @[i]]]
  /\ reply' = <<"count", Cardinality(Stored(table[ns]) \cap ids)>>
  /\ UNCHANGED <<txn, shut, writes>>

\* The file is locked by the other store's transaction for too long, or the
\* connection is closed.
WriteRefused(s) ==
  /\ ~Open(s) \/ (txn # None /\ ~Locked(s))
  /\ Raised
  /\ UNCHANGED <<table, txn, shut, writes>>

\* search reads the rows under the lock; only rows that match the filters are
\* compared with the query.
Search(s, ns, filters, limit, width) ==
  /\ ~Locked(s)
  /\ LET found == {i \in Stored(table[ns]) : Passes(table[ns][i], filters)}
     IN  IF ~Open(s) \/ \E i \in found : table[ns][i].width # width THEN Raised
         ELSE \E top \in Best(Pairs(table[ns], found), limit) : reply' = <<"found", top>>
  /\ UNCHANGED <<table, txn, shut, writes>>

Count(s, ns) ==
  /\ Open(s) /\ ~Locked(s)
  /\ reply' = <<"count", Cardinality(Stored(table[ns]))>>
  /\ UNCHANGED <<table, txn, shut, writes>>

Close(s) ==
  /\ Open(s) /\ ~Locked(s)
  /\ shut' = shut \cup {s}
  /\ reply' = None
  /\ UNCHANGED <<table, txn, writes>>

\* The process ends; its successor opens the file.
Restart ==
  /\ txn' = None /\ shut' = {} /\ reply' = None
  /\ UNCHANGED <<table, writes>>

Next ==
  \/ \E s \in Stores :
       \/ \E ns \in Namespaces :
            \/ \E batch \in Batches : UpsertBegin(s, ns, batch)
            \/ \E ids \in SUBSET Documents : Delete(s, ns, ids)
            \/ \E filters \in Filters, limit \in 1..2, width \in Widths :
                 Search(s, ns, filters, limit, width)
            \/ Count(s, ns)
       \/ WriteRefused(s) \/ Close(s)
  \/ UpsertRow \/ UpsertFails \/ UpsertCommit \/ Restart

Spec == Init /\ [][Next]_vars

-----------------------------------------------------------------------------
Contract == INSTANCE VectorStore WITH records <- table, closed <- shut # {}

\* The SQLite store keeps the promises of VectorStore.
SqliteImplements == Contract!Spec
=============================================================================
