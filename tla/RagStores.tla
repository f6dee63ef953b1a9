------------------------------- MODULE RagStores -------------------------------
(***************************************************************************)
(* The stores that a collection may hold beside InMemoryVectorStore, over  *)
(* FAISS (kernelloom/faiss_store.py) and over an SQLite file               *)
(* (kernelloom/rag.py), side by side.  Neither touches what the other      *)
(* keeps, so that it is enough to follow one: part tells which.            *)
(***************************************************************************)
EXTENDS FaissStore

CONSTANTS Stores, MaxWrites  \* of SqliteStore

VARIABLES part, documents, txn, shut, answer, writes

Sqlite == INSTANCE SqliteStore WITH table <- documents, reply <- answer

sqliteVars == <<documents, txn, shut, answer, writes>>

StoresInit == FaissInit /\ Sqlite!Init

StoresNext ==
  \/ part = "faiss" /\ FaissNext /\ UNCHANGED <<part, sqliteVars>>
  \/ part = "sqlite" /\ Sqlite!Next /\ UNCHANGED <<part, faissVars>>

StoresSpec == StoresInit /\ [][StoresNext]_<<part, faissVars, sqliteVars>>

-----------------------------------------------------------------------------
\* Both stores keep the promises of VectorStore, whatever operations overlap
\* and, for SQLite, whichever transactions fail or die: a write is all or
\* nothing, a search answers with the best of what is stored then, filtered
\* or not (faiss_store.py; rag.py, SQLiteVectorStore).
\* That is FaissImplements and Sqlite!SqliteImplements: a store changes
\* only in its own part.
StoresImplement ==
  /\ Contract!Init /\ Sqlite!Contract!Init
  /\ [][part = "faiss" => Contract!Next]_(Contract!vars)
  /\ [][part = "sqlite" => Sqlite!Contract!Next]_(Sqlite!Contract!vars)
=============================================================================
