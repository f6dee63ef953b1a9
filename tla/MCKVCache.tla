------------------------------ MODULE MCKVCache ------------------------------
(***************************************************************************)
(* The instances of KVCache that TLC checks.                               *)
(***************************************************************************)
EXTENDS KVCache

\* Two sessions that overlap, one token past a full block, need at most four
\* blocks; a stale index entry keeps no id.  One to spare: were there too
\* few, an allocation would wait for ever and TLC report a deadlock.
MCBlocks == 1..5

\* The importances between which evict must tell: the least and the default.
MCPriorities == {0, 50}
=============================================================================
