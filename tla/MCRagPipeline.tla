--------------------------- MODULE MCRagPipeline ---------------------------
(***************************************************************************)
(* The instance of RagPipeline that TLC checks.                            *)
(***************************************************************************)
EXTENDS RagPipeline, TLC

CONSTANTS a, b, a1, a2, b1

MCHome == a1 :> a @@ a2 :> a @@ b1 :> b

Symmetry == Permutations(Threads) \cup Permutations(Queries) \cup Permutations({a1, a2})
=============================================================================
