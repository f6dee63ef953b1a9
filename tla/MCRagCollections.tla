-------------------------- MODULE MCRagCollections --------------------------
(***************************************************************************)
(* The instances of RagCollections, and of the stores the collections      *)
(* hold, RagStores, that TLC checks: two embedding configurations with one *)
(* signature (they differ in their context), one with another, and one     *)
(* generator.  What a store keeps is not the registry's concern: part      *)
(* tells which of the three moves.                                         *)
(***************************************************************************)
EXTENDS RagCollections, RagStores, TLC

CONSTANTS
  e1, e1b, e2, g, s1, s2, s3, plain, report

MCSignature == e1 :> s1 @@ e1b :> s1 @@ e2 :> s2 @@ g :> s3

MCVersions ==
  {[score |-> 1, tag |-> plain, width |-> 1], [score |-> 2, tag |-> report, width |-> 1],
   [score |-> 2, tag |-> plain, width |-> 2]}

Symmetry == Permutations(Requests)

MCInit ==
  /\ part \in {"registry", "faiss", "sqlite"}
  /\ Init /\ StoresInit
  /\ part # "registry" => table = [m \in Models |-> Nobody]

MCNext ==
  \/ part = "registry" /\ Next /\ UNCHANGED <<part, faissVars, sqliteVars>>
  \/ StoresNext /\ UNCHANGED vars

MCSpec == MCInit /\ [][MCNext]_<<part, vars, faissVars, sqliteVars>>
=============================================================================
