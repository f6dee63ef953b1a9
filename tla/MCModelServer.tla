--------------------------- MODULE MCModelServer ---------------------------
(***************************************************************************)
(* The instances of ModelServer that TLC checks.                           *)
(***************************************************************************)
EXTENDS ModelServer
=============================================================================
