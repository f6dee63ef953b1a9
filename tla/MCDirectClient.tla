--------------------------- MODULE MCDirectClient ---------------------------
(***************************************************************************)
(* The instances of DirectClient that TLC checks.                          *)
(***************************************************************************)
EXTENDS DirectClient
=============================================================================
