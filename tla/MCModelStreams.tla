---------------------------- MODULE MCModelStreams ----------------------------
(***************************************************************************)
(* The instance of ModelStreams that TLC checks: two streams and one call, *)
(* or no stream and calls enough to fill, evict and reload.                *)
(***************************************************************************)
EXTENDS ModelStreams

MCSettings ==
  {[backend |-> b, warmup |-> w, embedding |-> e, width |-> 1, streams |-> Streams,
    calls |-> 1, texts |-> {CHOOSE any \in Texts : TRUE}] :
     b \in {"openvino"}, w \in BOOLEAN, e \in {FALSE}}
  \cup
  {[backend |-> b, warmup |-> w, embedding |-> e, width |-> n, streams |-> {},
    calls |-> 5, texts |-> Texts] :
     b \in {"llama-cpp", "openvino"}, w \in BOOLEAN, e \in BOOLEAN, n \in {1, 3}}
=============================================================================
