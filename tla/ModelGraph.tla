------------------------------ MODULE ModelGraph ------------------------------
(***************************************************************************)
(* The operator graphs of openagent_engine/ir.py: the transformer graph    *)
(* that build_transformer_graph makes from a model's metadata, and its     *)
(* lowering to tensor operations.                                          *)
(*                                                                         *)
(* Abstractions.  Names and attributes are left out.  Sizes, operations    *)
(* and activations are integers in units the instance chooses, so the      *)
(* floors of 4096 bytes are gone; a precision is its number of bits; a     *)
(* sensitivity is in hundredths.                                           *)
(***************************************************************************)
EXTENDS Integers, Sequences, SequencesExt

AtLeast(n, bound) == IF n < bound THEN bound ELSE n

Node(op, size, work, activation, sensitivity, precisions) ==
  [op |-> op, size |-> size, work |-> AtLeast(work, 1), activation |-> activation,
   sensitivity |-> sensitivity, precisions |-> precisions]

\* The four nodes of a block; the first and the last block are more sensitive.
BlockNodes(shape, size, edge) ==
  LET act == shape.activation
      parameters == AtLeast((shape.parameters * 95) \div (100 * shape.blocks), 1)
  IN  << Node("rms_norm", 0, 8 * act, act, IF edge THEN 90 ELSE 65, {16, 32}),
         Node("attention", (size * 35) \div 100, (parameters * 7) \div 10, 4 * act,
              IF edge THEN 90 ELSE 72, {16, 8, 4}),
         Node(IF shape.experts > 0 THEN "mixture_of_experts" ELSE "quantized_linear",
              (size * 65) \div 100, (parameters * 13) \div 10, 3 * act,
              IF edge THEN 82 ELSE 55, {16, 8, 4, 3}),
         Node("residual_add", 0, act, act, 100, {16, 32}) >>

\* build_transformer_graph: for shape [blocks, weights, parameters,
\* activation, experts].
TransformerGraph(shape) ==
  LET ends == (shape.weights * 25) \div 1000
      block == (shape.weights - 2 * ends) \div shape.blocks
      act == shape.activation
  IN  << Node("tokenization", 0, 1, act, 100, {32}),
         Node("embedding", ends, ends \div 2, act, 85, {16, 8}) >>
      \o FlattenSeq([b \in 1..shape.blocks |-> BlockNodes(shape, block, b \in {1, shape.blocks})])
      \o << Node("rms_norm", 0, 8 * act, act, 100, {16, 32}),
            Node("quantized_linear", ends, ends \div 2, act, 95, {16, 8}),
            Node("sampling", 0, 2, 1, 100, {32}) >>

\* lower_graph_to_tensor_ir, of one node: attention becomes three operations,
\* of which only the first holds parameters.
LoweredNode(node) ==
  CASE node.op = "attention" ->
         << [node EXCEPT !.op = "matmul", !.size = (@ * 34) \div 100, !.work = AtLeast((@ * 34) \div 100, 1)],
            [node EXCEPT !.op = "rope", !.size = 0, !.work = AtLeast((@ * 33) \div 100, 1)],
            [node EXCEPT !.op = "softmax", !.size = 0, !.work = AtLeast((@ * 33) \div 100, 1)] >>
    [] node.op \in {"quantized_linear", "mixture_of_experts", "embedding"} ->
         << [node EXCEPT !.op = "matmul"] >>
    [] OTHER -> << node >>

Lowered(graph) == FlattenSeq([i \in DOMAIN graph |-> LoweredNode(graph[i])])

=============================================================================
