------------------------------- MODULE MCEngine -------------------------------
(***************************************************************************)
(* The instances of EngineRecords and Compiler that TLC checks: what the   *)
(* engine records, and the plans that it records.  They share nothing:     *)
(* part tells which one moves.  Threads and projects are interchangeable;  *)
(* devices and names are chosen by CHOOSE and are not.                     *)
(***************************************************************************)
EXTENDS EngineRecords, Compiler, TLC

VARIABLE part

G == INSTANCE ModelGraph

-----------------------------------------------------------------------------
\* The compiler's inputs: every graph of three nodes of a few kinds, and the
\* graphs of a small transformer and of its lowering, on a processor alone,
\* beside a GPU, an NPU or both, and on a GPU alone.
SmallNodes ==
  {G!Node("matmul", 16, 400, 8, 60, {16, 8, 4}), G!Node("matmul", 6, 2, 1, 90, {16, 8, 4}),
   G!Node("sampling", 0, 2, 1, 100, {32}), G!Node("rope", 16, 60, 900, 30, {8, 4}),
   G!Node("rms_norm", 0, 30, 20, 65, {16, 32})}

Transformer ==
  [blocks |-> 1, weights |-> 100, parameters |-> 400, activation |-> 40, experts |-> 0]

MCModels ==
  {[format |-> "openvino", bits |-> 16, nodes |-> ns] : ns \in [1..3 -> SmallNodes]}
    \cup {[format |-> "gguf", bits |-> 8, nodes |-> ns] :
            ns \in {G!TransformerGraph(Transformer), G!Lowered(G!TransformerGraph(Transformer))}}
    \cup {[format |-> "openvino", bits |-> 16, nodes |-> <<>>]}

Cpu ==
  [kind |-> "cpu", speed |-> 1, bandwidth |-> 4, unified |-> TRUE, memory |-> 40,
   ops |-> HostOps \cup Multiplying \cup {"embedding", "rms_norm", "residual_add", "rope", "softmax"},
   precisions |-> {32, 16, 8, 4, 3}, backends |-> {"llama-cpu", "openvino"}]
Gpu ==
  [Cpu EXCEPT !.kind = "gpu", !.speed = 8, !.bandwidth = 8, !.unified = FALSE, !.memory = 20,
              !.ops = @ \ HostOps, !.precisions = {32, 16, 8, 4}, !.backends = {"llama-vulkan", "openvino"}]
Npu ==
  [Cpu EXCEPT !.kind = "npu", !.speed = 10, !.memory = 30,
              !.ops = @ \ (HostOps \cup {"quantized_linear", "mixture_of_experts"}),
              !.precisions = {16, 8, 4}, !.backends = {"openvino"}]

MCMachines ==
  {[d \in {"cpu"} |-> Cpu], [d \in {"gpu"} |-> Gpu],
   [d \in {"cpu", "gpu"} |-> IF d = "cpu" THEN Cpu ELSE Gpu],
   [d \in {"cpu", "npu"} |-> IF d = "cpu" THEN Cpu ELSE Npu],
   [d \in {"cpu", "gpu", "npu"} |->
      CASE d = "cpu" -> Cpu [] d = "gpu" -> Gpu [] d = "npu" -> Npu]}

Ask(budget, limit, mode, transitions, preferred, tokens) ==
  [budget |-> budget, limit |-> limit, mode |-> mode, transitions |-> transitions,
   preferred |-> preferred, kv |-> 5, tokens |-> tokens]

MCAsks ==
  {Ask(40, 100000, "balanced", 4, NoDevice, 512), Ask(24, 100000, "max", 2, NoDevice, 8),
   Ask(16, 60000, "battery-saver", 1, "gpu", 8), Ask(10, 300000, "quiet", 2, NoDevice, 48),
   Ask(50, -1, "background", 0, "npu", 8), Ask(40, 100000, "efficiency", 4, NoDevice, 8)}

-----------------------------------------------------------------------------
MCInit ==
  /\ part \in {"records", "compiler"}
  /\ Init /\ CompilerInit
  /\ part = "records" =>
       <<model, machine, ask>> = CHOOSE any \in Models \X Machines \X Asks : TRUE

MCNext ==
  \/ part = "records" /\ Next /\ UNCHANGED <<part, compilerVars>>
  \/ part = "compiler" /\ CompilerNext /\ UNCHANGED <<part, vars>>

MCSpec == MCInit /\ [][MCNext]_<<part, vars, compilerVars>>

Symmetry == Permutations(Threads) \cup Permutations(Projects)

=============================================================================
