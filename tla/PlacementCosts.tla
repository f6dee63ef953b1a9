---------------------------- MODULE PlacementCosts ----------------------------
(***************************************************************************)
(* What a node costs on a device, and what follows from where it is        *)
(* placed: the arithmetic of openagent_engine/compiler.py and the kernel   *)
(* candidates of openagent_engine/codegen.py.                              *)
(*                                                                         *)
(* Abstractions.  Times are whole microseconds (the code rounds to         *)
(* nanoseconds); between two powers of two the logarithm of a prompt's     *)
(* length is a straight line, and no length has more than thirty-one bits; *)
(* a device's speed, bandwidth and memory are integers in units the        *)
(* instance chooses; a precision is its number of bits, so int8 and q8 are *)
(* one.                                                                    *)
(***************************************************************************)
EXTENDS Integers, Sequences, FiniteSets, FiniteSetsExt

HostOps == {"tokenization", "sampling"}
Multiplying == {"matmul", "attention", "quantized_linear", "mixture_of_experts"}

\* Percent of the device's speed that a phase reaches on a kind of device.
BaseEfficiency ==
  [prefill |-> [cpu |-> 22, gpu |-> 58, npu |-> 62],
   decode |-> [cpu |-> 12, gpu |-> 34, npu |-> 27]]

\* _efficiency, in hundredths of a percent.
Efficiency(kind, phase, op) ==
  LET base == BaseEfficiency[phase][kind]
  IN  CASE op \in HostOps \cup {"residual_add"} -> IF kind = "cpu" THEN 4500 ELSE 25 * base
        [] op \in Multiplying -> 100 * base
        [] OTHER -> 70 * base

PowerModes == {"maximum", "balanced", "quiet", "battery", "background"}

\* _power_scale, in percent.
PowerScale ==
  [maximum |-> [cpu |-> 112, gpu |-> 112, npu |-> 105],
   balanced |-> [cpu |-> 100, gpu |-> 100, npu |-> 100],
   quiet |-> [cpu |-> 62, gpu |-> 70, npu |-> 90],
   battery |-> [cpu |-> 48, gpu |-> 45, npu |-> 88],
   background |-> [cpu |-> 38, gpu |-> 42, npu |-> 72]]

\* workload_scale, in percent.
Workload(op, phase, tokens) ==
  IF phase = "decode" THEN 100 ELSE tokens * (IF op \in Multiplying THEN 58 ELSE 100)

DispatchTime == [cpu |-> 12, gpu |-> 55, npu |-> 140]

\* The whole part of a length's logarithm.
Log2(tokens) == Cardinality({k \in 1..30 : 2^k <= tokens})

\* A fifth of the logarithm, in percent and never less than a hundred: by how
\* much the dispatch time of prefill grows with the prompt.
DispatchGrowth(tokens) ==
  LET k == Log2(tokens)
  IN  Max({100, 20 * k + (20 * (tokens - 2^k)) \div 2^k})

Dispatch(kind, phase, tokens) ==
  IF phase = "decode" THEN DispatchTime[kind]
  ELSE (DispatchTime[kind] * DispatchGrowth(tokens)) \div 100

\* estimate_placement: the time of a node, stored in so many bytes.
Estimate(node, stored, device, phase, tokens, mode) ==
  LET scale == Workload(node.op, phase, tokens)
      power == PowerScale[mode][device.kind]
      rate == (Efficiency(device.kind, phase, node.op) * power) \div 100
      compute == (node.work * scale * 100) \div (device.speed * rate)
      memory == (100 * stored + node.activation * scale)
                  \div (device.bandwidth * (IF power < 20 THEN 20 ELSE power))
  IN  compute + memory + Dispatch(device.kind, phase, tokens)

\* estimate_placement answers None for an operation or a precision the device
\* does not have.
Supports(device, op, bits) == op \in device.ops /\ bits \in device.precisions

\* backend_for: the backend and whether it can run the node.
Backend(format, device, op) ==
  LET cpu == device.kind = "cpu"
      runs(formats, backend) == format \in formats /\ backend \in device.backends
  IN  IF op \in HostOps THEN <<"host-cpu", cpu>>
      ELSE IF cpu /\ runs({"gguf"}, "llama-cpu") THEN <<"llama-cpu", TRUE>>
      ELSE IF runs({"gguf"}, "llama-vulkan") THEN <<"llama-vulkan", TRUE>>
      ELSE IF runs({"onnx", "openvino"}, "openvino") THEN <<"openvino", TRUE>>
      ELSE IF cpu /\ runs({"onnx", "openvino"}, "onnxruntime") THEN <<"onnxruntime", TRUE>>
      ELSE <<"planning-only", FALSE>>

\* transition_cost_ms between two devices.
TransferTime(left, right, activation, phase) ==
  LET shared == left.unified /\ right.unified
      bandwidth == Min({left.bandwidth, right.bandwidth})
      copy == (100 * activation) \div (bandwidth * (IF shared THEN 48 ELSE 18))
      synchronization == (IF shared THEN 80 ELSE 350)
                           + (IF "npu" \in {left.kind, right.kind} THEN 180 ELSE 0)
  IN  copy + (IF phase = "decode" THEN (135 * synchronization) \div 100 ELSE synchronization)

\* Faulty variant: the KV cache is forgotten.
MemoryTiersAlone(planned, budget, capacity, kvBytes) ==
  LET hot == Min({planned, capacity, budget})
      warm == Min({planned - hot, budget - hot})
  IN  [hot |-> hot, warm |-> warm, cold |-> planned - hot - warm]

\* build_memory_plan: weights beside the processor, in shared memory, on disk.
MemoryTiers(planned, budget, capacity, kvBytes) ==
  LET hot == Min({planned, capacity, budget})
      free == budget - hot - kvBytes
      warm == Min({planned - hot, IF free > 0 THEN free ELSE 0})
  IN  [hot |-> hot, warm |-> warm, cold |-> planned - hot - warm]

\* kernel_candidates: tile, subgroup and vector width of each.
KernelCandidates(kind, phase, op) ==
  IF op \in HostOps \cup {"tensor_load", "unknown"} THEN {<<1, 1, 1>>}
  ELSE CASE kind = "npu" -> {<<0, 0, 0>>}
         [] kind = "gpu" -> (IF phase = "prefill" THEN {16, 32} ELSE {8, 16}) \X {16, 32} \X {2, 4}
         [] OTHER -> {8, 16} \X {1} \X {4, 8}

=============================================================================
