------------------------------ MODULE Compiler ------------------------------
(***************************************************************************)
(* AdaptiveCompiler.compile (openagent_engine/compiler.py), from the       *)
(* request to the package: select_precision_plan lowers the precision of   *)
(* nodes until the weights fit, _partition places the nodes on devices by  *)
(* dynamic programming over (device, transitions so far), for prefill and  *)
(* then, drawn to prefill's devices, for decode, and the plan of memory,   *)
(* kernels and warnings is made of the placements.                         *)
(*                                                                         *)
(* Abstractions.  Every step is a turn of a loop; nothing runs beside it.  *)
(* A penalty is an integer: bit drop * sensitivity * size * low-bit curve  *)
(* in one common unit.  A cost of the dynamic program is in hundredths of  *)
(* a microsecond.                                                          *)
(***************************************************************************)
EXTENDS Integers, Sequences, FiniteSets, FiniteSetsExt, Functions, SequencesExt,
        PlacementCosts

CONSTANTS
  Models,      \* records [format, bits, nodes]: the model's own precision and
               \* its graph, a sequence of nodes as in ModelGraph
  Machines,    \* functions from device ids to records [kind, ops, precisions,
               \* backends, speed, bandwidth, unified, memory]
  Asks,        \* records [budget, limit, mode, transitions, preferred, kv,
               \* tokens]: what compile is called with
  Ladder,      \* bits of the precisions there are
  NoDevice,    \* no device is preferred
  Beam         \* 64: the table keeps this many entries of a layer

\* What is assumed of the constants: the precisions are those of
\* PRECISION_BITS, and a device has some speed and bandwidth.
ASSUME CompilerAssumption ==
  /\ Ladder \subseteq {32, 16, 8, 4, 3, 2} /\ Beam \in Nat \ {0}
  /\ \A m \in Models :
       /\ m.bits \in Nat \ {0} /\ DOMAIN m.nodes = 1..Len(m.nodes) /\ Len(m.nodes) \in Nat
       /\ \A i \in DOMAIN m.nodes :
            LET node == m.nodes[i] IN
            /\ node.size \in Nat /\ node.work \in Nat /\ node.activation \in Nat
            /\ node.sensitivity \in Nat /\ node.precisions \in (SUBSET Ladder) \ {{}}
  /\ \A m \in Machines :
       /\ IsFiniteSet(DOMAIN m) /\ NoDevice \notin DOMAIN m
       /\ \A d \in DOMAIN m :
            /\ m[d].kind \in {"cpu", "gpu", "npu"} /\ m[d].memory \in Nat
            /\ m[d].speed \in Nat \ {0} /\ m[d].bandwidth \in Nat \ {0}
  /\ \A a \in Asks : /\ a.tokens \in Nat \ {0} /\ a.kv \in Nat
                    /\ a.budget \in Int /\ a.limit \in Int /\ a.transitions \in Int

Phases == {"prefill", "decode"}

VARIABLES
  stage,       \* "asked", "precision", "prefill", "decode", "package", "done",
               \* "rejected", "failed"
  model, machine, ask,
  precision,   \* precision[n]: bits node n is planned at
  penalty,     \* penalty[n]: quality penalty recorded for node n
  planned,     \* planned_bytes
  loss,        \* quality_penalty
  left,        \* alternatives not looked at yet
  refused,     \* history: nodes one of whose alternatives was over the limit
  histories,   \* the table of the dynamic program: per layer and key
               \* <<device, transitions>>, the least cost and where from
  paths,       \* paths[phase]: the devices of the placements
  pruned,      \* history: the phases whose table was cut to Beam entries
  package      \* what compile returns, <<>> before

inputs == <<model, machine, ask>>
plan == <<precision, penalty, planned, loss, left, refused>>
compilerVars == <<stage, inputs, plan, histories, paths, pruned, package>>

Nodes == DOMAIN model.nodes
Node(n) == model.nodes[n]
Units == DOMAIN machine
size == [n \in Nodes |-> Node(n).size]
NonNegative(n) == IF n < 0 THEN 0 ELSE n

\* _power_mode
ModeNamed(value) ==
  CASE value \in {"max", "performance"} -> "maximum"
    [] value = "battery-saver" -> "battery"
    [] OTHER -> value
Mode == ModeNamed(ask.mode)

-----------------------------------------------------------------------------
\* _supported_precisions: those some device has, else the node's own.
Supported(n) ==
  LET had == Node(n).precisions \cap UNION {machine[d].precisions : d \in Units}
  IN  IF had = {} THEN Node(n).precisions ELSE had

\* _native_precision
Native(bits) ==
  CASE bits <= 2 -> 2 [] bits = 3 -> 3 [] bits \in 4..6 -> 4 [] bits \in 7..10 -> 8
    [] bits \in 11..18 -> 16 [] OTHER -> 32

Distance(a, b) == IF a < b THEN b - a ELSE a - b

\* The precision a node starts at: GGUF weights are already quantized.
Chosen(n) ==
  CASE model.format # "gguf" -> Max(Supported(n))
    [] model.format = "gguf" /\ Native(model.bits) \in Supported(n) -> Native(model.bits)
    [] OTHER -> CHOOSE b \in Supported(n) :
                  \A c \in Supported(n) : Distance(b, model.bits) <= Distance(c, model.bits)

\* conversion_required of a node planned at so many bits.
Converts(bits) == model.format # "gguf" /\ bits < model.bits

\* _node_storage_bytes
Bytes(n, bits) == LET exact == (size[n] * bits) \div model.bits
                  IN  IF size[n] = 0 THEN 0 ELSE IF exact > 1 THEN exact ELSE 1

\* _quality_penalty; a sensitive node counts 1.35 times.
Sensitivity(n) == LET s == Node(n).sensitivity IN IF s >= 85 THEN (s * 27) \div 20 ELSE s
Curve(bits) == 4 + 3 * (IF bits < 4 THEN 4 - bits ELSE 0)
Loss(n, from, to) == (from - to) * Sensitivity(n) * size[n] * Curve(to)

\* The precisions of node n that save bytes against every higher one, and
\* the one each would replace.
Useful(n) ==
  LET lower == Supported(n) \cap 1..Chosen(n)
  IN  {b \in lower : \A c \in lower : b < c => Bytes(n, c) > Bytes(n, b)}
Above(n, b) == Min({c \in Useful(n) : c > b})
Saving(a) == Bytes(a[1], Above(a[1], a[2])) - Bytes(a[1], a[2])
Cost(a) == Loss(a[1], Above(a[1], a[2]), a[2])

Alternatives == {a \in Nodes \X Ladder : a[2] \in Useful(a[1]) \ {Chosen(a[1])}}

\* Penalty per byte saved, compared without division.
Cheaper(a, b) == Cost(a) * Saving(b) < Cost(b) * Saving(a)
FoundEarlier(a, b) == a[1] < b[1] \/ (a[1] = b[1] /\ a[2] > b[2])

\* Faulty variant: the smaller saving goes first.
EarlierSmall(a, b) ==
  \/ Cheaper(a, b)
  \/ ~Cheaper(b, a) /\ Saving(a) < Saving(b)
  \/ ~Cheaper(b, a) /\ Saving(a) = Saving(b) /\ FoundEarlier(a, b)

\* The order they are tried in: penalty per byte, then the larger saving,
\* then the order they were found in.
Earlier(a, b) ==
  \/ Cheaper(a, b)
  \/ ~Cheaper(b, a) /\ Saving(a) > Saving(b)
  \/ ~Cheaper(b, a) /\ Saving(a) = Saving(b) /\ FoundEarlier(a, b)

Stored == SumFunction([n \in Nodes |-> Bytes(n, precision[n])])

CompilerInit ==
  /\ stage = "asked"
  /\ model \in Models /\ machine \in Machines /\ ask \in Asks
  /\ precision = <<>> /\ penalty = <<>> /\ planned = 0 /\ loss = 0
  /\ left = {} /\ refused = {}
  /\ histories = <<>> /\ pruned = {} /\ package = <<>>
  /\ paths = [p \in Phases |-> <<>>]

Acceptable ==
  /\ Mode \in PowerModes /\ Units # {} /\ ask.budget > 0 /\ Nodes # {}

\* compile raises before it plans anything.
Reject ==
  /\ stage = "asked" /\ ~Acceptable
  /\ stage' = "rejected"
  /\ UNCHANGED <<inputs, plan, histories, paths, pruned, package>>

\* The first loop of select_precision_plan.
Begin ==
  /\ stage = "asked" /\ Acceptable
  /\ stage' = "precision"
  /\ precision' = [n \in Nodes |-> Chosen(n)]
  /\ penalty' = [n \in Nodes |-> 0]
  /\ planned' = SumFunction([n \in Nodes |-> Bytes(n, Chosen(n))])
  /\ left' = Alternatives
  /\ UNCHANGED <<inputs, loss, refused, histories, paths, pruned, package>>

\* A penalty of one, in the common unit, and the limit between none and one.
Whole == 6400 * SumFunction(size)
LossLimit == NonNegative(IF ask.limit < Whole THEN ask.limit ELSE Whole)
Affordable(a) == loss + Cost(a) <= LossLimit

\* One turn of the loop: the next alternative is taken, or passed over
\* because the node is lower already or the loss would be too great.
Lower ==
  /\ stage = "precision" /\ planned > ask.budget
  /\ \E a \in left :
       /\ \A b \in left \ {a} : Earlier(a, b)
       /\ left' = left \ {a}
       /\ LET saving == Bytes(a[1], precision[a[1]]) - Bytes(a[1], a[2]) IN
          \/ /\ saving > 0 /\ Affordable(a)
             /\ precision' = [precision EXCEPT ![a[1]] = a[2]]
             /\ penalty' = [penalty EXCEPT ![a[1]] = @ + Cost(a)]
             /\ planned' = planned - saving
             /\ loss' = loss + Cost(a)
             /\ UNCHANGED refused
          \/ /\ saving <= 0 \/ ~Affordable(a)
             /\ refused' = IF saving > 0 THEN refused \cup {a[1]} ELSE refused
             /\ UNCHANGED <<precision, penalty, planned, loss>>
  /\ UNCHANGED <<stage, inputs, histories, paths, pruned, package>>

PrecisionDone ==
  /\ stage = "precision" /\ (planned <= ask.budget \/ left = {})
  /\ stage' = "prefill" /\ left' = {}
  /\ UNCHANGED <<inputs, precision, penalty, planned, loss, refused, histories, paths, pruned, package>>

-----------------------------------------------------------------------------
\* The devices that may take node n, narrowed to the preferred one.
Candidates(n) ==
  LET able == {d \in Units : Supports(machine[d], Node(n).op, precision[n])}
  IN  IF ask.preferred \in able /\ Node(n).op \notin HostOps THEN {ask.preferred} ELSE able

Time(n, d, phase) ==
  Estimate(Node(n), Bytes(n, precision[n]), machine[d], phase, ask.tokens, Mode)
Transfer(n, from, d, phase) ==
  IF from = d THEN 0 ELSE TransferTime(machine[from], machine[d], Node(n).activation, phase)

\* Faulty variant: decode forgets where prefill left the node.
AffinityNone(n, d, time, phase) == 0

\* _affinity_cost: what it takes to draw a node from its prefill device.
Affinity(n, d, time, phase) ==
  IF phase = "prefill" \/ paths.prefill[n] = d THEN 0 ELSE Max({3000, 6 * time})

\* The cost of node n on d after node n - 1 on from, without the affinity: a
\* move costs its transfer again and a quarter more, staying is rewarded.
MoveCost(n, from, d, phase) ==
  LET transfer == Transfer(n, from, d, phase)
      time == Time(n, d, phase) + transfer
  IN  100 * time + IF from = d THEN -Min({2000, time}) ELSE 125 * transfer

StepCost(n, from, d, phase) ==
  MoveCost(n, from, d, phase)
    + Affinity(n, d, Time(n, d, phase) + Transfer(n, from, d, phase), phase)
FirstCost(d, phase) ==
  100 * Time(1, d, phase) + Affinity(1, d, Time(1, d, phase), phase)

Clamp(n, low, high) == IF n < low THEN low ELSE IF n > high THEN high ELSE n
Maximum == Clamp(ask.transitions, 0, 32)
Count(d, e) == IF d = e THEN 0 ELSE 1

\* The entry that a placement on e leads to from entry k, within the limit.
StepsFrom(k, e) ==
  IF k[2] + Count(k[1], e) > Maximum THEN {} ELSE {<<e, k[2] + Count(k[1], e)>>}

FirstLayer(phase) ==
  [k \in Candidates(1) \X {0} |-> [cost |-> FirstCost(k[1], phase), from |-> {}]]

\* Each entry keeps its least cost; of several ways there the code takes the
\* one it meets first, here any.
NextLayer(old, n, phase) ==
  LET ways(k) == {j \in DOMAIN old : k \in StepsFrom(j, k[1])}
      step == [move \in Units \X Candidates(n) |-> StepCost(n, move[1], move[2], phase)]
      cost(j, k) == old[j].cost + step[<<j[1], k[1]>>]
      least(k) == Min({cost(j, k) : j \in ways(k)})
      reached == UNION {StepsFrom(j, e) : j \in DOMAIN old, e \in Candidates(n)}
  IN  [k \in reached |-> [cost |-> least(k), from |-> {j \in ways(k) : cost(j, k) = least(k)}]]

Layer(phase) ==
  IF histories = <<>> THEN FirstLayer(phase)
  ELSE NextLayer(Last(histories), Len(histories) + 1, phase)

\* One turn of the loop over the nodes: no device or no path is an error.
Place ==
  /\ stage \in Phases /\ Len(histories) < Len(model.nodes)
  /\ LET layer == Layer(stage) IN
     \/ /\ layer = <<>>
        /\ stage' = "failed"
        /\ UNCHANGED <<histories, pruned>>
     \/ /\ layer # <<>> /\ Cardinality(DOMAIN layer) <= Beam
        /\ histories' = Append(histories, layer)
        /\ UNCHANGED <<stage, pruned>>
     \/ /\ Cardinality(DOMAIN layer) > Beam
        /\ \E kept \in kSubset(Beam, DOMAIN layer) :
             /\ \A k \in kept, j \in DOMAIN layer \ kept : layer[k].cost <= layer[j].cost
             /\ histories' = Append(histories, Restrict(layer, kept))
        /\ pruned' = pruned \cup {stage}
        /\ UNCHANGED stage
  /\ UNCHANGED <<inputs, plan, paths, package>>

\* All ways back through the table from key k of layer i.
WaysBack[i \in 1..Len(histories)] ==
  [k \in DOMAIN histories[i] |->
     IF i = 1 THEN {<<k[1]>>}
     ELSE UNION {{Append(p, k[1]) : p \in WaysBack[i - 1][j]} : j \in histories[i][k].from}]

\* The cheapest entry of the last layer, and back from entry to entry.
Backtrace ==
  /\ stage \in Phases /\ Len(histories) = Len(model.nodes)
  /\ LET last == Last(histories) IN
     \E k \in DOMAIN last :
       /\ \A j \in DOMAIN last : last[k].cost <= last[j].cost
       /\ \E p \in WaysBack[Len(histories)][k] : paths' = [paths EXCEPT ![stage] = p]
  /\ histories' = <<>>
  /\ stage' = IF stage = "prefill" THEN "decode" ELSE "package"
  /\ UNCHANGED <<inputs, plan, pruned, package>>

-----------------------------------------------------------------------------
Converting == {n \in Nodes : Converts(precision[n])}
BackendOf(n, phase) == Backend(model.format, machine[paths[phase][n]], Node(n).op)

\* The time recorded for node n: with the transfer, without the rest.
RecordedTime(n, phase) ==
  LET d == paths[phase][n]
  IN  Time(n, d, phase) + IF n = 1 THEN 0 ELSE Transfer(n, paths[phase][n - 1], d, phase)

\* _regions: runs of nodes on one device by one backend.
Regions(phase) ==
  LET region(n) == [device |-> paths[phase][n], backend |-> BackendOf(n, phase)[1],
                    first |-> n, last |-> n]
      extend(regions, n) ==
        IF /\ regions # <<>>
           /\ Last(regions).device = region(n).device /\ Last(regions).backend = region(n).backend
        THEN [regions EXCEPT ![Len(regions)].last = n]
        ELSE Append(regions, region(n))
      after[n \in 0..Len(model.nodes)] == IF n = 0 THEN <<>> ELSE extend(after[n - 1], n)
  IN  after[Len(model.nodes)]

\* KernelLowerer.lower: one kernel for each device, operation and precision,
\* with the backend of the first placement of the kind.
Kernels(phase) ==
  LET key(n) == <<paths[phase][n], Node(n).op, precision[n]>>
      firsts == {n \in Nodes : \A m \in 1..n - 1 : key(m) # key(n)}
  IN  {[key |-> key(n), backend |-> BackendOf(n, phase)[1],
        candidates |-> KernelCandidates(machine[paths[phase][n]].kind, phase, Node(n).op)] : n \in firsts}

Capacity(d) == (machine[d].memory * 80) \div 100

\* _dominant_device: where decode spends most of its time.
Share(d) ==
  SumFunctionOnSet([n \in Nodes |-> RecordedTime(n, "decode")], {n \in Nodes : paths.decode[n] = d})

Warnings ==
  (IF planned > ask.budget THEN {"memory"} ELSE {})
    \cup (IF loss > ask.limit THEN {"quality"} ELSE {})
    \cup (IF Converting # {} THEN {"conversion"} ELSE {})

Runs == Converting = {} /\ \A n \in Nodes, p \in Phases : BackendOf(n, p)[2]

\* The rest of compile.
Package ==
  /\ stage = "package"
  /\ \E d \in Range(paths.decode) :
       /\ \A e \in Range(paths.decode) : Share(d) >= Share(e)
       /\ package' = [dominant |-> d,
                      tiers |-> MemoryTiers(planned, ask.budget, Capacity(d), ask.kv),
                      regions |-> [p \in Phases |-> Regions(p)],
                      kernels |-> [p \in Phases |-> Kernels(p)],
                      warnings |-> Warnings,
                      executable |-> Runs]
  /\ stage' = "done"
  /\ UNCHANGED <<inputs, plan, histories, paths, pruned>>

CompilerNext == Reject \/ Begin \/ Lower \/ PrecisionDone \/ Place \/ Backtrace \/ Package

CompilerSpec == CompilerInit /\ [][CompilerNext]_compilerVars

-----------------------------------------------------------------------------
\* Every variable has its type.
CompilerTypeOK ==
  /\ stage \in Phases \cup {"asked", "precision", "package", "done", "rejected", "failed"}
  /\ stage \in Phases \cup {"precision", "package", "done"} =>
       precision \in [Nodes -> Ladder] /\ penalty \in [Nodes -> Nat]
  /\ planned \in Nat /\ loss \in Nat
  /\ left \subseteq Nodes \X Ladder /\ refused \subseteq Nodes
  /\ \A i \in DOMAIN histories : DOMAIN histories[i] \subseteq Units \X (0..Maximum)
  /\ \A p \in Phases : paths[p] = <<>> \/ paths[p] \in [Nodes -> Units]
  /\ pruned \subseteq Phases

\* The loss of lowering node n to the precision it is planned at, through
\* every precision on the way.
TrueLoss(n) ==
  SumFunction([b \in {c \in Useful(n) \ {Chosen(n)} : c >= precision[n]} |-> Loss(n, Above(n, b), b)])

\* The size divides at every precision of the ladder.
Even(n) == \A b \in Ladder : (size[n] * b) % model.bits = 0

\* The sums that select_precision_plan carries along are those of the plan,
\* and the loss keeps its limit.  The penalty recorded for a node is the loss
\* of its planned precision, though its alternatives are spread over one list
\* sorted by price: none is taken before the one it builds on, when the
\* node's size divides and none of its alternatives was refused.
PlanAccounted ==
  /\ CompilerTypeOK
  /\ stage = "precision" =>
       /\ planned = Stored
       /\ loss = SumFunction(penalty)
       /\ loss <= LossLimit
       /\ \A n \in Nodes \ refused : Even(n) => penalty[n] = TrueLoss(n)

Transitions(p) == Cardinality({n \in DOMAIN p \ {1} : p[n] # p[n - 1]})

\* All placements of the nodes that the limit allows, and what one costs.
Placements ==
  {p \in [Nodes -> Units] :
     (\A n \in Nodes : p[n] \in Candidates(n)) /\ Transitions(p) <= Maximum}
PathCost(p, phase) ==
  FirstCost(p[1], phase)
    + SumFunction([n \in Nodes \ {1} |-> StepCost(n, p[n - 1], p[n], phase)])

\* What decode would cost if no node were drawn to a device.
Unbound(p) ==
  100 * Time(1, p[1], "decode")
    + SumFunction([n \in Nodes \ {1} |-> MoveCost(n, p[n - 1], p[n], "decode")])

\* Decode moves nodes away from where prefill placed them only for a gain of
\* at least 30 microseconds for every node moved, so that tiny local wins do
\* not make the plan oscillate (compiler.py, the note on AdaptiveCompiler).
NoOscillation ==
  LET moved == {n \in Nodes : paths.decode[n] # paths.prefill[n]}
  IN  Unbound(paths.prefill) - Unbound(paths.decode) >= 3000 * Cardinality(moved)

\* The dynamic program against its reference, when it has just ended: the
\* path it returns is a placement within the limit, and no placement is
\* cheaper unless the table was cut; it gives up only if there is none.  And
\* the two phases together: decode does not oscillate (_partition).
PathRight ==
  LET found(phase) ==
        /\ paths[phase] \in Placements
        /\ phase \notin pruned =>
             LET cost == PathCost(paths[phase], phase)
             IN  \A p \in Placements : cost <= PathCost(p, phase)
  IN  /\ stage = "decode" /\ histories = <<>> => found("prefill")
      /\ stage = "package" => found("decode")
      /\ stage = "package" /\ "decode" \notin pruned => NoOscillation
      /\ stage = "failed" /\ pruned = {} => Placements = {}

\* The package agrees with the plan it describes.  Its memory tiers hold the
\* planned weights, within the budget beside the KV cache and within the
\* dominant device; weights that fit the budget go to storage only if they
\* fit neither that device nor what the KV cache leaves.  Its regions cover
\* the nodes in order and part where the placements do.  Every placement has
\* exactly one kernel, of its backend.  What is called executable converts
\* nothing and keeps tokenization and sampling on a processor.
PackageRight ==
  stage = "done" =>
    LET tiers == package.tiers
        room == Capacity(package.dominant)
    IN  /\ tiers.hot + tiers.warm + tiers.cold = planned
        /\ tiers.hot <= room /\ tiers.cold >= 0
        /\ tiers.warm > 0 => tiers.hot + tiers.warm + ask.kv <= ask.budget
        /\ tiers.cold > 0 /\ "memory" \notin package.warnings =>
             planned > room /\ planned + ask.kv > ask.budget
        /\ \A p \in Phases :
             LET regions == package.regions[p] IN
             /\ regions[1].first = 1 /\ Last(regions).last = Len(model.nodes)
             /\ \A i \in DOMAIN regions \ {1} :
                  /\ regions[i].first = regions[i - 1].last + 1
                  /\ \/ regions[i].device # regions[i - 1].device
                     \/ regions[i].backend # regions[i - 1].backend
             /\ \A i \in DOMAIN regions : \A n \in regions[i].first..regions[i].last :
                  paths[p][n] = regions[i].device
             /\ \A n \in Nodes :
                  LET mine == {k \in package.kernels[p] :
                                 k.key = <<paths[p][n], Node(n).op, precision[n]>>}
                  IN  Cardinality(mine) = 1 /\ \A k \in mine :
                        k.backend = BackendOf(n, p)[1] /\ Cardinality(k.candidates) \in 1..8
        /\ package.executable =>
             /\ "conversion" \notin package.warnings
             /\ \A n \in Nodes, p \in Phases :
                  Node(n).op \in HostOps => machine[paths[p][n]].kind = "cpu"
        /\ "quality" \in package.warnings => ask.limit < 0
=============================================================================
