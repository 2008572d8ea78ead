-------------------------- MODULE ExpertPlacement --------------------------
(***************************************************************************)
(* Where each weight lives, from the first tensor of the checkpoint to the  *)
(* memory vLLM hands to its KV cache: placement while tensors arrive        *)
(* (cpu_offload.place, place_expert), the staging window at the end of load *)
(* (build_staging), and the expert cache's slots once vLLM has measured     *)
(* what is free (expert_cache.build, around determine_available_memory).    *)
(*                                                                          *)
(* Tensors arrive in any order.  Every expert row is of one size, as in     *)
(* every checkpoint the repository has scanned.                             *)
(***************************************************************************)
EXTENDS Integers, FiniteSets, FiniteSetsExt

CONSTANTS
    Layers,        \* 0 .. n - 1, the layers with routed experts
    NumExperts,    \* experts per layer
    Projection,    \* gate, up and down
    Selections,    \* sets of <<layer, projection, expert>> that selectors may match
    Dense,         \* the dense tensors the selectors match
    RowBytes,      \* one expert's trellis, of one projection
    DenseBytes,    \* one dense tensor
    Align,         \* _ALIGN
    MaxMeasures,   \* bound: calls of determine_available_memory
    \* what a start may find: see Configurations
    Modes, FixedSlots, Budgets, TowerBytes, HostFrees, Availables, Reserves,
    None

Expert == 0 .. NumExperts - 1
Block  == Layers \X Projection
Row    == Layers \X Projection \X Expert

ASSUME SizesAssumption ==
    /\ Layers # {} /\ IsFiniteSet(Layers) /\ Layers \subseteq Nat
    /\ {NumExperts, RowBytes, DenseBytes, Align} \subseteq Nat \ {0}
    /\ Projection # {} /\ IsFiniteSet(Projection) /\ Projection \subseteq Nat
    /\ Selections \subseteq SUBSET Row
    /\ IsFiniteSet(Dense) /\ Dense \cap Row = {}
    /\ MaxMeasures \in Nat

\* EXL3_EXPERT_SLOTS, --cpu-offload-gb and -params, what vLLM's own offloader
\* spent before the first tensor came, and the host's free RAM over _HOST_MARGIN.
Configurations ==
    [mode : Modes, matching : Selections, budget : Budgets, tower : TowerBytes,
     hostFree : HostFrees]

ASSUME ConfigurationsAssumption ==
    /\ Modes \subseteq {"auto", "fixed", "off"}
    /\ FixedSlots \in Nat \ {0}
    /\ Budgets \cup TowerBytes \cup Availables \cup Reserves \subseteq Nat
    /\ HostFrees \subseteq Int

VARIABLES
    conf,
    phase,         \* "load", then "serve" when the model is loaded
    arrived,       \* rows and dense tensors stored so far
    spent,         \* loader.cpu_offload_bytes
    expertBytes,   \* _STATS["expert_bytes"]
    quota,         \* _STATS["quota"], -1 until it is decided
    plan,          \* the experts of each planned block that go to the host
    window,        \* the staging window's bytes, 0 once it is given back
    staged,        \* layers whose prefill reads the window
    pending,       \* _PENDING
    cache,         \* "none", "static" (_STATIC) or "live" (CACHE)
    slots,         \* slots of each layer
    measured,      \* what vLLM measured, and the reserve, when the cache was built
    kv,            \* what determine_available_memory last returned
    measures

loadVars == <<arrived, spent, expertBytes, quota, plan>>
cacheVars == <<window, staged, pending, cache, slots, measured, kv, measures>>
vars == <<conf, phase, loadVars, cacheVars>>

Cached == conf.mode # "off"

Larger(a, b) == IF a > b THEN a ELSE b
Smaller(a, b) == IF a < b THEN a ELSE b
Positive(a) == Larger(a, 0)
RoundUp(a, b) == -((-a) \div b)

Init ==
    /\ conf \in Configurations
    /\ phase = "load"
    /\ arrived = {}
    /\ spent = conf.tower
    /\ expertBytes = 0
    /\ quota = -1
    /\ plan = <<>>
    /\ window = 0 /\ staged = {} /\ pending = {}
    /\ cache = "none" /\ slots = [l \in Layers |-> 0]
    /\ measured = None /\ kv = None /\ measures = 0

(***************************************************************************)
(* Placement.                                                               *)
(***************************************************************************)
Room(bytes) == bytes < conf.budget

\* place: the budget is checked before the tensor, so the last may overrun it.
StoreDense(d) ==
    /\ phase = "load"
    /\ d \in Dense \ arrived
    /\ arrived' = arrived \cup {d}
    /\ spent' = IF Room(spent) THEN spent + DenseBytes ELSE spent
    /\ UNCHANGED <<conf, phase, expertBytes, quota, plan, cacheVars>>

\* MemAvailable less the margin, at this point of the load.
HostLeft == conf.hostFree - (spent - conf.tower) - expertBytes

Blocks_OneProjection == Cardinality(Layers)
Blocks == Cardinality(Layers) * Cardinality(Projection)

Share_Unbounded == RoundUp(Positive(HostLeft) * NumExperts, Blocks * NumExperts * RowBytes)

\* What the host can hold: all of it, or an equal share of each block.
Share ==
    LET want == Blocks * NumExperts * RowBytes
    IN  IF want <= HostLeft
        THEN NumExperts
        ELSE RoundUp(Positive(HostLeft) * NumExperts, want)

Quota_EachTime == Share

\* _host_quota: decided at the first expert to arrive, and kept.
Quota == IF quota = -1 THEN Share ELSE quota

Matched(b) == {e \in Expert : <<b[1], b[2], e>> \in conf.matching}

\* The first n of a block's matching experts, in ascending order.
Lowest(b, n) == {e \in Matched(b) : Cardinality({f \in Matched(b) : f < e}) < n}

\* Of a block of n, those taken while the budget is not used up yet.
TakenByBudget_Whole(b) == IF Room(spent) THEN Matched(b) ELSE {}
TakenByBudget(b) ==
    {e \in Matched(b) :
        Room(spent + RowBytes * Cardinality({f \in Matched(b) : f < e}))}

Taken(b) == IF Cached THEN Lowest(b, Quota) ELSE TakenByBudget(b)

\* place_expert: a block's first row to arrive plans all of it.
StoreExpert(r) ==
    LET b == <<r[1], r[2]>>
        bytes == RowBytes * Cardinality(Taken(b))
    IN  /\ phase = "load"
        /\ r \in Row \ arrived
        /\ arrived' = arrived \cup {r}
        /\ IF b \in DOMAIN plan
           THEN UNCHANGED <<spent, expertBytes, quota, plan>>
           ELSE /\ plan' = [c \in DOMAIN plan \cup {b} |->
                               IF c = b THEN Taken(b) ELSE plan[c]]
                /\ quota' = IF Cached THEN Quota ELSE quota
                /\ spent' = IF Cached THEN spent ELSE spent + bytes
                /\ expertBytes' = IF Cached THEN expertBytes + bytes ELSE expertBytes
        /\ UNCHANGED <<conf, phase, cacheVars>>

(***************************************************************************)
(* The end of load: host blocks and the staging window.                     *)
(***************************************************************************)
HostRows(l, j) == IF <<l, j>> \in DOMAIN plan THEN plan[<<l, j>>] ELSE {}
Labels(l) == {j \in Projection : HostRows(l, j) # {}}
HostedLayers == {l \in Layers : Labels(l) # {}}

\* register_experts and ExpertCache.host: experts with a row in any projection.
Hosted(l) == UNION {HostRows(l, j) : j \in Labels(l)}

BlockBytes(l, j) == RowBytes * Cardinality(HostRows(l, j))
Padded(l, j) == Align * RoundUp(BlockBytes(l, j), Align)

\* The sum of f's values, counted.
Total(f) == Cardinality(UNION {{x} \X (1 .. f[x]) : x \in DOMAIN f})

\* A projection's offset in the window: the padded blocks before it.
Offset(l, j) == Total([i \in {i \in Labels(l) : i < j} |-> Padded(l, i)])

RowOffset(l, j, e) ==
    Offset(l, j) + RowBytes * Cardinality({f \in HostRows(l, j) : f < e})

WindowFor(l) == Total([j \in Labels(l) |-> Padded(l, j)])
WindowBytes_First == WindowFor(CHOOSE l \in HostedLayers : \A k \in HostedLayers : l <= k)
WindowBytes == Max({WindowFor(l) : l \in HostedLayers})

\* build_staging and expert_cache.prepare, once every tensor has been stored.
FinishLoad ==
    /\ phase = "load"
    /\ Row \cup Dense \subseteq arrived
    /\ phase' = "serve"
    /\ window' = IF HostedLayers = {} THEN 0 ELSE WindowBytes
    /\ staged' = HostedLayers
    /\ pending' = IF Cached THEN HostedLayers ELSE {}
    /\ UNCHANGED <<conf, loadVars, cache, slots, measured, kv, measures>>

(***************************************************************************)
(* The slots, once vLLM has measured the memory left for its KV cache.      *)
(***************************************************************************)
First == CHOOSE l \in HostedLayers : \A k \in HostedLayers : l <= k

\* One more slot in every layer, sized by the first.
SlotRow == RowBytes * Cardinality(Labels(First)) * Cardinality(HostedLayers)

PerLayerMax == Max({Cardinality(HostRows(l, j)) : l \in HostedLayers, j \in Projection})

MayFree == Positive(conf.budget - spent)
Floor == Positive(expertBytes - MayFree)

Target_PastAvailable(available, reserve) ==
    Smaller(Larger(Positive(available - reserve), Floor), expertBytes)
Target_NoFloor(available, reserve) ==
    Smaller(Smaller(Positive(available - reserve), expertBytes), available)
Target(available, reserve) ==
    Smaller(Smaller(Larger(Positive(available - reserve), Floor), expertBytes), available)

\* size_slots, and the fixed count.
SlotsWanted(available, reserve) ==
    IF conf.mode = "fixed"
    THEN Smaller(FixedSlots, PerLayerMax)
    ELSE Smaller(PerLayerMax, Target(available, reserve) \div SlotRow)

Capacity(n) == [l \in Layers |-> Smaller(n, Cardinality(Hosted(l)))]

Used(capacity) ==
    Total([l \in HostedLayers |-> capacity[l] * RowBytes * Cardinality(Labels(l))])

HoldsEverything_First(capacity) == capacity[First] >= Cardinality(Hosted(First))
HoldsEverything(capacity) ==
    \A l \in HostedLayers : capacity[l] >= Cardinality(Hosted(l))

FreedWindow_Kept == 0

\* With a slot for every expert prefill reads the slots: the window goes to KV.
FreedWindow == window

\* build, and what it takes from the memory measured.
Build(available, reserve) ==
    LET n == SlotsWanted(available, reserve)
        capacity == Capacity(n)
    IN  IF n = 0
        THEN /\ kv' = available
             /\ UNCHANGED <<window, staged, cache, slots>>
        ELSE /\ slots' = capacity
             /\ IF HoldsEverything(capacity)
                THEN /\ cache' = "static"
                     /\ kv' = available - (Used(capacity) - FreedWindow)
                     /\ window' = 0
                     /\ staged' = {}
                ELSE /\ cache' = "live"
                     /\ kv' = available - Used(capacity)
                     /\ UNCHANGED <<window, staged>>

NowPending_Again == pending

\* _PENDING.clear()
NowPending == {}

\* determine_available_memory: the first call builds the cache.
Measure(available, reserve) ==
    /\ phase = "serve"
    /\ measures < MaxMeasures
    /\ measures' = measures + 1
    /\ pending' = NowPending
    /\ IF pending = {}
       THEN /\ kv' = available
            /\ UNCHANGED <<window, staged, cache, slots, measured>>
       ELSE /\ Build(available, reserve)
            /\ measured' = [available |-> available, reserve |-> reserve, window |-> window]
    /\ UNCHANGED <<conf, phase, loadVars>>

Next ==
    \/ \E d \in Dense : StoreDense(d)
    \/ \E r \in Row : StoreExpert(r)
    \/ FinishLoad
    \/ \E available \in Availables, reserve \in Reserves : Measure(available, reserve)

Spec == Init /\ [][Next]_vars

(***************************************************************************)
(* Properties.                                                              *)
(***************************************************************************)
\* Types; and a block is planned as soon as one of its rows has arrived.
TypeOK ==
    /\ conf \in Configurations
    /\ phase \in {"load", "serve"}
    /\ arrived \subseteq Row \cup Dense
    /\ {spent, expertBytes, window, measures} \subseteq Nat
    /\ quota \in -1 .. NumExperts
    /\ DOMAIN plan = {<<r[1], r[2]>> : r \in arrived \cap Row}
    /\ \A b \in DOMAIN plan : plan[b] \subseteq Matched(b)
    /\ staged \subseteq Layers /\ pending \subseteq Layers
    /\ cache \in {"none", "static", "live"}
    /\ slots \in [Layers -> 0 .. NumExperts]
    /\ measured = None \/ DOMAIN measured = {"available", "reserve", "window"}
    /\ kv = None \/ kv \in Int

\* Whatever order the tensors come in, dense ones between a block's experts
\* included, placement overruns --cpu-offload-gb by less than one tensor, since
\* each is checked before it is taken.
BudgetKept ==
    spent <= conf.tower \/ spent < conf.budget + Larger(RowBytes, DenseBytes)

\* With the cache on, every block hosts the same share of its experts, though
\* dense tensors go to the host between them and the RAM left keeps shrinking:
\* the quota is decided once, and placement stays even.
EvenShare ==
    Cached => \A b \in DOMAIN plan : plan[b] = Lowest(b, quota)

\* The host blocks fit the RAM _host_quota found, but for the rounding up of
\* each block's share to a whole row (and the dense tensors that come later,
\* which it does not count).
HostHolds ==
    Cached => expertBytes < Positive(conf.hostFree) + Blocks * RowBytes

\* Where placement puts a model's tensors stays within the budget, the quota and
\* the host's RAM.
PlacementKept == BudgetKept /\ EvenShare /\ HostHolds

\* The rows a layer stages share no byte of the window and lie within it, for
\* the layer with the most rows and for every other.
StagingFits ==
    \A l \in staged :
        LET rows == {r \in Projection \X Expert : r[2] \in HostRows(l, r[1])}
            Start(r) == RowOffset(l, r[1], r[2])
        IN  /\ \A r \in rows : Start(r) + RowBytes <= window
            /\ \A r, s \in rows : r # s => \/ Start(r) + RowBytes <= Start(s)
                                          \/ Start(s) + RowBytes <= Start(r)

\* The memory vLLM measured is all accounted for: what KV gets, what the slots
\* take, and what the window held at load and holds still.
MemoryAccounted ==
    measured # None /\ measures = 1
        => kv + Used(slots) + window = measured.available + measured.window

\* Slots sized for the KV reserve cut into it only as far as the budget forbids
\* giving up more experts, and never into memory that is not there.
ReserveKept ==
    conf.mode = "auto" /\ measured # None =>
        /\ Used(slots) <= measured.available
        /\ Used(slots) <= Larger(Positive(measured.available - measured.reserve), Floor)

\* The VRAM given up in all, by dense tensors and by experts without a slot,
\* stays within --cpu-offload-gb, but for one tensor at load and less than one
\* slot per layer, unless what vLLM measured has no room for another slot.
\* (For selectors that take the same experts of every block.)
FreedWithinBudget ==
    conf.mode = "auto" /\ conf.matching = Row /\ measured # None =>
        \/ spent - conf.tower + expertBytes - Used(slots)
             < Positive(conf.budget - conf.tower) + Larger(RowBytes, DenseBytes) + SlotRow
        \/ measured.available - Used(slots) < SlotRow

\* What slots, window and KV get of the measured memory is all of it, disjoint,
\* and no more than reserve and budget leave them.
MemoryKept == TypeOK /\ StagingFits /\ MemoryAccounted /\ ReserveKept /\ FreedWithinBudget

\* With the controller left out, every hosted expert of every layer has a slot,
\* and no layer stages into the window, which KV may own by now.
StaticHoldsAll ==
    cache = "static" =>
        /\ \A l \in HostedLayers : Hosted(l) # {} /\ slots[l] >= Cardinality(Hosted(l))
        /\ staged = {}

\* Slots and cache are what graphs capture: a later call of
\* determine_available_memory changes neither.
BuiltOnce == [][measured # None => UNCHANGED <<cache, slots, window, staged>>]_vars
=============================================================================
