----------------------------- MODULE ShardLoad -----------------------------
(***************************************************************************)
(* How one EXL3 layer's stored tensors are collected, cut for tensor       *)
(* parallelism and checked: EXL3Parameter and EXL3LinearMethod             *)
(* (quantization/linear.py), the head (lm_head.py), the routed experts     *)
(* (fused_moe.py), with the rules of tp.py and format.py.                  *)
(*                                                                         *)
(* A stored tensor is the range of input and output channels it spans, and *)
(* a slice the part of them a rank keeps: widths are what cutting,         *)
(* padding and trimming are about.  Every rank reads the same stream of    *)
(* tensors and none looks at another, so a step hands a tensor to them     *)
(* all.  Modules arrive one after another, and a module's tensors, in any  *)
(* order.                                                                  *)
(***************************************************************************)
EXTENDS Integers, FiniteSets, Sequences, SequencesExt, FiniteSetsExt

CONSTANTS
    HadBlock,     \* HAD_BLOCK, and what exllamav3 pads dimensions to
    Tile,         \* TILE: the granularity a trellis is stored in
    VocabPad,     \* what vLLM pads a vocabulary to
    Tolerance,    \* _DIVISOR_LOG2_TOLERANCE, in hundredths
    Layers,       \* the layers vLLM may build
    Checkpoints(_) \* what is particular about a checkpoint, for a kind of layer

\* A layer: its kind, the ranks, the unsplit input width, the unsplit width of
\* each output shard, the shards each stored tensor covers, the KV heads of an
\* attention projection and the experts of a routed layer.
LayerOf == [kind : {"column", "row", "merged", "qkv", "head", "moe"}, tp : Nat \ {0},
            in : Nat \ {0}, out : Seq(Nat \ {0}), stored : Seq(Seq(Nat)),
            kvHeads : Nat, experts : Nat]
\* A checkpoint: tensors it lacks, whether it is a narrower model's, the bit
\* widths of the experts, the power of two folded into `up` and the calibration
\* noise on each expert's measure of it (in hundredths, in log2).
CheckpointOf == [lacks : SUBSET {"suh", "svh", "trellis"}, narrow : BOOLEAN,
                 bits : Seq(Seq(Nat)), scale : Nat, noise : Seq(Int)]

Divides(d, n) == n % d = 0
ASSUME ShardAssumption ==
    /\ {HadBlock, Tile, VocabPad} \subseteq Nat \ {0} /\ Tolerance \in 0 .. 49
    /\ Divides(Tile, HadBlock) /\ Divides(VocabPad, HadBlock)
    /\ \A y \in Layers :
         /\ y \in LayerOf /\ Checkpoints(y.kind) \subseteq CheckpointOf
         \* Every output shard is stored in one tensor.
         /\ \A m \in ToSet(y.stored) : m # <<>> /\ IsInjective(m) /\ ToSet(m) \subseteq DOMAIN y.out
         /\ \A m, n \in ToSet(y.stored) : m = n \/ ToSet(m) \cap ToSet(n) = {}
         /\ y.kind # "moe" => UNION {ToSet(m) : m \in ToSet(y.stored)} = DOMAIN y.out
         /\ y.kind \in {"column", "row", "head"} => Len(y.out) = 1 /\ y.stored = <<<<1>>>>
         /\ y.kind = "moe" => /\ Len(y.out) = 1 /\ y.experts > 0
                              /\ \A c \in Checkpoints("moe") :
                                   /\ Len(c.noise) = y.experts /\ Len(c.bits) = 3
                                   /\ \A p \in 1 .. 3 : Len(c.bits[p]) = y.experts
         /\ y.kind \in {"column", "merged", "qkv"} => \A i \in DOMAIN y.out : Divides(y.tp, y.out[i])
         /\ y.kind = "row" => Divides(y.tp, y.in)
         /\ y.kind = "qkv" => /\ Len(y.out) = 3 /\ y.out[2] = y.out[3]
                              /\ y.kvHeads > 0 /\ Divides(y.kvHeads, y.out[2])
                              /\ Divides(y.tp, y.kvHeads) \/ Divides(y.kvHeads, y.tp)

VARIABLES
    layer, ck,    \* the layer and the checkpoint at hand
    stream,       \* whether the layer is built, the modules still to arrive, and
                  \* the module under way with its tensors still to arrive
    held,         \* the collectors of each rank: (name, shard) -> slice
    state,        \* each rank: "loading", "served" or "refused"
    resident,     \* what a rank keeps once its layer is served
    divisor       \* exl3_interm_div of a rank, as a power of two

vars == <<layer, ck, stream, held, state, resident, divisor>>

Names == {"suh", "svh", "trellis"}
Rank == 0 .. layer.tp - 1
Up(n, to) == ((n + to - 1) \div to) * to
PadDim(n) == Up(n, HadBlock)
Aligned(n) == n % HadBlock = 0

(***************************************************************************)
(* What vLLM asks of a layer on each rank.                                  *)
(***************************************************************************)
Replicas == IF layer.kind = "qkv" /\ layer.kvHeads < layer.tp THEN layer.tp \div layer.kvHeads ELSE 1
Padded == Up(layer.out[1], VocabPad)   \* of the head

\* output_partition_sizes[i]
OutSize(i) ==
    IF layer.kind \in {"row", "moe"} THEN layer.out[i]
    ELSE IF layer.kind = "head" THEN Padded \div layer.tp
    ELSE IF layer.kind = "qkv" /\ i > 1 /\ Replicas > 1 THEN layer.out[i] \div layer.kvHeads
    ELSE layer.out[i] \div layer.tp
InSize == IF layer.kind = "row" THEN layer.in \div layer.tp ELSE layer.in

(***************************************************************************)
(* Stored tensors.                                                          *)
(***************************************************************************)
Projection == <<"w1", "w3", "w2">>   \* gate, up, down
Experts == 1 .. layer.experts
Modules == IF layer.kind = "moe" THEN {<<p, e>> : p \in ToSet(Projection), e \in Experts}
           ELSE ToSet(layer.stored)
Narrower(n) == IF ck.narrow THEN n - HadBlock ELSE n

\* The sum of a function's values.
Total(f) == Cardinality(UNION {{x} \X (1 .. f[x]) : x \in DOMAIN f})

StoredIn(m) == PadDim(IF layer.kind = "moe" /\ m[1] = "w2" THEN layer.out[1] ELSE layer.in)
StoredOut(m) ==
    IF layer.kind = "moe" THEN PadDim(IF m[1] = "w2" THEN layer.in ELSE layer.out[1])
    ELSE Narrower(PadDim(Total([i \in DOMAIN m |-> layer.out[m[i]]])))

Whole(m) == [in |-> <<0, StoredIn(m)>>, out |-> <<0, StoredOut(m)>>]

\* A Python slice: it stops where the tensor does.
Cut(n, first, last) == <<Min({first, n}), Max({Min({first, n}), Min({last, n})})>>
Tiles(n) == (n \div Tile) * Tile
Wide(span) == span[2] - span[1]

ShardColumn_ScalesToo(name, m, first, last) ==
    [Whole(m) EXCEPT !.out = IF name = "trellis" THEN Cut(@[2], Tiles(first), Tiles(last)) ELSE @]
\* A column split leaves suh whole; a row split leaves svh whole.
ShardColumn(name, m, first, last) ==
    CASE name = "trellis" -> [Whole(m) EXCEPT !.out = Cut(@[2], Tiles(first), Tiles(last))]
      [] name = "svh"     -> [Whole(m) EXCEPT !.out = Cut(@[2], first, last)]
      [] name = "suh"     -> Whole(m)
ShardRow(name, m, first, last) ==
    CASE name = "trellis" -> [Whole(m) EXCEPT !.in = Cut(@[2], Tiles(first), Tiles(last))]
      [] name = "suh"     -> [Whole(m) EXCEPT !.in = Cut(@[2], first, last)]
      [] name = "svh"     -> Whole(m)

TakeColumn(name, m, size, index) ==
    IF layer.tp = 1 THEN Whole(m) ELSE ShardColumn(name, m, index * size, index * size + size)
TakeRow(name, m, size, index) ==
    IF layer.tp = 1 THEN Whole(m) ELSE ShardRow(name, m, index * size, index * size + size)

(***************************************************************************)
(* The load_* entry points: what rank r stores of a tensor, shard by shard, *)
(* or Refused.                                                              *)
(***************************************************************************)
Refused == <<>>

\* fused_shard_bounds: the spans of the covered shards and of this rank in
\* each compose, as vLLM's sizes are per rank.
FusedOffset_PerRank(m, j) == Total([i \in 1 .. j - 1 |-> OutSize(m[i])])
FusedOffset(m, j) == layer.tp * Total([i \in 1 .. j - 1 |-> OutSize(m[i])])

Fused(name, m, r) ==
    IF \E j \in DOMAIN m : ~Aligned(OutSize(m[j])) THEN Refused
    ELSE [i \in ToSet(m) |->
            LET j == CHOOSE k \in DOMAIN m : m[k] = i
                first == FusedOffset(m, j) + r * OutSize(i)
            IN  ShardColumn(name, m, first, first + OutSize(i))]

\* Ranks that share a KV head read the same slice.
KvIndex_OfRank(r) == r
KvIndex(r) == r \div Replicas

LoadMerged(name, m, r) ==
    IF Len(m) > 1 THEN Fused(name, m, r)
    ELSE [i \in ToSet(m) |-> TakeColumn(name, m, OutSize(i), r)]
LoadQkv(name, m, r) ==
    IF Len(m) > 1 THEN Fused(name, m, r)
    ELSE [i \in ToSet(m) |-> TakeColumn(name, m, OutSize(i), IF i = 1 THEN r ELSE KvIndex(r))]

\* The stored intermediate width is split, not the model's: as output channels
\* of gate and up, as input channels of down.
Intermediate(m) == IF m[1] = "w2" THEN StoredIn(m) ELSE StoredOut(m)
CheckSplit(dim) == layer.tp = 1 \/ (Divides(layer.tp, dim) /\ Aligned(dim \div layer.tp))
SplitWidth_Model(m) == layer.out[1] \div layer.tp
SplitWidth(m) == Intermediate(m) \div layer.tp

LoadExpert(name, m, r) ==
    LET replicated == name = IF m[1] = "w2" THEN "svh" ELSE "suh"
        size == SplitWidth(m)
    IN  IF ~replicated /\ ~CheckSplit(Intermediate(m)) THEN Refused
        ELSE [i \in {m} |-> IF m[1] = "w2" THEN TakeRow(name, m, size, r)
                            ELSE TakeColumn(name, m, size, r)]

Taken(name, m, r) ==
    CASE layer.kind \in {"column", "head"} -> [i \in {1} |-> TakeColumn(name, m, OutSize(1), r)]
      [] layer.kind = "row"    -> [i \in {1} |-> TakeRow(name, m, InSize, r)]
      [] layer.kind = "merged" -> LoadMerged(name, m, r)
      [] layer.kind = "qkv"    -> LoadQkv(name, m, r)
      [] layer.kind = "moe"    -> LoadExpert(name, m, r)

(***************************************************************************)
(* Building the layer and loading it.                                       *)
(***************************************************************************)
\* The head's create_weights: its slice of the padded vocabulary.
ValidHead == CheckSplit(OutSize(1) * layer.tp)

\* create_weights: only the dimension that is split has to be whole blocks.
ValidTp ==
    CASE layer.kind = "row"  -> CheckSplit(layer.in)
      [] layer.kind = "moe"  -> TRUE
      [] layer.kind = "head" -> ValidHead
      [] OTHER -> \A i \in DOMAIN layer.out : CheckSplit(OutSize(i) * layer.tp)

NoSlices == [k \in {} |-> {}]

CreateWeights ==
    /\ ~stream.built
    /\ stream' = [stream EXCEPT !.built = TRUE, !.left = Modules]
    /\ state' = [r \in Rank |-> IF ValidTp THEN "loading" ELSE "refused"]
    /\ UNCHANGED <<layer, ck, held, resident, divisor>>

Sent(m) == {n \in Names : ~(n \in ck.lacks /\ m = CHOOSE x \in Modules : TRUE)}

NextModule(m) ==
    /\ stream.names = {} /\ m \in stream.left
    /\ stream' = [stream EXCEPT !.left = @ \ {m}, !.now = m, !.names = Sent(m)]
    /\ UNCHANGED <<layer, ck, held, state, resident, divisor>>

Store(slices, name, taken) ==
    [k \in DOMAIN slices \cup ({name} \X DOMAIN taken) |->
        IF k[1] = name /\ k[2] \in DOMAIN taken THEN taken[k[2]] ELSE slices[k]]

Load(name) ==
    /\ name \in stream.names
    /\ LET taken == [r \in Rank |-> Taken(name, stream.now, r)]
       IN  /\ stream' = [stream EXCEPT !.names = @ \ {name}]
           /\ state' = [r \in Rank |-> IF taken[r] = Refused THEN "refused" ELSE state[r]]
           /\ held' = [r \in Rank |-> IF state'[r] = "loading" THEN Store(held[r], name, taken[r])
                                      ELSE held[r]]
    /\ UNCHANGED <<layer, ck, resident, divisor>>

(***************************************************************************)
(* process_weights_after_loading.                                           *)
(***************************************************************************)
Loaded == stream.built /\ stream.left = {} /\ stream.names = {}
Keys == IF layer.kind = "moe" THEN Modules ELSE DOMAIN layer.out
Complete(r) == \A n \in Names, i \in Keys : <<n, i>> \in DOMAIN held[r]
Of(slices, name, i) == slices[<<name, i>>]

\* The widths a shard must have, from vLLM's sizes.
WantedIn == PadDim(InSize)
WantedOut(i) == PadDim(IF layer.kind = "head" /\ layer.tp = 1 THEN layer.out[1] ELSE OutSize(i))

CheckShapes_Trellis(r, i) ==
    /\ Wide(Of(held[r], "trellis", i).in) = WantedIn
CheckShapes(r, i) ==
    /\ Wide(Of(held[r], "trellis", i).in) = WantedIn
    /\ Wide(Of(held[r], "trellis", i).out) = WantedOut(i)
    /\ Wide(Of(held[r], "suh", i).in) = WantedIn
    /\ Wide(Of(held[r], "svh", i).out) = WantedOut(i)

\* Rows of this rank's slice that are real vocabulary.
RealRows(r) == Max({0, Min({layer.out[1], (r + 1) * OutSize(1)}) - Min({layer.out[1], r * OutSize(1)})})
\* The shard indices the checks run over; an index nothing was stored for
\* refuses the layer.
LinearFits(r) == Complete(r) /\ \A i \in Keys : CheckShapes(r, i)
HeadFits(r) == LinearFits(r) /\ RealRows(r) <= OutSize(1)

Bits(m) == ck.bits[CHOOSE p \in DOMAIN Projection : Projection[p] = m[1]][m[2]]

\* Median of the experts' measures (the lower of two), snapped to the nearest
\* power of two.
Measured(e) == 100 * ck.scale + ck.noise[e]
UpTo(x) == {e \in Experts : Measured(e) <= x}
Median ==
    LET half == {e \in Experts : 2 * Cardinality(UpTo(Measured(e))) >= layer.experts}
    IN  Min({Measured(e) : e \in half})
Mean == Total([e \in Experts |-> Measured(e)]) \div layer.experts
Ratio_Mean == Mean
Ratio == Median
Nearest == (Ratio + 50) \div 100
Recovered == Nearest = 0 \/ (Nearest > 0 /\ Ratio - 100 * Nearest \in -Tolerance .. Tolerance)

\* One K and one shape per call of the kernel, gate and up alike.
ExpertsFit(r) ==
    /\ Complete(r)
    /\ \A p \in ToSet(Projection), n \in Names, d, e \in Experts :
         /\ Of(held[r], n, <<p, d>>) = Of(held[r], n, <<p, e>>)
         /\ n = "trellis" => Bits(<<p, d>>) = Bits(<<p, e>>)
    /\ Bits(<<"w1", 1>>) = Bits(<<"w3", 1>>)
    /\ Recovered

Process(r) ==
    /\ Loaded /\ state[r] = "loading"
    /\ LET fits == CASE layer.kind = "moe"  -> ExpertsFit(r)
                     [] layer.kind = "head" -> HeadFits(r)
                     [] OTHER -> LinearFits(r)
       IN  /\ state' = [state EXCEPT ![r] = IF fits THEN "served" ELSE "refused"]
           /\ resident' = IF fits THEN [resident EXCEPT ![r] = held[r]] ELSE resident
           /\ divisor' = IF fits /\ layer.kind = "moe" THEN [divisor EXCEPT ![r] = Nearest] ELSE divisor
           /\ held' = IF fits THEN [held EXCEPT ![r] = NoSlices] ELSE held
    /\ UNCHANGED <<layer, ck, stream>>

Init ==
    /\ layer \in Layers
    /\ ck \in Checkpoints(layer.kind)
    /\ stream = [built |-> FALSE, left |-> {}, now |-> <<>>, names |-> {}]
    /\ state = [r \in Rank |-> "loading"]
    /\ held = [r \in Rank |-> NoSlices] /\ resident = held
    /\ divisor = [r \in Rank |-> 0]

Next ==
    \/ CreateWeights
    \/ /\ \E r \in Rank : state[r] # "refused"
       /\ \/ \E m \in Modules : NextModule(m)
          \/ \E name \in Names : Load(name)
    \/ \E r \in Rank : Process(r)

Spec == Init /\ [][Next]_vars

(***************************************************************************)
(* apply.                                                                   *)
(***************************************************************************)
\* The stored channels whose outputs a linear returns: exllamav3's output
\* padding, which holds quantization noise, is cut off.
Trim_Never(r, i) == Of(resident[r], "svh", i).out
Trim(r, i) == LET span == Of(resident[r], "svh", i).out
              IN  <<span[1], Min({span[2], span[1] + OutSize(i)})>>

Zero == -1
\* vLLM's width, the rows beyond the real vocabulary at zero.
Extends_OnlyWidth(r, width) == width # OutSize(1)
Extends(r, width) == width # OutSize(1) \/ RealRows(r) < OutSize(1)
Logit(r, p) ==
    LET span == Of(resident[r], "svh", 1).out
    IN  IF Extends(r, Wide(span)) /\ p >= RealRows(r) THEN Zero ELSE span[1] + p

(***************************************************************************)
(* Properties.                                                              *)
(***************************************************************************)
Widest == Max(UNION {{StoredIn(m), StoredOut(m)} : m \in Modules})

TypeOK ==
    /\ state \in [Rank -> {"loading", "served", "refused"}]
    /\ \A r \in Rank :
         /\ \A k \in DOMAIN held[r] : k[1] \in Names /\ k[2] \in Keys
         /\ \A slice \in Range(held[r]) : \A span \in {slice.in, slice.out} :
              0 <= span[1] /\ span[1] <= span[2] /\ span[2] <= Widest
    /\ \A r \in Rank : state[r] = "served" => held[r] = NoSlices
    /\ divisor \in [Rank -> Nat]

Serving == \A r \in Rank : state[r] = "served"

\* The output channels of shard i that are rank r's by vLLM's partition of the
\* unsplit layer, in the tensor that stores them.
ModuleOf(i) == CHOOSE m \in Modules : i \in ToSet(m)
Before(i) == LET m == ModuleOf(i)
                 j == CHOOSE k \in DOMAIN m : m[k] = i
             IN  Total([k \in 1 .. j - 1 |-> layer.out[m[k]]])
Owned(r, i) ==
    LET n == layer.out[i]
        groups == IF layer.kind = "row" THEN 1
                  ELSE IF layer.kind = "qkv" /\ i > 1 THEN Min({layer.kvHeads, layer.tp}) ELSE layer.tp
        mine == (r * groups) \div layer.tp
    IN  {c \in 0 .. n - 1 : (c * groups) \div n = mine}

\* The two paddings of the vocabulary never meet: each rank's logits are the
\* real rows of its part of vLLM's partition, and zero beyond them.
HeadRows ==
    Serving /\ layer.kind = "head" =>
        \A r \in Rank, p \in 0 .. OutSize(1) - 1 :
            Logit(r, p) = LET row == r * OutSize(1) + p
                          IN  IF row < layer.out[1] THEN row ELSE Zero

\* However a layer's tensors are split, fused, padded or replicated, and in
\* whatever order they came: when every rank serves it, each rank returns the
\* output channels that are its own, all of them and nothing of the padding,
\* from the input channels it is given.
LinearChannels ==
    Serving /\ layer.kind \notin {"head", "moe"} =>
        \A r \in Rank, i \in DOMAIN layer.out :
            LET span == Trim(r, i)
                rows == Of(resident[r], "suh", i).in
            IN  /\ span[1] .. span[2] - 1 = {Before(i) + c : c \in Owned(r, i)}
                /\ rows[1] = IF layer.kind = "row" THEN r * InSize ELSE 0
                /\ Wide(rows) >= InSize

\* What the ranks return together is what the unsplit layer would.
RanksPartition == LinearChannels /\ HeadRows

\* "A split at, say, 64 slices cleanly and produces wrong numbers silently":
\* what a rank keeps of a tensor, scales as well as trellis, is whole Hadamard
\* blocks, and the three cover the same channels.
BlocksWhole ==
    \A r \in Rank : state[r] = "served" =>
        \A i \in Keys :
            LET t == Of(resident[r], "trellis", i)
            IN  /\ \A c \in {t.in[1], t.in[2], t.out[1], t.out[2]} : Aligned(c)
                /\ Of(resident[r], "suh", i).in = t.in
                /\ Of(resident[r], "svh", i).out = t.out

\* Every slice a rank keeps is one its kernels can multiply by.
SlicesSound == TypeOK /\ BlocksWhole

\* The intermediate channels a rank's gate and up produce are those its down
\* projection reads, the ranks divide them, and the routing weights make up for
\* exactly the constant that was folded into `up`.
ExpertsMeet ==
    Serving /\ layer.kind = "moe" =>
        \A r \in Rank, e \in Experts :
            LET mine == Of(resident[r], "trellis", <<"w1", e>>).out
            IN  /\ Of(resident[r], "trellis", <<"w3", e>>).out = mine
                /\ Of(resident[r], "trellis", <<"w2", e>>).in = mine
                /\ mine[1] = IF r = 0 THEN 0 ELSE Of(resident[r - 1], "trellis", <<"w1", e>>).out[2]
                /\ r = layer.tp - 1 => mine[2] = PadDim(layer.out[1])
                /\ divisor[r] = ck.scale

\* What can be split exactly is not refused: a whole checkpoint of this model
\* is served on every rank, whatever order its tensors come in.
Exact ==
    LET blocks(n) == layer.tp = 1 \/ n % (layer.tp * HadBlock) = 0
        kv(i) == Aligned(layer.out[i] \div Min({layer.kvHeads, layer.tp}))
    IN  CASE layer.kind = "row"  -> blocks(layer.in)
          [] layer.kind = "head" -> blocks(Padded)
          [] layer.kind = "moe"  -> blocks(PadDim(layer.out[1]))
          [] layer.kind = "qkv"  -> blocks(layer.out[1]) /\ (layer.tp = 1 \/ (kv(2) /\ kv(3)))
          [] OTHER -> \A i \in DOMAIN layer.out : blocks(layer.out[i])
Cuttable == \A m \in Modules : layer.kind # "moe" /\ Len(m) > 1 =>
                Replicas = 1 /\ \A i \in ToSet(m) : Aligned(OutSize(i))
Sound == /\ ck.lacks = {} /\ ~ck.narrow
         /\ layer.kind = "moe" =>
              /\ \A p \in DOMAIN Projection : Cardinality(ToSet(ck.bits[p])) = 1
              /\ ck.bits[1] = ck.bits[2]
              /\ 2 * Cardinality({e \in Experts : ck.noise[e] \in -Tolerance .. Tolerance})
                   > layer.experts
ExactServed == Exact /\ Cuttable /\ Sound => \A r \in Rank : state[r] # "refused"
=============================================================================
