------------------------- MODULE CheckpointCompose -------------------------
(***************************************************************************)
(* src/tools/compose_checkpoint.py: a checkpoint put together from the     *)
(* modules of several conversions of one model. The rules of the command   *)
(* line are resolved one after another into `assign` (module -> donor) and *)
(* `restore` (quantized module -> donor of its dense weights); the choice  *)
(* is checked; then the output is written shard by shard, a shard holding  *)
(* no replaced tensor as a hardlink of the base's, the index after the     *)
(* shards and quantization_config.json last.                               *)
(*                                                                         *)
(* A checkpoint is a function from modules to what they store; a tensor is *)
(* <<module, part>>, and "suh" stands for suh and svh, which always travel *)
(* together. Bytes are not modelled: a stored tensor is known by the       *)
(* directory it was read from.                                             *)
(***************************************************************************)
EXTENDS Naturals, Sequences, FiniteSets, FiniteSetsExt, SequencesExt

CONSTANTS
  Base,          \* the checkpoint to start from
  Donors,        \* checkpoints --from may name
  Checkpoints,   \* [Base and Donors -> [some modules -> Stored]]
  Home,          \* [modules of the base -> [parts -> shards]]: the base's layout
  Shards,        \* the base's shards, 1..n in the order of their names
  HeadModules, VisionModules,   \* what the "head" and "vision" categories match
  Alike,         \* donors whose config.json names the base's architecture
  Faithful,      \* dense donors the base really was converted from
  Selectors,     \* the selectors the command line may use
  Recipes,       \* the recipes --map may name: [some modules -> bits]
  Sample,        \* --verify N
  MaxRules       \* bound: rules on one command line

NoDonor == "none"
Dirs == {Base} \cup Donors
Modules == DOMAIN Checkpoints[Base]
PartOrder == <<"bias", "mcg", "mul1", "suh", "trellis", "weight">>
Part == ToSet(PartOrder)

\* bits = 0: stored dense. `listed`: the directory's tensor_storage has the module.
Stored == [bits : 0..8, code : {"default", "mcg", "mul1"}, bias : BOOLEAN,
           dims : Nat, listed : BOOLEAN]

ASSUME ComposeAssumption ==
  /\ Base \notin Donors
  /\ \A d \in Dirs : \A m \in DOMAIN Checkpoints[d] : Checkpoints[d][m] \in Stored
  /\ IsFiniteSet(Shards) /\ Shards # {} /\ Shards = 1..Cardinality(Shards)
  /\ Home \in [Modules -> [Part -> Shards]]
  /\ Selectors \subseteq {"quantized", "body", "head", "vision", "all"}
  /\ Alike \subseteq Donors /\ Faithful \subseteq Donors
  /\ Sample \in Nat /\ MaxRules \in Nat

VARIABLES
  pc,        \* "rules", "write", "files", "index", "config", "ended"
  next,      \* the shard to write next
  said,      \* rules read so far
  current,   \* the donor of the last --from, NoDonor before
  opened,    \* the donors read so far, in the order of their first --from
  assign, restore,
  out,       \* shard -> its state, and the tensors of a whole one with their origin
  side,      \* the other files of the output
  index,     \* weight_map of the output's index, <<>> before it is written
  config,    \* quantization_config.json of the output, <<>> before it is written
  shared,    \* entries of the output that are hardlinks of the base's files
  damaged    \* files of the base that were written through such a link

plan == <<current, opened, assign, restore>>
disk == <<out, side, index, config, shared, damaged>>
composeVars == <<pc, next, said, plan, disk>>

(***************************************************************************)
(* Checkpoints                                                             *)
(***************************************************************************)
Parts(s) ==
  (IF s.bits = 0 THEN {"weight"}
   ELSE {"trellis", "suh"} \cup (IF s.code = "default" THEN {} ELSE {s.code}))
  \cup (IF s.bias THEN {"bias"} ELSE {})

ModulesOf(d) == DOMAIN Checkpoints[d]
QuantizedOf(d) == {m \in ModulesOf(d) : Checkpoints[d][m].bits > 0}

\* The tensors of module m as directory d stores them, with their origin.
TensorsFrom(d, m) == {[module |-> m, part |-> p, dir |-> d] : p \in Parts(Checkpoints[d][m])}

\* What a restore brings of the donor's module: nothing of an EXL3 storage.
DenseFrom(d, m) == {t \in TensorsFrom(d, m) : t.part \in {"weight", "bias"}}

\* The shard a module's replacement lands in: that of its first tensor by name.
Landing(m) ==
  LET first == CHOOSE i \in DOMAIN PartOrder :
                 /\ PartOrder[i] \in Parts(Checkpoints[Base][m])
                 /\ \A j \in 1..(i - 1) : PartOrder[j] \notin Parts(Checkpoints[Base][m])
  IN  Home[m][PartOrder[first]]

BaseShard(s) ==
  {t \in UNION {TensorsFrom(Base, m) : m \in Modules} : Home[t.module][t.part] = s}

\* Mutant: a rule leaves what an earlier one made of its modules.
Without_Nothing(f, S) == f

Without(f, S) == [m \in DOMAIN f \ S |-> f[m]]
Put(f, S, d) == [m \in DOMAIN f \cup S |-> IF m \in S THEN d ELSE f[m]]

Select(sel, d) ==
  CASE sel = "quantized" -> QuantizedOf(d)
    [] sel = "body"      -> QuantizedOf(d) \ (HeadModules \cup VisionModules)
    [] sel = "head"      -> ModulesOf(d) \cap HeadModules
    [] sel = "vision"    -> ModulesOf(d) \cap VisionModules
    [] sel = "all"       -> ModulesOf(d)

(***************************************************************************)
(* The rules                                                               *)
(***************************************************************************)
NoFile == [state |-> "none", tensors |-> {}]
Torn == [state |-> "torn", tensors |-> {}]
Whole(S) == [state |-> "whole", tensors |-> S]

\* Mutant: an output directory that is not empty is written again.
Empty_Unasked == TRUE

Empty == side = {} /\ \A s \in Shards : out[s] = NoFile

FreshPlan == current = NoDonor /\ opened = <<>> /\ assign = <<>> /\ restore = <<>>

ComposeInit ==
  /\ pc = "rules" /\ next = 1 /\ said = 0 /\ FreshPlan
  /\ out = [s \in Shards |-> NoFile] /\ side = {} /\ index = <<>> /\ config = <<>>
  /\ shared = {} /\ damaged = {}

Reading == pc = "rules" /\ said < MaxRules
Exit == pc' = "ended" /\ UNCHANGED <<next, said, plan, disk>>

Resolved(a, r) ==
  /\ assign' = a /\ restore' = r /\ said' = said + 1
  /\ UNCHANGED <<pc, next, current, opened, disk>>

From(d) ==
  /\ Reading
  /\ current' = d
  /\ opened' = IF d \in ToSet(opened) THEN opened ELSE Append(opened, d)
  /\ said' = said + 1
  /\ UNCHANGED <<pc, next, assign, restore, disk>>

Keep(sel) ==
  /\ Reading
  /\ Resolved(Without(assign, Select(sel, Base)), Without(restore, Select(sel, Base)))

\* Composition replaces modules; it cannot add them.
Missing_Unasked(chosen) == {}   \* mutant: the question is not asked

Missing(chosen) == chosen \ Modules

Take(sel) ==
  /\ Reading /\ current # NoDonor
  /\ LET chosen == Select(sel, current) IN
     IF Missing(chosen) = {}
     THEN
          /\ Resolved(Put(assign, chosen, current), Without(restore, chosen))
     ELSE Exit

\* Selected from the base: only what it stores quantized can be restored.
Restore(sel) ==
  /\ Reading /\ current # NoDonor
  /\ LET chosen == Select(sel, Base) \cap QuantizedOf(Base) IN
     IF chosen # {} /\ chosen \subseteq ModulesOf(current)
     THEN
          /\ Resolved(Without(assign, chosen), Put(restore, chosen, current))
     ELSE Exit

\* Which of the donors, in the order of their first --from, carry m at that width.
CarriedBy(m, bits) ==
  {i \in DOMAIN opened : /\ m \in ModulesOf(opened[i])
                         /\ Checkpoints[opened[i]][m].bits = bits}

\* A module the BASE stores at the width is passed over, whatever an earlier
\* rule made of it.
Noop(r) == {m \in DOMAIN r : Checkpoints[Base][m].bits = r[m]}

MapRule(r) ==
  /\ Reading /\ current # NoDonor
  /\ IF /\ DOMAIN r \subseteq Modules
        /\ \A m \in DOMAIN r \ Noop(r) : CarriedBy(m, r[m]) # {}
     THEN LET placed == DOMAIN r \ Noop(r) IN
          Resolved([m \in DOMAIN assign \cup placed |->
                      IF m \in placed THEN opened[Min(CarriedBy(m, r[m]))] ELSE assign[m]],
                   Without(restore, placed))
     ELSE Exit

(***************************************************************************)
(* The checks                                                              *)
(***************************************************************************)
Quantized(s) == s.bits > 0

\* check_module: bit width and codebook may differ, nothing else.
Unliftable(m, d) ==
  LET b == Checkpoints[Base][m]  s == Checkpoints[d][m] IN
    \/ Quantized(b) # Quantized(s)
    \/ b.dims # s.dims
    \/ b.bias # s.bias

\* check_restore_module; `dims` are the padded ones on both sides.
Unrestorable(m, d) ==
  LET b == Checkpoints[Base][m]  s == Checkpoints[d][m] IN
    \/ Quantized(s)
    \/ b.dims # s.dims
    \/ b.bias /\ ~s.bias

PlanErrors ==
  \/ \E d \in ToSet(opened) : d \notin Alike
  \/ \E m \in DOMAIN restore : Unrestorable(m, restore[m])

\* What verify_restores may decode: the order of the names, which decides, is
\* abstracted. Nothing without a GPU, or once an error has been found.
Picks ==
  {{}} \cup {S \in SUBSET DOMAIN restore :
              ~PlanErrors /\ Cardinality(S) = IF Cardinality(DOMAIN restore) < Sample
                                             THEN Cardinality(DOMAIN restore) ELSE Sample}

\* What is refused without --force.
Problems(picks) ==
  \/ PlanErrors
  \/ \E m \in picks : restore[m] \notin Faithful
  \/ \E m \in DOMAIN assign : Unliftable(m, assign[m])

\* The rules are all read: main's checks, and write()'s first one.
Approve ==
  /\ pc = "rules"
  /\ \E picks \in Picks, force, dryrun \in BOOLEAN :
       LET nothing == assign = <<>> /\ restore = <<>>
       IN  pc' = IF nothing \/ (Problems(picks) /\ ~force) \/ dryrun \/ ~Empty
                 THEN "ended" ELSE "write"
  /\ next' = 1
  /\ UNCHANGED <<said, plan, disk>>

(***************************************************************************)
(* The output                                                              *)
(***************************************************************************)
Moved == DOMAIN assign \cup DOMAIN restore
Incoming(m) == IF m \in DOMAIN assign THEN TensorsFrom(assign[m], m) ELSE DenseFrom(restore[m], m)

\* Mutant: a shard whose modules are only restored is linked.
Rewritten_Assigned == {Landing(m) : m \in DOMAIN assign}

Rewritten == {Landing(m) : m \in Moved}

\* A rewritten shard loses the tensors of the modules that land in it and gains
\* theirs from the donors; the rest is copied from the base.
Rewrite(s) ==
  LET here == {m \in Moved : Landing(m) = s} IN
  {t \in BaseShard(s) : t.module \notin here} \cup UNION {Incoming(m) : m \in here}

\* open(path, "w") on an entry that is a hardlink writes the base's file.
Overwrite(entry) == damaged' = damaged \cup ({entry} \cap shared)

WriteShard ==
  /\ pc = "write"
  /\ IF next \in Rewritten
     THEN /\ out' = [out EXCEPT ![next] = Whole(Rewrite(next))]
          /\ Overwrite(<<"shard", next>>)
          /\ UNCHANGED shared
     ELSE /\ out' = [out EXCEPT ![next] = Whole(BaseShard(next))]   \* link_or_copy
          /\ shared' = shared \cup {<<"shard", next>>}
          /\ UNCHANGED damaged
  /\ next' = next + 1
  /\ pc' = IF next = Cardinality(Shards) THEN "files" ELSE "write"
  /\ UNCHANGED <<said, plan, side, index, config>>

Index == "model.safetensors.index.json"
Config == "quantization_config.json"
BaseFiles == {"config.json", "tokenizer.json", Index, Config}

Travels == BaseFiles \ {Index, Config}

CopyFiles ==
  /\ pc = "files" /\ pc' = "index"
  /\ side' = side \cup Travels
  /\ shared' = shared \cup ({"file"} \X Travels)
  /\ UNCHANGED <<next, said, plan, out, index, config, damaged>>

NameOf(t) == <<t.module, t.part>>
Holds(s, n) == \E t \in out[s].tensors : NameOf(t) = n

\* weight_map: the shards in order of their names, the last that has the tensor wins.
WriteIndex ==
  /\ pc = "index" /\ pc' = "config"
  /\ index' = [n \in {NameOf(t) : t \in UNION {out[s].tensors : s \in Shards}} |->
                 CHOOSE s \in Shards : Holds(s, n) /\ \A r \in Shards : r > s => ~Holds(r, n)]
  /\ side' = side \cup {Index}
  /\ Overwrite(<<"file", Index>>)
  /\ UNCHANGED <<next, said, plan, out, config, shared>>

\* What a tensor_storage entry says of a module.
Described(d, m) == [bits |-> Checkpoints[d][m].bits, parts |-> Parts(Checkpoints[d][m])]
Listing(d) == {m \in ModulesOf(d) : Checkpoints[d][m].listed}

\* Mutant: a donor's file that omits the module leaves the base's entry.
Storage_KeepsUnlisted ==
  [m \in {m \in Modules : \/ m \notin DOMAIN restore /\ m \in Listing(Base)
                          \/ m \in DOMAIN assign /\ m \in Listing(assign[m])
                          \/ m \in DOMAIN restore /\ Incoming(m) # {}} |->
     IF m \in DOMAIN assign /\ m \in Listing(assign[m]) THEN Described(assign[m], m)
     ELSE IF m \in DOMAIN restore THEN [bits |-> 0, parts |-> {t.part : t \in Incoming(m)}]
     ELSE Described(Base, m)]

\* The entry of an assigned module is the donor's own, none if the donor's file
\* omits it; a restored module's describes the dense tensors brought in.
Storage ==
  [m \in {m \in Modules : \/ m \notin Moved /\ m \in Listing(Base)
                          \/ m \in DOMAIN assign /\ m \in Listing(assign[m])
                          \/ m \in DOMAIN restore /\ Incoming(m) # {}} |->
     IF m \in DOMAIN assign THEN Described(assign[m], m)
     ELSE IF m \in DOMAIN restore THEN [bits |-> 0, parts |-> {t.part : t \in Incoming(m)}]
     ELSE Described(Base, m)]

\* head_bits follows an assigned head that is stored quantized.
HeadBits ==
  LET taken == {m \in DOMAIN assign \cap HeadModules : Quantized(Checkpoints[assign[m]][m])} IN
    IF taken # {} THEN {Checkpoints[assign[m]][m].bits : m \in taken}
    ELSE {Checkpoints[Base][m].bits : m \in HeadModules}

\* vision_bits goes only with a restore that leaves no quantized vision module.
KeepsVisionBits ==
  restore = <<>> \/ ((QuantizedOf(Base) \ DOMAIN restore) \cap VisionModules) # {}

WriteConfig ==
  /\ pc = "config" /\ pc' = "ended"
  /\ config' = [storage |-> Storage, head |-> HeadBits, vision |-> KeepsVisionBits]
  /\ side' = side \cup {Config}
  /\ Overwrite(<<"file", Config>>)
  /\ UNCHANGED <<next, said, plan, out, index, shared>>

\* The command dies between two files, or inside a shard it was writing.
Stop ==
  /\ pc \in {"write", "files", "index", "config"} /\ pc' = "ended"
  /\ \/ UNCHANGED <<out, damaged>>
     \/ /\ pc = "write" /\ next \in Rewritten
        /\ out' = [out EXCEPT ![next] = Torn]
        /\ Overwrite(<<"shard", next>>)
  /\ UNCHANGED <<next, said, plan, side, index, config, shared>>

\* Another command with the same output. One given a directory that is not empty
\* reads its rules and is then refused by Approve; only the refusal shows.
Again ==
  /\ pc = "ended" /\ Empty /\ pc' = "rules"
  /\ next' = 1 /\ said' = 0
  /\ current' = NoDonor /\ opened' = <<>> /\ assign' = <<>> /\ restore' = <<>>
  /\ UNCHANGED disk

\* The operator removes the output; links go, the base's files stay.
Clean ==
  /\ pc = "ended" /\ ~Empty
  /\ out' = [s \in Shards |-> NoFile] /\ side' = {} /\ index' = <<>> /\ config' = <<>>
  /\ shared' = {}
  /\ UNCHANGED <<pc, next, said, plan, damaged>>

ComposeNext ==
  \/ \E d \in Donors : From(d)
  \/ \E sel \in Selectors : Keep(sel) \/ Take(sel) \/ Restore(sel)
  \/ \E r \in Recipes : MapRule(r)
  \/ Approve \/ WriteShard \/ CopyFiles \/ WriteIndex \/ WriteConfig
  \/ Stop \/ Again \/ Clean

ComposeSpec == ComposeInit /\ [][ComposeNext]_composeVars

-----------------------------------------------------------------------------
(***************************************************************************)
(* Properties                                                              *)
(***************************************************************************)
Outputs == ({"shard"} \X Shards) \cup ({"file"} \X BaseFiles)
Tensors == [module : Modules, part : Part, dir : Dirs]

\* Every variable stays in its set.
ComposeTypes ==
  /\ pc \in {"rules", "write", "files", "index", "config", "ended"}
  /\ next \in 1..(Cardinality(Shards) + 1) /\ said \in 0..MaxRules
  /\ current \in Donors \cup {NoDonor} /\ ToSet(opened) \subseteq Donors
  /\ \A f \in {assign, restore} :
       DOMAIN f \subseteq Modules /\ \A m \in DOMAIN f : f[m] \in Donors
  /\ \A s \in Shards : out[s] \in {NoFile, Torn} \/ (out[s].state = "whole" /\ out[s].tensors \subseteq Tensors)
  /\ side \subseteq BaseFiles
  /\ \A n \in DOMAIN index : index[n] \in Shards
  /\ shared \subseteq Outputs /\ damaged \subseteq Outputs

\* However the rules override one another, each module has one source: it is
\* never both taken and restored, what is taken its donor has, and only what the
\* base stores quantized is restored (main's rule loop, which the checks index
\* by module without asking).
PlanSound ==
  /\ DOMAIN assign \cap DOMAIN restore = {}
  /\ \A m \in DOMAIN assign : assign[m] \in ToSet(opened) /\ m \in ModulesOf(assign[m])
  /\ \A m \in DOMAIN restore :
       m \in QuantizedOf(Base) /\ restore[m] \in ToSet(opened) /\ m \in ModulesOf(restore[m])

Planned ==
  UNION {IF m \in Moved THEN Incoming(m) ELSE TensorsFrom(Base, m) : m \in Modules}

PlanKept == ComposeTypes /\ PlanSound

\* quantization_config.json is written last: an output that has one holds every
\* module whole from its one source, nothing of what it replaced, and an index
\* that finds each tensor in the one shard that has it -- wherever an earlier
\* command died.
ModulesWhole ==
  config # <<>> =>
    /\ \A s \in Shards : out[s].state = "whole"
    /\ UNION {out[s].tensors : s \in Shards} = Planned
    /\ DOMAIN index = {NameOf(t) : t \in Planned}
    /\ \A t \in Planned, s \in Shards : t \in out[s].tensors <=> index[NameOf(t)] = s

\* The written quantization_config.json describes the tensors that are there: an
\* entry of tensor_storage is that of the stored tensors, and head_bits is the
\* width of a head that is stored quantized.
ConfigTrue ==
  config # <<>> =>
    LET stored(m) == {t \in UNION {out[s].tensors : s \in Shards} : t.module = m} IN
      /\ \A m \in DOMAIN config.storage :
           /\ config.storage[m].parts = {t.part : t \in stored(m)}
           /\ \A t \in stored(m) :
                t.part = "trellis" => config.storage[m].bits = Checkpoints[t.dir][m].bits
      /\ \A m \in HeadModules : \A t \in stored(m) :
           t.part = "trellis" => config.head = {Checkpoints[t.dir][m].bits}

\* An output that looks finished is what the command line asked for.
OutputSound == ModulesWhole /\ ConfigTrue

\* The base is never written: untouched files of the output are its inodes, and no
\* later write of this or of another command opens one of them.
SourcesKept == damaged = {}
=============================================================================
