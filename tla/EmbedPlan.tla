----------------------------- MODULE EmbedPlan -----------------------------
(***************************************************************************)
(* Which method serves each module of a model, and which tensors reach it.  *)
(*                                                                          *)
(* EXL3Config decides twice about the same matrix: get_quant_method when    *)
(* vLLM builds a module, and get_cache_scale_mapper when the checkpoint's   *)
(* tensors stream in.  Both go by what two lookups said the checkpoint      *)
(* stores (its tensor names, and the metadata of quantization_config.json), *)
(* either of which may fail, and by flags that a later start may change.    *)
(*                                                                          *)
(* The modules: the token embedding, the head, the layers' linears, and a   *)
(* tower's.  A tensor stands for all the tensors of its encoding.           *)
(***************************************************************************)
EXTENDS Integers, FiniteSets

CONSTANTS
    Checkpoints,             \* those considered: see Checkpoint
    Flags,                   \* settings considered: see Setting
    MaxStarts, MaxFaults,    \* bounds: starts of the engine, lookups that fail
    None

(***************************************************************************)
(* A checkpoint.                                                            *)
(***************************************************************************)
Checkpoint ==
    [tied     : BOOLEAN,               \* tie_word_embeddings
     modules  : {"one", "two"},        \* is the head a module of its own?
     embed    : SUBSET {"dense", "bq", "et"},    \* encodings of embed_tokens
     head     : {"dense", "trellis"},
     tower    : {"none", "dense", "trellis"},
     listing  : {"none", "embedding", "text", "all"},    \* tensor_storage
     headBits : BOOLEAN,               \* head_bits in config.json
     fits     : BOOLEAN,               \* BLOCKQ_BLOCK divides the hidden size
     nested   : BOOLEAN,               \* is the text model inside a wrapper?
     prefix   : BOOLEAN,               \* is the embedding built with its prefix?
     rebased  : BOOLEAN]               \* does it own a dense weight already?

\* What the converter and tools/quantize_embedding.py write: a quantized head
\* whenever the model is tied, one encoding of the embedding or bq_* in a
\* sidecar beside the dense one; and metadata that may omit things but not
\* invent them.  (A trellis embedding under a tied config is refused.)
Legal(c) ==
    /\ c.embed \in {{"dense"}, {"bq"}, {"dense", "bq"}, {"et"}}
    /\ c.tied => c.head = "trellis" /\ ~c.rebased
    /\ ~c.tied => c.modules = "two"
    /\ "bq" \in c.embed => c.listing # "none" /\ c.fits
    /\ c.embed = {"dense"} => c.listing # "embedding"
    /\ c.headBits => c.head = "trellis"
    /\ c.nested => c.prefix
    /\ ~c.nested => c.tower = "none" /\ ~c.rebased

\* EXL3_DENSE_EMBED, EXL3_BLOCKQ_ON_LOAD and EXL3_DEQUANTIZE.
Setting == [dense : BOOLEAN, onLoad : BOOLEAN, dequantize : BOOLEAN]

Module == {"embed", "head", "layers", "tower"}

\* Names of modules, each in the checkpoint's naming or in vLLM's; tensor_storage.
Name == Module \X {"checkpoint", "vllm"}
StorageMap == [exl3 : SUBSET Name, blockq : BOOLEAN, retained : BOOLEAN]

ASSUME CheckpointsAssumption ==
    /\ \A c \in Checkpoints : c \in Checkpoint /\ Legal(c)
    /\ Flags \subseteq Setting
    /\ MaxStarts \in Nat \ {0} /\ MaxFaults \in Nat
    /\ \A q \in SUBSET Name : q # None
    /\ \A q \in StorageMap : q # None

VARIABLES
    ckpt, flags,
    phase,
    quantized,   \* quantized_modules: <<module, the naming it is in>>
    blockq,      \* is _blockq_modules not empty?
    trellis,     \* is _trellis_embed_modules not empty?
    storage,     \* tensor_storage: modules listed as exl3 (as in quantized), the rest
    prefix,      \* embed_prefix: the path the head's tensors are renamed onto
    method,      \* the method of each module built
    params,      \* parameters registered: <<module, name>>
    filled,      \* those a tensor arrived for
    starts, faults,
    graphs       \* AOT graphs cached: their key and the parameters they name

configVars == <<quantized, blockq, trellis, storage>>
moduleVars == <<prefix, method, params, filled>>
vars == <<ckpt, flags, phase, configVars, moduleVars, starts, faults, graphs>>

\* The paths of the embedding: the default of embed_prefix, and the real one.
Path(c) == IF c.nested THEN "language_model.model" ELSE "model"

NotBuilt == [m \in Module |-> "none"]

ConfigInit == quantized = None /\ blockq = FALSE /\ trellis = FALSE /\ storage = None

ModuleInit == prefix = "model" /\ method = NotBuilt /\ params = {} /\ filled = {}

Init ==
    /\ ckpt \in Checkpoints
    /\ flags \in Flags
    /\ phase = "index"
    /\ ConfigInit /\ ModuleInit
    /\ starts = 1 /\ faults = 0
    /\ graphs = {}

(***************************************************************************)
(* The lookups.                                                             *)
(***************************************************************************)
\* Keys are in the checkpoint's naming; a wrapper's models go by another.
Key(m) == <<m, IF ckpt.nested /\ m # "head" THEN "checkpoint" ELSE "vllm">>

Trellised ==
    {Key("layers")}
        \cup (IF ckpt.head = "trellis" THEN {Key("head")} ELSE {})
        \cup (IF ckpt.tower = "trellis" THEN {Key("tower")} ELSE {})

\* _load_index_modules: the index's names, or a single file's header.
ReadIndex ==
    /\ phase = "index"
    /\ quantized' = Trellised
    /\ blockq' = ("bq" \in ckpt.embed)
    /\ trellis' = ("et" \in ckpt.embed)
    /\ phase' = "storage"
    /\ UNCHANGED <<ckpt, flags, storage, moduleVars, starts, faults, graphs>>

\* No revision to ask for, or an exception: the names stay unknown.
IndexUnread ==
    /\ phase = "index"
    /\ faults < MaxFaults
    /\ faults' = faults + 1
    /\ phase' = "storage"
    /\ UNCHANGED <<ckpt, flags, configVars, moduleVars, starts, graphs>>

\* What tensor_storage says: on its own the tool lists the embedding only, and
\* "text" is a converter's that leaves the tower out.
Listed ==
    [exl3 |-> CASE ckpt.listing = "all"  -> Trellised
                [] ckpt.listing = "text" -> Trellised \ {Key("tower")}
                [] OTHER -> {},
     blockq |-> "bq" \in ckpt.embed,
     retained |-> {"dense", "bq"} \subseteq ckpt.embed]

\* _load_tensor_storage: quantization_config.json, if there is one.
ReadStorage ==
    /\ phase = "storage"
    /\ storage' = IF ckpt.listing = "none" THEN None ELSE Listed
    /\ phase' = "translate"
    /\ UNCHANGED <<ckpt, flags, quantized, blockq, trellis, moduleVars, starts, faults,
                   graphs>>

StorageUnread ==
    /\ phase = "storage"
    /\ faults < MaxFaults
    /\ faults' = faults + 1
    /\ phase' = "translate"
    /\ UNCHANGED <<ckpt, flags, configVars, moduleVars, starts, graphs>>

Translated(keys) == {<<k[1], "vllm">> : k \in keys}

\* apply_vllm_mapper, before any layer is built.
Translate ==
    /\ phase = "translate"
    /\ quantized' = IF quantized = None THEN None ELSE Translated(quantized)
    /\ storage' = IF storage = None THEN None
                  ELSE [storage EXCEPT !.exl3 = {<<k[1], "vllm">> : k \in @}]
    /\ phase' = "build"
    /\ UNCHANGED <<ckpt, flags, blockq, trellis, moduleVars, starts, faults, graphs>>

(***************************************************************************)
(* The predicates of EXL3Config.                                            *)
(***************************************************************************)
\* _exl3_modules, index first.
Exl3Modules ==
    IF quantized # None THEN quantized ELSE IF storage # None THEN storage.exl3 ELSE {}

\* With neither lookup every linear is taken to be quantized.
IsQuantized(m) == (quantized = None /\ storage = None) \/ <<m, "vllm">> \in Exl3Modules

HeadStorageExists ==
    IF quantized = None /\ storage = None
    THEN ckpt.headBits
    ELSE <<"head", "vllm">> \in Exl3Modules

HeadIsQuantized == ~ckpt.tied /\ HeadStorageExists

EmbeddingIsQuantized == ~flags.dense /\ ckpt.tied /\ HeadStorageExists

\* _blockq_evidence.  The index would show a dense copy too, but what is to
\* record that (_dense_embed_present) comes after a return: it stays False.
BlockqStored == blockq \/ (storage # None /\ storage.blockq)
DensePresent_Never == FALSE

DensePresent == storage # None /\ storage.retained

OnLoadIsPossible == ~EmbeddingIsQuantized /\ ckpt.fits

EmbeddingIsBlockq_DenseFirst ==
    /\ ~trellis
    /\ IF BlockqStored THEN ~DensePresent ELSE flags.onLoad /\ ~flags.dense /\ OnLoadIsPossible

\* Stored bq_* are used unless a dense copy is there to prefer to them; with
\* none stored the dense one may be encoded.
EmbeddingIsBlockq ==
    /\ ~trellis
    /\ IF BlockqStored
       THEN ~(flags.dense /\ DensePresent)
       ELSE flags.onLoad /\ ~flags.dense /\ OnLoadIsPossible

BlockqIsOnLoad == ~BlockqStored /\ EmbeddingIsBlockq

(***************************************************************************)
(* get_quant_method and create_weights, module by module.                   *)
(***************************************************************************)
EmbedMethod ==
    IF trellis THEN "et"
    ELSE IF EmbeddingIsBlockq THEN IF EmbeddingIsQuantized THEN "bqTied" ELSE "bq"
    ELSE IF EmbeddingIsQuantized THEN "exl3"
    ELSE "dense"

\* What a method registers on the embedding.
Registered(m) ==
    CASE m = "dense" -> {"weight"}
      [] m = "exl3" -> {"trellis"}
      [] m = "et" -> {"et"}
      [] m = "bq" -> {"bq"} \cup (IF BlockqIsOnLoad THEN {"bq_src"} ELSE {})
      [] m = "bqTied" -> {"bq", "trellis"}

\* A rebased class comes with a weight; only these methods remove it.
LeftOver(m) == IF ckpt.rebased /\ m \notin {"et", "bq", "bqTied"} THEN {"weight"} ELSE {}

Prefix_NoDefault == IF ckpt.prefix THEN Path(ckpt) ELSE "none"
Prefix_OnlyTied == IF EmbedMethod = "exl3" THEN Path(ckpt) ELSE prefix

\* The module's own prefix; some models pass none, and keep the default.
Prefix == IF ckpt.prefix THEN Path(ckpt) ELSE prefix

BuildEmbedding ==
    /\ phase = "build"
    /\ ~(trellis /\ ckpt.tied)
    /\ prefix' = Prefix
    /\ method' = [method EXCEPT !["embed"] = EmbedMethod]
    /\ params' = {<<"embed", n>> : n \in Registered(EmbedMethod) \cup LeftOver(EmbedMethod)}
    /\ phase' = "linears"
    /\ UNCHANGED <<ckpt, flags, configVars, filled, starts, faults, graphs>>

\* A trellis embedding cannot serve a head: refused by name.
RefuseTied ==
    /\ phase = "build"
    /\ trellis /\ ckpt.tied
    /\ prefix' = Prefix
    /\ phase' = "refused"
    /\ UNCHANGED <<ckpt, flags, configVars, method, params, filled, starts, faults, graphs>>

Linears == {"layers"} \cup (IF ckpt.tower = "none" THEN {} ELSE {"tower"})
LinearMethod(m) == IF IsQuantized(m) THEN "exl3" ELSE "dense"
ParamOf(m) == IF m = "exl3" THEN "trellis" ELSE "weight"

BuildLinears ==
    /\ phase = "linears"
    /\ method' = [m \in Module |-> IF m \in Linears THEN LinearMethod(m) ELSE method[m]]
    /\ params' = params \cup {<<m, ParamOf(LinearMethod(m))>> : m \in Linears}
    /\ phase' = "head"
    /\ UNCHANGED <<ckpt, flags, configVars, prefix, filled, starts, faults, graphs>>

HeadMethod ==
    IF EmbeddingIsQuantized THEN "tied" ELSE IF HeadIsQuantized THEN "exl3" ELSE "dense"

\* A head of its own that is not tied, or is to load its own trellis.
BuildHead ==
    /\ phase = "head"
    /\ ckpt.modules = "two" /\ ~ckpt.tied
    /\ method' = [method EXCEPT !["head"] = HeadMethod]
    /\ params' = params \cup {<<"head", ParamOf(HeadMethod)>>}
    /\ phase' = "load"
    /\ UNCHANGED <<ckpt, flags, configVars, prefix, filled, starts, faults, graphs>>

\* One that vLLM ties: to the module, or to its weight if it has one.
TieHead ==
    /\ phase = "head"
    /\ ckpt.modules = "two" /\ ckpt.tied
    /\ method' = [method EXCEPT !["head"] = HeadMethod]
    /\ phase' = IF HeadMethod = "tied" \/ <<"embed", "weight">> \in params
                THEN "load" ELSE "untied"
    /\ UNCHANGED <<ckpt, flags, configVars, prefix, params, filled, starts, faults, graphs>>

\* The embedding itself, in both roles.
ShareModule ==
    /\ phase = "head"
    /\ ckpt.modules = "one"
    /\ phase' = "load"
    /\ UNCHANGED <<ckpt, flags, configVars, moduleVars, starts, faults, graphs>>

(***************************************************************************)
(* get_cache_scale_mapper, and the stream of tensors through it.            *)
(***************************************************************************)
EmbedTensor(e) ==
    <<"embed", CASE e = "dense" -> "weight" [] e = "bq" -> "bq" [] e = "et" -> "trellis_signs">>

\* Names as the stream has them, in vLLM's naming.
Stream ==
    {EmbedTensor(e) : e \in ckpt.embed}
        \cup {<<"head", IF ckpt.head = "trellis" THEN "trellis" ELSE "weight">>}
        \cup {<<"layers", "trellis">>}
        \cup (IF ckpt.tower = "none" THEN {}
              ELSE {<<"tower", IF ckpt.tower = "trellis" THEN "trellis" ELSE "weight">>})

Dropped == <<"nowhere", "dropped">>

\* The head's storage is there, and neither module is going to claim it.
HeadDeclined == HeadStorageExists /\ ~(EmbeddingIsQuantized \/ HeadIsQuantized)

Sidelined == BlockqStored /\ DensePresent /\ ~EmbeddingIsBlockq

Mapped(t) ==
    CASE t = <<"head", "trellis">> ->
            IF HeadDeclined THEN Dropped
            ELSE IF EmbeddingIsQuantized /\ ~trellis /\ ~Sidelined /\ ~BlockqIsOnLoad
                 THEN <<IF prefix = Path(ckpt) THEN "embed" ELSE "nowhere", "trellis">>
                 ELSE t
      [] t = <<"embed", "trellis_signs">> ->
            IF trellis THEN <<"embed", "et">> ELSE t
      [] t = <<"embed", "bq">> ->
            IF ~trellis /\ Sidelined THEN Dropped ELSE t
      [] t = <<"embed", "weight">> ->
            IF trellis \/ Sidelined \/ ~(EmbeddingIsQuantized \/ EmbeddingIsBlockq) THEN t
            ELSE IF BlockqIsOnLoad THEN <<"embed", "bq_src">>
            ELSE Dropped
      [] OTHER -> t

Arriving == {Mapped(t) : t \in Stream} \ {Dropped}

\* The loader of bq_src encodes what it gets and fills bq_* with it.
Encoded == IF <<"embed", "bq_src">> \in Arriving THEN {<<"embed", "bq">>} ELSE {}

LoadWeights ==
    /\ phase = "load"
    /\ Arriving \subseteq params
    /\ filled' = Arriving \cup Encoded
    /\ phase' = "process"
    /\ UNCHANGED <<ckpt, flags, configVars, prefix, method, params, starts, faults, graphs>>

\* vLLM's loader raises over a tensor that no parameter takes.
Unclaimed ==
    /\ phase = "load"
    /\ ~(Arriving \subseteq params)
    /\ phase' = "unclaimed"
    /\ UNCHANGED <<ckpt, flags, configVars, moduleVars, starts, faults, graphs>>

\* _stamp_compile_factors: what vLLM's key for a graph knows of the plugin.
CompileKey_DenseOnly == flags.dense
CompileKey == <<flags.dense, flags.onLoad>>

\* _disable_stale_compile_cache
Cached == ~flags.dequantize

\* What a graph of this start calls by name, and whether all lookups answered.
Graph ==
    [key |-> CompileKey,
     names |-> params \ {<<"embed", "bq_src">>},
     dequantized |-> flags.dequantize,
     informed |-> quantized # None /\ (storage # None \/ ckpt.listing = "none")]

\* process_weights_after_loading, then tracing.
Serve ==
    /\ phase = "process"
    /\ params \subseteq filled
    /\ phase' = "serving"
    /\ graphs' = IF Cached THEN graphs \cup {Graph} ELSE graphs
    /\ UNCHANGED <<ckpt, flags, configVars, moduleVars, starts, faults>>

\* A registered parameter got no tensor.
Unfilled ==
    /\ phase = "process"
    /\ ~(params \subseteq filled)
    /\ phase' = "unfilled"
    /\ UNCHANGED <<ckpt, flags, configVars, moduleVars, starts, faults, graphs>>

Failed == {"untied", "unclaimed", "unfilled"}

\* The engine is started again on the checkpoint, perhaps with other flags.
Restart(f) ==
    /\ phase \in Failed \cup {"serving", "refused"}
    /\ starts < MaxStarts
    /\ starts' = starts + 1
    /\ flags' = f
    /\ phase' = "index"
    /\ quantized' = None /\ blockq' = FALSE /\ trellis' = FALSE /\ storage' = None
    /\ prefix' = "model" /\ method' = NotBuilt /\ params' = {} /\ filled' = {}
    /\ UNCHANGED <<ckpt, faults, graphs>>

Next ==
    \/ ReadIndex \/ IndexUnread \/ ReadStorage \/ StorageUnread \/ Translate
    \/ BuildEmbedding \/ RefuseTied \/ BuildLinears
    \/ BuildHead \/ TieHead \/ ShareModule
    \/ LoadWeights \/ Unclaimed \/ Serve \/ Unfilled
    \/ \E f \in Flags : Restart(f)

Spec == Init /\ [][Next]_vars

(***************************************************************************)
(* Properties.                                                              *)
(***************************************************************************)
Phase == {"index", "storage", "translate", "build", "linears", "head", "load", "process",
          "serving", "refused"} \cup Failed

\* Types; and what is filled was registered.
TypeOK ==
    /\ ckpt \in Checkpoints /\ flags \in Flags
    /\ phase \in Phase
    /\ quantized = None \/ quantized \subseteq Name
    /\ {blockq, trellis} \subseteq BOOLEAN
    /\ storage = None \/ storage \in StorageMap
    /\ prefix \in {"model", "language_model.model"}
    /\ method \in [Module -> {"none", "dense", "exl3", "et", "bq", "bqTied", "tied"}]
    /\ params \subseteq Module \X {"weight", "trellis", "et", "bq", "bq_src"}
    /\ filled \subseteq params
    /\ starts \in 1 .. MaxStarts /\ faults \in 0 .. MaxFaults

\* What is known of the checkpoint describes it: all its names; or a storage map
\* that omits nothing; or no word at all of an older, text-only one, whose
\* linears are all quantized and whose head_bits tells of its head.
Described ==
    \/ quantized # None
    \/ storage # None /\ ckpt.listing = "all" /\ "et" \notin ckpt.embed
    \/ /\ quantized = None /\ storage = None
       /\ ckpt.embed = {"dense"} /\ ckpt.tower # "dense"
       /\ ckpt.headBits = (ckpt.head = "trellis")

\* EXL3_DENSE_EMBED on a tied checkpoint with bq_* and, as far as the storage map
\* tells, no dense copy: the lookup stays quantized, but the flag takes its trellis
\* from the head all the same, and nothing is left to compute logits from.
NothingDense ==
    /\ flags.dense /\ ckpt.tied /\ "bq" \in ckpt.embed
    /\ "dense" \in ckpt.embed => storage = None

\* get_quant_method and get_cache_scale_mapper agree: of a checkpoint whose
\* storage is described, every tensor that arrives has a parameter to go to, every
\* parameter gets its tensor, and a tied head something to be tied to.
Agree == Described /\ ~NothingDense => phase \notin Failed

HasMatmul_Inherited(m) == m \in {"dense", "exl3"}

\* The methods of an embedding whose apply computes logits.
HasMatmul(m) == m \in {"dense", "exl3", "bqTied"}

\* A model that loads can do both: look a token up, and compute logits, in either
\* shape vLLM builds a tied model in.
RolesServed ==
    phase = "serving" /\ ~NothingDense =>
        /\ ckpt.modules = "one" => HasMatmul(method["embed"])
        /\ method["head"] = "tied" => HasMatmul(method["embed"])
        /\ method["head"] = "dense" =>
              <<IF ckpt.tied THEN "embed" ELSE "head", "weight">> \in filled

\* Unless dense is asked for, a described checkpoint is served from the encoding
\* meant for the lookup: stored bq_* even when a tied head's trellis is there as
\* well, that trellis rather than a dense copy, and one of them is resident only.
EncodingChosen ==
    phase = "serving" /\ Described /\ ~flags.dense =>
        /\ "bq" \in ckpt.embed => method["embed"] \in {"bq", "bqTied"}
        /\ ckpt.tied /\ ckpt.embed = {"dense"} => method["embed"] = "exl3"
        /\ method["embed"] # "dense" => <<"embed", "weight">> \notin params
        /\ <<"embed", "bq_src">> \in params => "bq" \notin ckpt.embed

\* EXL3_DENSE_EMBED gives the dense embedding wherever the checkpoint has one, as
\* far as the storage map tells.
DenseHonoured ==
    phase = "serving" /\ flags.dense /\ "dense" \in ckpt.embed
        /\ ("bq" \in ckpt.embed => storage # None)
    => method["embed"] = "dense"

\* The embedding that is served is the one meant, and can do what the model asks.
EmbeddingServed == TypeOK /\ RolesServed /\ EncodingChosen /\ DenseHonoured

\* No graph is found under the key of a start that would name other parameters:
\* what tells them apart reaches vLLM's key, or keeps the graph out of the cache.
\* (Of starts whose lookups answered.)
GraphFitsKey ==
    \A g, h \in graphs : g.informed /\ h.informed /\ g.key = h.key => g = h

(***************************************************************************)
(* What the comments promise, and the code does not deliver.                *)
(***************************************************************************)
\* "A sidecar checkpoint keeps both encodings, so the flag can be honoured"
\* (config.py:659); the names were read, and they show both.
SidecarHonoured ==
    phase = "serving" /\ flags.dense /\ quantized # None /\ {"dense", "bq"} \subseteq ckpt.embed
        => method["embed"] = "dense"
=============================================================================
