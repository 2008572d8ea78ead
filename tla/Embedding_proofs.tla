------------------------- MODULE Embedding_proofs -------------------------
(***************************************************************************)
(* Proofs about the embedding: EmbedPlan, which decides from what encoding  *)
(* it is served, and BlockqCache, which keeps the encodings made while      *)
(* models load.  The two share no name, and no theorem is about both.       *)
(*                                                                          *)
(* EmbedPlan, for any set of the checkpoints that the tools write, any      *)
(* settings of the flags and any number of starts and of failed lookups:    *)
(* what is built and what is streamed agree, both roles of the embedding    *)
(* are served from the encoding meant, and no cached graph is met by a      *)
(* start that it does not fit.  What a start builds is decided when its     *)
(* lookups are over.  So the invariant says what they may have found, and   *)
(* that modules, parameters and tensors are those that follow from it; the  *)
(* rest is about the predicates of EXL3Config alone.                        *)
(*                                                                          *)
(* BlockqCache, for any number of processes, loads, rewrites, faults and    *)
(* crashes, any checkpoints and any ceiling: what the entries hold, that    *)
(* they fit, and what a load gives the model.                               *)
(***************************************************************************)
EXTENDS EmbedPlan, BlockqCache, FiniteSetTheorems, SequenceTheorems, TLAPS


(***************************************************************************)
(* What the lookups found.                                                  *)
(***************************************************************************)
Looking == phase \in {"index", "storage", "translate"}

\* Before the names are translated: all of it, or nothing.
Looked ==
    /\ phase \in {"index", "storage"} => storage = None
    /\ phase = "index" => quantized = None
    /\ quantized = None \/ quantized = Trellised
    /\ storage = None \/ (ckpt.listing # "none" /\ storage = Listed)
    /\ prefix = "model" /\ method = NotBuilt /\ params = {} /\ filled = {}

\* Is the module stored as a trellis, and is it listed as one?
Stores(m) ==
    \/ m = "layers"
    \/ m = "head" /\ ckpt.head = "trellis"
    \/ m = "tower" /\ ckpt.tower = "trellis"
Lists(m) == Stores(m) /\ (ckpt.listing = "all" \/ (ckpt.listing = "text" /\ m # "tower"))

\* Afterwards: what they say of each module.
Told ==
    /\ quantized # None => \A m \in Module : <<m, "vllm">> \in quantized <=> Stores(m)
    /\ storage # None =>
         /\ ckpt.listing # "none"
         /\ \A m \in Module : <<m, "vllm">> \in storage.exl3 <=> Lists(m)
         /\ storage.blockq = ("bq" \in ckpt.embed)
         /\ storage.retained = ({"dense", "bq"} \subseteq ckpt.embed)

Found ==
    /\ quantized = None \/ quantized \in SUBSET Name
    /\ storage = None \/ storage \in StorageMap
    /\ blockq = (quantized # None /\ "bq" \in ckpt.embed)
    /\ trellis = (quantized # None /\ "et" \in ckpt.embed)
    /\ IF Looking THEN Looked ELSE Told

(***************************************************************************)
(* What follows from it.                                                    *)
(***************************************************************************)
EmbedParams == {<<"embed", n>> : n \in Registered(EmbedMethod) \cup LeftOver(EmbedMethod)}
LinearParams == {<<m, ParamOf(LinearMethod(m))>> : m \in Linears}
HeadParams ==
    IF ckpt.modules = "two" /\ ~ckpt.tied THEN {<<"head", ParamOf(HeadMethod)>>} ELSE {}
AllParams == EmbedParams \cup LinearParams \cup HeadParams

\* A tied head of its own has something to be tied to.
HeadTied ==
    ckpt.modules = "two" /\ ckpt.tied =>
        HeadMethod = "tied" \/ <<"embed", "weight">> \in AllParams

Built ==
    ~Looking =>
        /\ prefix \in {"model", Path(ckpt)}
        /\ phase = "build" => prefix = "model" /\ method = NotBuilt /\ params = {} /\ filled = {}
        /\ phase = "refused" => method = NotBuilt /\ params = {} /\ filled = {}
        /\ phase \notin {"build", "refused"} =>
             /\ prefix = Path(ckpt)
             /\ method["embed"] = EmbedMethod
             /\ ~(trellis /\ ckpt.tied)
        /\ phase = "linears" => params = EmbedParams /\ method["head"] = "none"
        /\ phase = "head" => params = EmbedParams \cup LinearParams /\ method["head"] = "none"
        /\ phase \in {"load", "process", "serving"} \cup Failed =>
             /\ params = AllParams
             /\ method["head"] = IF ckpt.modules = "two" THEN HeadMethod ELSE "none"
        /\ phase \in {"linears", "head", "load", "untied", "unclaimed"} => filled = {}
        /\ phase \in {"load", "process", "serving", "unclaimed", "unfilled"} => HeadTied
        /\ phase = "untied" => ~HeadTied
        /\ phase \in {"process", "serving", "unfilled"} =>
             Arriving \subseteq AllParams /\ filled = Arriving \cup Encoded
        /\ phase = "unclaimed" => ~(Arriving \subseteq AllParams)
        /\ phase = "serving" => AllParams \subseteq filled
        /\ phase = "unfilled" => ~(AllParams \subseteq filled)

(***************************************************************************)
(* What a start whose lookups answered names in its graph.                  *)
(***************************************************************************)
\* Under a key: are the embedding's stored bq_* used, and its tied trellis?
UsesBq(dense, onLoad) ==
    /\ "et" \notin ckpt.embed
    /\ IF "bq" \in ckpt.embed THEN ~(dense /\ "dense" \in ckpt.embed)
       ELSE /\ onLoad /\ ~dense /\ ckpt.fits
            /\ ~(ckpt.tied /\ ckpt.head = "trellis")
UsesTrellis(dense) == "et" \notin ckpt.embed /\ ~dense /\ ckpt.tied /\ ckpt.head = "trellis"

Named(p, dense, onLoad) ==
    \/ p = <<"embed", "et">> /\ "et" \in ckpt.embed
    \/ p = <<"embed", "bq">> /\ UsesBq(dense, onLoad)
    \/ p = <<"embed", "trellis">> /\ UsesTrellis(dense)
    \/ /\ p = <<"embed", "weight">>
       /\ "et" \notin ckpt.embed /\ ~UsesBq(dense, onLoad)
       /\ ~UsesTrellis(dense) \/ ckpt.rebased
    \/ p = <<"layers", "trellis">>
    \/ p = <<"tower", "trellis">> /\ ckpt.tower = "trellis"
    \/ p = <<"tower", "weight">> /\ ckpt.tower = "dense"
    \/ p = <<"head", "trellis">> /\ ~ckpt.tied /\ ckpt.head = "trellis"
    \/ p = <<"head", "weight">> /\ ~ckpt.tied /\ ckpt.head = "dense"

Param == Module \X {"weight", "trellis", "et", "bq", "bq_src"}

Traced ==
    \A g \in graphs :
        g.informed =>
            g = [key |-> g.key,
                 names |-> {p \in Param : Named(p, g.key[1], g.key[2])},
                 dequantized |-> FALSE,
                 informed |-> TRUE]

Types ==
    /\ ckpt \in Checkpoints /\ flags \in Flags
    /\ phase \in Phase
    /\ prefix \in {"model", "language_model.model"}
    /\ method \in [Module -> {"none", "dense", "exl3", "et", "bq", "bqTied", "tied"}]
    /\ starts \in 1 .. MaxStarts /\ faults \in 0 .. MaxFaults

EmbedInv == Types /\ Found /\ Built /\ Traced

(***************************************************************************)
(* Lemmas about one checkpoint and what was found of it.                    *)
(***************************************************************************)
LEMMA CkptLegal == ASSUME Types PROVE ckpt \in Checkpoint /\ Legal(ckpt) /\ flags \in Setting
BY CheckpointsAssumption DEF Types

LEMMA OneEncoding ==
    ASSUME Types
    PROVE  \/ ckpt.embed = {"dense"}
           \/ ckpt.embed = {"bq"}
           \/ ckpt.embed = {"dense", "bq"}
           \/ ckpt.embed = {"et"}
BY CkptLegal DEF Legal

LEMMA HeadFound ==
    ASSUME Types, Found, ~Looking
    PROVE  HeadStorageExists <=> IF quantized # None THEN ckpt.head = "trellis"
                                 ELSE IF storage # None THEN Lists("head")
                                 ELSE ckpt.headBits
<1>1. "head" \in Module
  BY DEF Module
<1>2. CASE quantized # None
  BY <1>1, <1>2 DEF Found, Told, HeadStorageExists, Exl3Modules, Stores
<1>3. CASE quantized = None /\ storage # None
  BY <1>1, <1>3 DEF Found, Told, HeadStorageExists, Exl3Modules
<1>4. CASE quantized = None /\ storage = None
  BY <1>4 DEF HeadStorageExists
<1> QED BY <1>2, <1>3, <1>4

\* A head that is found quantized is.
LEMMA HeadTrue ==
    ASSUME Types, Found, ~Looking, HeadStorageExists
    PROVE  ckpt.head = "trellis"
BY HeadFound, CkptLegal DEF Legal, Lists, Stores

LEMMA LinearFound ==
    ASSUME Types, Found, ~Looking, NEW m \in {"layers", "tower"}
    PROVE  IsQuantized(m) <=> IF quantized # None THEN Stores(m)
                              ELSE IF storage # None THEN Lists(m)
                              ELSE TRUE
<1>1. m \in Module
  BY DEF Module
<1>2. CASE quantized # None
  BY <1>1, <1>2 DEF Found, Told, IsQuantized, Exl3Modules
<1>3. CASE quantized = None /\ storage # None
  BY <1>1, <1>3 DEF Found, Told, IsQuantized, Exl3Modules
<1>4. CASE quantized = None /\ storage = None
  BY <1>4 DEF IsQuantized
<1> QED BY <1>2, <1>3, <1>4

LEMMA BlockqFound ==
    ASSUME Types, Found, ~Looking
    PROVE  /\ BlockqStored <=> (quantized # None \/ storage # None) /\ "bq" \in ckpt.embed
           /\ DensePresent <=> storage # None /\ {"dense", "bq"} \subseteq ckpt.embed
           /\ trellis <=> quantized # None /\ "et" \in ckpt.embed
           /\ trellis \in BOOLEAN
BY DEF Found, Told, BlockqStored, DensePresent

(***************************************************************************)
(* Which parameters are registered, by what the predicates say.             *)
(***************************************************************************)
Takes(p) ==
    \/ p = <<"embed", "et">> /\ trellis
    \/ p = <<"embed", "bq">> /\ EmbeddingIsBlockq
    \/ p = <<"embed", "bq_src">> /\ BlockqIsOnLoad
    \/ p = <<"embed", "trellis">> /\ ~trellis /\ EmbeddingIsQuantized
    \/ /\ p = <<"embed", "weight">> /\ ~trellis /\ ~EmbeddingIsBlockq
       /\ ~EmbeddingIsQuantized \/ ckpt.rebased
    \/ p = <<"layers", "trellis">> /\ IsQuantized("layers")
    \/ p = <<"layers", "weight">> /\ ~IsQuantized("layers")
    \/ p = <<"tower", "trellis">> /\ ckpt.tower # "none" /\ IsQuantized("tower")
    \/ p = <<"tower", "weight">> /\ ckpt.tower # "none" /\ ~IsQuantized("tower")
    \/ p = <<"head", "trellis">> /\ ~ckpt.tied /\ HeadStorageExists
    \/ p = <<"head", "weight">> /\ ~ckpt.tied /\ ~HeadStorageExists

LEMMA EmbedTakes ==
    ASSUME Types, Found, ~Looking, NEW n
    PROVE  n \in Registered(EmbedMethod) \cup LeftOver(EmbedMethod) <=>
               \/ n = "et" /\ trellis
               \/ n = "bq" /\ EmbeddingIsBlockq
               \/ n = "bq_src" /\ BlockqIsOnLoad
               \/ n = "trellis" /\ ~trellis /\ EmbeddingIsQuantized
               \/ /\ n = "weight" /\ ~trellis /\ ~EmbeddingIsBlockq
                  /\ ~EmbeddingIsQuantized \/ ckpt.rebased
<1>1. EmbeddingIsBlockq => ~trellis
  BY DEF EmbeddingIsBlockq
<1>2. BlockqIsOnLoad => EmbeddingIsBlockq /\ ~EmbeddingIsQuantized
  BY DEF BlockqIsOnLoad, EmbeddingIsBlockq, OnLoadIsPossible
<1>3. CASE trellis
  <2>1. EmbedMethod = "et"
    BY <1>3 DEF EmbedMethod
  <2> QED BY <1>1, <1>2, <1>3, <2>1 DEF Registered, LeftOver
<1>4. CASE EmbeddingIsBlockq /\ EmbeddingIsQuantized
  <2>1. EmbedMethod = "bqTied"
    BY <1>1, <1>4 DEF EmbedMethod
  <2> QED BY <1>1, <1>2, <1>4, <2>1 DEF Registered, LeftOver
<1>5. CASE EmbeddingIsBlockq /\ ~EmbeddingIsQuantized
  <2>1. EmbedMethod = "bq"
    BY <1>1, <1>5 DEF EmbedMethod
  <2> QED BY <1>1, <1>2, <1>5, <2>1 DEF Registered, LeftOver
<1>6. CASE ~trellis /\ ~EmbeddingIsBlockq /\ EmbeddingIsQuantized
  <2>1. EmbedMethod = "exl3"
    BY <1>6 DEF EmbedMethod
  <2> QED BY <1>1, <1>2, <1>6, <2>1 DEF Registered, LeftOver
<1>7. CASE ~trellis /\ ~EmbeddingIsBlockq /\ ~EmbeddingIsQuantized
  <2>1. EmbedMethod = "dense"
    BY <1>7 DEF EmbedMethod
  <2> QED BY <1>1, <1>2, <1>7, <2>1 DEF Registered, LeftOver
<1> QED BY <1>1, <1>3, <1>4, <1>5, <1>6, <1>7

LEMMA AllTaken ==
    ASSUME Types, Found, ~Looking, NEW p
    PROVE  p \in AllParams <=> Takes(p)
<1>1. p \in EmbedParams <=>
         \/ p = <<"embed", "et">> /\ trellis
         \/ p = <<"embed", "bq">> /\ EmbeddingIsBlockq
         \/ p = <<"embed", "bq_src">> /\ BlockqIsOnLoad
         \/ p = <<"embed", "trellis">> /\ ~trellis /\ EmbeddingIsQuantized
         \/ /\ p = <<"embed", "weight">> /\ ~trellis /\ ~EmbeddingIsBlockq
            /\ ~EmbeddingIsQuantized \/ ckpt.rebased
  <2>1. p \in EmbedParams <=> \E n \in Registered(EmbedMethod) \cup LeftOver(EmbedMethod) :
                                  p = <<"embed", n>>
    BY DEF EmbedParams
  <2> QED BY <2>1, EmbedTakes
<1>2. p \in LinearParams <=>
         \/ p = <<"layers", "trellis">> /\ IsQuantized("layers")
         \/ p = <<"layers", "weight">> /\ ~IsQuantized("layers")
         \/ p = <<"tower", "trellis">> /\ ckpt.tower # "none" /\ IsQuantized("tower")
         \/ p = <<"tower", "weight">> /\ ckpt.tower # "none" /\ ~IsQuantized("tower")
  BY DEF LinearParams, Linears, ParamOf, LinearMethod
<1>3. p \in HeadParams <=>
         \/ p = <<"head", "trellis">> /\ ~ckpt.tied /\ HeadStorageExists
         \/ p = <<"head", "weight">> /\ ~ckpt.tied /\ ~HeadStorageExists
  <2>1. ~ckpt.tied => ckpt.modules = "two" /\ ~EmbeddingIsQuantized
    BY CkptLegal DEF Legal, EmbeddingIsQuantized
  <2>2. ~ckpt.tied => (HeadIsQuantized <=> HeadStorageExists)
    BY DEF HeadIsQuantized
  <2> QED BY <2>1, <2>2 DEF HeadParams, HeadMethod, ParamOf
<1> QED BY <1>1, <1>2, <1>3 DEF AllParams, Takes

(***************************************************************************)
(* Which tensors arrive, and where.                                         *)
(***************************************************************************)
\* The head's trellis is renamed onto the embedding.
Renamed == EmbeddingIsQuantized /\ ~trellis /\ ~Sidelined /\ ~BlockqIsOnLoad

Comes(p) ==
    \/ p = <<"embed", "et">> /\ "et" \in ckpt.embed /\ trellis
    \/ p = <<"embed", "trellis_signs">> /\ "et" \in ckpt.embed /\ ~trellis
    \/ p = <<"embed", "bq">> /\ "bq" \in ckpt.embed /\ ~(~trellis /\ Sidelined)
    \/ /\ p = <<"embed", "bq_src">> /\ "dense" \in ckpt.embed
       /\ ~trellis /\ ~Sidelined /\ BlockqIsOnLoad
    \/ /\ p = <<"embed", "weight">> /\ "dense" \in ckpt.embed
       /\ trellis \/ Sidelined \/ ~(EmbeddingIsQuantized \/ EmbeddingIsBlockq)
    \/ /\ p = <<"embed", "trellis">> /\ ckpt.head = "trellis"
       /\ ~HeadDeclined /\ Renamed
    \/ p = <<"layers", "trellis">>
    \/ p = <<"tower", "trellis">> /\ ckpt.tower = "trellis"
    \/ p = <<"tower", "weight">> /\ ckpt.tower = "dense"
    \/ p = <<"head", "trellis">> /\ ckpt.head = "trellis" /\ ~HeadDeclined /\ ~Renamed
    \/ p = <<"head", "weight">> /\ ckpt.head = "dense"

LEMMA MappedTo ==
    ASSUME prefix = Path(ckpt)
    PROVE  /\ Mapped(<<"head", "trellis">>) = IF HeadDeclined THEN Dropped
                                               ELSE IF Renamed THEN <<"embed", "trellis">>
                                               ELSE <<"head", "trellis">>
           /\ Mapped(<<"embed", "trellis_signs">>) = IF trellis THEN <<"embed", "et">>
                                                     ELSE <<"embed", "trellis_signs">>
           /\ Mapped(<<"embed", "bq">>) = IF ~trellis /\ Sidelined THEN Dropped
                                          ELSE <<"embed", "bq">>
           /\ Mapped(<<"embed", "weight">>) =
                 IF trellis \/ Sidelined \/ ~(EmbeddingIsQuantized \/ EmbeddingIsBlockq)
                 THEN <<"embed", "weight">>
                 ELSE IF BlockqIsOnLoad THEN <<"embed", "bq_src">> ELSE Dropped
           /\ \A t \in {<<"head", "weight">>, <<"layers", "trellis">>,
                        <<"tower", "trellis">>, <<"tower", "weight">>} : Mapped(t) = t
<1>1. Mapped(<<"head", "trellis">>) = IF HeadDeclined THEN Dropped
                                      ELSE IF Renamed THEN <<"embed", "trellis">>
                                      ELSE <<"head", "trellis">>
  BY DEF Mapped, Renamed
<1>2. Mapped(<<"embed", "trellis_signs">>) = IF trellis THEN <<"embed", "et">>
                                             ELSE <<"embed", "trellis_signs">>
  BY DEF Mapped
<1>3. Mapped(<<"embed", "bq">>) = IF ~trellis /\ Sidelined THEN Dropped ELSE <<"embed", "bq">>
  BY DEF Mapped
<1>4. Mapped(<<"embed", "weight">>) =
         IF trellis \/ Sidelined \/ ~(EmbeddingIsQuantized \/ EmbeddingIsBlockq)
         THEN <<"embed", "weight">>
         ELSE IF BlockqIsOnLoad THEN <<"embed", "bq_src">> ELSE Dropped
  BY DEF Mapped
<1>5. ASSUME NEW t \in {<<"head", "weight">>, <<"layers", "trellis">>,
                        <<"tower", "trellis">>, <<"tower", "weight">>}
      PROVE  Mapped(t) = t
  BY DEF Mapped
<1> QED BY <1>1, <1>2, <1>3, <1>4, <1>5

LEMMA ArrivingComes ==
    ASSUME Types, Found, ~Looking, prefix = Path(ckpt), NEW p
    PROVE  p \in Arriving <=> Comes(p)
<1> DEFINE E == {EmbedTensor(e) : e \in ckpt.embed}
           H == {<<"head", IF ckpt.head = "trellis" THEN "trellis" ELSE "weight">>}
           T == IF ckpt.tower = "none" THEN {}
                ELSE {<<"tower", IF ckpt.tower = "trellis" THEN "trellis" ELSE "weight">>}
<1>1. p \in Arriving <=> /\ p # Dropped
                         /\ \/ \E t \in E : p = Mapped(t)
                            \/ \E t \in H : p = Mapped(t)
                            \/ \E t \in T : p = Mapped(t)
                            \/ p = Mapped(<<"layers", "trellis">>)
  BY DEF Arriving, Stream
<1>2. \A t : t \in E <=> \/ t = <<"embed", "weight">> /\ "dense" \in ckpt.embed
                         \/ t = <<"embed", "bq">> /\ "bq" \in ckpt.embed
                         \/ t = <<"embed", "trellis_signs">> /\ "et" \in ckpt.embed
  BY OneEncoding DEF EmbedTensor
<1>3. p # Dropped /\ (\E t \in E : p = Mapped(t)) <=>
         \/ p = <<"embed", "et">> /\ "et" \in ckpt.embed /\ trellis
         \/ p = <<"embed", "trellis_signs">> /\ "et" \in ckpt.embed /\ ~trellis
         \/ p = <<"embed", "bq">> /\ "bq" \in ckpt.embed /\ ~(~trellis /\ Sidelined)
         \/ /\ p = <<"embed", "bq_src">> /\ "dense" \in ckpt.embed
            /\ ~trellis /\ ~Sidelined /\ BlockqIsOnLoad
         \/ /\ p = <<"embed", "weight">> /\ "dense" \in ckpt.embed
            /\ trellis \/ Sidelined \/ ~(EmbeddingIsQuantized \/ EmbeddingIsBlockq)
  <2>1. (\E t \in E : p = Mapped(t)) <=>
           \/ p = Mapped(<<"embed", "weight">>) /\ "dense" \in ckpt.embed
           \/ p = Mapped(<<"embed", "bq">>) /\ "bq" \in ckpt.embed
           \/ p = Mapped(<<"embed", "trellis_signs">>) /\ "et" \in ckpt.embed
    BY <1>2, Zenon
  <2>2. BlockqIsOnLoad => EmbeddingIsBlockq
    BY DEF BlockqIsOnLoad
  <2> HIDE DEF E
  <2> QED BY <2>1, <2>2, MappedTo DEF Dropped
<1>4. p # Dropped /\ (\E t \in H : p = Mapped(t)) <=>
         \/ /\ p = <<"embed", "trellis">> /\ ckpt.head = "trellis"
            /\ ~HeadDeclined /\ Renamed
         \/ p = <<"head", "trellis">> /\ ckpt.head = "trellis" /\ ~HeadDeclined /\ ~Renamed
         \/ p = <<"head", "weight">> /\ ckpt.head = "dense"
  <2>1. ckpt.head \in {"trellis", "dense"}
    BY CkptLegal DEF Checkpoint
  <2> QED BY <2>1, MappedTo DEF Dropped
<1>5. p # Dropped /\ (\E t \in T : p = Mapped(t)) <=>
         \/ p = <<"tower", "trellis">> /\ ckpt.tower = "trellis"
         \/ p = <<"tower", "weight">> /\ ckpt.tower = "dense"
  <2>1. ckpt.tower \in {"none", "trellis", "dense"}
    BY CkptLegal DEF Checkpoint
  <2> QED BY <2>1, MappedTo DEF Dropped
<1>6. p # Dropped /\ p = Mapped(<<"layers", "trellis">>) <=> p = <<"layers", "trellis">>
  BY MappedTo DEF Dropped
<1> HIDE DEF E, H, T
<1> QED BY <1>1, <1>3, <1>4, <1>5, <1>6 DEF Comes

(***************************************************************************)
(* The two decisions agree.                                                 *)
(***************************************************************************)
\* A described checkpoint: what is found of its modules is so.
LEMMA DescribedTrue ==
    ASSUME Types, Found, ~Looking, Described
    PROVE  /\ HeadStorageExists <=> ckpt.head = "trellis"
           /\ IsQuantized("layers")
           /\ ckpt.tower # "none" => (IsQuantized("tower") <=> ckpt.tower = "trellis")
           /\ trellis <=> "et" \in ckpt.embed
           /\ BlockqStored <=> "bq" \in ckpt.embed
<1>1. ckpt.tower \in {"none", "trellis", "dense"}
  BY CkptLegal DEF Checkpoint
<1>2. CASE quantized # None
  BY <1>1, <1>2, HeadFound, LinearFound, BlockqFound DEF Stores
<1>3. CASE quantized = None /\ storage # None /\ ckpt.listing = "all" /\ "et" \notin ckpt.embed
  BY <1>1, <1>3, HeadFound, LinearFound, BlockqFound DEF Stores, Lists
<1>4. CASE /\ quantized = None /\ storage = None
           /\ ckpt.embed = {"dense"} /\ ckpt.tower # "dense"
           /\ ckpt.headBits = (ckpt.head = "trellis")
  BY <1>1, <1>4, HeadFound, LinearFound, BlockqFound
<1> QED BY <1>2, <1>3, <1>4 DEF Described

LEMMA DescribedAgrees ==
    ASSUME Types, Found, ~Looking, prefix = Path(ckpt), Described, ~NothingDense,
           ~(trellis /\ ckpt.tied)
    PROVE  /\ HeadTied
           /\ Arriving \subseteq AllParams
           /\ AllParams \subseteq Arriving \cup Encoded
<1> USE DEF EmbeddingIsBlockq, BlockqIsOnLoad, OnLoadIsPossible, EmbeddingIsQuantized,
            HeadIsQuantized
<1>1. /\ Sidelined => flags.dense /\ ~EmbeddingIsQuantized
      /\ BlockqIsOnLoad => ~EmbeddingIsQuantized /\ ~Sidelined
  <2>1. BlockqStored => ~trellis
    BY BlockqFound, OneEncoding
  <2> QED BY <2>1 DEF Sidelined
<1>2. /\ ckpt.tied => ckpt.head = "trellis" /\ ~ckpt.rebased
      /\ ckpt.head \in {"trellis", "dense"} /\ ckpt.tower \in {"none", "trellis", "dense"}
  BY CkptLegal DEF Legal, Checkpoint
<1>3. \A e \in ckpt.embed : e \in {"dense", "bq", "et"} /\ (e = "et" <=> "et" \in ckpt.embed)
  BY OneEncoding
<1>4. "dense" \in ckpt.embed \/ "bq" \in ckpt.embed \/ "et" \in ckpt.embed
  BY OneEncoding
<1>5. DensePresent => "dense" \in ckpt.embed /\ "bq" \in ckpt.embed
  BY BlockqFound
<1>6. ASSUME NEW p, Comes(p) PROVE Takes(p)
  <2>1. CASE p[1] = "embed"
    <3>1. CASE p \in {<<"embed", "et">>, <<"embed", "trellis_signs">>}
      BY <1>6, <3>1, DescribedTrue DEF Comes, Takes
    <3>2. CASE p \in {<<"embed", "bq">>, <<"embed", "bq_src">>}
      BY <1>6, <3>2, DescribedTrue, OneEncoding DEF Comes, Takes, Sidelined
    <3>3. CASE p = <<"embed", "trellis">>
      BY <1>6, <3>3 DEF Comes, Takes, Renamed
    <3>4. CASE p = <<"embed", "weight">>
      <4>1. "dense" \in ckpt.embed /\ ~trellis
        BY <1>6, <3>4, DescribedTrue, OneEncoding DEF Comes
      <4>2. Sidelined \/ ~(EmbeddingIsQuantized \/ EmbeddingIsBlockq)
        BY <1>6, <3>4, <4>1 DEF Comes
      <4>3. ~EmbeddingIsBlockq /\ ~EmbeddingIsQuantized
        BY <1>1, <4>2 DEF Sidelined
      <4> QED BY <3>4, <4>1, <4>3 DEF Takes
    <3> QED BY <1>6, <2>1, <3>1, <3>2, <3>3, <3>4 DEF Comes
  <2>2. CASE p[1] = "head"
    BY <1>1, <1>2, <1>6, <2>2, DescribedTrue DEF Comes, Takes, HeadDeclined, Renamed
  <2>3. CASE p[1] \in {"layers", "tower"}
    BY <1>2, <1>6, <2>3, DescribedTrue DEF Comes, Takes
  <2> QED BY <1>6, <2>1, <2>2, <2>3 DEF Comes
<1>7. ASSUME NEW p, Takes(p) PROVE Comes(p) \/ p \in Encoded
  <2>1. Comes(<<"embed", "bq_src">>) => <<"embed", "bq">> \in Encoded
    BY ArrivingComes DEF Encoded
  <2>2. CASE p[1] = "embed"
    <3>1. CASE p = <<"embed", "et">>
      BY <1>7, <3>1, DescribedTrue DEF Comes, Takes
    <3>2. CASE p \in {<<"embed", "bq">>, <<"embed", "bq_src">>}
      BY <1>1, <1>3, <1>4, <1>7, <2>1, <3>2, DescribedTrue DEF Comes, Takes, Sidelined
    <3>3. CASE p = <<"embed", "trellis">>
      BY <1>1, <1>2, <1>7, <3>3, DescribedTrue DEF Comes, Takes, Renamed, HeadDeclined
    <3>4. CASE p = <<"embed", "weight">>
      BY <1>1, <1>2, <1>3, <1>4, <1>5, <1>7, <3>4, DescribedTrue DEF Comes, Takes, Sidelined
    <3> QED BY <1>7, <2>2, <3>1, <3>2, <3>3, <3>4 DEF Takes
  <2>3. CASE p[1] = "head"
    BY <1>2, <1>7, <2>3, DescribedTrue DEF Comes, Takes, HeadDeclined, Renamed
  <2>4. CASE p[1] \in {"layers", "tower"}
    BY <1>2, <1>7, <2>4, DescribedTrue DEF Comes, Takes
  <2> QED BY <1>7, <2>2, <2>3, <2>4 DEF Takes
<1>8. HeadTied
  <2> SUFFICES ASSUME ckpt.tied, ~EmbeddingIsQuantized PROVE <<"embed", "weight">> \in AllParams
    BY DEF HeadTied, HeadMethod
  <2>1. flags.dense /\ ~trellis
    BY <1>2, DescribedTrue
  <2>2. "bq" \in ckpt.embed => DensePresent
    BY <2>1, BlockqFound, OneEncoding DEF NothingDense
  <2>3. ~EmbeddingIsBlockq
    BY <2>1, <2>2, DescribedTrue
  <2> QED BY <2>1, <2>3, AllTaken DEF Takes
<1> QED BY <1>6, <1>7, <1>8, ArrivingComes, AllTaken

(***************************************************************************)
(* What is served.                                                          *)
(***************************************************************************)
LEMMA MethodIs ==
    ASSUME Types, Found, ~Looking
    PROVE  /\ trellis => EmbedMethod = "et"
           /\ EmbeddingIsBlockq /\ EmbeddingIsQuantized => EmbedMethod = "bqTied"
           /\ EmbeddingIsBlockq /\ ~EmbeddingIsQuantized => EmbedMethod = "bq"
           /\ ~trellis /\ ~EmbeddingIsBlockq /\ EmbeddingIsQuantized => EmbedMethod = "exl3"
           /\ ~trellis /\ ~EmbeddingIsBlockq /\ ~EmbeddingIsQuantized => EmbedMethod = "dense"
BY DEF EmbedMethod, EmbeddingIsBlockq

\* All of these hold in "serving".
Matched == /\ prefix = Path(ckpt) /\ ~(trellis /\ ckpt.tied) /\ HeadTied
           /\ Arriving \subseteq AllParams /\ AllParams \subseteq Arriving \cup Encoded

LEMMA RolesMatched ==
    ASSUME Types, Found, ~Looking, Matched, ~NothingDense
    PROVE  /\ ckpt.modules = "one" => HasMatmul(EmbedMethod)
           /\ ckpt.modules = "two" /\ HeadMethod = "tied" => HasMatmul(EmbedMethod)
           /\ ckpt.modules = "two" /\ HeadMethod = "dense" =>
                 <<IF ckpt.tied THEN "embed" ELSE "head", "weight">> \in Arriving \cup Encoded
<1>1. /\ ckpt.modules = "one" => ckpt.tied
      /\ ckpt.tied => ckpt.head = "trellis"
  BY CkptLegal DEF Legal, Checkpoint
<1>2. ASSUME ckpt.tied, EmbeddingIsQuantized PROVE HasMatmul(EmbedMethod)
  BY <1>2, MethodIs DEF Matched, HasMatmul
<1>3. ASSUME ckpt.modules = "one", ~EmbeddingIsQuantized PROVE HasMatmul(EmbedMethod)
  <2>1. ~Comes(<<"head", "trellis">>)
    <3>1. ~Takes(<<"head", "trellis">>)
      BY <1>1, <1>3 DEF Takes
    <3> QED BY <3>1, AllTaken, ArrivingComes DEF Matched
  <2>2. HeadDeclined
    BY <1>1, <1>3, <2>1 DEF Comes, Renamed
  <2>3. flags.dense
    BY <1>1, <1>3, <2>2 DEF HeadDeclined, EmbeddingIsQuantized
  <2>4. ~EmbeddingIsBlockq
    <3>1. BlockqStored => "bq" \in ckpt.embed
      BY BlockqFound
    <3>2. "bq" \in ckpt.embed => storage # None /\ {"dense", "bq"} \subseteq ckpt.embed
      BY <1>1, <1>3, <2>3, OneEncoding DEF NothingDense
    <3>3. BlockqStored => DensePresent
      BY <3>1, <3>2, BlockqFound
    <3> QED BY <2>3, <3>3 DEF EmbeddingIsBlockq
  <2> QED BY <1>1, <1>3, <2>4, MethodIs DEF Matched, HasMatmul
<1>4. EmbeddingIsQuantized => ckpt.tied
  BY DEF EmbeddingIsQuantized
<1>5. HeadMethod = "tied" => EmbeddingIsQuantized
  BY DEF HeadMethod
<1>6. ASSUME ckpt.modules = "two", HeadMethod = "dense"
      PROVE  <<IF ckpt.tied THEN "embed" ELSE "head", "weight">> \in AllParams
  <2>1. CASE ckpt.tied
    BY <1>6, <2>1 DEF Matched, HeadTied
  <2>2. CASE ~ckpt.tied
    BY <1>6, <2>2, AllTaken DEF Takes, HeadMethod, HeadIsQuantized
  <2> QED BY <2>1, <2>2
<1> QED BY <1>1, <1>2, <1>3, <1>4, <1>5, <1>6 DEF Matched

LEMMA EncodingMatched ==
    ASSUME Types, Found, ~Looking, Described, ~flags.dense
    PROVE  /\ "bq" \in ckpt.embed => EmbedMethod \in {"bq", "bqTied"}
           /\ ckpt.tied /\ ckpt.embed = {"dense"} => EmbedMethod = "exl3"
           /\ EmbedMethod # "dense" => <<"embed", "weight">> \notin AllParams
           /\ <<"embed", "bq_src">> \in AllParams => "bq" \notin ckpt.embed
<1>1. ckpt.tied => ckpt.head = "trellis" /\ ~ckpt.rebased
  BY CkptLegal DEF Legal
<1>2. "bq" \in ckpt.embed => EmbeddingIsBlockq
  BY DescribedTrue, OneEncoding DEF EmbeddingIsBlockq
<1>3. ASSUME ckpt.tied, ckpt.embed = {"dense"} PROVE EmbedMethod = "exl3"
  <2>1. EmbeddingIsQuantized
    BY <1>1, <1>3, DescribedTrue DEF EmbeddingIsQuantized
  <2>2. ~trellis /\ ~BlockqStored
    BY <1>3, DescribedTrue
  <2> QED BY <2>1, <2>2, MethodIs DEF EmbeddingIsBlockq, OnLoadIsPossible
<1>4. Takes(<<"embed", "weight">>) => EmbedMethod = "dense"
  BY <1>1, MethodIs DEF Takes, EmbeddingIsQuantized
<1>5. Takes(<<"embed", "bq_src">>) => "bq" \notin ckpt.embed
  BY DescribedTrue DEF Takes, BlockqIsOnLoad
<1> QED BY <1>2, <1>3, <1>4, <1>5, AllTaken, MethodIs

LEMMA DenseMatched ==
    ASSUME Types, Found, ~Looking, flags.dense, "dense" \in ckpt.embed,
           "bq" \in ckpt.embed => storage # None
    PROVE  EmbedMethod = "dense"
<1>1. ~trellis /\ ~EmbeddingIsQuantized
  BY BlockqFound, OneEncoding DEF EmbeddingIsQuantized
<1>2. ~EmbeddingIsBlockq
  BY BlockqFound DEF EmbeddingIsBlockq
<1> QED BY <1>1, <1>2, MethodIs

LEMMA ParamTypes ==
    ASSUME Types, Found, ~Looking
    PROVE  /\ AllParams \subseteq Param
           /\ <<"embed", "bq_src">> \in AllParams => <<"embed", "bq">> \in AllParams
           /\ Arriving \subseteq AllParams => Encoded \subseteq AllParams
           /\ EmbedMethod \in {"dense", "exl3", "et", "bq", "bqTied"}
           /\ HeadMethod \in {"tied", "exl3", "dense"}
           /\ \A m \in Module : LinearMethod(m) \in {"exl3", "dense"}
<1>1. ASSUME NEW p, Takes(p) PROVE p \in Param
  BY <1>1 DEF Takes, Param, Module
<1>2. Takes(<<"embed", "bq_src">>) => Takes(<<"embed", "bq">>)
  BY DEF Takes, BlockqIsOnLoad
<1>3. Arriving \subseteq AllParams => Encoded \subseteq AllParams
  BY <1>2, AllTaken DEF Encoded
<1> QED BY <1>1, <1>2, <1>3, AllTaken DEF EmbedMethod, HeadMethod, LinearMethod

\* When all lookups answered, what is registered is what the key and the
\* checkpoint say.
LEMMA NamesFollow ==
    ASSUME Types, Found, ~Looking, quantized # None, storage # None \/ ckpt.listing = "none"
    PROVE  AllParams \ {<<"embed", "bq_src">>} =
               {p \in Param : Named(p, flags.dense, flags.onLoad)}
<1>1. Described
  BY DEF Described
<1>2. /\ ckpt.head \in {"trellis", "dense"} /\ ckpt.tower \in {"none", "trellis", "dense"}
      /\ ckpt.tied => ~ckpt.rebased
      /\ "bq" \in ckpt.embed => ckpt.listing # "none"
  BY CkptLegal DEF Legal, Checkpoint
<1>3. EmbeddingIsQuantized <=> ~flags.dense /\ ckpt.tied /\ ckpt.head = "trellis"
  BY <1>1, DescribedTrue DEF EmbeddingIsQuantized
<1>4. EmbeddingIsBlockq <=> UsesBq(flags.dense, flags.onLoad)
  <2>1. CASE "bq" \in ckpt.embed
    <3>1. DensePresent <=> "dense" \in ckpt.embed
      BY <1>2, <2>1, BlockqFound
    <3> QED BY <1>1, <2>1, <3>1, DescribedTrue DEF EmbeddingIsBlockq, UsesBq
  <2>2. CASE "bq" \notin ckpt.embed
    BY <1>1, <1>3, <2>2, DescribedTrue DEF EmbeddingIsBlockq, UsesBq, OnLoadIsPossible
  <2> QED BY <2>1, <2>2
<1>5. ASSUME NEW p
      PROVE  Takes(p) /\ p # <<"embed", "bq_src">> <=> Named(p, flags.dense, flags.onLoad)
  <2>1. CASE p[1] = "embed"
    <3>1. CASE p = <<"embed", "weight">>
      BY <1>1, <1>2, <1>3, <1>4, <3>1, DescribedTrue DEF Takes, Named, UsesTrellis
    <3>2. CASE p # <<"embed", "weight">>
      BY <1>1, <1>3, <1>4, <2>1, <3>2, DescribedTrue DEF Takes, Named, UsesTrellis
    <3> QED BY <3>1, <3>2
  <2>2. CASE p[1] # "embed"
    BY <1>1, <1>2, <2>2, DescribedTrue DEF Takes, Named
  <2> QED BY <2>1, <2>2
<1> QED BY <1>5, AllTaken, ParamTypes

(***************************************************************************)
(* The invariant is inductive.                                              *)
(***************************************************************************)
LEMMA InvInit == Init => EmbedInv
<1> SUFFICES ASSUME Init PROVE EmbedInv
  OBVIOUS
<1>1. Types
  BY CheckpointsAssumption DEF Init, Types, Phase, ConfigInit, ModuleInit, NotBuilt, Module
<1>2. Found
  BY DEF Init, Found, Looking, Looked, ConfigInit, ModuleInit
<1>3. Built /\ Traced
  BY DEF Init, Built, Traced, Looking
<1> QED BY <1>1, <1>2, <1>3 DEF EmbedInv

\* While the configuration stays, so does what follows from it.
LEMMA Follows ==
    ASSUME UNCHANGED <<ckpt, flags, configVars>>
    PROVE  /\ EmbedParams' = EmbedParams /\ LinearParams' = LinearParams
           /\ HeadParams' = HeadParams /\ AllParams' = AllParams
           /\ EmbedMethod' = EmbedMethod /\ HeadMethod' = HeadMethod
           /\ HeadTied' <=> HeadTied
           /\ Told' <=> Told
           /\ prefix' = prefix => Arriving' = Arriving /\ Encoded' = Encoded
<1> USE DEF configVars
<1>1. HeadStorageExists' <=> HeadStorageExists
  BY DEF HeadStorageExists, Exl3Modules
<1>2. EmbeddingIsQuantized' <=> EmbeddingIsQuantized
  BY <1>1 DEF EmbeddingIsQuantized
<1>3. /\ BlockqStored' <=> BlockqStored
      /\ DensePresent' <=> DensePresent
  BY DEF BlockqStored, DensePresent
<1>4. EmbeddingIsBlockq' <=> EmbeddingIsBlockq
  BY <1>2, <1>3 DEF EmbeddingIsBlockq, OnLoadIsPossible
<1>5. BlockqIsOnLoad' <=> BlockqIsOnLoad
  BY <1>3, <1>4 DEF BlockqIsOnLoad
<1>6. EmbedMethod' = EmbedMethod
  BY <1>2, <1>4 DEF EmbedMethod
<1>7. EmbedParams' = EmbedParams
  <2>1. Registered(EmbedMethod)' = Registered(EmbedMethod)
    BY <1>5, <1>6 DEF Registered
  <2>2. LeftOver(EmbedMethod)' = LeftOver(EmbedMethod)
    BY <1>6 DEF LeftOver
  <2> QED BY <2>1, <2>2 DEF EmbedParams
<1>8. LinearParams' = LinearParams
  <2>1. \A m : IsQuantized(m)' <=> IsQuantized(m)
    BY DEF IsQuantized, Exl3Modules
  <2>2. \A m : ParamOf(LinearMethod(m))' = ParamOf(LinearMethod(m))
    BY <2>1 DEF LinearMethod, ParamOf
  <2>3. Linears' = Linears
    BY DEF Linears
  <2> QED BY <2>2, <2>3 DEF LinearParams
<1>9. HeadMethod' = HeadMethod
  BY <1>1, <1>2 DEF HeadMethod, HeadIsQuantized
<1>10. HeadParams' = HeadParams
  BY <1>9 DEF HeadParams, ParamOf
<1>11. AllParams' = AllParams
  BY <1>7, <1>8, <1>10 DEF AllParams
<1>12. HeadTied' <=> HeadTied
  BY <1>9, <1>11 DEF HeadTied
<1>13. Told' <=> Told
  <2>1. \A m : (Stores(m)' <=> Stores(m)) /\ (Lists(m)' <=> Lists(m))
    BY DEF Stores, Lists
  <2> QED BY <2>1 DEF Told
<1>14. ASSUME prefix' = prefix PROVE Arriving' = Arriving /\ Encoded' = Encoded
  <2>1. Sidelined' <=> Sidelined
    BY <1>3, <1>4 DEF Sidelined
  <2>2. HeadDeclined' <=> HeadDeclined
    BY <1>1, <1>2 DEF HeadDeclined, HeadIsQuantized
  <2>3. \A t : Mapped(t)' = Mapped(t)
    BY <1>2, <1>4, <1>5, <1>14, <2>1, <2>2 DEF Mapped, Dropped, Path
  <2>4. Stream' = Stream
    BY DEF Stream, EmbedTensor
  <2>5. Arriving' = Arriving
    BY <2>3, <2>4 DEF Arriving, Dropped
  <2> QED BY <2>5 DEF Encoded
<1> QED BY <1>6, <1>7, <1>8, <1>9, <1>10, <1>11, <1>12, <1>13, <1>14

\* Then what was found stays as well.
LEMMA FoundStays ==
    ASSUME Found, ~Looking, ~Looking', UNCHANGED <<ckpt, flags, configVars>>
    PROVE  Found'
BY Follows DEF Found, configVars

LEMMA TracedStays ==
    ASSUME Traced, UNCHANGED <<ckpt, graphs>>
    PROVE  Traced'
<1>1. \A p, d, o : Named(p, d, o)' <=> Named(p, d, o)
  BY DEF Named, UsesBq, UsesTrellis
<1>2. ASSUME NEW g \in graphs', g.informed
      PROVE  g = [key |-> g.key, names |-> {p \in Param : Named(p, g.key[1], g.key[2])'},
                  dequantized |-> FALSE, informed |-> TRUE]
  <2>1. {p \in Param : Named(p, g.key[1], g.key[2])'}
           = {p \in Param : Named(p, g.key[1], g.key[2])}
    BY <1>1
  <2> QED BY <1>2, <2>1 DEF Traced
<1> QED BY <1>2 DEF Traced, Param

LEMMA TypesNext ==
    ASSUME Types, Found, Next
    PROVE  Types'
<1> USE DEF Types, Phase, Failed, configVars, moduleVars
<1>1. CASE ReadIndex
  BY <1>1 DEF ReadIndex
<1>2. CASE IndexUnread
  BY <1>2, CheckpointsAssumption DEF IndexUnread
<1>3. CASE ReadStorage
  BY <1>3 DEF ReadStorage
<1>4. CASE StorageUnread
  BY <1>4, CheckpointsAssumption DEF StorageUnread
<1>5. CASE Translate
  BY <1>5 DEF Translate
<1>6. Prefix \in {"model", "language_model.model"}
  BY DEF Prefix, Path
<1>7. CASE BuildEmbedding
  <2>1. EmbedMethod \in {"dense", "exl3", "et", "bq", "bqTied"}
    BY DEF EmbedMethod
  <2> QED BY <1>6, <1>7, <2>1 DEF BuildEmbedding
<1>8. CASE RefuseTied
  BY <1>6, <1>8 DEF RefuseTied
<1>9. CASE BuildLinears
  <2>1. \A m \in Module : LinearMethod(m) \in {"exl3", "dense"}
    BY DEF LinearMethod
  <2> QED BY <1>9, <2>1 DEF BuildLinears
<1>10. HeadMethod \in {"tied", "exl3", "dense"}
  BY DEF HeadMethod
<1>11. CASE BuildHead
  BY <1>10, <1>11 DEF BuildHead
<1>12. CASE TieHead
  BY <1>10, <1>12 DEF TieHead
<1>13. CASE ShareModule
  BY <1>13 DEF ShareModule
<1>14. CASE LoadWeights \/ Unclaimed \/ Serve \/ Unfilled
  BY <1>14 DEF LoadWeights, Unclaimed, Serve, Unfilled
<1>15. ASSUME NEW f \in Flags, Restart(f) PROVE Types'
  BY <1>15, CheckpointsAssumption DEF Restart, NotBuilt, Module
<1> QED BY <1>1, <1>2, <1>3, <1>4, <1>5, <1>7, <1>8, <1>9, <1>11, <1>12, <1>13, <1>14, <1>15
        DEF Next

LEMMA NamesTyped ==
    ASSUME Types
    PROVE  Trellised \in SUBSET Name /\ Listed \in StorageMap
<1>1. Trellised \in SUBSET Name
  BY DEF Trellised, Key, Name, Module
<1> QED BY <1>1 DEF Listed, StorageMap

\* Under vLLM's names a module is there if it was under the checkpoint's.
LEMMA TranslatedIs ==
    ASSUME Types
    PROVE  /\ Translated(Trellised) \in SUBSET Name
           /\ \A m \in Module : <<m, "vllm">> \in Translated(Trellised) <=> Stores(m)
           /\ Translated(Listed.exl3) \in SUBSET Name
           /\ \A m \in Module :
                 ckpt.listing # "none" => (<<m, "vllm">> \in Translated(Listed.exl3) <=> Lists(m))
<1>1. \A keys : \A m : <<m, "vllm">> \in Translated(keys) <=> \E k \in keys : k[1] = m
  BY DEF Translated
<1>2. \A m : (\E k \in Trellised : k[1] = m) <=> Stores(m)
  <2>1. \A m : Key(m)[1] = m
    BY DEF Key
  <2>2. \A k : k \in Trellised <=> \E m : Stores(m) /\ k = Key(m)
    BY DEF Trellised, Stores
  <2> QED BY <2>1, <2>2
<1>3. \A m : (\E k \in Trellised \ {Key("tower")} : k[1] = m) <=> Stores(m) /\ m # "tower"
  <2>1. \A m : Key(m)[1] = m
    BY DEF Key
  <2>2. \A k : k \in Trellised <=> \E m : Stores(m) /\ k = Key(m)
    BY DEF Trellised, Stores
  <2> QED BY <2>1, <2>2
<1>4. \A keys \in SUBSET Name : Translated(keys) \in SUBSET Name
  BY DEF Translated, Name
<1>5. Listed.exl3 \in SUBSET Name
  BY NamesTyped DEF StorageMap
<1>6. \A m : ckpt.listing # "none" => ((\E k \in Listed.exl3 : k[1] = m) <=> Lists(m))
  <2>1. ckpt.listing \in {"none", "embedding", "text", "all"}
    BY CkptLegal DEF Checkpoint
  <2>2. Listed.exl3 = CASE ckpt.listing = "all"  -> Trellised
                        [] ckpt.listing = "text" -> Trellised \ {Key("tower")}
                        [] OTHER -> {}
    BY DEF Listed
  <2>3. CASE ckpt.listing = "all"
    BY <1>2, <2>2, <2>3 DEF Lists
  <2>4. CASE ckpt.listing = "text"
    BY <1>3, <2>2, <2>4 DEF Lists
  <2>5. CASE ckpt.listing = "embedding"
    BY <2>2, <2>5 DEF Lists
  <2> QED BY <2>1, <2>3, <2>4, <2>5
<1> QED BY <1>1, <1>2, <1>4, <1>5, <1>6, NamesTyped

LEMMA FoundNext ==
    ASSUME Types, Found, Built, Next
    PROVE  Found'
<1> USE DEF configVars, moduleVars
<1>1. CASE ReadIndex
  <2>1. Looking /\ Looking' /\ Trellised' = Trellised
    BY <1>1 DEF ReadIndex, Looking, Trellised, Key
  <2>2. Trellised # None
    BY NamesTyped, CheckpointsAssumption
  <2> QED BY <1>1, <2>1, <2>2, NamesTyped DEF ReadIndex, Found, Looked
<1>2. CASE IndexUnread
  BY <1>2 DEF IndexUnread, Found, Looking, Looked
<1>3. CASE ReadStorage
  <2>1. Looking /\ Looking' /\ Trellised' = Trellised /\ Listed' = Listed
    BY <1>3 DEF ReadStorage, Looking, Trellised, Listed, Key
  <2> QED BY <1>3, <2>1, NamesTyped DEF ReadStorage, Found, Looked
<1>4. CASE StorageUnread
  <2>1. Looking /\ Looking' /\ Trellised' = Trellised
    BY <1>4 DEF StorageUnread, Looking, Trellised, Key
  <2> QED BY <1>4, <2>1 DEF StorageUnread, Found, Looked
<1>5. CASE Translate
  <2>1. Looking /\ ~Looking'
    BY <1>5 DEF Translate, Looking
  <2>2. quantized' = None \/ (quantized' = Translated(Trellised) /\ quantized # None)
    <3>1. quantized = None \/ quantized = Trellised
      BY <2>1 DEF Found, Looked
    <3>2. quantized' = IF quantized = None THEN None ELSE Translated(quantized)
      BY <1>5 DEF Translate
    <3> QED BY <3>1, <3>2
  <2>3. quantized = None => quantized' = None
    BY <1>5 DEF Translate
  <2>4. \/ storage' = None
        \/ /\ ckpt.listing # "none"
           /\ storage' = [Listed EXCEPT !.exl3 = Translated(@)]
    BY <1>5, <2>1 DEF Translate, Found, Looked, Translated
  <2>5. [Listed EXCEPT !.exl3 = Translated(@)] =
           [exl3 |-> Translated(Listed.exl3), blockq |-> "bq" \in ckpt.embed,
            retained |-> {"dense", "bq"} \subseteq ckpt.embed]
    BY DEF Listed
  <2>6. quantized # None => quantized' # None
    BY <1>5, <2>1, TranslatedIs, CheckpointsAssumption DEF Translate, Found, Looked
  <2>7. \A m : (Stores(m)' <=> Stores(m)) /\ (Lists(m)' <=> Lists(m))
    BY <1>5 DEF Translate, Stores, Lists
  <2>8. quantized' = None \/ quantized' \in SUBSET Name
    BY <2>2, TranslatedIs
  <2>9. storage' = None \/ storage' \in StorageMap
    <3>1. [exl3 |-> Translated(Listed.exl3), blockq |-> "bq" \in ckpt.embed,
           retained |-> {"dense", "bq"} \subseteq ckpt.embed] \in StorageMap
      BY TranslatedIs DEF StorageMap
    <3> QED BY <2>4, <2>5, <3>1
  <2>10. Told'
    BY <1>5, <2>2, <2>4, <2>5, <2>7, TranslatedIs DEF Translate, Told
  <2> QED BY <1>5, <2>1, <2>3, <2>6, <2>8, <2>9, <2>10 DEF Translate, Found
<1>6. CASE BuildEmbedding \/ RefuseTied \/ BuildLinears \/ BuildHead \/ TieHead \/ ShareModule
  BY <1>6, FoundStays DEF BuildEmbedding, RefuseTied, BuildLinears, BuildHead, TieHead,
                          ShareModule, Looking
<1>7. CASE LoadWeights \/ Unclaimed \/ Serve \/ Unfilled
  BY <1>7, FoundStays DEF LoadWeights, Unclaimed, Serve, Unfilled, Looking
<1>8. ASSUME NEW f \in Flags, Restart(f) PROVE Found'
  BY <1>8 DEF Restart, Found, Looking, Looked, NotBuilt
<1> QED BY <1>1, <1>2, <1>3, <1>4, <1>5, <1>6, <1>7, <1>8 DEF Next

LEMMA BuiltNext ==
    ASSUME Types, Found, Built, Next
    PROVE  Built'
<1> USE DEF configVars, moduleVars, Failed
<1>1. CASE ReadIndex \/ IndexUnread \/ ReadStorage \/ StorageUnread
  BY <1>1 DEF ReadIndex, IndexUnread, ReadStorage, StorageUnread, Built, Looking
<1>2. CASE Translate
  BY <1>2 DEF Translate, Found, Looked, Built, Looking
<1>3. CASE BuildEmbedding
  <2>1. prefix' = Path(ckpt) /\ Path(ckpt)' = Path(ckpt)
    <3>1. prefix = "model" /\ (ckpt.prefix \/ ~ckpt.nested)
      BY <1>3, CkptLegal DEF BuildEmbedding, Built, Looking, Legal
    <3> QED BY <1>3, <3>1 DEF BuildEmbedding, Prefix, Path
  <2>2. /\ method'["embed"] = EmbedMethod /\ method'["head"] = "none"
        /\ params' = EmbedParams
        /\ filled' = {}
    BY <1>3 DEF BuildEmbedding, Built, Looking, NotBuilt, Module, EmbedParams
  <2>3. EmbedMethod' = EmbedMethod /\ EmbedParams' = EmbedParams
    BY <1>3, Follows DEF BuildEmbedding
  <2> QED BY <1>3, <2>1, <2>2, <2>3 DEF BuildEmbedding, Built
<1>4. CASE RefuseTied
  <2>1. prefix' \in {"model", Path(ckpt)} /\ Path(ckpt)' = Path(ckpt)
    BY <1>4 DEF RefuseTied, Prefix, Built, Looking, Path
  <2> QED BY <1>4, <2>1 DEF RefuseTied, Built, Looking
<1>5. CASE BuildLinears
  <2>1. Path(ckpt)' = Path(ckpt)
    BY <1>5 DEF BuildLinears, Path
  <2>2. /\ EmbedMethod' = EmbedMethod /\ EmbedParams' = EmbedParams
        /\ LinearParams' = LinearParams
    BY <1>5, Follows DEF BuildLinears
  <2>3. /\ method'["embed"] = method["embed"] /\ method'["head"] = method["head"]
        /\ params' = params \cup LinearParams
    BY <1>5 DEF BuildLinears, Module, Linears, LinearParams
  <2> QED BY <1>5, <2>1, <2>2, <2>3 DEF BuildLinears, Built, Looking
<1>6. CASE BuildHead \/ TieHead \/ ShareModule
  <2>1. Path(ckpt)' = Path(ckpt)
    BY <1>6 DEF BuildHead, TieHead, ShareModule, Path
  <2>2. /\ EmbedMethod' = EmbedMethod /\ AllParams' = AllParams
        /\ HeadMethod' = HeadMethod /\ (HeadTied' <=> HeadTied)
    BY <1>6, Follows DEF BuildHead, TieHead, ShareModule
  <2>3. /\ phase = "head" /\ params = EmbedParams \cup LinearParams
        /\ prefix = Path(ckpt) /\ prefix' = prefix /\ filled' = {}
        /\ method["embed"] = EmbedMethod /\ method["head"] = "none"
        /\ trellis' = trellis /\ ckpt' = ckpt /\ ~(trellis /\ ckpt.tied)
    BY <1>6 DEF BuildHead, TieHead, ShareModule, Built, Looking
  <2>4. ckpt.modules \in {"one", "two"} /\ (ckpt.modules = "one" => ckpt.tied)
    BY CkptLegal DEF Checkpoint, Legal
  <2>5. method \in [Module -> {"none", "dense", "exl3", "et", "bq", "bqTied", "tied"}]
    BY DEF Types
  <2>6. CASE BuildHead
    <3>1. params' = AllParams
      BY <2>3, <2>6 DEF BuildHead, AllParams, HeadParams
    <3>2. method'["head"] = HeadMethod /\ method'["embed"] = EmbedMethod
      BY <2>3, <2>5, <2>6 DEF BuildHead, Module
    <3>3. HeadTied
      BY <2>6 DEF BuildHead, HeadTied
    <3> QED BY <2>1, <2>2, <2>3, <2>6, <3>1, <3>2, <3>3 DEF BuildHead, Built
  <2>7. CASE TieHead
    <3>1. params' = AllParams /\ params = AllParams
      BY <2>3, <2>7 DEF TieHead, AllParams, HeadParams
    <3>2. method'["head"] = HeadMethod /\ method'["embed"] = EmbedMethod
      BY <2>3, <2>5, <2>7 DEF TieHead, Module
    <3>3. phase' = IF HeadTied THEN "load" ELSE "untied"
      BY <2>7, <3>1 DEF TieHead, HeadTied
    <3> QED BY <2>1, <2>2, <2>3, <2>7, <3>1, <3>2, <3>3 DEF TieHead, Built
  <2>8. CASE ShareModule
    <3>1. params' = AllParams
      BY <2>3, <2>8 DEF ShareModule, AllParams, HeadParams
    <3>2. HeadTied
      BY <2>8 DEF ShareModule, HeadTied
    <3> QED BY <2>1, <2>2, <2>3, <2>8, <3>1, <3>2 DEF ShareModule, Built
  <2> QED BY <1>6, <2>6, <2>7, <2>8
<1>7. CASE LoadWeights \/ Unclaimed \/ Serve \/ Unfilled
  <2>1. Path(ckpt)' = Path(ckpt)
    BY <1>7 DEF LoadWeights, Unclaimed, Serve, Unfilled, Path
  <2>2. /\ EmbedMethod' = EmbedMethod /\ AllParams' = AllParams
        /\ HeadMethod' = HeadMethod /\ (HeadTied' <=> HeadTied)
        /\ Arriving' = Arriving /\ Encoded' = Encoded
    BY <1>7, Follows DEF LoadWeights, Unclaimed, Serve, Unfilled
  <2>3. CASE LoadWeights
    BY <2>1, <2>2, <2>3 DEF LoadWeights, Built, Looking
  <2>4. CASE Unclaimed
    BY <2>1, <2>2, <2>4 DEF Unclaimed, Built, Looking
  <2>5. CASE Serve
    BY <2>1, <2>2, <2>5 DEF Serve, Built, Looking
  <2>6. CASE Unfilled
    BY <2>1, <2>2, <2>6 DEF Unfilled, Built, Looking
  <2> QED BY <1>7, <2>3, <2>4, <2>5, <2>6
<1>8. ASSUME NEW f \in Flags, Restart(f) PROVE Built'
  BY <1>8 DEF Restart, Built, Looking
<1> QED BY <1>1, <1>2, <1>3, <1>4, <1>5, <1>6, <1>7, <1>8 DEF Next

LEMMA TracedNext ==
    ASSUME Types, Found, Built, Traced, Next
    PROVE  Traced'
<1>1. CASE Serve
  <2>1. UNCHANGED ckpt
    BY <1>1 DEF Serve
  <2>2. \A p, d, o : Named(p, d, o)' <=> Named(p, d, o)
    BY <2>1 DEF Named, UsesBq, UsesTrellis
  <2>3. ASSUME NEW g \in graphs', g.informed
        PROVE  g = [key |-> g.key, names |-> {p \in Param : Named(p, g.key[1], g.key[2])},
                    dequantized |-> FALSE, informed |-> TRUE]
    <3>1. CASE g \in graphs
      BY <2>3, <3>1 DEF Traced
    <3>2. CASE g \notin graphs
      <4>1. g = Graph /\ ~flags.dequantize
        BY <1>1, <2>3, <3>2 DEF Serve, Cached
      <4>2. params = AllParams /\ ~Looking
        BY <1>1 DEF Serve, Built, Looking
      <4>3. quantized # None /\ (storage # None \/ ckpt.listing = "none")
        BY <2>3, <4>1 DEF Graph
      <4>4. params \ {<<"embed", "bq_src">>} =
               {p \in Param : Named(p, flags.dense, flags.onLoad)}
        BY <4>2, <4>3, NamesFollow
      <4>5. flags.dequantize = FALSE
        BY <4>1, CkptLegal DEF Setting
      <4>6. g = [key |-> CompileKey, names |-> params \ {<<"embed", "bq_src">>},
                 dequantized |-> FALSE, informed |-> TRUE]
        BY <4>1, <4>3, <4>5 DEF Graph
      <4>7. g.key[1] = flags.dense /\ g.key[2] = flags.onLoad
        BY <4>6 DEF CompileKey
      <4> QED BY <4>4, <4>6, <4>7
    <3> QED BY <3>1, <3>2
  <2>4. ASSUME NEW g
        PROVE  {p \in Param : Named(p, g.key[1], g.key[2])'}
                  = {p \in Param : Named(p, g.key[1], g.key[2])}
    BY <2>2
  <2> QED BY <2>3, <2>4 DEF Traced, Param
<1>2. CASE ~Serve
  <2>1. UNCHANGED <<ckpt, graphs>>
    BY <1>2 DEF Next, ReadIndex, IndexUnread, ReadStorage, StorageUnread, Translate,
         BuildEmbedding, RefuseTied, BuildLinears, BuildHead, TieHead, ShareModule,
         LoadWeights, Unclaimed, Unfilled, Restart
  <2> QED BY <2>1, TracedStays
<1> QED BY <1>1, <1>2

LEMMA Stutter == ASSUME EmbedInv, UNCHANGED vars PROVE EmbedInv'
<1> USE DEF vars, configVars, moduleVars
<1>1. Types' /\ Traced'
  BY TracedStays DEF EmbedInv, Types
<1>2. Looking' <=> Looking
  BY DEF Looking
<1>3. Found'
  <2>1. CASE Looking
    <3>1. Trellised' = Trellised /\ Listed' = Listed
      BY DEF Trellised, Listed, Key
    <3> QED BY <1>2, <2>1, <3>1 DEF EmbedInv, Found, Looked
  <2>2. CASE ~Looking
    BY <1>2, <2>2, FoundStays DEF EmbedInv
  <2> QED BY <2>1, <2>2
<1>4. Built'
  <2>1. Path(ckpt)' = Path(ckpt)
    BY DEF Path
  <2> QED BY <1>2, <2>1, Follows DEF EmbedInv, Built, Failed
<1> QED BY <1>1, <1>3, <1>4 DEF EmbedInv

LEMMA EmbedAlways == Spec => []EmbedInv
<1>1. EmbedInv /\ [Next]_vars => EmbedInv'
  BY TypesNext, FoundNext, BuiltNext, TracedNext, Stutter DEF EmbedInv
<1> QED BY <1>1, InvInit, PTL DEF Spec

(***************************************************************************)
(* What follows.                                                            *)
(***************************************************************************)
\* get_quant_method and get_cache_scale_mapper agree on every checkpoint that is
\* described, whichever lookup failed: nothing arrives without a parameter to go
\* to, no parameter goes without its tensor, and a tied head has something to be
\* tied to; but for a dense embedding asked of a tied checkpoint that has none.
THEOREM AlwaysAgree == Spec => []Agree
<1>1. EmbedInv => Agree
  <2> SUFFICES ASSUME EmbedInv, Described, ~NothingDense, phase \in Failed PROVE FALSE
    BY DEF Agree
  <2>1. ~Looking /\ prefix = Path(ckpt) /\ ~(trellis /\ ckpt.tied)
    BY DEF EmbedInv, Built, Looking, Failed
  <2>2. HeadTied /\ Arriving \subseteq AllParams /\ AllParams \subseteq Arriving \cup Encoded
    BY <2>1, DescribedAgrees DEF EmbedInv
  <2> QED BY <2>1, <2>2 DEF EmbedInv, Built, Failed
<1> QED BY <1>1, EmbedAlways, PTL

\* The embedding that is served is the one meant: both its roles are served, from
\* the encoding stored for the lookup, or from the dense copy where one is asked
\* for and known.
THEOREM EmbeddingAlwaysServed == Spec => []EmbeddingServed
<1>1. EmbedInv => TypeOK
  <2> SUFFICES ASSUME EmbedInv PROVE TypeOK
    OBVIOUS
  <2>1. params \subseteq Param /\ filled \subseteq params
    <3>1. CASE Looking
      BY <3>1 DEF EmbedInv, Found, Looked
    <3>2. CASE phase \in {"build", "refused"}
      BY <3>2 DEF EmbedInv, Built, Looking
    <3>3. CASE phase \in {"linears", "head", "load", "process", "serving"} \cup Failed
      <4>1. ~Looking
        BY <3>3 DEF Looking, Failed
      <4>2. params \subseteq AllParams
        BY <3>3, <4>1 DEF EmbedInv, Built, AllParams, Failed
      <4>3. filled \subseteq params
        BY <3>3, <4>1, ParamTypes DEF EmbedInv, Built, Failed
      <4> QED BY <4>1, <4>2, <4>3, ParamTypes DEF EmbedInv
    <3> QED BY <3>1, <3>2, <3>3 DEF EmbedInv, Types, Phase, Looking, Failed
  <2>2. {blockq, trellis} \subseteq BOOLEAN
    BY DEF EmbedInv, Found
  <2> QED BY <2>1, <2>2 DEF EmbedInv, Types, Found, TypeOK, Param
<1>2. ASSUME EmbedInv, phase = "serving" PROVE ~Looking /\ Matched
  BY <1>2 DEF EmbedInv, Built, Looking, Matched
<1>3. ASSUME EmbedInv, phase = "serving"
      PROVE  /\ method["embed"] = EmbedMethod
             /\ method["head"] = IF ckpt.modules = "two" THEN HeadMethod ELSE "none"
             /\ params = AllParams /\ filled = Arriving \cup Encoded
  BY <1>3 DEF EmbedInv, Built, Looking
<1>4. EmbedInv => RolesServed
  <2> SUFFICES ASSUME EmbedInv, phase = "serving", ~NothingDense
               PROVE  /\ ckpt.modules = "one" => HasMatmul(method["embed"])
                      /\ method["head"] = "tied" => HasMatmul(method["embed"])
                      /\ method["head"] = "dense" =>
                           <<IF ckpt.tied THEN "embed" ELSE "head", "weight">> \in filled
    BY DEF RolesServed
  <2> QED BY <1>2, <1>3, RolesMatched DEF EmbedInv
<1>5. EmbedInv => EncodingChosen
  BY <1>2, <1>3, EncodingMatched DEF EncodingChosen, EmbedInv
<1>6. EmbedInv => DenseHonoured
  BY <1>2, <1>3, DenseMatched DEF DenseHonoured, EmbedInv
<1> QED BY <1>1, <1>4, <1>5, <1>6, EmbedAlways, PTL DEF EmbeddingServed

\* Whatever flags the starts before it had, a start whose lookups answered finds
\* under its key only graphs that call the parameters it registers by their names.
THEOREM GraphsAlwaysFit == Spec => []GraphFitsKey
<1>1. EmbedInv => GraphFitsKey
  BY DEF EmbedInv, Traced, GraphFitsKey
<1> QED BY <1>1, EmbedAlways, PTL

(***************************************************************************)
(* ----------------------------- BlockqCache ------------------------------ *)
(***************************************************************************)
\* The processes that share the directory have a pid each (one pid namespace).
DistinctPids == \A p, q \in Proc : PidOf[p] = PidOf[q] => p = q

(***************************************************************************)
(* The inductive invariant: types, without the bounds that are sums.        *)
(***************************************************************************)
MaybeMatrix == Matrices \cup {Nothing}
EntryPaths == MaybeMatrix \X {"entry"}
TmpPaths == MaybeMatrix \X {PidOf[p] : p \in Proc}
Content == [holds : MaybeMatrix, whole : BOOLEAN]

LoadTypes ==
    /\ disk \in [Model -> 0 .. MaxRewrites]
    /\ pc \in [Proc -> Label]
    /\ loads \in [Proc -> Nat]
    /\ job \in [Proc -> MaybeMatrix]
    /\ key \in [Proc -> MaybeMatrix]
    /\ served \in [Proc -> MaybeMatrix]
    /\ fd \in [Proc -> (Proc \X Nat) \cup {Nothing}]
    /\ failures \in Nat /\ crashes \in Nat
    /\ \A p \in Proc : pc[p] # "idle" => job[p] \in Matrices

EvictTypes ==
    /\ names \in [Proc -> SUBSET EntryPaths]
    /\ found \in [Proc -> Seq(EntryPaths)]

DirTypes ==
    /\ IsFiniteSet(DOMAIN dir)
    /\ DOMAIN dir \subseteq EntryPaths \cup TmpPaths
    /\ \A path \in DOMAIN dir : dir[path] \in DOMAIN inode
    /\ DOMAIN inode \subseteq Proc \X Nat
    /\ \A i \in DOMAIN inode : inode[i] \in Content

\* Hard links do not come about: a file has one name.
OneName == \A a, b \in DOMAIN dir : dir[a] = dir[b] => a = b

\* The inode that a process creates for this load is not there before.
Before == {"identify", "exists", "open", "encode"}
Fresh ==
    \A p \in Proc : \A n \in Nat :
        <<p, n>> \in DOMAIN inode => n <= loads[p] /\ (n = loads[p] => pc[p] \notin Before)

\* Nobody else touches the temporary of a process that is writing.
Writing ==
    \A p \in Proc :
        /\ pc[p] \in {"saving", "replace"} => TmpPath(p) \in DOMAIN dir
        /\ pc[p] = "saving" => fd[p] = dir[TmpPath(p)]
        /\ pc[p] = "replace" => inode[dir[TmpPath(p)]].whole

\* What is being read is whole, and no temporary names it that a writer would truncate.
Reading ==
    \A p \in Proc : pc[p] = "slice" =>
        /\ fd[p] \in DOMAIN inode /\ inode[fd[p]].whole
        /\ \A path \in DOMAIN dir : dir[path] = fd[p] => IsEntry(path)

\* Each temporary is the one of a process that is still to rename or remove it.
Owned ==
    crashes = 0 => \A path \in DOMAIN dir \ Pile :
        \E p \in Proc : pc[p] \in {"saving", "replace", "failed"} /\ path = TmpPath(p)

\* What is open is there.
Opened == \A p \in Proc : pc[p] \in {"slice", "saving"} => fd[p] \in DOMAIN inode

\* The part that holds whichever processes share a pid.
FilesInv == LoadTypes /\ DirTypes /\ Fresh /\ Opened

DirInv ==
    /\ LoadTypes /\ EvictTypes /\ DirTypes
    /\ OneName /\ Fresh /\ EntriesWhole /\ Writing /\ Reading /\ Owned /\ WriteLands

(***************************************************************************)
(* Facts about paths and files.                                             *)
(***************************************************************************)
\* No two processes write the same temporary, and none of them is an entry.
LEMMA Temporaries ==
    ASSUME DistinctPids, LoadTypes
    PROVE  /\ \A p \in Proc : TmpPath(p) \in TmpPaths /\ ~IsEntry(TmpPath(p))
           /\ \A p \in Proc : EntryPath(key[p]) \in EntryPaths
           /\ \A p, q \in Proc : TmpPath(p) = TmpPath(q) => p = q
  BY ProcessesAssumption DEF DistinctPids, LoadTypes, TmpPath, TmpPaths, EntryPaths, IsEntry, EntryPath

\* The entries are the paths of that form.
LEMMA EntriesAre == \A path \in EntryPaths : IsEntry(path) /\ path = EntryPath(path[1])
  BY DEF EntryPaths, IsEntry, EntryPath

LEMMA EntryIs == \A k : IsEntry(EntryPath(k)) /\ EntryPath(k)[1] = k
  BY DEF IsEntry, EntryPath

LEMMA Unbinding ==
    ASSUME NEW f, NEW x
    PROVE  /\ DOMAIN Unbind(f, x) = DOMAIN f \ {x}
           /\ \A y \in DOMAIN f : y # x => Unbind(f, x)[y] = f[y]
  BY DEF Unbind

\* What evict has found is sequences of listed paths.
LEMMA FoundAre ==
    ASSUME NEW paths, IsFiniteSet(paths), NEW s \in OldestFirst(paths)
    PROVE  s \in Seq(paths)
  BY FS_CardinalityType DEF OldestFirst, SetToSeqs

(***************************************************************************)
(* The steps.                                                               *)
(***************************************************************************)
LEMMA InitDir == CacheInit => DirInv
  BY ProcessesAssumption, FS_EmptySet
  DEF CacheInit, DirInv, LoadTypes, EvictTypes, DirTypes, OneName, Fresh, EntriesWhole,
      Writing, Reading, Owned, WriteLands, Label, MaybeMatrix, Pile

(***************************************************************************)
(* What holds of the files whoever writes which temporary.                  *)
(***************************************************************************)
LEMMA FilesThen == DirInv => FilesInv
  BY DEF DirInv, FilesInv, DirTypes, Opened, Reading, Writing

LEMMA FilesStep == FilesInv /\ [CacheNext]_cacheVars => FilesInv'
PROOF
<1> SUFFICES ASSUME FilesInv, [CacheNext]_cacheVars PROVE FilesInv'
  OBVIOUS
<1> USE DEF FilesInv, LoadTypes, Goto, dirVars, loadVars, evictVars, faultVars
<1>1. ASSUME NEW p \in Proc, NEW m \in Model, NEW t \in Tensor, Start(p, m, t) PROVE FilesInv'
  <2>1. LoadTypes'
    BY <1>1 DEF Start, Matrix, Matrices, MaybeMatrix, Label
  <2>2. DirTypes' /\ Fresh' /\ Opened'
    BY <1>1 DEF Start, DirTypes, Fresh, Before, Opened
  <2> QED BY <2>1, <2>2
<1>2. ASSUME NEW p \in Proc, Identify(p) PROVE FilesInv'
  <2>1. LoadTypes'
    BY <1>2 DEF Identify, Label, EntryKey, Matrix, Matrices, MaybeMatrix
  <2>2. DirTypes' /\ Fresh' /\ Opened'
    BY <1>2 DEF Identify, DirTypes, Fresh, Before, Opened
  <2> QED BY <2>1, <2>2
<1>3. ASSUME NEW p \in Proc, Unidentified(p) PROVE FilesInv'
  <2>1. LoadTypes'
    BY <1>3 DEF Unidentified, Label, MaybeMatrix
  <2>2. DirTypes' /\ Fresh' /\ Opened'
    BY <1>3 DEF Unidentified, DirTypes, Fresh, Before, Opened
  <2> QED BY <2>1, <2>2
<1>4. ASSUME NEW p \in Proc, Exists(p) PROVE FilesInv'
  <2>1. LoadTypes'
    BY <1>4 DEF Exists, Label
  <2>2. DirTypes' /\ Fresh' /\ Opened'
    BY <1>4 DEF Exists, DirTypes, Fresh, Before, Opened
  <2> QED BY <2>1, <2>2
<1>5. ASSUME NEW p \in Proc, Open(p) PROVE FilesInv'
  <2>1. LoadTypes'
    BY <1>5 DEF Open, Label, AfterBadOpen, DirTypes
  <2>2. DirTypes' /\ Fresh' /\ Opened'
    BY <1>5 DEF Open, AfterBadOpen, DirTypes, Fresh, Before, Opened
  <2> QED BY <2>1, <2>2
<1>6. ASSUME NEW p \in Proc, Slice(p) PROVE FilesInv'
  <2>1. LoadTypes'
    BY <1>6 DEF Slice, Label, MaybeMatrix, DirTypes, Content, Opened
  <2>2. DirTypes' /\ Fresh' /\ Opened'
    BY <1>6 DEF Slice, DirTypes, Fresh, Before, Opened
  <2> QED BY <2>1, <2>2
<1>7. ASSUME NEW p \in Proc, Touch(p) PROVE FilesInv'
  <2>1. LoadTypes'
    BY <1>7 DEF Touch, Label
  <2>2. DirTypes' /\ Fresh' /\ Opened'
    BY <1>7 DEF Touch, DirTypes, Fresh, Before, Opened
  <2> QED BY <2>1, <2>2
<1>8. ASSUME NEW p \in Proc, SaveFails(p) PROVE FilesInv'
  <2>1. LoadTypes'
    BY <1>8 DEF SaveFails, Label
  <2>2. DirTypes' /\ Fresh' /\ Opened'
    BY <1>8 DEF SaveFails, DirTypes, Fresh, Before, Opened
  <2> QED BY <2>1, <2>2
<1>9. ASSUME NEW p \in Proc, ReplaceFails(p) PROVE FilesInv'
  <2>1. LoadTypes'
    BY <1>9 DEF ReplaceFails, Label
  <2>2. DirTypes' /\ Fresh' /\ Opened'
    BY <1>9 DEF ReplaceFails, DirTypes, Fresh, Before, Opened
  <2> QED BY <2>1, <2>2
<1>10. ASSUME NEW p \in Proc, ListDir(p) PROVE FilesInv'
  <2>1. LoadTypes'
    BY <1>10 DEF ListDir, Label
  <2>2. DirTypes' /\ Fresh' /\ Opened'
    BY <1>10 DEF ListDir, DirTypes, Fresh, Before, Opened
  <2> QED BY <2>1, <2>2
<1>11. ASSUME NEW p \in Proc, Stat(p) PROVE FilesInv'
  <2>1. LoadTypes'
    BY <1>11 DEF Stat, Label
  <2>2. DirTypes' /\ Fresh' /\ Opened'
    BY <1>11 DEF Stat, DirTypes, Fresh, Before, Opened
  <2> QED BY <2>1, <2>2
<1>12. ASSUME NEW p \in Proc, EvictDone(p) PROVE FilesInv'
  <2>1. LoadTypes'
    BY <1>12 DEF EvictDone, Label
  <2>2. DirTypes' /\ Fresh' /\ Opened'
    BY <1>12 DEF EvictDone, DirTypes, Fresh, Before, Opened
  <2> QED BY <2>1, <2>2
<1>13. ASSUME NEW p \in Proc, HandOver(p) PROVE FilesInv'
  <2>1. LoadTypes'
    BY <1>13 DEF HandOver, Label
  <2>2. DirTypes' /\ Fresh' /\ Opened'
    BY <1>13 DEF HandOver, DirTypes, Fresh, Before, Opened
  <2> QED BY <2>1, <2>2
<1>14. ASSUME NEW p \in Proc, Crash(p) PROVE FilesInv'
  <2>1. LoadTypes'
    BY <1>14 DEF Crash, Label, MaybeMatrix
  <2>2. DirTypes' /\ Fresh' /\ Opened'
    BY <1>14 DEF Crash, DirTypes, Fresh, Before, Opened
  <2> QED BY <2>1, <2>2
<1>15. ASSUME NEW p \in Proc, SaveOpen(p) PROVE FilesInv'
  <2> DEFINE path == TmpPath(p)
             i == IF path \in DOMAIN dir THEN dir[path] ELSE <<p, loads[p]>>
  <2>1. /\ pc[p] = "encode"
        /\ dir' = Bind(dir, path, i)
        /\ inode' = Bind(inode, i, [holds |-> Nothing, whole |-> FALSE])
        /\ fd' = [fd EXCEPT ![p] = i]
        /\ pc' = [pc EXCEPT ![p] = "saving"]
        /\ UNCHANGED <<disk, loads, job, key, served, failures, crashes>>
    BY <1>15 DEF SaveOpen
  <2>2. i \in Proc \X Nat
    BY DEF DirTypes
  <2>3. path \in TmpPaths
    BY DEF TmpPath, TmpPaths
  <2>4. \A n \in Nat : i = <<p, n>> => i \in DOMAIN inode \/ n = loads[p]
    BY DEF DirTypes
  <2>5. \A q \in Proc, n \in Nat : i = <<q, n>> => i \in DOMAIN inode \/ q = p
    BY DEF DirTypes
  <2> HIDE DEF i, path
  <2>6. LoadTypes'
    BY <2>1, <2>2 DEF Label
  <2>7. DOMAIN inode' = DOMAIN inode \cup {i} /\ \A j \in DOMAIN inode : j # i => inode'[j] = inode[j]
    BY <2>1 DEF Bind
  <2>8. Fresh' /\ Opened'
    <3>1. Fresh'
      BY <2>1, <2>4, <2>5, <2>7 DEF Fresh, Before
    <3>2. Opened'
      BY <2>1, <2>7 DEF Opened
    <3> QED BY <3>1, <3>2
  <2>9. DirTypes'
    <3>1. DOMAIN dir' = DOMAIN dir \cup {path} /\ IsFiniteSet(DOMAIN dir')
      BY <2>1, FS_AddElement DEF Bind, DirTypes
    <3>2. [holds |-> Nothing, whole |-> FALSE] \in Content
      BY DEF Content, MaybeMatrix
    <3>3. \A j \in DOMAIN inode' : inode'[j] \in Content
      BY <2>1, <3>2 DEF Bind, DirTypes
    <3>4. \A y \in DOMAIN dir' : dir'[y] \in DOMAIN inode'
      BY <2>1, <2>7 DEF Bind, DirTypes
    <3> QED BY <2>2, <2>3, <2>7, <3>1, <3>3, <3>4 DEF DirTypes
  <2> QED BY <2>6, <2>8, <2>9
<1>16. ASSUME NEW p \in Proc, SaveClose(p) PROVE FilesInv'
  <2>1. LoadTypes'
    BY <1>16 DEF SaveClose, Label
  <2>2. DirTypes' /\ Fresh' /\ Opened'
    BY <1>16 DEF SaveClose, DirTypes, Content, MaybeMatrix, Fresh, Before, Opened
  <2> QED BY <2>1, <2>2
<1>17. ASSUME NEW p \in Proc, Replace(p) PROVE FilesInv'
  <2>1. LoadTypes' /\ Fresh' /\ Opened'
    BY <1>17 DEF Replace, Label, Fresh, Before, Opened
  <2>2. DirTypes'
    <3> DEFINE tmp == TmpPath(p)
               path == EntryPath(key[p])
               d == Unbind(dir, tmp)
    <3>1. tmp \in DOMAIN dir /\ dir' = Bind(d, path, dir[tmp]) /\ inode' = inode
      BY <1>17 DEF Replace
    <3>2. DOMAIN d = DOMAIN dir \ {tmp} /\ \A y \in DOMAIN dir : y # tmp => d[y] = dir[y]
      BY Unbinding
    <3>3. path \in EntryPaths
      BY DEF EntryPath, EntryPaths
    <3>4. IsFiniteSet(DOMAIN d)
      BY <3>2, FS_Subset DEF DirTypes
    <3> HIDE DEF tmp, path, d
    <3>5. DOMAIN dir' = DOMAIN d \cup {path} /\ IsFiniteSet(DOMAIN dir')
      BY <3>1, <3>4, FS_AddElement DEF Bind
    <3>6. \A y \in DOMAIN dir' : dir'[y] \in DOMAIN inode
      BY <3>1, <3>2 DEF Bind, DirTypes
    <3> QED BY <3>1, <3>2, <3>3, <3>5, <3>6 DEF DirTypes
  <2> QED BY <2>1, <2>2
<1>18. ASSUME NEW path, Unlink(path) PROVE DOMAIN inode' = DOMAIN inode /\ inode' = inode => DirTypes'
  <2>1. DOMAIN dir' = DOMAIN dir \ {path} /\ \A y \in DOMAIN dir : y # path => dir'[y] = dir[y]
    BY <1>18 DEF Unlink, Unbind
  <2>2. IsFiniteSet(DOMAIN dir')
    BY <2>1, FS_Subset DEF DirTypes
  <2> QED BY <2>1, <2>2 DEF DirTypes
<1>19. ASSUME NEW p \in Proc, WriteFailed(p) PROVE FilesInv'
  <2>1. LoadTypes' /\ Fresh' /\ Opened'
    BY <1>19 DEF WriteFailed, Label, Fresh, Before, Opened
  <2> QED BY <1>18, <1>19, <2>1 DEF WriteFailed, CleanUp
<1>20. ASSUME NEW p \in Proc, EvictNext(p) PROVE FilesInv'
  <2>1. LoadTypes' /\ Fresh' /\ Opened'
    BY <1>20 DEF EvictNext, Fresh, Before, Opened
  <2>2. Unlink(Head(found[p])) \/ UNCHANGED dir
    BY <1>20 DEF EvictNext
  <2> QED BY <1>18, <1>20, <2>1, <2>2 DEF EvictNext, DirTypes
<1>21. ASSUME NEW m \in Model, Rewrite(m) PROVE FilesInv'
  <2>1. disk' \in [Model -> 0 .. MaxRewrites]
    BY <1>21, ProcessesAssumption DEF Rewrite
  <2> QED BY <1>21, <2>1 DEF Rewrite, DirTypes, Fresh, Before, Opened
<1>22. CASE UNCHANGED cacheVars
  BY <1>22 DEF cacheVars, DirTypes, Fresh, Before, Opened
<1> QED
  BY <1>1, <1>2, <1>3, <1>4, <1>5, <1>6, <1>7, <1>8, <1>9, <1>10, <1>11, <1>12, <1>13, <1>14, <1>15, <1>16, <1>17, <1>19, <1>20, <1>21, <1>22
  DEF CacheNext, Load

(***************************************************************************)
(* The steps that leave the names and the contents of the files alone.      *)
(***************************************************************************)
Quiet(p) ==
    \/ \E m \in Model, t \in Tensor : Start(p, m, t)
    \/ Identify(p) \/ Unidentified(p) \/ Exists(p) \/ Open(p) \/ Slice(p) \/ Touch(p)
    \/ SaveFails(p) \/ ReplaceFails(p) \/ ListDir(p) \/ EvictDone(p) \/ HandOver(p) \/ Crash(p)

LEMMA QuietStep ==
    ASSUME DirInv, FilesInv', NEW p \in Proc, Quiet(p)
    PROVE  DirInv'
PROOF
<1> USE DEF DirInv, FilesInv, LoadTypes, DirTypes, Goto, dirVars, loadVars, evictVars, faultVars
<1>1. ASSUME NEW m \in Model, NEW t \in Tensor, Start(p, m, t) PROVE DirInv'
  <2>1. EvictTypes'
    BY <1>1 DEF Start, Matrix, Matrices, EvictTypes
  <2>2. OneName' /\ EntriesWhole'
    BY <1>1 DEF Start, Matrix, Matrices, OneName, EntriesWhole, Pile
  <2>3. Writing'
    BY <1>1 DEF Start, Matrix, Matrices, Writing, TmpPath
  <2>4. WriteLands'
    BY <1>1 DEF Start, Matrix, Matrices, WriteLands, Writing
  <2>5. Reading' /\ Owned'
    BY <1>1 DEF Start, Matrix, Matrices, Reading, Owned, EntriesWhole, Pile, IsEntry, EntryPath, OneName, TmpPath
  <2> QED BY <2>1, <2>2, <2>3, <2>4, <2>5
<1>2. ASSUME Identify(p) PROVE DirInv'
  <2>1. EvictTypes'
    BY <1>2 DEF Identify, EntryKey, Matrix, Matrices, EvictTypes
  <2>2. OneName' /\ EntriesWhole'
    BY <1>2 DEF Identify, EntryKey, Matrix, Matrices, OneName, EntriesWhole, Pile
  <2>3. Writing'
    BY <1>2 DEF Identify, EntryKey, Matrix, Matrices, Writing, TmpPath
  <2>4. WriteLands'
    BY <1>2 DEF Identify, EntryKey, Matrix, Matrices, WriteLands, Writing
  <2>5. Reading' /\ Owned'
    BY <1>2 DEF Identify, EntryKey, Matrix, Matrices, Reading, Owned, EntriesWhole, Pile, IsEntry, EntryPath, OneName, TmpPath
  <2> QED BY <2>1, <2>2, <2>3, <2>4, <2>5
<1>3. ASSUME Unidentified(p) PROVE DirInv'
  <2>1. EvictTypes'
    BY <1>3 DEF Unidentified, EvictTypes
  <2>2. OneName' /\ EntriesWhole'
    BY <1>3 DEF Unidentified, OneName, EntriesWhole, Pile
  <2>3. Writing'
    BY <1>3 DEF Unidentified, Writing, TmpPath
  <2>4. WriteLands'
    BY <1>3 DEF Unidentified, WriteLands, Writing
  <2>5. Reading' /\ Owned'
    BY <1>3 DEF Unidentified, Reading, Owned, EntriesWhole, Pile, IsEntry, EntryPath, OneName, TmpPath
  <2> QED BY <2>1, <2>2, <2>3, <2>4, <2>5
<1>4. ASSUME Exists(p) PROVE DirInv'
  <2>1. EvictTypes'
    BY <1>4 DEF Exists, EvictTypes
  <2>2. OneName' /\ EntriesWhole'
    BY <1>4 DEF Exists, OneName, EntriesWhole, Pile
  <2>3. Writing'
    BY <1>4 DEF Exists, Writing, TmpPath
  <2>4. WriteLands'
    BY <1>4 DEF Exists, WriteLands, Writing
  <2>5. Reading' /\ Owned'
    BY <1>4 DEF Exists, Reading, Owned, EntriesWhole, Pile, IsEntry, EntryPath, OneName, TmpPath
  <2> QED BY <2>1, <2>2, <2>3, <2>4, <2>5
<1>5. ASSUME Open(p) PROVE DirInv'
  <2>1. EvictTypes'
    BY <1>5 DEF Open, AfterBadOpen, EvictTypes
  <2>2. OneName' /\ EntriesWhole'
    BY <1>5 DEF Open, AfterBadOpen, OneName, EntriesWhole, Pile
  <2>3. Writing'
    BY <1>5 DEF Open, AfterBadOpen, Writing, TmpPath
  <2>4. WriteLands'
    BY <1>5 DEF Open, AfterBadOpen, WriteLands, Writing
  <2>5. Reading' /\ Owned'
    BY <1>5 DEF Open, AfterBadOpen, Reading, Owned, EntriesWhole, Pile, IsEntry, EntryPath, OneName, TmpPath
  <2> QED BY <2>1, <2>2, <2>3, <2>4, <2>5
<1>6. ASSUME Slice(p) PROVE DirInv'
  <2>1. EvictTypes'
    BY <1>6 DEF Slice, EvictTypes
  <2>2. OneName' /\ EntriesWhole'
    BY <1>6 DEF Slice, OneName, EntriesWhole, Pile
  <2>3. Writing'
    BY <1>6 DEF Slice, Writing, TmpPath
  <2>4. WriteLands'
    BY <1>6 DEF Slice, WriteLands, Writing
  <2>5. Reading' /\ Owned'
    BY <1>6 DEF Slice, Reading, Owned, EntriesWhole, Pile, IsEntry, EntryPath, OneName, TmpPath
  <2> QED BY <2>1, <2>2, <2>3, <2>4, <2>5
<1>7. ASSUME Touch(p) PROVE DirInv'
  <2>1. EvictTypes'
    BY <1>7 DEF Touch, EvictTypes
  <2>2. OneName' /\ EntriesWhole'
    BY <1>7 DEF Touch, OneName, EntriesWhole, Pile
  <2>3. Writing'
    BY <1>7 DEF Touch, Writing, TmpPath
  <2>4. WriteLands'
    BY <1>7 DEF Touch, WriteLands, Writing
  <2>5. Reading' /\ Owned'
    BY <1>7 DEF Touch, Reading, Owned, EntriesWhole, Pile, IsEntry, EntryPath, OneName, TmpPath
  <2> QED BY <2>1, <2>2, <2>3, <2>4, <2>5
<1>8. ASSUME SaveFails(p) PROVE DirInv'
  <2>1. EvictTypes'
    BY <1>8 DEF SaveFails, EvictTypes
  <2>2. OneName' /\ EntriesWhole'
    BY <1>8 DEF SaveFails, OneName, EntriesWhole, Pile
  <2>3. Writing'
    BY <1>8 DEF SaveFails, Writing, TmpPath
  <2>4. WriteLands'
    BY <1>8 DEF SaveFails, WriteLands, Writing
  <2>5. Reading' /\ Owned'
    BY <1>8 DEF SaveFails, Reading, Owned, EntriesWhole, Pile, IsEntry, EntryPath, OneName, TmpPath
  <2> QED BY <2>1, <2>2, <2>3, <2>4, <2>5
<1>9. ASSUME ReplaceFails(p) PROVE DirInv'
  <2>1. EvictTypes'
    BY <1>9 DEF ReplaceFails, EvictTypes
  <2>2. OneName' /\ EntriesWhole'
    BY <1>9 DEF ReplaceFails, OneName, EntriesWhole, Pile
  <2>3. Writing'
    BY <1>9 DEF ReplaceFails, Writing, TmpPath
  <2>4. WriteLands'
    BY <1>9 DEF ReplaceFails, WriteLands, Writing
  <2>5. Reading' /\ Owned'
    BY <1>9 DEF ReplaceFails, Reading, Owned, EntriesWhole, Pile, IsEntry, EntryPath, OneName, TmpPath
  <2> QED BY <2>1, <2>2, <2>3, <2>4, <2>5
<1>10. ASSUME ListDir(p) PROVE DirInv'
  <2>1. EvictTypes'
    BY <1>10 DEF ListDir, ListedFiles, EvictTypes, Pile, EntryPaths, TmpPaths, IsEntry
  <2>2. OneName' /\ EntriesWhole'
    BY <1>10 DEF ListDir, ListedFiles, OneName, EntriesWhole, Pile
  <2>3. Writing'
    BY <1>10 DEF ListDir, ListedFiles, Writing, TmpPath
  <2>4. WriteLands'
    BY <1>10 DEF ListDir, ListedFiles, WriteLands, Writing
  <2>5. Reading' /\ Owned'
    BY <1>10 DEF ListDir, ListedFiles, Reading, Owned, EntriesWhole, Pile, IsEntry, EntryPath, OneName, TmpPath
  <2> QED BY <2>1, <2>2, <2>3, <2>4, <2>5
<1>11. ASSUME EvictDone(p) PROVE DirInv'
  <2>1. EvictTypes'
    BY <1>11 DEF EvictDone, EvictTypes
  <2>2. OneName' /\ EntriesWhole'
    BY <1>11 DEF EvictDone, OneName, EntriesWhole, Pile
  <2>3. Writing'
    BY <1>11 DEF EvictDone, Writing, TmpPath
  <2>4. WriteLands'
    BY <1>11 DEF EvictDone, WriteLands, Writing
  <2>5. Reading' /\ Owned'
    BY <1>11 DEF EvictDone, Reading, Owned, EntriesWhole, Pile, IsEntry, EntryPath, OneName, TmpPath
  <2> QED BY <2>1, <2>2, <2>3, <2>4, <2>5
<1>12. ASSUME HandOver(p) PROVE DirInv'
  <2>1. EvictTypes'
    BY <1>12 DEF HandOver, EvictTypes
  <2>2. OneName' /\ EntriesWhole'
    BY <1>12 DEF HandOver, OneName, EntriesWhole, Pile
  <2>3. Writing'
    BY <1>12 DEF HandOver, Writing, TmpPath
  <2>4. WriteLands'
    BY <1>12 DEF HandOver, WriteLands, Writing
  <2>5. Reading' /\ Owned'
    BY <1>12 DEF HandOver, Reading, Owned, EntriesWhole, Pile, IsEntry, EntryPath, OneName, TmpPath
  <2> QED BY <2>1, <2>2, <2>3, <2>4, <2>5
<1>13. ASSUME Crash(p) PROVE DirInv'
  <2>1. EvictTypes'
    BY <1>13 DEF Crash, EvictTypes
  <2>2. OneName' /\ EntriesWhole'
    BY <1>13 DEF Crash, OneName, EntriesWhole, Pile
  <2>3. Writing'
    BY <1>13 DEF Crash, Writing, TmpPath
  <2>4. WriteLands'
    BY <1>13 DEF Crash, WriteLands, Writing
  <2>5. Reading' /\ Owned'
    BY <1>13 DEF Crash, Reading, Owned, EntriesWhole, Pile, IsEntry, EntryPath, OneName, TmpPath
  <2> QED BY <2>1, <2>2, <2>3, <2>4, <2>5
<1> QED BY <1>1, <1>2, <1>3, <1>4, <1>5, <1>6, <1>7, <1>8, <1>9, <1>10, <1>11, <1>12, <1>13 DEF Quiet

(***************************************************************************)
(* The steps that change the directory.                                     *)
(***************************************************************************)
LEMMA StatStep ==
    ASSUME DirInv, FilesInv', NEW p \in Proc, Stat(p)
    PROVE  DirInv'
PROOF
<1> USE DEF DirInv, FilesInv, LoadTypes, DirTypes, Goto, dirVars, loadVars, evictVars, faultVars
<1>1. EvictTypes'
  <2>1. PICK s \in OldestFirst(names[p] \cap DOMAIN dir) : found' = [found EXCEPT ![p] = s]
    BY DEF Stat
  <2>2. IsFiniteSet(names[p] \cap DOMAIN dir)
    BY FS_Subset
  <2>3. s \in Seq(names[p] \cap DOMAIN dir)
    BY <2>2, FoundAre
  <2>4. s \in Seq(EntryPaths)
    BY <2>3 DEF EvictTypes
  <2> QED BY <2>1, <2>4 DEF Stat, EvictTypes
<1>2. OneName' /\ EntriesWhole'
  BY DEF Stat, OneName, EntriesWhole, Pile
<1>3. Writing' /\ WriteLands'
  BY DEF Stat, Writing, TmpPath, WriteLands
<1>4. Reading' /\ Owned'
  BY DEF Stat, Reading, Owned, Pile, TmpPath
<1> QED BY <1>1, <1>2, <1>3, <1>4

LEMMA SaveOpenStep ==
    ASSUME DistinctPids, DirInv, FilesInv', NEW p \in Proc, SaveOpen(p)
    PROVE  DirInv'
PROOF
<1> DEFINE path == TmpPath(p)
           i == IF path \in DOMAIN dir THEN dir[path] ELSE <<p, loads[p]>>
<1>1. /\ pc[p] = "encode"
      /\ dir' = Bind(dir, path, i)
      /\ inode' = Bind(inode, i, [holds |-> Nothing, whole |-> FALSE])
      /\ fd' = [fd EXCEPT ![p] = i]
      /\ pc' = [pc EXCEPT ![p] = "saving"]
      /\ UNCHANGED <<disk, loads, job, key, served, names, found, failures, crashes>>
  BY DEF SaveOpen, Goto, loadVars, evictVars, faultVars
<1> HIDE DEF i, path
<1>2. /\ DOMAIN dir' = DOMAIN dir \cup {path}
      /\ dir'[path] = i
      /\ \A y \in DOMAIN dir : y # path => dir'[y] = dir[y]
  BY <1>1 DEF Bind
<1>3. /\ DOMAIN inode' = DOMAIN inode \cup {i}
      /\ inode'[i] = [holds |-> Nothing, whole |-> FALSE]
      /\ \A j \in DOMAIN inode : j # i => inode'[j] = inode[j]
  BY <1>1 DEF Bind
<1> USE DEF DirInv, FilesInv, LoadTypes, DirTypes
<1>4. /\ path \in TmpPaths /\ ~IsEntry(path)
      /\ \A q \in Proc : TmpPath(q) = path => q = p
  BY Temporaries DEF path
\* Only the temporary names that file.
<1>5. \A y \in DOMAIN dir : y # path => dir[y] # i
  BY <1>1 DEF OneName, Fresh, Before, i
<1>6. EvictTypes'
  BY <1>1 DEF EvictTypes
<1>7. OneName' /\ EntriesWhole'
  BY <1>2, <1>3, <1>4, <1>5 DEF OneName, EntriesWhole, Pile
<1>8. Writing'
  <2>1. \A q \in Proc : TmpPath(q)' = TmpPath(q)
    BY <1>1 DEF TmpPath
  <2>2. path = TmpPath(p)
    BY DEF path
  <2>3. ASSUME NEW q \in Proc, q # p
        PROVE  /\ pc'[q] \in {"saving", "replace"} => TmpPath(q)' \in DOMAIN dir'
               /\ pc'[q] = "saving" => fd'[q] = dir'[TmpPath(q)']
               /\ pc'[q] = "replace" => inode'[dir'[TmpPath(q)']].whole
    <3>1. TmpPath(q) # path
      BY <1>4, <2>3
    <3>2. pc'[q] = pc[q] /\ fd'[q] = fd[q]
      BY <1>1, <2>3
    <3>3. pc[q] \in {"saving", "replace"} =>
            /\ TmpPath(q) \in DOMAIN dir /\ dir[TmpPath(q)] # i
            /\ dir'[TmpPath(q)] = dir[TmpPath(q)] /\ inode'[dir[TmpPath(q)]] = inode[dir[TmpPath(q)]]
      BY <1>2, <1>3, <1>5, <3>1 DEF Writing
    <3>4. /\ pc[q] \in {"saving", "replace"} => TmpPath(q)' \in DOMAIN dir'
          /\ pc[q] = "saving" => fd[q] = dir[TmpPath(q)]
          /\ pc[q] = "replace" => inode[dir[TmpPath(q)]].whole
      BY <1>2, <2>1 DEF Writing
    <3> QED BY <2>1, <3>2, <3>3, <3>4
  <2>4. /\ pc'[p] = "saving"
        /\ TmpPath(p)' \in DOMAIN dir' /\ fd'[p] = dir'[TmpPath(p)']
    BY <1>1, <1>2, <2>1, <2>2
  <2> QED BY <2>3, <2>4 DEF Writing
<1>9. \A q \in Proc : pc[q] = "slice" => fd[q] # i
  BY <1>1, <1>4 DEF Reading, Fresh, Before, i
<1>10. Reading'
  <2>1. ASSUME NEW q \in Proc, pc'[q] = "slice"
        PROVE  /\ fd'[q] \in DOMAIN inode' /\ inode'[fd'[q]].whole
               /\ \A y \in DOMAIN dir' : dir'[y] = fd'[q] => IsEntry(y)
    <3>1. q # p /\ pc[q] = "slice" /\ fd'[q] = fd[q]
      BY <1>1, <2>1
    <3> QED BY <1>2, <1>3, <1>9, <3>1 DEF Reading
  <2> QED BY <2>1 DEF Reading
<1>11. Owned' /\ WriteLands'
  BY <1>1, <1>2, <1>4 DEF Owned, WriteLands, Pile, TmpPath, path
<1> QED BY <1>6, <1>7, <1>8, <1>10, <1>11

LEMMA SaveCloseStep ==
    ASSUME DistinctPids, DirInv, FilesInv', NEW p \in Proc, SaveClose(p)
    PROVE  DirInv'
PROOF
<1> USE DEF DirInv, FilesInv, LoadTypes, DirTypes, Goto, loadVars, evictVars, faultVars
<1>1. /\ pc[p] = "saving"
      /\ inode' = [inode EXCEPT ![fd[p]] = [holds |-> job[p], whole |-> TRUE]]
      /\ fd' = [fd EXCEPT ![p] = Nothing]
      /\ pc' = [pc EXCEPT ![p] = "replace"]
      /\ UNCHANGED <<disk, dir, loads, job, key, served, names, found, failures, crashes>>
  BY DEF SaveClose
<1>2. /\ TmpPath(p) \in DOMAIN dir /\ fd[p] = dir[TmpPath(p)] /\ fd[p] \in DOMAIN inode
      /\ DOMAIN inode' = DOMAIN inode
      /\ inode'[fd[p]] = [holds |-> job[p], whole |-> TRUE]
      /\ \A j \in DOMAIN inode : j # fd[p] => inode'[j] = inode[j]
  BY <1>1 DEF Writing
<1>3. \A q \in Proc : TmpPath(q)' = TmpPath(q)
  BY <1>1 DEF TmpPath
<1>4. EvictTypes'
  BY <1>1 DEF EvictTypes
<1>5. OneName' /\ EntriesWhole'
  BY <1>1, <1>2 DEF OneName, EntriesWhole, Pile
<1>6. Writing'
  BY <1>1, <1>2, <1>3 DEF Writing
<1>7. Reading'
  BY <1>1, <1>2 DEF Reading
<1>8. Owned' /\ WriteLands'
  BY <1>1, <1>3 DEF Owned, WriteLands, Pile
<1> QED BY <1>4, <1>5, <1>6, <1>7, <1>8

LEMMA ReplaceStep ==
    ASSUME DistinctPids, DirInv, FilesInv', NEW p \in Proc, Replace(p)
    PROVE  DirInv'
PROOF
<1> USE DEF DirInv, FilesInv, LoadTypes, DirTypes, Goto, loadVars, evictVars, faultVars
<1> DEFINE tmp == TmpPath(p)
           path == EntryPath(key[p])
<1>1. /\ pc[p] = "replace" /\ tmp \in DOMAIN dir
      /\ dir' = Bind(Unbind(dir, tmp), path, dir[tmp])
      /\ pc' = [pc EXCEPT ![p] = IF Limit = 0 THEN "serve" ELSE "list"]
      /\ UNCHANGED <<disk, inode, loads, job, key, fd, served, names, found, failures, crashes>>
  BY DEF Replace
<1>2. /\ tmp \in TmpPaths /\ ~IsEntry(tmp) /\ path \in EntryPaths /\ IsEntry(path)
      /\ \A q \in Proc : TmpPath(q) = tmp => q = p
  BY Temporaries, EntryIs
<1>3. /\ DOMAIN dir' = (DOMAIN dir \ {tmp}) \cup {path}
      /\ dir'[path] = dir[tmp]
      /\ \A y \in DOMAIN dir : y # path /\ y # tmp => dir'[y] = dir[y]
  <2> DEFINE d == Unbind(dir, tmp)
  <2>1. DOMAIN d = DOMAIN dir \ {tmp} /\ \A y \in DOMAIN dir : y # tmp => d[y] = dir[y]
    BY Unbinding
  <2> HIDE DEF d
  <2>2. dir' = Bind(d, path, dir[tmp])
    BY <1>1 DEF d
  <2> HIDE DEF tmp, path
  <2> QED BY <2>1, <2>2 DEF Bind
<1>4. dir[tmp] \in DOMAIN inode /\ inode[dir[tmp]].whole
  BY <1>1 DEF Writing
<1>5. \A q \in Proc : TmpPath(q)' = TmpPath(q)
  BY <1>1 DEF TmpPath
<1>6. \A q \in Proc : q # p => TmpPath(q) # tmp /\ TmpPath(q) # path
  BY <1>2, Temporaries
<1>7. tmp = TmpPath(p)
  OBVIOUS
<1> HIDE DEF tmp, path
<1>8. EvictTypes'
  BY <1>1 DEF EvictTypes
<1>9. OneName' /\ EntriesWhole'
  BY <1>1, <1>2, <1>3, <1>4 DEF OneName, EntriesWhole, Pile
<1>10. Writing'
  BY <1>1, <1>3, <1>5, <1>6, <1>7 DEF Writing
<1>11. Reading'
  BY <1>1, <1>2, <1>3, <1>4 DEF Reading
<1>12. Owned' /\ WriteLands'
  BY <1>1, <1>2, <1>3, <1>5, <1>7 DEF Owned, WriteLands, Pile
<1> QED BY <1>8, <1>9, <1>10, <1>11, <1>12

\* Removing a path that no writer and no reader needs.
LEMMA Unlinked ==
    ASSUME DirInv, NEW p \in Proc, NEW path, Unlink(path),
           \A q \in Proc : pc'[q] \in {"saving", "replace"} => TmpPath(q) # path,
           UNCHANGED <<inode, disk, loads, job, key, fd, served, names, failures, crashes>>,
           FilesInv', EvictTypes',
           \A q \in Proc : pc'[q] = pc[q] \/ (pc[q] = "failed" /\ pc'[q] = "serve"),
           crashes = 0 => \A q \in Proc : pc'[q] = pc[q] \/ TmpPath(q) = path
    PROVE  DirInv'
PROOF
<1>1. /\ DOMAIN dir' = DOMAIN dir \ {path}
      /\ \A y \in DOMAIN dir : y # path => dir'[y] = dir[y]
  BY DEF Unlink, Unbind
<1>2. \A q \in Proc : TmpPath(q)' = TmpPath(q)
  BY DEF TmpPath
<1> USE DEF DirInv, FilesInv, LoadTypes, DirTypes
<1>3. OneName' /\ EntriesWhole'
  BY <1>1 DEF OneName, EntriesWhole, Pile
<1>4. Writing'
  BY <1>1, <1>2 DEF Writing
<1>5. Reading'
  BY <1>1 DEF Reading
<1>6. Owned' /\ WriteLands'
  BY <1>1, <1>2 DEF Owned, WriteLands, Pile
<1> QED BY <1>3, <1>4, <1>5, <1>6

LEMMA WriteFailedStep ==
    ASSUME DistinctPids, DirInv, FilesInv', NEW p \in Proc, WriteFailed(p)
    PROVE  DirInv'
PROOF
<1>1. /\ pc[p] = "failed" /\ pc' = [pc EXCEPT ![p] = "serve"] /\ Unlink(TmpPath(p))
      /\ UNCHANGED <<inode, disk, loads, job, key, fd, served, names, found, failures, crashes>>
  BY DEF WriteFailed, CleanUp, Goto, loadVars, evictVars, faultVars
<1>2. EvictTypes'
  BY <1>1 DEF DirInv, EvictTypes
<1>3. \A q \in Proc : q # p => TmpPath(q) # TmpPath(p)
  BY Temporaries DEF DirInv
<1>4. pc \in [Proc -> Label]
  BY DEF DirInv, LoadTypes
<1> HIDE DEF DirInv
<1>5. /\ \A q \in Proc : pc'[q] \in {"saving", "replace"} => TmpPath(q) # TmpPath(p)
      /\ \A q \in Proc : pc'[q] = pc[q] \/ (pc[q] = "failed" /\ pc'[q] = "serve")
      /\ \A q \in Proc : pc'[q] = pc[q] \/ TmpPath(q) = TmpPath(p)
  BY <1>1, <1>3, <1>4
<1> QED BY <1>1, <1>2, <1>5, Unlinked

LEMMA EvictNextStep ==
    ASSUME DistinctPids, DirInv, FilesInv', NEW p \in Proc, EvictNext(p)
    PROVE  DirInv'
PROOF
<1>1. /\ found[p] # <<>> /\ found' = [found EXCEPT ![p] = Tail(@)]
      /\ UNCHANGED <<inode, disk, pc, loads, job, key, fd, served, names, failures, crashes>>
  BY DEF EvictNext, loadVars, faultVars
<1>2. /\ Head(found[p]) \in EntryPaths /\ Tail(found[p]) \in Seq(EntryPaths)
  BY <1>1 DEF DirInv, EvictTypes
<1>3. EvictTypes'
  BY <1>1, <1>2 DEF DirInv, EvictTypes
<1>4. \A q \in Proc : TmpPath(q) # Head(found[p])
  BY <1>2, EntriesAre, Temporaries DEF DirInv
<1>5. CASE Unlink(Head(found[p]))
  BY <1>1, <1>3, <1>4, <1>5, Unlinked
<1>6. CASE UNCHANGED dir
  BY <1>1, <1>3, <1>6 DEF DirInv, FilesInv, OneName, EntriesWhole, Pile, Writing,
     TmpPath, Reading, Owned, WriteLands
<1> QED BY <1>5, <1>6 DEF EvictNext

LEMMA DirStep == DistinctPids /\ DirInv /\ [CacheNext]_cacheVars => DirInv'
PROOF
<1> SUFFICES ASSUME DistinctPids, DirInv, FilesInv', [CacheNext]_cacheVars
             PROVE  DirInv'
  BY FilesStep, FilesThen
<1>1. ASSUME NEW m \in Model, Rewrite(m)
      PROVE  DirInv'
  <2>1. /\ disk[m] < MaxRewrites /\ disk' = [disk EXCEPT ![m] = @ + 1]
        /\ UNCHANGED <<dir, inode, pc, loads, job, key, served, fd, names, found, failures, crashes>>
    BY <1>1 DEF Rewrite, dirVars, loadVars, evictVars, faultVars
  <2>2. (EvictTypes /\ OneName /\ EntriesWhole)'
    BY <2>1 DEF DirInv, EvictTypes, OneName, EntriesWhole, Pile
  <2>3. (Writing /\ Reading)'
    BY <2>1 DEF DirInv, Writing, TmpPath, Reading
  <2>4. (Owned /\ WriteLands)'
    BY <2>1 DEF DirInv, Owned, WriteLands, TmpPath, Pile
  <2> QED BY <2>2, <2>3, <2>4 DEF DirInv, FilesInv
<1>2. CASE UNCHANGED cacheVars
  BY <1>2
  DEF cacheVars, DirInv, FilesInv, EvictTypes, OneName, EntriesWhole, Pile,
      Writing, TmpPath, Reading, Owned, WriteLands, dirVars, loadVars, evictVars, faultVars
<1> QED
  BY <1>1, <1>2, QuietStep, StatStep, SaveOpenStep, SaveCloseStep, ReplaceStep,
     WriteFailedStep, EvictNextStep
  DEF CacheNext, Load, Quiet

LEMMA DirAlways ==
    ASSUME DistinctPids
    PROVE  CacheSpec => []DirInv
PROOF
<1>1. CacheInit => DirInv
  BY InitDir
<1>2. DirInv /\ [CacheNext]_cacheVars => DirInv'
  BY DirStep
<1> QED BY <1>1, <1>2, PTL DEF CacheSpec

(***************************************************************************)
(* Sums, counted.                                                           *)
(***************************************************************************)
Units(f) == UNION {{x} \X (1 .. f[x]) : x \in DOMAIN f}

LEMMA UnitsAre == ASSUME NEW f PROVE \A z : z \in Units(f) <=> \E x \in DOMAIN f : \E n \in 1 .. f[x] : z = <<x, n>>
BY DEF Units

LEMMA UnitsFinite ==
    ASSUME NEW f, IsFiniteSet(DOMAIN f), \A x \in DOMAIN f : f[x] \in Nat
    PROVE  IsFiniteSet(Units(f)) /\ Total(f) = Cardinality(Units(f)) /\ Total(f) \in Nat
<1> DEFINE pile == [x \in DOMAIN f |-> {x} \X (1 .. f[x])]
           piles == {{x} \X (1 .. f[x]) : x \in DOMAIN f}
<1>1. pile \in Surjection(DOMAIN f, piles)
  BY DEF Surjection
<1>2. IsFiniteSet(piles)
  <2> HIDE DEF pile, piles
  <2> QED BY <1>1, FS_Surjection
<1>3. \A T \in piles : IsFiniteSet(T)
  <2>1. ASSUME NEW x \in DOMAIN f PROVE IsFiniteSet({x} \X (1 .. f[x]))
    <3>1. PICK n \in Int : f[x] = n
      OBVIOUS
    <3>2. IsFiniteSet(1 .. n)
      BY FS_Interval
    <3>3. IsFiniteSet({x})
      BY FS_Singleton
    <3> QED BY <3>1, <3>2, <3>3, FS_Product
  <2> QED BY <2>1
<1>4. IsFiniteSet(Units(f))
  <2> HIDE DEF piles
  <2>1. IsFiniteSet(UNION piles)
    BY <1>2, <1>3, FS_UNION
  <2> QED BY <2>1 DEF Units, piles
<1> QED BY <1>4, FS_CardinalityType DEF Total, Units

\* No value is above the sum.
LEMMA TotalBounds ==
    ASSUME NEW f, IsFiniteSet(DOMAIN f), \A x \in DOMAIN f : f[x] \in Nat, NEW y \in DOMAIN f
    PROVE  f[y] <= Total(f)
<1>1. IsFiniteSet(Units(f)) /\ Total(f) = Cardinality(Units(f))
  BY UnitsFinite
<1>2. {y} \X (1 .. f[y]) \in SUBSET Units(f)
  BY DEF Units
<1>3. Cardinality({y} \X (1 .. f[y])) = f[y]
  <2>1. IsFiniteSet({y}) /\ Cardinality({y}) = 1
    BY FS_Singleton
  <2>2. IsFiniteSet(1 .. f[y]) /\ Cardinality(1 .. f[y]) = f[y]
    BY FS_Interval
  <2>3. Cardinality({y} \X (1 .. f[y])) = Cardinality({y}) * Cardinality(1 .. f[y])
    BY <2>1, <2>2, FS_Product
  <2> QED BY <2>1, <2>2, <2>3
<1> QED BY <1>1, <1>2, <1>3, FS_Subset

(***************************************************************************)
(* Bytes of sets of paths.                                                  *)
(***************************************************************************)
\* Paths of entries that are named for a matrix.
Stored == Matrices \X {"entry"}
Weights(paths) == [path \in paths |-> Size[path[1].tensor]]

LEMMA Weighs ==
    ASSUME NEW paths \in SUBSET Stored, IsFiniteSet(paths)
    PROVE  /\ IsFiniteSet(Units(Weights(paths)))
           /\ Bytes(paths) = Cardinality(Units(Weights(paths))) /\ Bytes(paths) \in Nat
<1>1. \A path \in paths : Size[path[1].tensor] \in Nat
  BY ProcessesAssumption DEF Matrices, Stored
<1>2. DOMAIN Weights(paths) = paths /\ \A path \in paths : Weights(paths)[path] \in Nat
  BY <1>1 DEF Weights
<1> QED BY <1>2, UnitsFinite DEF Bytes, Weights

LEMMA BytesGrow ==
    ASSUME NEW B \in SUBSET Stored, IsFiniteSet(B), NEW A \in SUBSET B
    PROVE  Bytes(A) <= Bytes(B)
<1>1. IsFiniteSet(A)
  BY FS_Subset
<1>2. Units(Weights(A)) \in SUBSET Units(Weights(B))
  BY UnitsAre DEF Weights
<1> QED BY <1>1, <1>2, Weighs, FS_Subset

LEMMA BytesApart ==
    ASSUME NEW A \in SUBSET Stored, NEW B \in SUBSET Stored, A \cap B = {},
           IsFiniteSet(A), IsFiniteSet(B)
    PROVE  Bytes(A \cup B) = Bytes(A) + Bytes(B)
<1> DEFINE a == Units(Weights(A))
           b == Units(Weights(B))
<1>1. IsFiniteSet(A \cup B) /\ A \cup B \in SUBSET Stored
  BY FS_Union
<1>2. Units(Weights(A \cup B)) = a \cup b
  BY UnitsAre DEF Weights
<1>3. a \cap b = {}
  BY UnitsAre DEF Weights
<1>4. IsFiniteSet(a) /\ IsFiniteSet(b) /\ Bytes(A) = Cardinality(a) /\ Bytes(B) = Cardinality(b)
  BY Weighs
<1>5. Bytes(A \cup B) = Cardinality(a \cup b)
  BY <1>1, <1>2, Weighs
<1> HIDE DEF a, b
<1>6. Cardinality(a \cup b) = Cardinality(a) + Cardinality(b) - Cardinality(a \cap b)
  BY <1>4, FS_Union
<1>7. Cardinality(a \cap b) = 0
  BY <1>3, FS_EmptySet
<1>8. Cardinality(a) \in Nat /\ Cardinality(b) \in Nat
  BY <1>4, FS_CardinalityType
<1> QED BY <1>4, <1>5, <1>6, <1>7, <1>8

(***************************************************************************)
(* The order of the files by age.                                           *)
(***************************************************************************)
LEMMA UnnamedIs ==
    ASSUME recent \in Seq(Inode), IsInjective(recent), NEW i
    PROVE  /\ Unnamed(i) \in Seq(Inode) /\ IsInjective(Unnamed(i))
           /\ ToSet(Unnamed(i)) = ToSet(recent) \ {i}
<1>1. CASE ~Contains(recent, i)
  <2>1. \A n \in 1 .. Len(recent) : recent[n] # i
    BY <1>1 DEF Contains
  <2>2. DOMAIN recent = 1 .. Len(recent) /\ Unnamed(i) = recent
    BY <1>1 DEF Unnamed
  <2> QED BY <2>1, <2>2 DEF ToSet
<1>2. CASE Contains(recent, i)
  <2> DEFINE n == Place(i)
             s == SubSeq(recent, 1, n - 1)
             t == SubSeq(recent, n + 1, Len(recent))
  <2>1. DOMAIN recent = 1 .. Len(recent) /\ Len(recent) \in Nat
    OBVIOUS
  <2>2. n \in 1 .. Len(recent) /\ recent[n] = i
    BY <1>2, <2>1 DEF Contains, Place
  <2>3. Unnamed(i) = s \o t
    BY <1>2 DEF Unnamed, RemoveAt
  <2> HIDE DEF n
  <2>4. /\ s \in Seq(Inode) /\ Len(s) = n - 1
        /\ \A k \in 1 .. n - 1 : s[k] = recent[k]
    <3>1. \A k \in 1 .. n - 1 : recent[k] \in Inode
      BY <2>1, <2>2
    <3>2. /\ SubSeq(recent, 1, n - 1) \in Seq(Inode)
          /\ Len(SubSeq(recent, 1, n - 1)) = IF 1 <= n - 1 THEN n - 1 - 1 + 1 ELSE 0
          /\ \A k \in 1 .. n - 1 - 1 + 1 : SubSeq(recent, 1, n - 1)[k] = recent[1 + k - 1]
      BY <2>1, <2>2, <3>1, SubSeqProperties
    <3> QED BY <2>1, <2>2, <3>2
  <2>5. /\ t \in Seq(Inode) /\ Len(t) = Len(recent) - n
        /\ \A k \in 1 .. Len(recent) - n : t[k] = recent[n + k]
    <3>1. \A k \in n + 1 .. Len(recent) : recent[k] \in Inode
      BY <2>1, <2>2
    <3> DEFINE m == n + 1
               l == Len(recent)
    <3>2. m \in Int /\ l \in Int /\ \A k \in m .. l : recent[k] \in Inode
      BY <2>1, <2>2, <3>1
    <3> HIDE DEF m, l, s, t
    <3>3. /\ SubSeq(recent, m, l) \in Seq(Inode)
          /\ Len(SubSeq(recent, m, l)) = IF m <= l THEN l - m + 1 ELSE 0
          /\ \A k \in 1 .. l - m + 1 : SubSeq(recent, m, l)[k] = recent[m + k - 1]
      BY <3>2, SubSeqProperties
    <3>4. l - m + 1 = Len(recent) - n /\ \A k \in 1 .. Len(recent) - n : m + k - 1 = n + k
      BY <2>1, <2>2 DEF m, l
    <3>5. t = SubSeq(recent, m, l)
      BY DEF m, l, t
    <3>6. \A k \in 1 .. Len(recent) - n : SubSeq(recent, m, l)[k] = recent[n + k]
      BY <3>3, <3>4
    <3>7. Len(SubSeq(recent, m, l)) = Len(recent) - n
      <4>1. CASE m <= l
        BY <3>3, <3>4, <4>1
      <4>2. CASE ~(m <= l)
        <5>1. l \in Nat /\ n \in 1 .. l /\ m = n + 1
          BY <2>1, <2>2 DEF m, l
        <5>2. l - n = 0
          BY <4>2, <5>1
        <5> QED BY <3>3, <4>2, <5>2 DEF l
      <4> QED BY <4>1, <4>2
    <3> QED BY <3>3, <3>5, <3>6, <3>7
  <2> HIDE DEF s, t
  <2>6. /\ s \o t \in Seq(Inode) /\ Len(s \o t) = Len(recent) - 1
        /\ \A k \in 1 .. Len(recent) - 1 :
             (s \o t)[k] = IF k <= n - 1 THEN recent[k] ELSE recent[k + 1]
    <3>1. /\ s \o t \in Seq(Inode) /\ Len(s \o t) = Len(s) + Len(t)
          /\ \A k \in 1 .. Len(s) + Len(t) :
               (s \o t)[k] = IF k <= Len(s) THEN s[k] ELSE t[k - Len(s)]
      BY <2>4, <2>5, ConcatProperties
    <3> QED BY <2>2, <2>4, <2>5, <3>1
  <2> DEFINE u == s \o t
  <2>7. DOMAIN u = 1 .. Len(recent) - 1
    BY <2>6
  <2> HIDE DEF u
  <2>8. \A k \in DOMAIN u : u[k] = IF k <= n - 1 THEN recent[k] ELSE recent[k + 1]
    BY <2>6, <2>7 DEF u
  <2>9. IsInjective(u)
    BY <2>1, <2>2, <2>7, <2>8 DEF IsInjective
  <2>10. ToSet(u) \subseteq ToSet(recent) \ {i}
    BY <2>1, <2>2, <2>7, <2>8 DEF ToSet, IsInjective
  <2>11. ASSUME NEW x \in ToSet(recent) \ {i} PROVE x \in ToSet(u)
    <3>1. PICK k \in 1 .. Len(recent) : recent[k] = x
      BY <2>1 DEF ToSet
    <3>2. CASE k <= n - 1
      <4>1. k \in DOMAIN u /\ u[k] = recent[k]
        BY <2>1, <2>2, <2>7, <2>8, <3>1, <3>2
      <4> QED BY <3>1, <4>1 DEF ToSet
    <3>3. CASE k > n
      <4>1. k - 1 \in DOMAIN u /\ u[k - 1] = recent[k]
        BY <2>1, <2>2, <2>7, <2>8, <3>1, <3>3
      <4> QED BY <3>1, <4>1 DEF ToSet
    <3>4. k # n
      BY <2>2, <3>1
    <3> QED BY <2>2, <3>1, <3>2, <3>3, <3>4
  <2> QED BY <2>3, <2>6, <2>9, <2>10, <2>11 DEF u
<1> QED BY <1>1, <1>2

LEMMA NewestIs ==
    ASSUME recent \in Seq(Inode), IsInjective(recent), NEW i \in Inode
    PROVE  /\ Newest(i) \in Seq(Inode) /\ IsInjective(Newest(i))
           /\ ToSet(Newest(i)) = ToSet(recent) \cup {i}
<1> DEFINE s == Unnamed(i)
           u == Append(s, i)
<1>1. s \in Seq(Inode) /\ IsInjective(s) /\ ToSet(s) = ToSet(recent) \ {i}
  BY UnnamedIs
<1>2. Newest(i) = u
  BY DEF Newest
<1> HIDE DEF s
<1>3. /\ u \in Seq(Inode) /\ DOMAIN u = 1 .. Len(s) + 1 /\ DOMAIN s = 1 .. Len(s) /\ Len(s) \in Nat
      /\ u[Len(s) + 1] = i /\ \A k \in DOMAIN s : u[k] = s[k]
  BY <1>1
<1> HIDE DEF u
<1>4. \A k \in DOMAIN s : s[k] # i
  BY <1>1 DEF ToSet
<1>5. IsInjective(u)
  BY <1>1, <1>3, <1>4 DEF IsInjective
<1>6. ToSet(u) = ToSet(s) \cup {i}
  BY <1>3 DEF ToSet
<1> QED BY <1>1, <1>2, <1>3, <1>5, <1>6

(***************************************************************************)
(* The rest of the types, and who keeps the pile in bounds.                 *)
(***************************************************************************)
Bounds ==
    /\ loads \in [Proc -> 0 .. MaxLoads]
    /\ \A p \in Proc : pc[p] # "idle" => loads[p] # 0
    /\ DOMAIN inode \subseteq Inode
    /\ fd \in [Proc -> Inode \cup {Nothing}]
    /\ \A p \in Proc : (fd[p] # Nothing) <=> (pc[p] \in {"slice", "saving"})
    /\ total \in [Proc -> Int] /\ dirty \in BOOLEAN

\* Nothing is written, listed or found under a name that is not a matrix's.
NamedFor ==
    /\ \A p \in Proc : pc[p] \notin {"idle", "identify", "serve"} => key[p] \in Matrices
    /\ \A path \in DOMAIN dir : path[1] \in Matrices
    /\ names \in [Proc -> SUBSET Stored]
    /\ found \in [Proc -> Seq(Stored)]
    /\ \A p \in Proc : IsInjective(found[p])

Ages ==
    /\ recent \in Seq(Inode) /\ IsInjective(recent)
    /\ ToSet(recent) = {dir[path] : path \in DOMAIN dir}

\* What a pass of evict may still find there, and its own entry that it spares.
Left(p) == ToSet(found[p]) \cup ({EntryPath(key[p])} \cap Pile)

\* A pass that has seen, or is yet to see, every entry there is.
SeesAll(p) ==
    \/ pc[p] = "list"
    \/ pc[p] = "stat" /\ Pile \subseteq names[p]
    \/ pc[p] = "evict" /\ Pile \subseteq Left(p) /\ Bytes(Left(p)) <= total[p]

\* The pile fits, or there is such a pass; but for one that a crash cut short.
Covered ==
    \/ dirty \/ Limit = 0
    \/ \E p \in Proc : SeesAll(p)
    \/ Bytes(Pile) <= Limit \/ Cardinality(Pile) <= 1

PileInv == Bounds /\ NamedFor /\ Ages /\ Covered

Evicting == {"list", "stat", "evict"}

(***************************************************************************)
(* What keeps the parts.                                                    *)
(***************************************************************************)
\* The entries are named for matrices, and finitely many.
LEMMA PileStored ==
    ASSUME DistinctPids, DirTypes, NamedFor
    PROVE  Pile \in SUBSET Stored /\ IsFiniteSet(Pile)
<1>1. IsFiniteSet(Pile)
  BY FS_Subset DEF DirTypes, Pile
<1>2. ASSUME NEW path \in Pile PROVE path \in Stored
  <2>1. path \in DOMAIN dir /\ path[2] = "entry" /\ path[1] \in Matrices
    BY DEF Pile, IsEntry, NamedFor
  <2>2. path \in EntryPaths \cup TmpPaths
    BY <2>1 DEF DirTypes
  <2> QED BY <2>1, <2>2 DEF EntryPaths, TmpPaths, Stored
<1> QED BY <1>1, <1>2

\* A step that no pass of evict takes, and that leaves the entries alone.
LEMMA StaysCovered ==
    ASSUME Covered, NEW p \in Proc, pc[p] \notin Evicting, Pile' = Pile, dirty => dirty',
           \A q \in Proc \ {p} :
              /\ pc'[q] = pc[q] /\ key'[q] = key[q] /\ names'[q] = names[q]
              /\ found'[q] = found[q] /\ total'[q] = total[q]
    PROVE  Covered'
<1>1. ASSUME NEW q \in Proc, SeesAll(q) PROVE SeesAll(q)'
  <2>1. q # p
    BY <1>1 DEF SeesAll, Evicting
  <2>2. Left(q)' = Left(q)
    BY <2>1 DEF Left, EntryPath
  <2> QED BY <1>1, <2>1, <2>2 DEF SeesAll
<1> QED BY <1>1 DEF Covered

LEMMA UnlinkAges ==
    ASSUME DirInv, Ages, NEW path, Unlink(path)
    PROVE  Ages'
<1>1. /\ DOMAIN dir' = DOMAIN dir \ {path}
      /\ \A y \in DOMAIN dir : y # path => dir'[y] = dir[y]
  BY DEF Unlink, Unbind
<1>2. CASE path \in DOMAIN dir
  <2>1. recent' = Unnamed(dir[path])
    BY <1>2 DEF Unlink
  <2>2. /\ recent' \in Seq(Inode) /\ IsInjective(recent')
        /\ ToSet(recent') = ToSet(recent) \ {dir[path]}
    BY <2>1, UnnamedIs DEF Ages
  <2>3. {dir'[y] : y \in DOMAIN dir'} = {dir[y] : y \in DOMAIN dir} \ {dir[path]}
    BY <1>1, <1>2 DEF DirInv, OneName
  <2> QED BY <2>2, <2>3 DEF Ages
<1>3. CASE path \notin DOMAIN dir
  <2>1. recent' = recent /\ {dir'[y] : y \in DOMAIN dir'} = {dir[y] : y \in DOMAIN dir}
    BY <1>1, <1>3 DEF Unlink
  <2> QED BY <2>1 DEF Ages
<1> QED BY <1>2, <1>3

(***************************************************************************)
(* The steps.                                                               *)
(***************************************************************************)
LEMMA InitPile == CacheInit => PileInv
<1> SUFFICES ASSUME CacheInit PROVE PileInv
  OBVIOUS
<1>1. Bounds
  <2>1. MaxLoads \in Nat
    BY ProcessesAssumption
  <2>2. loads \in [Proc -> 0 .. MaxLoads]
    BY <2>1 DEF CacheInit
  <2>5. total \in [Proc -> Int]
    BY DEF CacheInit
  <2>6. dirty \in BOOLEAN
    BY DEF CacheInit
  <2>3. DOMAIN inode = {}
    BY DEF CacheInit
  <2>4. fd \in [Proc -> {Nothing}] /\ \A p \in Proc : pc[p] = "idle"
    BY DEF CacheInit
  <2> QED BY <2>2, <2>3, <2>4, <2>5, <2>6 DEF Bounds
<1>2. NamedFor
  BY DEF CacheInit, NamedFor, IsInjective
<1>3. Ages
  BY DEF CacheInit, Ages, IsInjective, ToSet
<1>4. Covered
  <2>1. Pile = {}
    BY DEF CacheInit, Pile
  <2> QED BY <2>1, FS_EmptySet DEF Covered
<1> QED BY <1>1, <1>2, <1>3, <1>4 DEF PileInv

\* The steps of a load that touch neither the entries nor evict's locals.
LEMMA LoadPileStep ==
    ASSUME DirInv, PileInv, NEW p \in Proc,
           \/ \E m \in Model, t \in Tensor : Start(p, m, t)
           \/ Identify(p) \/ Unidentified(p) \/ Exists(p) \/ Open(p) \/ Slice(p)
           \/ SaveFails(p) \/ ReplaceFails(p) \/ HandOver(p)
    PROVE  PileInv'
PROOF
<1> USE DEF Goto, dirVars, loadVars, evictVars, faultVars
<1>1. /\ UNCHANGED <<dir, inode, recent, names, found, total, dirty>>
      /\ pc[p] \notin Evicting /\ \A q \in Proc \ {p} : pc'[q] = pc[q] /\ key'[q] = key[q]
  BY DEF DirInv, LoadTypes, Start, Identify, Unidentified, Exists, Open, Slice, SaveFails,
         ReplaceFails, HandOver, Evicting
<1>2. Ages'
  BY <1>1 DEF Ages, PileInv
<1>3. Covered'
  <2>1. Pile' = Pile
    BY <1>1 DEF Pile
  <2> QED BY <1>1, <2>1, StaysCovered DEF PileInv
<1>4. NamedFor'
  <2>1. \A q \in Proc : pc'[q] \notin {"idle", "identify", "serve"} => key'[q] \in Matrices
    <3>1. CASE Identify(p)
      <4>1. job[p] \in Matrices /\ disk \in [Model -> 0 .. MaxRewrites]
        BY <3>1 DEF Identify, DirInv, LoadTypes
      <4>2. EntryKey(job[p].model, job[p].tensor) \in Matrices
        BY <4>1 DEF EntryKey, Matrix, Matrices
      <4> QED BY <3>1, <4>2 DEF Identify, PileInv, NamedFor, DirInv, LoadTypes
    <3>2. CASE ~Identify(p)
      <4>1. CASE key' = key
        <5>1. pc'[p] \notin {"idle", "identify", "serve"} => pc[p] \notin {"idle", "identify", "serve"}
          BY <3>2, <4>1 DEF DirInv, LoadTypes, Start, Unidentified, Exists, Open, Slice, SaveFails,
                            ReplaceFails, HandOver, AfterBadOpen
        <5> QED BY <1>1, <4>1, <5>1 DEF PileInv, NamedFor
      <4>2. CASE Unidentified(p)
        BY <4>2 DEF Unidentified, PileInv, NamedFor, DirInv, LoadTypes
      <4>3. key' = key \/ Unidentified(p)
        BY <3>2 DEF Start, Exists, Open, Slice, SaveFails, ReplaceFails, HandOver
      <4> QED BY <4>1, <4>2, <4>3
    <3> QED BY <3>1, <3>2
  <2> QED BY <1>1, <2>1 DEF PileInv, NamedFor
<1>5. Bounds'
  <2>1. ASSUME NEW m \in Model, NEW t \in Tensor, Start(p, m, t) PROVE Bounds'
    <3>1. DOMAIN loads = Proc /\ \A q \in Proc : loads[q] \in Nat
      BY DEF DirInv, LoadTypes
    <3>2. loads[p] <= Total(loads) /\ Total(loads) \in Nat
      BY <3>1, ProcessesAssumption, TotalBounds, UnitsFinite
    <3>3. loads' = [loads EXCEPT ![p] = @ + 1] /\ Total(loads) < MaxLoads
      BY <2>1 DEF Start
    <3>4. loads' \in [Proc -> 0 .. MaxLoads] /\ loads'[p] # 0
      BY <3>2, <3>3, ProcessesAssumption DEF PileInv, Bounds
    <3> QED BY <2>1, <3>3, <3>4 DEF Start, PileInv, Bounds, DirInv, LoadTypes
  <2>2. CASE Identify(p) \/ Unidentified(p) \/ Exists(p) \/ Slice(p) \/ ReplaceFails(p) \/ HandOver(p)
    BY <2>2 DEF Identify, Unidentified, Exists, Slice, ReplaceFails, HandOver, PileInv, Bounds,
                DirInv, LoadTypes
  <2>3. CASE SaveFails(p)
    BY <2>3 DEF SaveFails, PileInv, Bounds, DirInv, LoadTypes
  <2>4. CASE Open(p)
    <3>1. Nothing \notin Inode
      BY ProcessesAssumption DEF Inode
    <3>2. EntryPath(key[p]) \in DOMAIN dir => dir[EntryPath(key[p])] \in Inode
      BY DEF PileInv, Bounds, DirInv, DirTypes
    <3> QED BY <2>4, <3>1, <3>2 DEF Open, AfterBadOpen, PileInv, Bounds, DirInv, LoadTypes
  <2> QED BY <2>1, <2>2, <2>3, <2>4
<1> QED BY <1>2, <1>3, <1>4, <1>5 DEF PileInv

LEMMA TouchPileStep ==
    ASSUME DirInv, PileInv, NEW p \in Proc, Touch(p)
    PROVE  PileInv'
<1> DEFINE path == EntryPath(key[p])
<1>1. /\ pc[p] = "touch" /\ pc' = [pc EXCEPT ![p] = "idle"]
      /\ recent' = IF path \in DOMAIN dir THEN Newest(dir[path]) ELSE recent
      /\ UNCHANGED <<dir, inode, loads, key, fd, names, found, total, dirty>>
  BY DEF Touch, Goto, loadVars, evictVars, faultVars
<1> HIDE DEF path
<1>2. Ages'
  <2>1. CASE path \in DOMAIN dir
    <3>1. dir[path] \in Inode /\ dir[path] \in ToSet(recent)
      BY <2>1 DEF DirInv, DirTypes, PileInv, Bounds, Ages
    <3>2. /\ recent' \in Seq(Inode) /\ IsInjective(recent')
          /\ ToSet(recent') = ToSet(recent) \cup {dir[path]}
      BY <1>1, <2>1, <3>1, NewestIs DEF PileInv, Ages
    <3> QED BY <1>1, <3>1, <3>2 DEF PileInv, Ages
  <2>2. CASE path \notin DOMAIN dir
    BY <1>1, <2>2 DEF PileInv, Ages
  <2> QED BY <2>1, <2>2
<1>3. Covered'
  <2>1. Pile' = Pile
    BY <1>1 DEF Pile
  <2> QED BY <1>1, <2>1, StaysCovered DEF PileInv, Evicting, DirInv, LoadTypes
<1>4. NamedFor'
  BY <1>1 DEF PileInv, NamedFor, DirInv, LoadTypes
<1>5. Bounds'
  BY <1>1 DEF PileInv, Bounds, DirInv, LoadTypes
<1> QED BY <1>2, <1>3, <1>4, <1>5 DEF PileInv

LEMMA SaveOpenPileStep ==
    ASSUME DistinctPids, DirInv, PileInv, NEW p \in Proc, SaveOpen(p)
    PROVE  PileInv'
<1> DEFINE path == TmpPath(p)
           i == IF path \in DOMAIN dir THEN dir[path] ELSE <<p, loads[p]>>
<1>1. /\ pc[p] = "encode" /\ pc' = [pc EXCEPT ![p] = "saving"]
      /\ dir' = Bind(dir, path, i)
      /\ inode' = Bind(inode, i, [holds |-> Nothing, whole |-> FALSE])
      /\ recent' = Newest(i)
      /\ fd' = [fd EXCEPT ![p] = i]
      /\ UNCHANGED <<loads, key, names, found, total, dirty>>
  BY DEF SaveOpen, Goto, evictVars, faultVars
<1>2. ~IsEntry(path) /\ path[1] = key[p]
  BY Temporaries DEF DirInv, TmpPath
<1>3. i \in Inode /\ (path \in DOMAIN dir => i = dir[path])
  BY <1>1 DEF DirInv, LoadTypes, DirTypes, PileInv, Bounds, Inode
<1> HIDE DEF path, i
<1>4. /\ DOMAIN dir' = DOMAIN dir \cup {path} /\ dir'[path] = i
      /\ \A y \in DOMAIN dir : y # path => dir'[y] = dir[y]
  BY <1>1 DEF Bind
<1>5. Ages'
  <2>1. /\ recent' \in Seq(Inode) /\ IsInjective(recent')
        /\ ToSet(recent') = ToSet(recent) \cup {i}
    BY <1>1, <1>3, NewestIs DEF PileInv, Ages
  <2>2. {dir'[y] : y \in DOMAIN dir'} = {dir[y] : y \in DOMAIN dir} \cup {i}
    BY <1>3, <1>4
  <2> QED BY <2>1, <2>2 DEF PileInv, Ages
<1>6. Covered'
  <2>1. Pile' = Pile
    BY <1>2, <1>4 DEF Pile
  <2> QED BY <1>1, <2>1, StaysCovered DEF PileInv, Evicting, DirInv, LoadTypes
<1>7. NamedFor'
  BY <1>1, <1>2, <1>4 DEF PileInv, NamedFor, DirInv, LoadTypes
<1>8. Bounds'
  <2>1. DOMAIN inode' \subseteq Inode
    BY <1>1, <1>3 DEF Bind, PileInv, Bounds
  <2>2. i # Nothing
    BY <1>3, ProcessesAssumption DEF Inode
  <2> QED BY <1>1, <1>3, <2>1, <2>2 DEF PileInv, Bounds, DirInv, LoadTypes
<1> QED BY <1>5, <1>6, <1>7, <1>8 DEF PileInv

LEMMA SaveClosePileStep ==
    ASSUME DirInv, PileInv, NEW p \in Proc, SaveClose(p)
    PROVE  PileInv'
<1>1. /\ pc[p] = "saving" /\ pc' = [pc EXCEPT ![p] = "replace"]
      /\ inode' = [inode EXCEPT ![fd[p]] = [holds |-> job[p], whole |-> TRUE]]
      /\ recent' = IF Contains(recent, fd[p]) THEN Newest(fd[p]) ELSE recent
      /\ fd' = [fd EXCEPT ![p] = Nothing]
      /\ UNCHANGED <<dir, loads, key, names, found, total, dirty>>
  BY DEF SaveClose, Goto, evictVars, faultVars
<1>2. Ages'
  <2>1. CASE Contains(recent, fd[p])
    <3>1. fd[p] \in Inode /\ fd[p] \in ToSet(recent)
      BY <2>1 DEF PileInv, Ages, Contains, ToSet
    <3>2. /\ recent' \in Seq(Inode) /\ IsInjective(recent')
          /\ ToSet(recent') = ToSet(recent) \cup {fd[p]}
      BY <1>1, <2>1, <3>1, NewestIs DEF PileInv, Ages
    <3> QED BY <1>1, <3>1, <3>2 DEF PileInv, Ages
  <2>2. CASE ~Contains(recent, fd[p])
    BY <1>1, <2>2 DEF PileInv, Ages
  <2> QED BY <2>1, <2>2
<1>3. Covered'
  <2>1. Pile' = Pile
    BY <1>1 DEF Pile
  <2> QED BY <1>1, <2>1, StaysCovered DEF PileInv, Evicting, DirInv, LoadTypes
<1>4. NamedFor'
  BY <1>1 DEF PileInv, NamedFor, DirInv, LoadTypes
<1>5. Bounds'
  BY <1>1 DEF PileInv, Bounds, DirInv, LoadTypes
<1> QED BY <1>2, <1>3, <1>4, <1>5 DEF PileInv

LEMMA ReplacePileStep ==
    ASSUME DistinctPids, DirInv, PileInv, NEW p \in Proc, Replace(p)
    PROVE  PileInv'
<1> DEFINE tmp == TmpPath(p)
           path == EntryPath(key[p])
<1>1. /\ pc[p] = "replace" /\ tmp \in DOMAIN dir
      /\ dir' = Bind(Unbind(dir, tmp), path, dir[tmp])
      /\ recent' = IF path \in DOMAIN dir THEN Unnamed(dir[path]) ELSE recent
      /\ pc' = [pc EXCEPT ![p] = IF Limit = 0 THEN "serve" ELSE "list"]
      /\ UNCHANGED <<inode, loads, key, fd, names, found, total, dirty>>
  BY DEF Replace, Goto, loadVars, evictVars, faultVars
<1>2. ~IsEntry(tmp) /\ IsEntry(path) /\ path[1] = key[p]
  BY Temporaries, EntryIs DEF DirInv
<1>3. /\ DOMAIN dir' = (DOMAIN dir \ {tmp}) \cup {path}
      /\ dir'[path] = dir[tmp]
      /\ \A y \in DOMAIN dir : y # path /\ y # tmp => dir'[y] = dir[y]
  <2> DEFINE d == Unbind(dir, tmp)
  <2>1. DOMAIN d = DOMAIN dir \ {tmp} /\ \A y \in DOMAIN dir : y # tmp => d[y] = dir[y]
    BY Unbinding
  <2> HIDE DEF d
  <2>2. dir' = Bind(d, path, dir[tmp])
    BY <1>1 DEF d
  <2> HIDE DEF tmp, path
  <2> QED BY <2>1, <2>2 DEF Bind
<1> HIDE DEF tmp, path
<1>4. Ages'
  <2>1. CASE path \in DOMAIN dir
    <3>1. /\ recent' \in Seq(Inode) /\ IsInjective(recent')
          /\ ToSet(recent') = ToSet(recent) \ {dir[path]}
      BY <1>1, <2>1, UnnamedIs DEF PileInv, Ages
    <3>2. dir[tmp] # dir[path]
      BY <1>1, <1>2, <2>1 DEF DirInv, OneName
    <3>3. {dir'[y] : y \in DOMAIN dir'} = {dir[y] : y \in DOMAIN dir} \ {dir[path]}
      BY <1>1, <1>2, <1>3, <2>1, <3>2 DEF DirInv, OneName
    <3> QED BY <3>1, <3>3 DEF PileInv, Ages
  <2>2. CASE path \notin DOMAIN dir
    <3>1. {dir'[y] : y \in DOMAIN dir'} = {dir[y] : y \in DOMAIN dir}
      BY <1>1, <1>2, <1>3, <2>2
    <3> QED BY <1>1, <2>2, <3>1 DEF PileInv, Ages
  <2> QED BY <2>1, <2>2
<1>5. Covered'
  BY <1>1 DEF Covered, SeesAll, DirInv, LoadTypes
<1>6. NamedFor'
  BY <1>1, <1>2, <1>3 DEF PileInv, NamedFor, DirInv, LoadTypes
<1>7. Bounds'
  BY <1>1 DEF PileInv, Bounds, DirInv, LoadTypes
<1> QED BY <1>4, <1>5, <1>6, <1>7 DEF PileInv

LEMMA WriteFailedPileStep ==
    ASSUME DistinctPids, DirInv, PileInv, NEW p \in Proc, WriteFailed(p)
    PROVE  PileInv'
<1>1. /\ pc[p] = "failed" /\ pc' = [pc EXCEPT ![p] = "serve"] /\ Unlink(TmpPath(p))
      /\ UNCHANGED <<inode, loads, key, fd, names, found, total, dirty>>
  BY DEF WriteFailed, CleanUp, Goto, loadVars, evictVars, faultVars
<1>2. DOMAIN dir' = DOMAIN dir \ {TmpPath(p)} /\ ~IsEntry(TmpPath(p))
  BY <1>1, Temporaries DEF Unlink, Unbind, DirInv
<1>3. Ages'
  BY <1>1, UnlinkAges DEF PileInv
<1>4. Covered'
  <2>1. Pile' = Pile
    BY <1>2 DEF Pile
  <2> QED BY <1>1, <2>1, StaysCovered DEF PileInv, Evicting, DirInv, LoadTypes
<1>5. NamedFor'
  BY <1>1, <1>2 DEF PileInv, NamedFor, DirInv, LoadTypes
<1>6. Bounds'
  BY <1>1 DEF PileInv, Bounds, DirInv, LoadTypes
<1> QED BY <1>3, <1>4, <1>5, <1>6 DEF PileInv

LEMMA ElementsFinite ==
    ASSUME NEW S, NEW s \in Seq(S)
    PROVE  ToSet(s) \in SUBSET S /\ IsFiniteSet(ToSet(s))
<1>1. s \in Surjection(1 .. Len(s), ToSet(s)) /\ ToSet(s) \in SUBSET S
  BY DEF Surjection, ToSet
<1>2. PICK n \in Int : n = Len(s)
  OBVIOUS
<1>3. IsFiniteSet(1 .. n)
  BY FS_Interval
<1> QED BY <1>1, <1>2, <1>3, FS_Surjection

\* sorted(found) is a list of all that is found, each path once.
LEMMA FoundAll ==
    ASSUME NEW paths, IsFiniteSet(paths), NEW s \in OldestFirst(paths)
    PROVE  s \in Seq(paths) /\ IsInjective(s) /\ ToSet(s) = paths
<1> DEFINE D == 1 .. Cardinality(paths)
<1>1. Cardinality(paths) \in Nat
  BY FS_CardinalityType
<1>2. s \in [D -> paths] /\ \A i, j \in D : i # j => s[i] # s[j]
  BY DEF OldestFirst, SetToSeqs
<1>3. IsFiniteSet(D) /\ Cardinality(D) = Cardinality(paths)
  <2>1. PICK n \in Nat : n = Cardinality(paths)
    BY <1>1
  <2>2. IsFiniteSet(1 .. n) /\ Cardinality(1 .. n) = n
    BY FS_Interval
  <2> QED BY <2>1, <2>2
<1> HIDE DEF D
<1>4. s \in Injection(D, paths)
  BY <1>2 DEF Injection, IsInjective
<1>5. s \in Surjection(D, paths)
  BY <1>3, <1>4, FS_Injection
<1>6. ToSet(s) = paths
  BY <1>2, <1>5 DEF Surjection, ToSet
<1>7. IsInjective(s)
  BY <1>2 DEF IsInjective
<1> QED BY <1>1, <1>2, <1>6, <1>7 DEF D

LEMMA ListPileStep ==
    ASSUME DistinctPids, DirInv, PileInv, NEW p \in Proc, ListDir(p)
    PROVE  PileInv'
<1>1. /\ pc[p] = "list" /\ pc' = [pc EXCEPT ![p] = "stat"]
      /\ names' = [names EXCEPT ![p] = Pile] /\ dirty' = FALSE
      /\ UNCHANGED <<dir, inode, recent, loads, key, fd, found, total>>
  BY DEF ListDir, ListedFiles, Goto, dirVars, loadVars
<1>2. Pile \in SUBSET Stored
  BY PileStored DEF DirInv, PileInv
<1>3. Ages'
  BY <1>1 DEF PileInv, Ages
<1>4. Covered'
  <2>1. pc'[p] = "stat" /\ names'[p] = Pile /\ Pile' = Pile
    BY <1>1 DEF DirInv, LoadTypes, EvictTypes, Pile
  <2> QED BY <2>1 DEF Covered, SeesAll
<1>5. NamedFor'
  BY <1>1, <1>2 DEF PileInv, NamedFor, DirInv, LoadTypes
<1>6. Bounds'
  BY <1>1 DEF PileInv, Bounds, DirInv, LoadTypes
<1> QED BY <1>3, <1>4, <1>5, <1>6 DEF PileInv

\* A step of one pass leaves what the others are to see.
LEMMA OthersSee ==
    ASSUME DirInv, PileInv, NEW p \in Proc, NEW q \in Proc \ {p}, SeesAll(q), Pile' \subseteq Pile,
           UNCHANGED key, pc'[q] = pc[q], names'[q] = names[q], found'[q] = found[q], total'[q] = total[q],
           DistinctPids
    PROVE  SeesAll(q)'
<1>1. CASE pc[q] # "evict"
  BY <1>1 DEF SeesAll
<1>2. CASE pc[q] = "evict"
  <2>1. Left(q)' \subseteq Left(q) /\ (Pile \subseteq Left(q) => Pile' \subseteq Left(q)')
    BY DEF Left, EntryPath
  <2>2. Left(q) \in SUBSET Stored /\ IsFiniteSet(Left(q))
    <3>1. Pile \in SUBSET Stored
      BY PileStored DEF DirInv, PileInv
    <3>2. IsFiniteSet({EntryPath(key[q])} \cap Pile)
      BY FS_Singleton, FS_Intersection
    <3>3. ToSet(found[q]) \in SUBSET Stored /\ IsFiniteSet(ToSet(found[q]))
      BY ElementsFinite DEF PileInv, NamedFor
    <3> QED BY <3>1, <3>2, <3>3, FS_Union DEF Left
  <2>3. PICK L \in SUBSET Left(q) : L = Left(q)'
    BY <2>1
  <2>4. Bytes(L) <= Bytes(Left(q)) /\ Bytes(L) \in Nat /\ Bytes(Left(q)) \in Nat
    <3>1. IsFiniteSet(L) /\ L \in SUBSET Stored
      BY <2>2, FS_Subset
    <3> QED BY <2>2, <3>1, BytesGrow, Weighs
  <2>5. total[q] \in Int
    BY DEF PileInv, Bounds
  <2>6. Bytes(Left(q))' = Bytes(L)
    BY <2>3
  <2> QED BY <1>2, <2>1, <2>4, <2>5, <2>6 DEF SeesAll
<1> QED BY <1>1, <1>2

LEMMA StatPileStep ==
    ASSUME DistinctPids, DirInv, PileInv, NEW p \in Proc, Stat(p)
    PROVE  PileInv'
<1> DEFINE there == names[p] \cap DOMAIN dir
<1>1. PICK s \in OldestFirst(there) : found' = [found EXCEPT ![p] = s]
  BY DEF Stat
<1>2. /\ pc[p] = "stat" /\ pc' = [pc EXCEPT ![p] = "evict"]
      /\ total' = [total EXCEPT ![p] = Bytes(there)]
      /\ names' = [names EXCEPT ![p] = {}]
      /\ UNCHANGED <<dir, inode, recent, loads, key, fd, dirty>>
  BY DEF Stat, Weighed, Goto, dirVars, loadVars, faultVars
<1>3. IsFiniteSet(there) /\ there \in SUBSET Stored
  BY FS_Subset DEF DirInv, DirTypes, PileInv, NamedFor
<1> HIDE DEF there
<1>4. s \in Seq(Stored) /\ IsInjective(s) /\ ToSet(s) = there
  BY <1>3, FoundAll
<1>5. Bytes(there) \in Nat
  BY <1>3, Weighs
<1>6. Ages'
  BY <1>2 DEF PileInv, Ages
<1>7. NamedFor'
  BY <1>1, <1>2, <1>4 DEF PileInv, NamedFor, DirInv, LoadTypes
<1>8. Bounds'
  BY <1>2, <1>5 DEF PileInv, Bounds, DirInv, LoadTypes
<1>9. Covered'
  <2>1. Pile' = Pile
    BY <1>2 DEF Pile
  <2>2. ASSUME NEW q \in Proc, q # p, SeesAll(q) PROVE SeesAll(q)'
    <3>1. pc'[q] = pc[q] /\ names'[q] = names[q] /\ found'[q] = found[q] /\ total'[q] = total[q]
      BY <1>1, <1>2, <2>2 DEF DirInv, LoadTypes, EvictTypes, PileInv, Bounds
    <3> QED BY <1>2, <2>1, <2>2, <3>1, OthersSee
  <2>3. ASSUME SeesAll(p) PROVE SeesAll(p)'
    <3>1. Pile \subseteq there
      BY <1>2, <2>3 DEF SeesAll, there, Pile
    <3>2. /\ pc'[p] = "evict" /\ found'[p] = s /\ total'[p] = Bytes(there) /\ key' = key
      BY <1>1, <1>2 DEF DirInv, LoadTypes, EvictTypes, PileInv, Bounds
    <3>3. Left(p)' = there
      BY <1>4, <2>1, <3>1, <3>2 DEF Left, EntryPath
    <3>4. Bytes(Left(p))' = Bytes(there)
      BY <3>3
    <3> QED BY <1>5, <2>1, <3>1, <3>2, <3>3, <3>4 DEF SeesAll
  <2> QED BY <1>2, <2>1, <2>2, <2>3 DEF Covered, PileInv
<1> QED BY <1>6, <1>7, <1>8, <1>9 DEF PileInv

LEMMA EvictNextPileStep ==
    ASSUME DistinctPids, DirInv, PileInv, NEW p \in Proc, EvictNext(p)
    PROVE  PileInv'
<1> DEFINE path == Head(found[p])
           own == EntryPath(key[p])
           rest == Tail(found[p])
<1>1. /\ pc[p] = "evict" /\ found[p] # <<>> /\ found' = [found EXCEPT ![p] = rest]
      /\ \/ path = own /\ UNCHANGED <<dir, recent, total>>
         \/ path # own /\ Unlink(path) /\ total' = [total EXCEPT ![p] = @ - Bytes({path})]
      /\ UNCHANGED <<inode, pc, loads, key, fd, names, dirty>>
  BY DEF EvictNext, Kept, loadVars, faultVars
<1>2. found[p] \in Seq(Stored) /\ IsInjective(found[p])
  BY DEF PileInv, NamedFor
<1>3. /\ rest \in Seq(Stored) /\ IsInjective(rest) /\ path \in Stored
      /\ ToSet(found[p]) = {path} \cup ToSet(rest) /\ path \notin ToSet(rest)
  <2>1. PICK s \in Seq(Stored) : s = found[p]
    BY <1>2
  <2>2. /\ Len(s) \in Nat \ {0} /\ path = s[1] /\ rest \in Seq(Stored) /\ Len(rest) = Len(s) - 1
        /\ DOMAIN s = 1 .. Len(s) /\ DOMAIN rest = 1 .. Len(rest)
        /\ \A k \in 1 .. Len(rest) : rest[k] = s[k + 1]
    BY <1>1, <2>1
  <2> HIDE DEF rest, path
  <2>3. path \in Stored
    BY <2>1, <2>2
  <2>4. IsInjective(rest) /\ path \notin ToSet(rest)
    <3>1. \A a, b \in 1 .. Len(s) : s[a] = s[b] => a = b
      BY <1>2, <2>1, <2>2 DEF IsInjective
    <3>2. ASSUME NEW a \in 1 .. Len(rest), NEW b \in 1 .. Len(rest), rest[a] = rest[b] PROVE a = b
      <4>1. a + 1 \in 1 .. Len(s) /\ b + 1 \in 1 .. Len(s) /\ s[a + 1] = s[b + 1]
        BY <2>2, <3>2
      <4>2. a + 1 = b + 1
        BY <3>1, <4>1
      <4> QED BY <4>2
    <3>3. ASSUME NEW a \in 1 .. Len(rest), rest[a] = path PROVE FALSE
      <4>1. a + 1 \in 1 .. Len(s) /\ 1 \in 1 .. Len(s) /\ s[a + 1] = s[1]
        BY <2>2, <3>3
      <4>2. a + 1 = 1
        BY <3>1, <4>1
      <4> QED BY <4>2
    <3> QED BY <2>2, <3>2, <3>3 DEF IsInjective, ToSet
  <2>5. ASSUME NEW x \in ToSet(s), x # path PROVE x \in ToSet(rest)
    <3>1. PICK k \in 1 .. Len(s) : s[k] = x
      BY <2>2 DEF ToSet
    <3>2. k - 1 \in 1 .. Len(rest) /\ rest[k - 1] = x
      BY <2>2, <2>5, <3>1
    <3> QED BY <2>2, <3>2 DEF ToSet
  <2>6. {path} \cup ToSet(rest) \subseteq ToSet(s)
    BY <2>2 DEF ToSet
  <2> QED BY <2>1, <2>2, <2>3, <2>4, <2>5, <2>6
<1>4. ToSet(rest) \in SUBSET Stored /\ IsFiniteSet(ToSet(rest))
  BY <1>3, ElementsFinite
<1> HIDE DEF rest, path, own
<1>5. /\ Pile' \subseteq Pile /\ path # own /\ own \in Pile => own \in Pile'
      /\ Pile' = Pile \/ (path # own /\ Pile' = Pile \ {path})
  <2>1. CASE UNCHANGED dir
    BY <2>1 DEF Pile
  <2>2. CASE path # own /\ DOMAIN dir' = DOMAIN dir \ {path}
    BY <2>2 DEF Pile
  <2> QED BY <1>1, <2>1, <2>2 DEF Unlink, Unbind
<1>6. Ages'
  <2>1. CASE Unlink(path)
    BY <2>1, UnlinkAges DEF PileInv
  <2>2. CASE UNCHANGED <<dir, recent>>
    BY <2>2 DEF PileInv, Ages
  <2> QED BY <1>1, <2>1, <2>2
<1>7. NamedFor'
  <2>1. DOMAIN dir' \subseteq DOMAIN dir
    BY <1>1 DEF Unlink, Unbind
  <2> QED BY <1>1, <1>3, <2>1 DEF PileInv, NamedFor
<1>8. Bytes({path}) \in Nat
  BY <1>3, Weighs, FS_Singleton
<1>9. Bounds'
  BY <1>1, <1>8 DEF PileInv, Bounds
<1>10. Covered'
  <2>1. ASSUME NEW q \in Proc, q # p, SeesAll(q) PROVE SeesAll(q)'
    <3>1. found'[q] = found[q] /\ total'[q] = total[q]
      BY <1>1, <2>1 DEF PileInv, NamedFor, Bounds
    <3> QED BY <1>1, <1>5, <2>1, <3>1, OthersSee
  <2>2. ASSUME SeesAll(p) PROVE SeesAll(p)'
    <3> DEFINE M == ToSet(rest) \cup ({own} \cap Pile)
    <3>1. Pile \subseteq {path} \cup M /\ Left(p) = {path} \cup M /\ Bytes(Left(p)) <= total[p]
      BY <1>1, <1>3, <2>2 DEF SeesAll, Left, own
    <3>2. Left(p)' = ToSet(rest) \cup ({own} \cap Pile')
      BY <1>1 DEF Left, EntryPath, own, PileInv, NamedFor
    <3>3. total[p] \in Int /\ (path = own => total'[p] = total[p])
          /\ (path # own => total'[p] = total[p] - Bytes({path}))
      BY <1>1 DEF PileInv, Bounds
    <3>4. Pile \in SUBSET Stored /\ own \in Stored
      <4>1. key[p] \in Matrices
        BY <1>1 DEF PileInv, NamedFor
      <4> QED BY <4>1, PileStored DEF DirInv, PileInv, own, EntryPath, Stored
    <3>5. M \in SUBSET Stored /\ IsFiniteSet(M)
      BY <1>4, <3>4, FS_Singleton, FS_Intersection, FS_Union
    <3> HIDE DEF M
    <3>6. Bytes(M) \in Nat
      BY <3>5, Weighs
    <3>7. CASE path = own
      <4>1. UNCHANGED dir /\ Pile' = Pile
        BY <1>1, <3>7 DEF Pile
      <4>2. Left(p)' = M /\ M \subseteq Left(p)
        BY <3>1, <3>2, <4>1 DEF M
      <4>3. Pile' \subseteq M
        BY <3>1, <3>7, <4>1 DEF M
      <4>4. Bytes(M) <= Bytes(Left(p)) /\ Bytes(Left(p)) \in Nat
        <5>1. IsFiniteSet({path} \cup M) /\ {path} \cup M \in SUBSET Stored
          <6>1. IsFiniteSet({path})
            BY FS_Singleton
          <6> QED BY <1>3, <3>5, <6>1, FS_Union
        <5>2. Left(p) \in SUBSET Stored /\ IsFiniteSet(Left(p))
          BY <3>1, <5>1
        <5> QED BY <4>2, <5>2, BytesGrow, Weighs
      <4>5. Bytes(Left(p))' = Bytes(M)
        BY <4>2
      <4>6. Bytes(M) <= total'[p]
        BY <3>1, <3>3, <3>6, <3>7, <4>4
      <4> QED BY <1>1, <4>2, <4>3, <4>5, <4>6 DEF SeesAll
    <3>8. CASE path # own
      <4>1. Pile' = Pile \ {path}
        <5>1. DOMAIN dir' = DOMAIN dir \ {path}
          BY <1>1, <3>8 DEF Unlink, Unbind
        <5> QED BY <5>1 DEF Pile
      <4>2. Left(p)' = M /\ Pile' \subseteq M
        <5>1. {own} \cap Pile' = {own} \cap Pile
          BY <3>8, <4>1
        <5>2. Left(p)' = M
          BY <3>2, <5>1 DEF M
        <5> QED BY <3>1, <4>1, <5>2
      <4>3. Bytes({path} \cup M) = Bytes({path}) + Bytes(M)
        <5>1. path \notin M
          BY <1>3, <3>8 DEF M
        <5>2. IsFiniteSet({path}) /\ {path} \in SUBSET Stored /\ {path} \cap M = {}
          BY <1>3, <5>1, FS_Singleton
        <5> QED BY <3>5, <5>2, BytesApart
      <4>4. Bytes(M) <= total'[p]
        BY <1>8, <3>1, <3>3, <3>6, <3>8, <4>3
      <4>5. Bytes(Left(p))' = Bytes(M)
        BY <4>2
      <4> QED BY <1>1, <4>2, <4>4, <4>5 DEF SeesAll
    <3> QED BY <3>7, <3>8
  <2>3. Pile \in SUBSET Stored /\ IsFiniteSet(Pile)
    BY PileStored DEF DirInv, PileInv
  <2>4. PICK P \in SUBSET Pile : P = Pile'
    BY <1>5
  <2>5. Bytes(P) <= Bytes(Pile) /\ Cardinality(P) <= Cardinality(Pile)
        /\ Bytes(P) \in Nat /\ Bytes(Pile) \in Nat /\ Cardinality(P) \in Nat /\ Cardinality(Pile) \in Nat
    <3>1. IsFiniteSet(P) /\ P \in SUBSET Stored
      BY <2>3, FS_Subset
    <3> QED BY <2>3, <3>1, BytesGrow, Weighs, FS_Subset, FS_CardinalityType
  <2>6. Bytes(Pile)' = Bytes(P) /\ Cardinality(Pile)' = Cardinality(P)
    BY <2>4
  <2>7. Limit \in Nat
    BY ProcessesAssumption
  <2> QED BY <1>1, <2>1, <2>2, <2>5, <2>6, <2>7 DEF Covered, PileInv
<1> QED BY <1>6, <1>7, <1>9, <1>10 DEF PileInv

LEMMA EvictDonePileStep ==
    ASSUME DistinctPids, DirInv, PileInv, NEW p \in Proc, EvictDone(p)
    PROVE  PileInv'
<1>1. /\ pc[p] = "evict" /\ pc' = [pc EXCEPT ![p] = "serve"]
      /\ found[p] = <<>> \/ total[p] <= Limit
      /\ found' = [found EXCEPT ![p] = <<>>] /\ total' = [total EXCEPT ![p] = 0]
      /\ UNCHANGED <<dir, inode, recent, loads, key, fd, names, dirty>>
  BY DEF EvictDone, Fits, Goto, dirVars, loadVars, faultVars
<1>2. Ages'
  BY <1>1 DEF PileInv, Ages
<1>3. NamedFor'
  BY <1>1 DEF PileInv, NamedFor, DirInv, LoadTypes, IsInjective
<1>4. Bounds'
  BY <1>1 DEF PileInv, Bounds, DirInv, LoadTypes
<1>5. Covered'
  <2>1. Pile' = Pile
    BY <1>1 DEF Pile
  <2>2. ASSUME NEW q \in Proc, q # p, SeesAll(q) PROVE SeesAll(q)'
    <3>1. pc'[q] = pc[q] /\ found'[q] = found[q] /\ total'[q] = total[q]
      BY <1>1, <2>2 DEF DirInv, LoadTypes, PileInv, NamedFor, Bounds
    <3> QED BY <1>1, <2>1, <2>2, <3>1, OthersSee
  <2>3. ASSUME SeesAll(p) PROVE Bytes(Pile) <= Limit \/ Cardinality(Pile) <= 1
    <3>1. Pile \subseteq Left(p) /\ Bytes(Left(p)) <= total[p]
      BY <1>1, <2>3 DEF SeesAll
    <3>2. CASE found[p] = <<>>
      <4>1. PICK own : own = EntryPath(key[p])
        OBVIOUS
      <4>2. Pile \in SUBSET {own}
        BY <3>1, <3>2, <4>1 DEF Left, ToSet
      <4>3. IsFiniteSet({own}) /\ Cardinality({own}) = 1
        BY FS_Singleton
      <4> QED BY <4>2, <4>3, FS_Subset
    <3>3. CASE total[p] <= Limit
      <4>1. Left(p) \in SUBSET Stored /\ IsFiniteSet(Left(p))
        <5>1. Pile \in SUBSET Stored
          BY PileStored DEF DirInv, PileInv
        <5>2. IsFiniteSet({EntryPath(key[p])} \cap Pile)
          BY FS_Singleton, FS_Intersection
        <5>3. ToSet(found[p]) \in SUBSET Stored /\ IsFiniteSet(ToSet(found[p]))
          BY ElementsFinite DEF PileInv, NamedFor
        <5> QED BY <5>1, <5>2, <5>3, FS_Union DEF Left
      <4>2. Bytes(Pile) <= Bytes(Left(p)) /\ Bytes(Left(p)) \in Nat
        BY <3>1, <4>1, BytesGrow, Weighs
      <4>3. Bytes(Pile) \in Nat
        BY PileStored, Weighs DEF DirInv, PileInv
      <4>4. total[p] \in Int /\ Limit \in Nat
        BY ProcessesAssumption DEF PileInv, Bounds
      <4> QED BY <3>1, <3>3, <4>2, <4>3, <4>4
    <3> QED BY <1>1, <3>2, <3>3
  <2>4. Bytes(Pile)' = Bytes(Pile) /\ Cardinality(Pile)' = Cardinality(Pile)
    BY <2>1
  <2> QED BY <1>1, <2>2, <2>3, <2>4 DEF Covered, PileInv
<1> QED BY <1>2, <1>3, <1>4, <1>5 DEF PileInv

LEMMA CrashPileStep ==
    ASSUME DirInv, PileInv, NEW p \in Proc, Crash(p)
    PROVE  PileInv'
<1>1. /\ pc' = [pc EXCEPT ![p] = "idle"] /\ fd' = [fd EXCEPT ![p] = Nothing]
      /\ dirty' = (dirty \/ pc[p] \in {"list", "stat", "evict"})
      /\ names' = [names EXCEPT ![p] = {}] /\ found' = [found EXCEPT ![p] = <<>>]
      /\ total' = [total EXCEPT ![p] = 0]
      /\ UNCHANGED <<dir, inode, recent, loads, key>>
  BY DEF Crash, Goto, dirVars
<1>2. Ages'
  BY <1>1 DEF PileInv, Ages
<1>3. NamedFor'
  BY <1>1 DEF PileInv, NamedFor, DirInv, LoadTypes, IsInjective
<1>4. Bounds'
  BY <1>1 DEF PileInv, Bounds, DirInv, LoadTypes
<1>5. Covered'
  <2>1. CASE pc[p] \in Evicting
    BY <1>1, <2>1 DEF Covered, Evicting
  <2>2. CASE pc[p] \notin Evicting
    <3>1. Pile' = Pile
      BY <1>1 DEF Pile
    <3>2. \A q \in Proc \ {p} :
              /\ pc'[q] = pc[q] /\ key'[q] = key[q] /\ names'[q] = names[q]
              /\ found'[q] = found[q] /\ total'[q] = total[q]
      BY <1>1 DEF DirInv, LoadTypes, PileInv, NamedFor, Bounds
    <3>3. dirty => dirty'
      BY <1>1
    <3> QED BY <2>2, <3>1, <3>2, <3>3, StaysCovered DEF PileInv
  <2> QED BY <2>1, <2>2
<1> QED BY <1>2, <1>3, <1>4, <1>5 DEF PileInv

LEMMA PileQuietStep ==
    ASSUME DirInv, PileInv,
           UNCHANGED <<dir, inode, recent, pc, loads, key, fd, names, found, total, dirty>>
    PROVE  PileInv'
<1>1. Pile' = Pile /\ \A q \in Proc : Left(q)' = Left(q)
  BY DEF Pile, Left, EntryPath
<1>2. Covered'
  BY <1>1 DEF PileInv, Covered, SeesAll
<1>3. Ages' /\ NamedFor'
  BY DEF PileInv, Ages, NamedFor
<1>4. Bounds'
  BY DEF PileInv, Bounds
<1> QED BY <1>2, <1>3, <1>4 DEF PileInv

LEMMA PileStep == DistinctPids /\ DirInv /\ PileInv /\ [CacheNext]_cacheVars => PileInv'
<1> SUFFICES ASSUME DistinctPids, DirInv, PileInv, [CacheNext]_cacheVars
             PROVE  PileInv'
  OBVIOUS
<1>1. ASSUME NEW m \in Model, Rewrite(m) PROVE PileInv'
  BY <1>1, PileQuietStep DEF Rewrite, dirVars, loadVars, evictVars, faultVars
<1>2. CASE UNCHANGED cacheVars
  BY <1>2, PileQuietStep DEF cacheVars, dirVars, loadVars, evictVars, faultVars
<1>3. ASSUME NEW p \in Proc, Load(p) PROVE PileInv'
  BY <1>3, LoadPileStep, TouchPileStep, SaveOpenPileStep, SaveClosePileStep, ReplacePileStep,
     WriteFailedPileStep, ListPileStep, StatPileStep, EvictNextPileStep, EvictDonePileStep
  DEF Load
<1>4. ASSUME NEW p \in Proc, NEW m \in Model, NEW t \in Tensor, Start(p, m, t) PROVE PileInv'
  BY <1>4, LoadPileStep
<1> QED BY <1>1, <1>2, <1>3, <1>4, CrashPileStep DEF CacheNext

\* Where no load is under way no pass has anything left to see.
LEMMA PileFitsThen ==
    ASSUME DistinctPids, DirInv, PileInv
    PROVE  PileFits
<1> SUFFICES ASSUME \A p \in Proc : pc[p] = "idle", ~dirty, Limit > 0
             PROVE  Bytes(Pile) <= Limit \/ Cardinality(Pile) = 1
  BY DEF PileFits
<1>1. Bytes(Pile) <= Limit \/ Cardinality(Pile) <= 1
  <2>1. Limit \in Nat /\ ~(Limit = 0)
    BY ProcessesAssumption
  <2> QED BY <2>1 DEF PileInv, Covered, SeesAll
<1>2. ASSUME Cardinality(Pile) = 0 PROVE Bytes(Pile) <= Limit
  <2>1. Pile = {}
    BY <1>2, PileStored, FS_EmptySet DEF DirInv, PileInv
  <2>2. Units(Weights({})) = {}
    BY UnitsAre DEF Weights
  <2>3. Bytes({}) = 0
    BY <2>2, FS_EmptySet, Weighs
  <2> QED BY <2>1, <2>3, ProcessesAssumption
<1>3. Cardinality(Pile) \in Nat
  BY PileStored, FS_CardinalityType DEF DirInv, PileInv
<1> QED BY <1>1, <1>2, <1>3

LEMMA TypesThen ==
    ASSUME DirInv, PileInv
    PROVE  CacheTypeOK
<1>1. IsInjective(dir)
  BY DEF DirInv, OneName, IsInjective
<1>2. \A path \in DOMAIN dir : path[1] \in Matrices /\ dir[path] \in DOMAIN inode
  BY DEF DirInv, DirTypes, PileInv, NamedFor
<1>3. \A i \in DOMAIN inode : inode[i].holds \in Matrices \cup {Nothing} /\ inode[i].whole \in BOOLEAN
  BY DEF DirInv, DirTypes, Content, MaybeMatrix
<1> QED BY <1>1, <1>2, <1>3 DEF CacheTypeOK, DirInv, LoadTypes, MaybeMatrix, PileInv, Bounds, Ages

\* The directory, at any number of processes, loads, faults and crashes: an
\* entry is a whole file whenever it is there at all; once nothing loads, the
\* entries fit the ceiling or one alone exceeds it, though each pass of evict
\* went by sizes that others have changed since; no temporary outlives its
\* write unless a crash left it; and with a disk that never fails no write is
\* lost to another process.
THEOREM DirectoryAlwaysKept ==
    ASSUME DistinctPids
    PROVE  CacheSpec => []DirectoryKept
PROOF
<1>1. CacheInit => PileInv
  BY InitPile
<1>2. DirInv /\ PileInv /\ [CacheNext]_cacheVars => PileInv'
  BY PileStep
<1>3. DirInv /\ PileInv => DirectoryKept
  BY TypesThen, PileFitsThen DEF DirectoryKept, DirInv, NoLitter, Owned, Pile
<1> QED BY <1>1, <1>2, <1>3, DirAlways, PTL DEF CacheSpec

(***************************************************************************)
(* Which matrix is where.                                                   *)
(***************************************************************************)
\* Until the files are identified they are as they were mapped.
MappedIsThere == \A p \in Proc : pc[p] = "identify" => job[p].ver = disk[job[p].model]

Keyed == \A p \in Proc : pc[p] \notin {"idle", "identify", "serve"} => key[p] = job[p]

\* The matrices for which a file stands: those its paths are named for and those
\* of the processes that read or write it.
Stands(i) ==
    {path[1] : path \in {a \in DOMAIN dir : dir[a] = i}}
    \cup {key[p] : p \in {q \in Proc : pc[q] \in {"slice", "saving"} /\ fd[q] = i}}

\* They are one, however many write it, and it holds that one or is not written yet.
OneMatrix == \A i \in DOMAIN inode : \A k, l \in Stands(i) : k = l
HoldsOwn == \A i \in DOMAIN inode : \A k \in Stands(i) : inode[i].holds \in {Nothing, k}

ServedOwn == \A p \in Proc : served[p] \in {Nothing, job[p]}

OwnInv == MappedIsThere /\ Keyed /\ OneMatrix /\ HoldsOwn /\ ServedOwn

LEMMA StandsIs ==
    \A i, k : k \in Stands(i) <=>
        \/ \E path \in DOMAIN dir : dir[path] = i /\ k = path[1]
        \/ \E p \in Proc : pc[p] \in {"slice", "saving"} /\ fd[p] = i /\ k = key[p]
BY DEF Stands

\* A file that comes to stand for nothing more keeps its matrix.
LEMMA StandsLess ==
    ASSUME OwnInv, inode' = inode, \A i \in DOMAIN inode : Stands(i)' \subseteq Stands(i)
    PROVE  OneMatrix' /\ HoldsOwn'
BY DEF OwnInv, OneMatrix, HoldsOwn

\* The steps that leave the names and the contents of the files alone.
LEMMA StandsQuietly ==
    ASSUME FilesInv, NEW p \in Proc, Quiet(p) \/ Stat(p), NEW i \in DOMAIN inode
    PROVE  inode' = inode /\ Stands(i)' \subseteq Stands(i)
PROOF
<1> USE DEF FilesInv, LoadTypes, Goto, dirVars, loadVars, evictVars, faultVars
<1>1. dir' = dir /\ inode' = inode
  BY DEF Quiet, Stat, Start, Identify, Unidentified, Exists, Open, Slice, Touch,
         SaveFails, ReplaceFails, ListDir, EvictDone, HandOver, Crash
<1>2. ASSUME NEW q \in Proc, pc'[q] \in {"slice", "saving"}, q # p
      PROVE  pc'[q] = pc[q] /\ fd'[q] = fd[q] /\ key'[q] = key[q]
  BY <1>2 DEF Quiet, Stat, Start, Identify, Unidentified, Exists, Open, Slice, Touch,
         SaveFails, ReplaceFails, ListDir, EvictDone, HandOver, Crash
<1>3. ASSUME pc'[p] \in {"slice", "saving"}
      PROVE  /\ key'[p] = key[p] /\ EntryPath(key[p]) \in DOMAIN dir
             /\ fd'[p] = dir[EntryPath(key[p])]
  BY <1>3 DEF Quiet, Stat, Start, Identify, Unidentified, Exists, Open, AfterBadOpen, Slice, Touch,
         SaveFails, ReplaceFails, ListDir, EvictDone, HandOver, Crash
<1>4. EntryPath(key[p])[1] = key[p]
  BY EntryIs
<1>5. ASSUME NEW k \in Stands(i)' PROVE k \in Stands(i)
  BY <1>1, <1>2, <1>3, <1>4 DEF Stands
<1> QED BY <1>1, <1>5

LEMMA OwnKeys ==
    ASSUME FilesInv, FilesInv', OwnInv, NEW p \in Proc, Quiet(p) \/ Stat(p)
    PROVE  MappedIsThere' /\ Keyed' /\ ServedOwn'
PROOF
<1> USE DEF FilesInv, LoadTypes, OwnInv, MappedIsThere, Keyed, ServedOwn, Goto,
            dirVars, loadVars, evictVars, faultVars
<1>1. ASSUME NEW m \in Model, NEW t \in Tensor, Start(p, m, t) PROVE MappedIsThere' /\ Keyed' /\ ServedOwn'
  BY <1>1 DEF Start, Matrix
<1>2. ASSUME Identify(p) PROVE MappedIsThere' /\ Keyed' /\ ServedOwn'
  BY <1>2 DEF Identify, EntryKey, Matrix, Matrices
<1>3. ASSUME Slice(p) PROVE MappedIsThere' /\ Keyed' /\ ServedOwn'
  <2>1. fd[p] \in DOMAIN inode /\ key[p] \in Stands(fd[p]) /\ key[p] = job[p]
    BY <1>3 DEF Slice, Opened, Stands
  <2>2. inode[fd[p]].holds \in {Nothing, job[p]}
    BY <2>1 DEF HoldsOwn
  <2> QED BY <1>3, <2>2 DEF Slice
<1>4. ASSUME \/ Unidentified(p) \/ Exists(p) \/ Open(p) \/ Touch(p)
             \/ SaveFails(p) \/ ReplaceFails(p)
      PROVE MappedIsThere' /\ Keyed' /\ ServedOwn'
  BY <1>4 DEF Unidentified, Exists, Open, AfterBadOpen, Touch, SaveFails, ReplaceFails
<1>5. ASSUME ListDir(p) \/ Stat(p) \/ EvictDone(p) PROVE MappedIsThere' /\ Keyed' /\ ServedOwn'
  BY <1>5 DEF ListDir, Stat, EvictDone
<1>6. ASSUME HandOver(p) PROVE MappedIsThere' /\ Keyed' /\ ServedOwn'
  BY <1>6 DEF HandOver
<1>7. ASSUME Crash(p) PROVE MappedIsThere' /\ Keyed' /\ ServedOwn'
  <2>1. /\ pc' = [pc EXCEPT ![p] = "idle"] /\ served' = [served EXCEPT ![p] = Nothing]
        /\ UNCHANGED <<disk, job, key>>
    BY <1>7 DEF Crash
  <2> QED BY <2>1
<1> QED BY <1>1, <1>2, <1>3, <1>4, <1>5, <1>6, <1>7 DEF Quiet

LEMMA OwnStep == ~Overlap /\ FilesInv /\ OwnInv /\ [CacheNext]_cacheVars => OwnInv'
PROOF
<1> SUFFICES ASSUME ~Overlap, FilesInv, FilesInv', OwnInv, [CacheNext]_cacheVars
             PROVE  OwnInv'
  BY FilesStep
<1> USE DEF Goto, dirVars, loadVars, evictVars, faultVars
<1>1. ASSUME NEW p \in Proc, Quiet(p) \/ Stat(p) PROVE OwnInv'
  <2>1. MappedIsThere' /\ Keyed' /\ ServedOwn'
    BY <1>1, OwnKeys
  <2>2. inode' = inode
    BY <1>1 DEF Quiet, Stat, Start, Identify, Unidentified, Exists, Open, Slice, Touch,
         SaveFails, ReplaceFails, ListDir, EvictDone, HandOver, Crash
  <2>3. \A i \in DOMAIN inode : Stands(i)' \subseteq Stands(i)
    BY <1>1, StandsQuietly
  <2>4. OneMatrix' /\ HoldsOwn'
    BY <2>2, <2>3, StandsLess
  <2> QED BY <2>1, <2>4 DEF OwnInv
<1>2. ASSUME NEW p \in Proc, SaveOpen(p) PROVE OwnInv'
  <2> DEFINE path == TmpPath(p)
             i == IF path \in DOMAIN dir THEN dir[path] ELSE <<p, loads[p]>>
  <2>1. /\ pc[p] = "encode" /\ pc' = [pc EXCEPT ![p] = "saving"]
        /\ dir' = Bind(dir, path, i)
        /\ inode' = Bind(inode, i, [holds |-> Nothing, whole |-> FALSE])
        /\ fd' = [fd EXCEPT ![p] = i]
        /\ UNCHANGED <<disk, loads, job, key, served>>
    BY <1>2 DEF SaveOpen
  <2>2. (MappedIsThere /\ Keyed /\ ServedOwn)'
    BY <2>1 DEF OwnInv, MappedIsThere, Keyed, ServedOwn, FilesInv, LoadTypes
  <2>3. path[1] = key[p]
    BY DEF TmpPath
  <2>4. IF path \in DOMAIN dir THEN i = dir[path] /\ i \in DOMAIN inode ELSE i \notin DOMAIN inode
    BY <2>1 DEF FilesInv, LoadTypes, DirTypes, Fresh, Before
  <2> HIDE DEF path, i
  <2>5. /\ DOMAIN dir' = DOMAIN dir \cup {path} /\ dir'[path] = i
        /\ \A y \in DOMAIN dir : y # path => dir'[y] = dir[y]
        /\ DOMAIN inode' = DOMAIN inode \cup {i} /\ inode'[i].holds = Nothing
        /\ \A j \in DOMAIN inode : j # i => inode'[j] = inode[j]
    BY <2>1 DEF Bind
  <2>6. ASSUME NEW j \in DOMAIN inode', NEW k \in Stands(j)'
        PROVE  IF j \in DOMAIN inode THEN k \in Stands(j) ELSE j = i /\ k = key[p]
    <3>1. CASE \E y \in DOMAIN dir' : dir'[y] = j /\ k = y[1]
      <4>1. PICK y \in DOMAIN dir' : dir'[y] = j /\ k = y[1]
        BY <3>1
      <4>2. CASE y = path
        <5>1. j = i /\ k = key[p]
          BY <2>3, <2>5, <4>1, <4>2
        <5> QED BY <2>3, <2>4, <5>1 DEF Stands
      <4>3. CASE y # path
        <5>1. y \in DOMAIN dir /\ dir[y] = j /\ j \in DOMAIN inode
          BY <2>5, <4>1, <4>3 DEF FilesInv, DirTypes
        <5> QED BY <4>1, <5>1 DEF Stands
      <4> QED BY <4>2, <4>3
    <3>2. CASE \E q \in Proc : pc'[q] \in {"slice", "saving"} /\ fd'[q] = j /\ k = key'[q]
      <4>1. PICK q \in Proc : pc'[q] \in {"slice", "saving"} /\ fd'[q] = j /\ k = key[q]
        BY <2>1, <3>2
      <4>2. CASE q = p
        <5>1. j = i /\ k = key[p]
          BY <2>1, <4>1, <4>2 DEF FilesInv, LoadTypes
        <5> QED BY <2>3, <2>4, <5>1 DEF Stands
      <4>3. CASE q # p
        <5>1. pc[q] \in {"slice", "saving"} /\ fd[q] = j /\ j \in DOMAIN inode
          BY <2>1, <4>1, <4>3 DEF FilesInv, LoadTypes, Opened
        <5> QED BY <4>1, <5>1 DEF Stands
      <4> QED BY <4>2, <4>3
    <3> QED BY <3>1, <3>2 DEF Stands
  <2>7. OneMatrix' /\ HoldsOwn'
    BY <2>5, <2>6 DEF OwnInv, OneMatrix, HoldsOwn
  <2> QED BY <2>2, <2>7 DEF OwnInv
<1>3. ASSUME NEW p \in Proc, SaveClose(p) PROVE OwnInv'
  <2>1. /\ pc[p] = "saving" /\ pc' = [pc EXCEPT ![p] = "replace"]
        /\ inode' = [inode EXCEPT ![fd[p]] = [holds |-> job[p], whole |-> TRUE]]
        /\ fd' = [fd EXCEPT ![p] = Nothing]
        /\ UNCHANGED <<disk, dir, loads, job, key, served>>
    BY <1>3 DEF SaveClose
  <2>2. (MappedIsThere /\ Keyed /\ ServedOwn)'
    BY <2>1 DEF OwnInv, MappedIsThere, Keyed, ServedOwn, FilesInv, LoadTypes
  <2>3. fd[p] \in DOMAIN inode /\ key[p] \in Stands(fd[p]) /\ key[p] = job[p]
    BY <2>1 DEF FilesInv, Opened, OwnInv, Keyed, Stands
  <2>4. /\ DOMAIN inode' = DOMAIN inode /\ inode'[fd[p]].holds = key[p]
        /\ \A j \in DOMAIN inode : j # fd[p] => inode'[j] = inode[j]
    BY <2>1, <2>3
  <2>5. \A j : Stands(j)' \subseteq Stands(j)
    BY <2>1 DEF Stands, FilesInv, LoadTypes
  <2>6. OneMatrix' /\ HoldsOwn'
    BY <2>3, <2>4, <2>5 DEF OwnInv, OneMatrix, HoldsOwn
  <2> QED BY <2>2, <2>6 DEF OwnInv
<1>4. ASSUME NEW p \in Proc, Replace(p) PROVE OwnInv'
  <2> DEFINE tmp == TmpPath(p)
             path == EntryPath(key[p])
             d == Unbind(dir, tmp)
  <2>1. /\ pc[p] = "replace" /\ pc' = [pc EXCEPT ![p] = IF Limit = 0 THEN "serve" ELSE "list"]
        /\ tmp \in DOMAIN dir /\ dir' = Bind(d, path, dir[tmp])
        /\ UNCHANGED <<inode, disk, loads, job, key, fd, served>>
    BY <1>4 DEF Replace
  <2>2. (MappedIsThere /\ Keyed /\ ServedOwn)'
    BY <2>1 DEF OwnInv, MappedIsThere, Keyed, ServedOwn, FilesInv, LoadTypes
  <2>3. path[1] = tmp[1]
    BY EntryIs DEF TmpPath
  <2>4. DOMAIN d = DOMAIN dir \ {tmp} /\ \A y \in DOMAIN dir : y # tmp => d[y] = dir[y]
    BY Unbinding
  <2> HIDE DEF tmp, path, d
  <2>5. /\ DOMAIN dir' = (DOMAIN dir \ {tmp}) \cup {path} /\ dir'[path] = dir[tmp]
        /\ \A y \in DOMAIN dir : y # path /\ y # tmp => dir'[y] = dir[y]
    BY <2>1, <2>4 DEF Bind
  <2>6. ASSUME NEW y \in DOMAIN dir' PROVE \E z \in DOMAIN dir : dir[z] = dir'[y] /\ z[1] = y[1]
    BY <2>1, <2>3, <2>5
  <2>7. ASSUME NEW q \in Proc, pc'[q] \in {"slice", "saving"} PROVE pc[q] = pc'[q]
    BY <2>1, <2>7 DEF FilesInv, LoadTypes
  <2>8. \A j \in DOMAIN inode : Stands(j)' \subseteq Stands(j)
    BY <2>1, <2>6, <2>7 DEF Stands
  <2>9. OneMatrix' /\ HoldsOwn'
    BY <2>1, <2>8, StandsLess
  <2> QED BY <2>2, <2>9 DEF OwnInv
<1>5. ASSUME NEW p \in Proc, WriteFailed(p) \/ EvictNext(p) PROVE OwnInv'
  <2>1. /\ UNCHANGED <<inode, disk, loads, job, key, fd, served>>
        /\ pc' = pc \/ pc' = [pc EXCEPT ![p] = "serve"]
        /\ (\E path : Unlink(path)) \/ dir' = dir
    BY <1>5 DEF WriteFailed, CleanUp, EvictNext
  <2>2. (MappedIsThere /\ Keyed /\ ServedOwn)'
    BY <2>1 DEF OwnInv, MappedIsThere, Keyed, ServedOwn, FilesInv, LoadTypes
  <2>3. DOMAIN dir' \subseteq DOMAIN dir /\ \A y \in DOMAIN dir' : dir'[y] = dir[y]
    BY <2>1 DEF Unlink, Unbind
  <2>4. ASSUME NEW q \in Proc, pc'[q] \in {"slice", "saving"} PROVE pc[q] = pc'[q]
    BY <2>1, <2>4 DEF FilesInv, LoadTypes
  <2>5. \A j \in DOMAIN inode : Stands(j)' \subseteq Stands(j)
    BY <2>1, <2>3, <2>4 DEF Stands
  <2>6. OneMatrix' /\ HoldsOwn'
    BY <2>1, <2>5, StandsLess
  <2> QED BY <2>2, <2>6 DEF OwnInv
<1>6. ASSUME NEW m \in Model, Rewrite(m) PROVE OwnInv'
  <2>1. MappedIsThere'
    <3> SUFFICES ASSUME NEW p \in Proc, pc[p] = "identify"
                 PROVE  job[p].ver = disk'[job[p].model]
      BY <1>6 DEF Rewrite, MappedIsThere
    <3>1. job[p].ver = disk[job[p].model] /\ job[p].model # m
      BY <1>6 DEF Rewrite, OwnInv, MappedIsThere
    <3>2. disk' = [disk EXCEPT ![m] = @ + 1] /\ disk \in [Model -> 0 .. MaxRewrites]
      BY <1>6 DEF Rewrite, FilesInv, LoadTypes
    <3>3. job[p].model \in Model
      BY DEF FilesInv, LoadTypes, Matrices
    <3> QED BY <3>1, <3>2, <3>3
  <2>2. (Keyed /\ ServedOwn /\ OneMatrix /\ HoldsOwn)'
    BY <1>6 DEF Rewrite, OwnInv, Keyed, ServedOwn, OneMatrix, HoldsOwn, Stands
  <2> QED BY <2>1, <2>2 DEF OwnInv
<1>7. CASE UNCHANGED cacheVars
  BY <1>7 DEF cacheVars, OwnInv, MappedIsThere, Keyed, ServedOwn, OneMatrix, HoldsOwn, Stands
<1> QED BY <1>1, <1>2, <1>3, <1>4, <1>5, <1>6, <1>7 DEF CacheNext, Load, Quiet

\* Every load that ends gives the model the encoding of the tensor and of the
\* version it was handed: from the cache or not, whatever other processes
\* write, evict and leave behind, whichever of them share a pid, and whenever a
\* checkpoint is written again, as long as none is between a load's mapping and
\* its identification.
THEOREM AlwaysServesOwn ==
    ASSUME ~Overlap
    PROVE  CacheSpec => []ServesOwn
PROOF
<1>1. CacheInit => FilesInv /\ OwnInv
  <2>1. CacheInit => FilesInv
    BY InitDir, FilesThen
  <2>2. CacheInit => OwnInv
    BY DEF CacheInit, OwnInv, MappedIsThere, Keyed, ServedOwn, OneMatrix, HoldsOwn
  <2> QED BY <2>1, <2>2
<1>2. FilesInv /\ OwnInv /\ [CacheNext]_cacheVars => FilesInv' /\ OwnInv'
  BY FilesStep, OwnStep
<1>3. OwnInv => ServesOwn
  BY DEF OwnInv, ServedOwn, ServesOwn
<1> QED BY <1>1, <1>2, <1>3, PTL DEF CacheSpec

(***************************************************************************)
(* Who loses what.                                                          *)
(***************************************************************************)
\* An entry can disappear under its writer's own pass of evict only by the pass
\* of a process that keeps another one: neither its own, nor a twin's that
\* wrote the same entry.
THEOREM OnlyRivalsEvict == CacheSpec => OnlyRivalsTakeIt
PROOF
<1> DEFINE Lost(p) == /\ pc[p] \in {"list", "stat", "evict"}
                      /\ EntryPath(key[p]) \in DOMAIN dir
                      /\ EntryPath(key[p]) \notin DOMAIN dir'
           Rival(p) == \E q \in Proc : pc[q] = "evict" /\ key[q] # key[p]
<1>1. ASSUME [CacheNext]_cacheVars, NEW p \in Proc, Lost(p)
      PROVE  Rival(p)
  <2>1. dir' # dir
    BY <1>1
  <2>2. \A q \in Proc : TmpPath(q) # EntryPath(key[p])
    BY ProcessesAssumption DEF TmpPath, EntryPath
  <2>3. ASSUME NEW q \in Proc, SaveOpen(q) PROVE FALSE
    BY <1>1, <2>3 DEF SaveOpen, Bind
  <2>4. ASSUME NEW q \in Proc, Replace(q) PROVE FALSE
    BY <1>1, <2>2, <2>4 DEF Replace, Bind, Unbind
  <2>5. ASSUME NEW q \in Proc, WriteFailed(q) PROVE FALSE
    BY <1>1, <2>2, <2>5 DEF WriteFailed, CleanUp, Unlink, Unbind
  <2>6. ASSUME NEW q \in Proc, EvictNext(q) PROVE Rival(p)
    BY <1>1, <2>6 DEF EvictNext, Kept, Unlink, Unbind
  <2>7. ASSUME NEW q \in Proc, Quiet(q) \/ SaveClose(q) \/ Stat(q) PROVE dir' = dir
    BY <2>7
    DEF Quiet, SaveClose, Stat, Start, Identify, Unidentified, Exists, Open, Slice, Touch,
        SaveFails, ReplaceFails, ListDir, EvictDone, HandOver, Crash, dirVars
  <2> QED
    BY <1>1, <2>1, <2>3, <2>4, <2>5, <2>6, <2>7 DEF CacheNext, Load, Quiet, Rewrite, cacheVars, dirVars
<1>2. [CacheNext]_cacheVars =>
        [\A p \in Proc :
            LET path == EntryPath(key[p])
            IN  /\ pc[p] \in {"list", "stat", "evict"}
                /\ path \in DOMAIN dir /\ path \notin DOMAIN dir'
                => \E q \in Proc : pc[q] = "evict" /\ key[q] # key[p]]_cacheVars
  BY <1>1
<1> QED BY <1>2, PTL DEF CacheSpec, OnlyRivalsTakeIt
===========================================================================
