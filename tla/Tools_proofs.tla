---------------------------- MODULE Tools_proofs ----------------------------
(***************************************************************************)
(* Proofs about CheckpointCompose, for any checkpoints, any command lines   *)
(* and any number of shards: what a plan is, what an output that looks      *)
(* finished holds, and that the base is never written.  And about           *)
(* BenchGate, for any suite, any number of versions of the source and of    *)
(* the installed packages and any number of commands: what a verdict and a  *)
(* recorded baseline say.                                                   *)
(***************************************************************************)
EXTENDS CheckpointCompose, BenchGate, FiniteSetTheorems, WellFoundedInduction, TLAPS

(***************************************************************************)
(* The inductive invariants of CheckpointCompose.                           *)
(***************************************************************************)
PlanTypes ==
  /\ said \in 0..MaxRules
  /\ current \in Donors \cup {NoDonor}
  /\ opened \in Seq(Donors)
  /\ current # NoDonor => current \in ToSet(opened)
  /\ \A f \in {assign, restore} :
       DOMAIN f \subseteq Modules /\ \A m \in DOMAIN f : f[m] \in Donors

PlanInv == PlanTypes /\ PlanSound

Files == {NoFile, Torn} \cup {Whole(S) : S \in SUBSET Tensors}

DiskTypes ==
  /\ pc \in {"rules", "write", "files", "index", "config", "ended"}
  /\ next \in 1..(Cardinality(Shards) + 1)
  /\ pc = "write" => next \in Shards
  /\ out \in [Shards -> Files]
  /\ side \subseteq BaseFiles
  /\ \A n \in DOMAIN index : index[n] \in Shards
  /\ shared \subseteq Outputs

\* Whoever reads or writes has begun with an empty directory.
Begun ==
  /\ pc = "rules" => Empty
  /\ pc = "write" => \A s \in Shards : s >= next => out[s] = NoFile

\* Only what has been linked is a link: no shard before it is written, and
\* never one of the two files that are written anew.
Linked ==
  /\ \A s \in Shards : <<"shard", s>> \in shared => out[s] # NoFile
  /\ \A f \in BaseFiles : <<"file", f>> \in shared => f \in side \cap Travels

DiskInv == DiskTypes /\ Begun /\ Linked /\ SourcesKept

(***************************************************************************)
(* What the plan makes of the shards.                                       *)
(***************************************************************************)
Target(s) == IF s \in Rewritten THEN Rewrite(s) ELSE BaseShard(s)

AllWritten == \A s \in Shards : out[s] = Whole(Target(s))

HoldsIn(files, s, n) == \E t \in files[s].tensors : NameOf(t) = n
IndexFrom(files) ==
  [n \in {NameOf(t) : t \in UNION {files[s].tensors : s \in Shards}} |->
     CHOOSE s \in Shards : /\ HoldsIn(files, s, n)
                           /\ \A r \in Shards : r > s => ~HoldsIn(files, r, n)]

Written ==
  /\ pc = "write" => \A s \in Shards : s < next => out[s] = Whole(Target(s))
  /\ pc \in {"files", "index", "config"} => AllWritten
  /\ pc = "config" => index = IndexFrom(out)
  /\ pc # "ended" => config = <<>>
  /\ config # <<>> =>
       /\ Config \in side /\ AllWritten /\ index = IndexFrom(out)
       /\ config = [storage |-> Storage, head |-> HeadBits, vision |-> KeepsVisionBits]

(***************************************************************************)
(* The plan.                                                                *)
(***************************************************************************)
LEMMA SelectIn ==
    ASSUME NEW sel \in Selectors, NEW d
    PROVE  Select(sel, d) \subseteq ModulesOf(d)
PROOF
<1>1. QuantizedOf(d) \subseteq ModulesOf(d)
  BY DEF QuantizedOf
<1>2. sel \in {"quantized", "body", "head", "vision", "all"}
  BY ComposeAssumption
<1> QED BY <1>1, <1>2 DEF Select

LEMMA LeastIn ==
    ASSUME NEW T \in SUBSET Nat, T # {}
    PROVE  Min(T) \in T /\ \A y \in T : Min(T) <= y
PROOF
<1>1. PICK x \in T : \A y \in T : ~(<<y, x>> \in OpToRel(<, Nat))
  BY WFMin, NatLessThanWellFounded, Zenon
<1>2. \A y \in T : ~(y < x)
  BY <1>1, Zenon DEF OpToRel
<1>3. \A y \in T : x <= y
  BY <1>2
<1> QED BY <1>3 DEF Min

\* The donor --map takes is one that was opened, and has the module.
LEMMA Carrier ==
    ASSUME PlanTypes, NEW m, NEW bits, CarriedBy(m, bits) # {}
    PROVE  LET d == opened[Min(CarriedBy(m, bits))]
           IN  d \in ToSet(opened) /\ d \in Donors /\ m \in ModulesOf(d)
PROOF
<1>1. CarriedBy(m, bits) \in SUBSET Nat
  BY DEF PlanTypes, CarriedBy
<1>2. Min(CarriedBy(m, bits)) \in CarriedBy(m, bits)
  BY <1>1, LeastIn
<1> DEFINE i == Min(CarriedBy(m, bits))
<1>3. i \in DOMAIN opened /\ m \in ModulesOf(opened[i])
  BY <1>2 DEF CarriedBy
<1>4. opened[i] \in Donors
  BY <1>3 DEF PlanTypes
<1> QED BY <1>3, <1>4 DEF ToSet

LEMMA InitPlan == ComposeInit => PlanInv
  BY ComposeAssumption DEF ComposeInit, FreshPlan, PlanInv, PlanTypes, PlanSound, ToSet

\* Donors that were opened stay so.
LEMMA FromStep ==
    ASSUME PlanInv, NEW d \in Donors, From(d)
    PROVE  PlanInv'
PROOF
<1>1. /\ current' = d /\ UNCHANGED <<assign, restore>> /\ said' \in 0..MaxRules
      /\ opened' = IF d \in ToSet(opened) THEN opened ELSE Append(opened, d)
  BY ComposeAssumption DEF From, Reading, PlanInv, PlanTypes
<1>2. opened' \in Seq(Donors) /\ ToSet(opened') = ToSet(opened) \cup {d}
  <2>1. opened \in Seq(Donors)
    BY DEF PlanInv, PlanTypes
  <2>2. CASE d \in ToSet(opened)
    BY <1>1, <2>1, <2>2
  <2>3. CASE d \notin ToSet(opened)
    BY <1>1, <2>1, <2>3 DEF ToSet
  <2> QED BY <2>2, <2>3
<1> QED BY <1>1, <1>2 DEF PlanInv, PlanTypes, PlanSound

\* Any other rule: what it takes and what it restores is sound, the rest stays
\* with the source it had or goes back to the base.
LEMMA RuleStep ==
    ASSUME PlanInv, Reading, NEW a, NEW r, Resolved(a, r),
           DOMAIN a \cap DOMAIN r = {},
           \A m \in DOMAIN a :
             \/ m \in DOMAIN assign /\ a[m] = assign[m]
             \/ m \in Modules /\ a[m] \in ToSet(opened) /\ m \in ModulesOf(a[m]),
           \A m \in DOMAIN r :
             \/ m \in DOMAIN restore /\ r[m] = restore[m]
             \/ m \in QuantizedOf(Base) /\ r[m] \in ToSet(opened) /\ m \in ModulesOf(r[m])
    PROVE  PlanInv'
PROOF
<1>1. /\ assign' = a /\ restore' = r /\ UNCHANGED <<current, opened>>
      /\ said' \in 0..MaxRules
  BY ComposeAssumption DEF Resolved, Reading, PlanInv, PlanTypes
<1>2. ToSet(opened) \subseteq Donors
  BY DEF PlanInv, PlanTypes, ToSet
<1>3. QuantizedOf(Base) \subseteq Modules
  BY DEF QuantizedOf, ModulesOf, Modules
<1>4. PlanTypes'
  BY <1>1, <1>2, <1>3 DEF PlanInv, PlanTypes
<1>5. PlanSound'
  BY <1>1, <1>2, <1>3 DEF PlanInv, PlanSound
<1> QED BY <1>4, <1>5 DEF PlanInv

LEMMA KeepStep ==
    ASSUME PlanInv, NEW sel \in Selectors, Keep(sel)
    PROVE  PlanInv'
PROOF
<1> DEFINE S == Select(sel, Base)
<1>1. Reading /\ Resolved(Without(assign, S), Without(restore, S))
  BY DEF Keep
<1>2. DOMAIN assign \cap DOMAIN restore = {}
  BY DEF PlanInv, PlanSound
<1> DEFINE a == Without(assign, S)
           r == Without(restore, S)
<1>3. /\ DOMAIN a \subseteq DOMAIN assign /\ \A m \in DOMAIN a : a[m] = assign[m]
      /\ DOMAIN r \subseteq DOMAIN restore /\ \A m \in DOMAIN r : r[m] = restore[m]
  BY DEF Without
<1>4. Reading /\ Resolved(a, r)
  BY <1>1
<1> HIDE DEF a, r
<1> QED BY <1>2, <1>3, <1>4, RuleStep

LEMMA TakeStep ==
    ASSUME PlanInv, NEW sel \in Selectors, Take(sel)
    PROVE  PlanInv'
PROOF
<1> DEFINE S == Select(sel, current)
<1>1. S \subseteq ModulesOf(current) /\ current \in ToSet(opened)
  BY SelectIn DEF Take, PlanInv, PlanTypes
<1>2. DOMAIN assign \cap DOMAIN restore = {}
  BY DEF PlanInv, PlanSound
<1>3. CASE Exit
  BY <1>3 DEF Exit, plan, PlanInv, PlanTypes, PlanSound
<1>4. CASE Missing(S) = {} /\ Resolved(Put(assign, S, current), Without(restore, S))
  <2> DEFINE a == Put(assign, S, current)
             r == Without(restore, S)
  <2>1. S \subseteq Modules /\ Reading /\ Resolved(a, r)
    BY <1>4 DEF Missing, Take
  <2>2. /\ DOMAIN a = DOMAIN assign \cup S
        /\ \A m \in S : a[m] = current
        /\ \A m \in DOMAIN assign \ S : a[m] = assign[m]
    BY DEF Put
  <2>3. DOMAIN r = DOMAIN restore \ S /\ \A m \in DOMAIN r : r[m] = restore[m]
    BY DEF Without
  <2> HIDE DEF S, a, r
  <2> QED BY <1>1, <1>2, <2>1, <2>2, <2>3, RuleStep
<1> QED BY <1>3, <1>4 DEF Take

LEMMA RestoreStep ==
    ASSUME PlanInv, NEW sel \in Selectors, Restore(sel)
    PROVE  PlanInv'
PROOF
<1> DEFINE S == Select(sel, Base) \cap QuantizedOf(Base)
<1>1. current \in ToSet(opened) /\ S \subseteq QuantizedOf(Base)
  BY DEF Restore, PlanInv, PlanTypes
<1>2. DOMAIN assign \cap DOMAIN restore = {}
  BY DEF PlanInv, PlanSound
<1>3. CASE Exit
  BY <1>3 DEF Exit, plan, PlanInv, PlanTypes, PlanSound
<1>4. CASE S \subseteq ModulesOf(current) /\ Resolved(Without(assign, S), Put(restore, S, current))
  <2> DEFINE a == Without(assign, S)
             r == Put(restore, S, current)
  <2>1. Reading /\ Resolved(a, r) /\ S \subseteq ModulesOf(current)
    BY <1>4 DEF Restore
  <2>2. /\ DOMAIN r = DOMAIN restore \cup S
        /\ \A m \in S : r[m] = current
        /\ \A m \in DOMAIN restore \ S : r[m] = restore[m]
    BY DEF Put
  <2>3. DOMAIN a = DOMAIN assign \ S /\ \A m \in DOMAIN a : a[m] = assign[m]
    BY DEF Without
  <2> HIDE DEF S, a, r
  <2> QED BY <1>1, <1>2, <2>1, <2>2, <2>3, RuleStep
<1> QED BY <1>3, <1>4 DEF Restore

LEMMA MapStep ==
    ASSUME PlanInv, NEW r \in Recipes, MapRule(r)
    PROVE  PlanInv'
PROOF
<1> DEFINE placed == DOMAIN r \ Noop(r)
           a == [m \in DOMAIN assign \cup placed |->
                   IF m \in placed THEN opened[Min(CarriedBy(m, r[m]))] ELSE assign[m]]
<1>1. Reading /\ DOMAIN assign \cap DOMAIN restore = {}
  BY DEF MapRule, PlanInv, PlanSound
<1>2. CASE Exit
  BY <1>2 DEF Exit, plan, PlanInv, PlanTypes, PlanSound
<1>3. CASE /\ DOMAIN r \subseteq Modules
           /\ \A m \in placed : CarriedBy(m, r[m]) # {}
           /\ Resolved(a, Without(restore, placed))
  <2>1. \A m \in placed : m \in Modules /\ a[m] \in ToSet(opened) /\ m \in ModulesOf(a[m])
    BY <1>3, Carrier DEF PlanInv
  <2>2. /\ DOMAIN a = DOMAIN assign \cup placed
        /\ \A m \in DOMAIN assign \ placed : a[m] = assign[m]
    OBVIOUS
  <2> DEFINE others == Without(restore, placed)
  <2>3. Resolved(a, others)
    BY <1>3
  <2>4. /\ DOMAIN others = DOMAIN restore \ placed
        /\ \A m \in DOMAIN others : others[m] = restore[m]
    BY DEF Without
  <2> HIDE DEF placed, a, others
  <2> QED BY <1>1, <2>1, <2>2, <2>3, <2>4, RuleStep
<1> QED BY <1>2, <1>3 DEF MapRule

LEMMA PlanStep == PlanInv /\ [ComposeNext]_composeVars => PlanInv'
PROOF
<1> SUFFICES ASSUME PlanInv, [ComposeNext]_composeVars
             PROVE  PlanInv'
  OBVIOUS
<1>1. CASE Approve \/ WriteShard \/ CopyFiles \/ WriteIndex \/ WriteConfig \/ Stop \/ Clean
           \/ UNCHANGED composeVars
  <2>1. UNCHANGED <<said, plan>>
    BY <1>1 DEF Approve, WriteShard, CopyFiles, WriteIndex, WriteConfig, Stop, Clean, composeVars
  <2> QED BY <2>1 DEF plan, PlanInv, PlanTypes, PlanSound
<1>2. CASE Again
  BY <1>2, ComposeAssumption DEF Again, PlanInv, PlanTypes, PlanSound, ToSet
<1> QED
  BY <1>1, <1>2, FromStep, KeepStep, TakeStep, RestoreStep, MapStep DEF ComposeNext

LEMMA PlanAlways == ComposeSpec => []PlanInv
  BY InitPlan, PlanStep, PTL DEF ComposeSpec

(***************************************************************************)
(* The files.                                                               *)
(***************************************************************************)
LEMMA PartsIn == \A s \in Stored : Parts(s) \subseteq Part
PROOF
<1>1. Part = {"bias", "mcg", "mul1", "suh", "trellis", "weight"}
  <2>1. \A i \in 1..6 : PartOrder[i] \in {"bias", "mcg", "mul1", "suh", "trellis", "weight"}
    BY DEF PartOrder
  <2>2. /\ DOMAIN PartOrder = 1..6
        /\ PartOrder[1] = "bias" /\ PartOrder[2] = "mcg" /\ PartOrder[3] = "mul1"
        /\ PartOrder[4] = "suh" /\ PartOrder[5] = "trellis" /\ PartOrder[6] = "weight"
    BY DEF PartOrder
  <2> QED BY <2>1, <2>2 DEF Part, ToSet
<1> QED BY <1>1 DEF Parts, Stored

LEMMA TensorsIn ==
    ASSUME PlanInv
    PROVE  /\ \A m \in Modules : TensorsFrom(Base, m) \subseteq Tensors
           /\ \A m \in Moved : m \in Modules /\ Incoming(m) \subseteq Tensors
           /\ \A s \in Shards : Target(s) \in SUBSET Tensors
PROOF
<1>1. ASSUME NEW d \in Dirs, NEW m \in ModulesOf(d), m \in Modules
      PROVE  TensorsFrom(d, m) \subseteq Tensors
  <2>1. Checkpoints[d][m] \in Stored
    BY ComposeAssumption DEF ModulesOf
  <2>2. Parts(Checkpoints[d][m]) \subseteq Part
    BY <2>1, PartsIn
  <2> QED BY <1>1, <2>2 DEF TensorsFrom, Tensors
<1>2. \A m \in Modules : TensorsFrom(Base, m) \subseteq Tensors
  BY <1>1 DEF Dirs, ModulesOf, Modules
<1>3. ASSUME NEW m \in Moved
      PROVE  m \in Modules /\ Incoming(m) \subseteq Tensors
  <2>1. m \in Modules
    BY DEF Moved, PlanInv, PlanTypes
  <2>2. CASE m \in DOMAIN assign
    BY <1>1, <2>1, <2>2 DEF Incoming, Dirs, PlanInv, PlanTypes, PlanSound
  <2>3. CASE m \in DOMAIN restore /\ m \notin DOMAIN assign
    <3>1. restore[m] \in Dirs /\ m \in ModulesOf(restore[m])
      BY <2>3 DEF Dirs, PlanInv, PlanTypes, PlanSound
    <3>2. TensorsFrom(restore[m], m) \subseteq Tensors
      BY <1>1, <2>1, <3>1
    <3>3. Incoming(m) = DenseFrom(restore[m], m)
      BY <2>3 DEF Incoming
    <3>4. DenseFrom(restore[m], m) \subseteq TensorsFrom(restore[m], m)
      BY DEF DenseFrom
    <3> QED BY <2>1, <3>2, <3>3, <3>4
  <2> QED BY <2>1, <2>2, <2>3 DEF Moved
<1>4. \A s \in Shards : BaseShard(s) \subseteq Tensors
  BY <1>2 DEF BaseShard
<1>5. \A s \in Shards : Rewrite(s) \subseteq Tensors
  BY <1>3, <1>4 DEF Rewrite
<1> QED BY <1>2, <1>3, <1>4, <1>5 DEF Target

\* Of the shards that hold a tensor there is a last one.
LEMMA LastHolder ==
    ASSUME NEW n, NEW h \in Shards, Holds(h, n)
    PROVE  \E s \in Shards : Holds(s, n) /\ \A r \in Shards : r > s => ~Holds(r, n)
PROOF
<1>1. Shards = 1..Cardinality(Shards) /\ Cardinality(Shards) \in Nat
  BY ComposeAssumption, FS_CardinalityType
<1> DEFINE N == Cardinality(Shards)
           T == {k \in Nat : \E s \in Shards : Holds(s, n) /\ k = N - s}
<1>2. N - h \in T
  BY <1>1
<1>3. Min(T) \in T /\ \A k \in T : Min(T) <= k
  <2>1. T \in SUBSET Nat /\ T # {}
    BY <1>2
  <2> HIDE DEF T
  <2> QED BY <2>1, LeastIn
<1>4. PICK s \in Shards : Holds(s, n) /\ Min(T) = N - s
  BY <1>3
<1>5. ASSUME NEW r \in Shards, r > s, Holds(r, n)
      PROVE  FALSE
  <2>1. N - r \in T
    BY <1>1, <1>5
  <2>2. N - s <= N - r
    BY <1>3, <1>4, <2>1
  <2> HIDE DEF T
  <2> QED BY <1>1, <1>5, <2>2
<1> QED BY <1>4, <1>5

\* The names of the files, apart from one another.
LEMMA Apart ==
    /\ Whole({}) # NoFile /\ Torn # NoFile
    /\ \A S : Whole(S) # NoFile /\ Whole(S) # Torn
    /\ \A s, r : <<"shard", s>> # <<"file", r>>
    /\ Index \notin Travels /\ Config \notin Travels /\ Index # Config
    /\ Travels \subseteq BaseFiles /\ Index \in BaseFiles /\ Config \in BaseFiles
  BY DEF Whole, NoFile, Torn, Index, Config, Travels, BaseFiles

LEMMA InitDisk == ComposeInit => DiskInv
PROOF
<1>1. Cardinality(Shards) \in Nat
  BY ComposeAssumption, FS_CardinalityType
<1> QED
  BY <1>1
  DEF ComposeInit, DiskInv, DiskTypes, Begun, Linked, SourcesKept, Empty, Files

LEMMA DiskStep == PlanInv /\ DiskInv /\ [ComposeNext]_composeVars => DiskInv'
PROOF
<1> SUFFICES ASSUME PlanInv, DiskInv, [ComposeNext]_composeVars
             PROVE  DiskInv'
  OBVIOUS
<1>1. Cardinality(Shards) \in Nat \ {0} /\ Shards = 1..Cardinality(Shards)
  BY ComposeAssumption, FS_CardinalityType, FS_EmptySet
<1>2. CASE UNCHANGED disk /\ UNCHANGED next /\ pc' \in {pc, "ended"}
  BY <1>2 DEF disk, DiskInv, DiskTypes, Begun, Linked, SourcesKept, Empty
<1>3. CASE Approve
  <2>1. /\ Empty /\ pc' \in {"ended", "write"} /\ next' = 1 /\ UNCHANGED disk
    BY <1>3 DEF Approve, DiskInv, Begun
  <2> QED
    BY <1>1, <2>1 DEF disk, DiskInv, DiskTypes, Begun, Linked, SourcesKept, Empty
<1>4. CASE WriteShard
  <2>1. /\ pc = "write" /\ next \in Shards /\ out[next] = NoFile
        /\ out' = [out EXCEPT ![next] = Whole(Target(next))]
        /\ next' = next + 1
        /\ pc' = IF next = Cardinality(Shards) THEN "files" ELSE "write"
        /\ UNCHANGED <<side, index>>
    BY <1>1, <1>4 DEF WriteShard, Target, DiskInv, DiskTypes, Begun
  <2>2. <<"shard", next>> \notin shared
    BY <2>1 DEF DiskInv, Linked
  <2>3. SourcesKept'
    BY <1>4, <2>2 DEF WriteShard, Overwrite, DiskInv, SourcesKept
  <2>4. shared \subseteq shared' /\ shared' \subseteq shared \cup {<<"shard", next>>}
    BY <1>4 DEF WriteShard
  <2>5. Whole(Target(next)) \in Files
    BY <2>1, TensorsIn DEF Files
  <2>6. DiskTypes'
    BY <1>1, <2>1, <2>4, <2>5 DEF DiskInv, DiskTypes, Outputs
  <2>7. Begun'
    BY <1>1, <2>1 DEF DiskInv, DiskTypes, Begun
  <2>8. Linked'
    BY <2>1, <2>4, Apart DEF DiskInv, DiskTypes, Linked
  <2> QED BY <2>3, <2>6, <2>7, <2>8 DEF DiskInv
<1>5. CASE CopyFiles
  <2>1. /\ pc' = "index" /\ side' = side \cup Travels
        /\ shared' = shared \cup ({"file"} \X Travels)
        /\ UNCHANGED <<next, out, index, damaged>>
    BY <1>5 DEF CopyFiles
  <2> QED
    BY <2>1, Apart DEF DiskInv, DiskTypes, Begun, Linked, SourcesKept, Outputs
<1>6. CASE WriteIndex
  <2>1. /\ pc' = "config" /\ side' = side \cup {Index}
        /\ Overwrite(<<"file", Index>>)
        /\ UNCHANGED <<next, out, shared>>
    BY <1>6 DEF WriteIndex
  <2>2. SourcesKept'
    BY <2>1, Apart DEF DiskInv, Linked, SourcesKept, Overwrite
  <2>3. \A n \in DOMAIN index' : index'[n] \in Shards
    <3>1. ASSUME NEW n \in DOMAIN index' PROVE \E h \in Shards : Holds(h, n)
      BY <1>6, <3>1 DEF WriteIndex, Holds
    <3> QED BY <1>6, <3>1, LastHolder DEF WriteIndex
  <2> QED
    BY <2>1, <2>2, <2>3, Apart DEF DiskInv, DiskTypes, Begun, Linked
<1>7. CASE WriteConfig
  <2>1. /\ pc' = "ended" /\ side' = side \cup {Config}
        /\ Overwrite(<<"file", Config>>)
        /\ UNCHANGED <<next, out, index, shared>>
    BY <1>7 DEF WriteConfig
  <2>2. SourcesKept'
    BY <2>1, Apart DEF DiskInv, Linked, SourcesKept, Overwrite
  <2> QED
    BY <2>1, <2>2, Apart DEF DiskInv, DiskTypes, Begun, Linked
<1>8. CASE Stop
  <2>1. CASE UNCHANGED <<out, damaged>>
    BY <1>8, <2>1 DEF Stop, DiskInv, DiskTypes, Begun, Linked, SourcesKept
  <2>2. CASE /\ pc = "write" /\ out' = [out EXCEPT ![next] = Torn]
             /\ Overwrite(<<"shard", next>>)
    <3>1. pc' = "ended" /\ next \in Shards /\ UNCHANGED <<next, side, index, shared>>
      BY <1>8, <2>2 DEF Stop, DiskInv, DiskTypes
    <3>2. out[next] = NoFile
      BY <1>1, <2>2, <3>1 DEF DiskInv, Begun
    <3>3. SourcesKept'
      BY <2>2, <3>1, <3>2 DEF DiskInv, Linked, SourcesKept, Overwrite
    <3> QED
      BY <2>2, <3>1, <3>3, Apart DEF DiskInv, DiskTypes, Begun, Linked, Files
  <2> QED BY <1>8, <2>1, <2>2 DEF Stop
<1>9. CASE Again
  BY <1>1, <1>9 DEF Again, disk, DiskInv, DiskTypes, Begun, Linked, SourcesKept, Empty
<1>10. CASE Clean
  BY <1>10 DEF Clean, DiskInv, DiskTypes, Begun, Linked, SourcesKept, Files
<1>11. ASSUME NEW d \in Donors, From(d) PROVE UNCHANGED disk /\ UNCHANGED next /\ pc' = pc
  BY <1>11 DEF From
<1>12. ASSUME NEW sel \in Selectors, Keep(sel) \/ Take(sel) \/ Restore(sel)
       PROVE  UNCHANGED disk /\ UNCHANGED next /\ pc' \in {pc, "ended"}
  BY <1>12 DEF Keep, Take, Restore, Resolved, Exit
<1>13. ASSUME NEW r \in Recipes, MapRule(r)
       PROVE  UNCHANGED disk /\ UNCHANGED next /\ pc' \in {pc, "ended"}
  BY <1>13 DEF MapRule, Resolved, Exit
<1>14. CASE UNCHANGED composeVars
  BY <1>2, <1>14 DEF composeVars
<1> QED
  BY <1>2, <1>3, <1>4, <1>5, <1>6, <1>7, <1>8, <1>9, <1>10, <1>11, <1>12, <1>13, <1>14 DEF ComposeNext

LEMMA DiskAlways == ComposeSpec => []DiskInv
  BY InitDisk, DiskStep, PlanAlways, PTL DEF ComposeSpec

\* However the rules override one another: types, and each module has one source,
\* which has it, and only what the base stores quantized is restored.
THEOREM AlwaysPlanKept == ComposeSpec => []PlanKept
PROOF
<1>1. PlanInv /\ DiskInv => PlanKept
  <2> SUFFICES ASSUME PlanInv, DiskInv PROVE ComposeTypes
    BY DEF PlanInv, PlanKept
  <2>1. ToSet(opened) \subseteq Donors
    BY DEF PlanInv, PlanTypes, ToSet
  <2>2. \A s \in Shards : out[s] \in {NoFile, Torn}
                           \/ (out[s].state = "whole" /\ out[s].tensors \subseteq Tensors)
    BY DEF DiskInv, DiskTypes, Files, Whole
  <2>3. damaged \subseteq Outputs
    BY DEF DiskInv, SourcesKept
  <2> QED BY <2>1, <2>2, <2>3 DEF PlanInv, PlanTypes, DiskInv, DiskTypes, ComposeTypes
<1> QED BY <1>1, PlanAlways, DiskAlways, PTL

\* No file of the base is ever written, though the output shares them, by this
\* command or by any that is given the same directory after it died.
THEOREM SourcesAlwaysKept == ComposeSpec => []SourcesKept
PROOF
<1>1. DiskInv => SourcesKept
  BY DEF DiskInv
<1> QED BY <1>1, DiskAlways, PTL

(***************************************************************************)
(* What a finished output holds.                                            *)
(***************************************************************************)
\* What an output is to hold is a matter of the plan.
LEMMA PlanSame ==
    ASSUME UNCHANGED <<assign, restore>>
    PROVE  /\ \A s \in Shards : Target(s)' = Target(s)
           /\ Storage' = Storage /\ HeadBits' = HeadBits /\ KeepsVisionBits' = KeepsVisionBits
PROOF
<1>1. Moved' = Moved /\ \A m : Incoming(m)' = Incoming(m)
  BY DEF Moved, Incoming, DenseFrom
<1>2. \A s \in Shards : Target(s)' = Target(s)
  BY <1>1 DEF Target, Rewritten, Rewrite
<1>3. Storage' = Storage
  BY <1>1 DEF Storage
<1>4. HeadBits' = HeadBits /\ KeepsVisionBits' = KeepsVisionBits
  BY DEF HeadBits, KeepsVisionBits
<1> QED BY <1>2, <1>3, <1>4

LEMMA InitWritten == ComposeInit => Written
  BY DEF ComposeInit, Written

LEMMA WrittenStep == PlanInv /\ DiskInv /\ Written /\ [ComposeNext]_composeVars => Written'
PROOF
<1> SUFFICES ASSUME PlanInv, DiskInv, Written, [ComposeNext]_composeVars
             PROVE  Written'
  OBVIOUS
<1>1. Cardinality(Shards) \in Nat \ {0} /\ Shards = 1..Cardinality(Shards)
  BY ComposeAssumption, FS_CardinalityType, FS_EmptySet
\* While rules are read there is no output.
<1>2. CASE pc = "rules" /\ UNCHANGED disk /\ pc' \in {"rules", "ended"}
  BY <1>2 DEF Written, disk
<1>3. CASE Approve
  <2>1. /\ pc = "rules" /\ pc' \in {"ended", "write"} /\ next' = 1 /\ UNCHANGED disk
    BY <1>3 DEF Approve
  <2> QED
    BY <1>1, <2>1 DEF disk, Written
<1>4. CASE WriteShard
  <2>1. /\ pc = "write" /\ next \in Shards
        /\ out' = [out EXCEPT ![next] = Whole(Target(next))]
        /\ next' = next + 1
        /\ pc' = IF next = Cardinality(Shards) THEN "files" ELSE "write"
        /\ UNCHANGED <<config, assign, restore>>
    BY <1>1, <1>4 DEF WriteShard, Target, DiskInv, DiskTypes, plan
  <2>2. \A s \in Shards : s < next' => out'[s] = Whole(Target(s)')
    BY <1>1, <2>1, PlanSame DEF Written, DiskInv, DiskTypes
  <2>3. pc' = "files" => \A s \in Shards : s < next'
    BY <1>1, <2>1
  <2> QED BY <2>1, <2>2, <2>3 DEF Written, AllWritten
<1>5. CASE CopyFiles
  BY <1>5, PlanSame DEF CopyFiles, plan, Written, AllWritten
<1>6. CASE WriteIndex
  <2>1. /\ pc = "index" /\ pc' = "config" /\ UNCHANGED <<out, config, assign, restore>>
    BY <1>6 DEF WriteIndex, plan
  <2>2. index' = IndexFrom(out)
    BY <1>6 DEF WriteIndex, IndexFrom, HoldsIn, Holds
  <2> QED BY <2>1, <2>2, PlanSame DEF Written, AllWritten
<1>7. CASE WriteConfig
  <2>1. /\ pc = "config" /\ pc' = "ended" /\ UNCHANGED <<out, index, assign, restore>>
        /\ config' = [storage |-> Storage, head |-> HeadBits, vision |-> KeepsVisionBits]
        /\ Config \in side'
    BY <1>7 DEF WriteConfig, plan
  <2> QED BY <2>1, PlanSame DEF Written, AllWritten
<1>8. CASE Stop
  <2>1. pc # "ended" /\ pc' = "ended" /\ UNCHANGED config
    BY <1>8 DEF Stop
  <2> QED BY <2>1 DEF Written
<1>9. CASE Again
  <2>1. side = {} /\ pc = "ended" /\ pc' = "rules" /\ UNCHANGED disk
    BY <1>9 DEF Again, Empty
  <2> QED BY <2>1 DEF Written, disk
<1>10. CASE Clean
  BY <1>10 DEF Clean, Written
<1>11. ASSUME NEW d \in Donors, From(d)
       PROVE  pc = "rules" /\ UNCHANGED disk /\ pc' = pc
  BY <1>11 DEF From, Reading
<1>12. ASSUME NEW sel \in Selectors, Keep(sel) \/ Take(sel) \/ Restore(sel)
       PROVE  pc = "rules" /\ UNCHANGED disk /\ pc' \in {pc, "ended"}
  BY <1>12 DEF Keep, Take, Restore, Resolved, Exit, Reading
<1>13. ASSUME NEW r \in Recipes, MapRule(r)
       PROVE  pc = "rules" /\ UNCHANGED disk /\ pc' \in {pc, "ended"}
  BY <1>13 DEF MapRule, Resolved, Exit, Reading
<1>14. CASE UNCHANGED composeVars
  BY <1>14, PlanSame DEF composeVars, disk, plan, Written, AllWritten
<1> QED
  BY <1>2, <1>3, <1>4, <1>5, <1>6, <1>7, <1>8, <1>9, <1>10, <1>11, <1>12, <1>13, <1>14 DEF ComposeNext

LEMMA WrittenAlways == ComposeSpec => []Written
  BY InitWritten, WrittenStep, PlanAlways, DiskAlways, PTL DEF ComposeSpec

\* The converters keep the tensors of a module together; the command takes it for
\* granted (it looks up one of them), and that there is one head.
OneShardEach == \A m \in Modules : \A p, q \in Part : Home[m][p] = Home[m][q]
OneHead == \A g, h \in HeadModules : g = h

SourceOf(m) == IF m \in Moved THEN Incoming(m) ELSE TensorsFrom(Base, m)

LEMMA LandingIs ==
    ASSUME OneShardEach, NEW m \in Modules
    PROVE  Landing(m) \in Shards /\ \A p \in Part : Home[m][p] = Landing(m)
PROOF
<1> DEFINE P == Parts(Checkpoints[Base][m])
           First(i) == /\ i \in DOMAIN PartOrder /\ PartOrder[i] \in P
                       /\ \A j \in 1..(i - 1) : PartOrder[j] \notin P
<1>1. DOMAIN PartOrder = 1..6 /\ PartOrder[5] = "trellis" /\ PartOrder[6] = "weight"
  BY DEF PartOrder
<1>2. \E k \in 1..6 : PartOrder[k] \in P
  BY <1>1 DEF Parts
<1>3. \E i \in 1..6 : First(i)
  <2> DEFINE T == {k \in 1..6 : PartOrder[k] \in P}
  <2>1. T \in SUBSET Nat /\ T # {}
    BY <1>2
  <2>2. Min(T) \in T /\ \A y \in T : Min(T) <= y
    <3> HIDE DEF T
    <3> QED BY <2>1, LeastIn
  <2>3. Min(T) \in 1..6
    BY <2>2
  <2>4. \A j \in 1..(Min(T) - 1) : j \notin T /\ j \in 1..6
    <3> HIDE DEF T
    <3> QED BY <2>2, <2>3
  <2>5. First(Min(T))
    BY <1>1, <2>2, <2>3, <2>4
  <2> QED BY <2>3, <2>5
<1> DEFINE i == CHOOSE i \in DOMAIN PartOrder : /\ PartOrder[i] \in P
                                               /\ \A j \in 1..(i - 1) : PartOrder[j] \notin P
<1>4. i \in DOMAIN PartOrder
  BY <1>1, <1>3
<1>5. PartOrder[i] \in Part
  BY <1>4 DEF Part, ToSet
<1>6. Landing(m) = Home[m][PartOrder[i]]
  BY DEF Landing
<1> HIDE DEF i
<1> QED BY <1>5, <1>6, ComposeAssumption DEF OneShardEach

\* What a tensor of a module's source is.
LEMMA SourceIs ==
    ASSUME PlanInv, NEW m \in Modules, NEW t \in SourceOf(m)
    PROVE  /\ t \in Tensors /\ t.module = m
           /\ t = [module |-> m, part |-> t.part, dir |-> t.dir]
           /\ t.part \in Parts(Checkpoints[t.dir][m])
           /\ m \in DOMAIN assign => t.dir = assign[m]
           /\ m \in DOMAIN restore =>
                t.dir = restore[m] /\ t.part \in {"weight", "bias"}
           /\ m \notin Moved => t.dir = Base
PROOF
<1>1. t \in Tensors
  BY TensorsIn DEF SourceOf
<1>2. DOMAIN assign \cap DOMAIN restore = {}
  BY DEF PlanInv, PlanSound
<1>3. CASE m \in DOMAIN assign
  BY <1>1, <1>2, <1>3 DEF SourceOf, Moved, Incoming, TensorsFrom
<1>4. CASE m \in DOMAIN restore
  BY <1>1, <1>2, <1>4 DEF SourceOf, Moved, Incoming, DenseFrom, TensorsFrom
<1>5. CASE m \notin Moved
  BY <1>1, <1>5 DEF SourceOf, Moved, TensorsFrom
<1> QED BY <1>3, <1>4, <1>5 DEF Moved

\* A name has one tensor of the plan.
LEMMA OneTensor ==
    ASSUME PlanInv, NEW m \in Modules, NEW t \in SourceOf(m), NEW u \in SourceOf(m), t.part = u.part
    PROVE  t = u
  BY SourceIs DEF Moved

\* A shard holds the sources of the modules that land in it, and nothing else.
LEMMA TargetIs ==
    ASSUME OneShardEach, PlanInv, NEW s \in Shards
    PROVE  Target(s) = UNION {SourceOf(m) : m \in {m \in Modules : Landing(m) = s}}
PROOF
<1>1. Moved \subseteq Modules
  BY TensorsIn
<1>2. ASSUME NEW t
      PROVE  t \in BaseShard(s) <=>
               \E m \in Modules : Landing(m) = s /\ t \in TensorsFrom(Base, m) /\ t.module = m
  <2>1. ASSUME NEW m \in Modules, t \in TensorsFrom(Base, m)
        PROVE  t.module = m /\ Home[t.module][t.part] = Landing(m)
    <3>1. t \in Tensors
      BY <2>1, TensorsIn
    <3>2. t.module = m
      BY <2>1 DEF TensorsFrom
    <3> QED BY <3>1, <3>2, LandingIs DEF Tensors
  <2> QED BY <2>1 DEF BaseShard
<1>3. CASE s \in Rewritten
  <2> DEFINE here == {m \in Moved : Landing(m) = s}
  <2>1. Target(s) = {t \in BaseShard(s) : t.module \notin here} \cup UNION {Incoming(m) : m \in here}
    BY <1>3 DEF Target, Rewrite
  <2>2. ASSUME NEW t
        PROVE  t \in Target(s) <=> \E m \in Modules : Landing(m) = s /\ t \in SourceOf(m)
    <3>1. CASE \E m \in here : t \in Incoming(m)
      BY <1>1, <2>1, <3>1 DEF SourceOf
    <3>2. CASE ~\E m \in here : t \in Incoming(m)
      <4>1. t \in Target(s) <=> t \in BaseShard(s) /\ t.module \notin here
        BY <2>1, <3>2
      <4>2. \A m \in Modules : Landing(m) = s /\ t \in SourceOf(m) <=>
              Landing(m) = s /\ m \notin here /\ t \in TensorsFrom(Base, m)
        BY <3>2 DEF SourceOf
      <4>3. \A m \in Modules : t \in TensorsFrom(Base, m) => t.module = m
        BY DEF TensorsFrom
      <4> QED BY <1>2, <4>1, <4>2, <4>3
    <3> QED BY <3>1, <3>2
  <2> QED BY <2>2
<1>4. CASE s \notin Rewritten
  <2>1. Target(s) = BaseShard(s) /\ \A m \in Moved : Landing(m) # s
    BY <1>4 DEF Target, Rewritten
  <2>2. ASSUME NEW t
        PROVE  t \in Target(s) <=> \E m \in Modules : Landing(m) = s /\ t \in SourceOf(m)
    <3>1. \A m \in Modules : t \in TensorsFrom(Base, m) => t.module = m
      BY DEF TensorsFrom
    <3>2. \A m \in Modules : Landing(m) = s => SourceOf(m) = TensorsFrom(Base, m)
      BY <2>1 DEF SourceOf
    <3> QED BY <1>2, <2>1, <3>1, <3>2
  <2> QED BY <2>2
<1> QED BY <1>3, <1>4

LEMMA PlannedIs == Planned = UNION {SourceOf(m) : m \in Modules}
  BY DEF Planned, SourceOf

\* In a finished output every tensor is where its module lands.
LEMMA OutIs ==
    ASSUME OneShardEach, PlanInv, AllWritten
    PROVE  /\ \A s \in Shards : out[s].tensors = Target(s) /\ out[s].state = "whole"
           /\ UNION {out[s].tensors : s \in Shards} = Planned
           /\ \A t \in Planned : /\ t.module \in Modules /\ t \in SourceOf(t.module)
                                  /\ Landing(t.module) \in Shards
           /\ \A t \in Planned, s \in Shards : t \in out[s].tensors <=> Landing(t.module) = s
PROOF
<1>1. ASSUME NEW s \in Shards
      PROVE  out[s].tensors = Target(s) /\ out[s].state = "whole"
  <2>1. out[s] = [state |-> "whole", tensors |-> Target(s)]
    BY DEF AllWritten, Whole
  <2> QED BY <2>1
<1>2. \A t \in Planned : /\ t.module \in Modules /\ t \in SourceOf(t.module)
                         /\ Landing(t.module) \in Shards
  BY PlannedIs, SourceIs, LandingIs
<1>3. \A t \in Planned, s \in Shards : t \in out[s].tensors <=> Landing(t.module) = s
  <2>1. ASSUME NEW t \in Planned, NEW s \in Shards, t \in Target(s)
        PROVE  Landing(t.module) = s
    <3>1. PICK m \in Modules : Landing(m) = s /\ t \in SourceOf(m)
      BY <2>1, TargetIs
    <3> QED BY <3>1, SourceIs
  <2>2. ASSUME NEW t \in Planned, NEW s \in Shards, Landing(t.module) = s
        PROVE  t \in Target(s)
    BY <1>2, <2>2, TargetIs
  <2> QED BY <1>1, <2>1, <2>2
<1>4. ASSUME NEW s \in Shards, NEW t \in out[s].tensors
      PROVE  t \in Planned
  BY <1>1, TargetIs, PlannedIs
<1> QED BY <1>1, <1>2, <1>3, <1>4

LEMMA OutputWhole ==
    ASSUME OneShardEach, PlanInv, Written
    PROVE  ModulesWhole
PROOF
<1> SUFFICES ASSUME config # <<>> PROVE ModulesWhole
  BY DEF ModulesWhole
<1>1. AllWritten /\ index = IndexFrom(out)
  BY DEF Written
<1>2. /\ \A s \in Shards : out[s].state = "whole"
      /\ UNION {out[s].tensors : s \in Shards} = Planned
      /\ \A t \in Planned : /\ t.module \in Modules /\ t \in SourceOf(t.module)
                             /\ Landing(t.module) \in Shards
      /\ \A t \in Planned, s \in Shards : t \in out[s].tensors <=> Landing(t.module) = s
  BY <1>1, OutIs
<1>3. DOMAIN index = {NameOf(t) : t \in Planned}
  BY <1>1, <1>2 DEF IndexFrom
<1>4. ASSUME NEW t \in Planned
      PROVE  index[NameOf(t)] = Landing(t.module)
  <2> DEFINE n == NameOf(t)
  <2>1. \A s \in Shards : HoldsIn(out, s, n) <=> s = Landing(t.module)
    <3>1. ASSUME NEW s \in Shards, NEW u \in out[s].tensors, NameOf(u) = n
          PROVE  s = Landing(t.module)
      <4>1. u \in Planned /\ u.module = t.module
        BY <1>2, <3>1 DEF NameOf
      <4> QED BY <1>2, <4>1
    <3>2. HoldsIn(out, Landing(t.module), n)
      BY <1>2 DEF HoldsIn
    <3> QED BY <1>2, <3>1, <3>2 DEF HoldsIn
  <2>2. n \in DOMAIN IndexFrom(out)
    BY <1>1, <1>3
  <2>3. index[n] = CHOOSE s \in Shards : /\ HoldsIn(out, s, n)
                                       /\ \A r \in Shards : r > s => ~HoldsIn(out, r, n)
    BY <1>1, <2>2 DEF IndexFrom
  <2> HIDE DEF n
  <2>4. HoldsIn(out, Landing(t.module), n) /\ Landing(t.module) \in Shards
    BY <1>2, <2>1
  <2>5. Landing(t.module) \in Nat
    BY <1>2, ComposeAssumption, FS_CardinalityType
  <2>6. \A r \in Shards : r > Landing(t.module) => ~HoldsIn(out, r, n)
    BY <2>1, <2>5
  <2>7. HoldsIn(out, index[n], n) /\ index[n] \in Shards
    BY <2>3, <2>4, <2>6
  <2> QED BY <2>1, <2>7 DEF n
<1> QED BY <1>2, <1>3, <1>4 DEF ModulesWhole

LEMMA PartsBack ==
    ASSUME NEW d, NEW m
    PROVE  {t.part : t \in TensorsFrom(d, m)} = Parts(Checkpoints[d][m])
PROOF
<1> DEFINE P == Parts(Checkpoints[d][m])
           T == {[module |-> m, part |-> p, dir |-> d] : p \in P}
<1>1. T = TensorsFrom(d, m)
  BY DEF TensorsFrom
<1> HIDE DEF P
<1>2. ASSUME NEW p \in P
      PROVE  p \in {t.part : t \in T}
  <2>1. [module |-> m, part |-> p, dir |-> d] \in T
    OBVIOUS
  <2>2. [module |-> m, part |-> p, dir |-> d].part = p
    OBVIOUS
  <2> QED BY <2>1, <2>2
<1>3. ASSUME NEW t \in T
      PROVE  t.part \in P
  OBVIOUS
<1> HIDE DEF T
<1>4. {t.part : t \in T} = P
  BY <1>2, <1>3
<1> QED BY <1>1, <1>4 DEF P

LEMMA OutputTrue ==
    ASSUME OneShardEach, OneHead, PlanInv, Written
    PROVE  ConfigTrue
PROOF
<1> SUFFICES ASSUME config # <<>> PROVE ConfigTrue
  BY DEF ConfigTrue
<1> DEFINE stored(m) == {t \in UNION {out[s].tensors : s \in Shards} : t.module = m}
<1>1. /\ AllWritten /\ config.storage = Storage /\ config.head = HeadBits
  BY DEF Written
<1>2. /\ UNION {out[s].tensors : s \in Shards} = Planned
      /\ \A t \in Planned : t.module \in Modules /\ t \in SourceOf(t.module)
  BY <1>1, OutIs
<1>3. \A m : \A t \in stored(m) : m \in Modules /\ t \in SourceOf(m)
  BY <1>2
<1>4. ASSUME NEW m \in Modules
      PROVE  stored(m) = SourceOf(m)
  <2>1. ASSUME NEW t \in stored(m)
        PROVE  t \in SourceOf(m)
    BY <1>3
  <2>2. ASSUME NEW t \in SourceOf(m)
        PROVE  t \in Planned /\ t.module = m
    BY PlannedIs, SourceIs
  <2>3. stored(m) = {t \in Planned : t.module = m}
    BY <1>2
  <2> HIDE DEF stored
  <2> QED BY <2>1, <2>2, <2>3
<1>5. DOMAIN assign \cap DOMAIN restore = {}
  BY DEF PlanInv, PlanSound
<1> HIDE DEF stored
\* Each entry of the storage, by the kind of source its module has.
<1>6. ASSUME NEW m \in DOMAIN Storage
      PROVE  /\ Storage[m].parts = {t.part : t \in stored(m)}
             /\ \A t \in stored(m) :
                  t.part = "trellis" => Storage[m].bits = Checkpoints[t.dir][m].bits
  <2>1. m \in Modules
    BY DEF Storage
  <2>2. CASE m \in DOMAIN assign
    <3>1. Storage[m] = [bits |-> Checkpoints[assign[m]][m].bits,
                        parts |-> Parts(Checkpoints[assign[m]][m])]
      BY <1>6, <2>2 DEF Storage, Described
    <3>2. stored(m) = TensorsFrom(assign[m], m)
      BY <1>4, <2>1, <2>2 DEF SourceOf, Moved, Incoming
    <3>3. {t.part : t \in stored(m)} = Parts(Checkpoints[assign[m]][m])
      BY <3>2, PartsBack
    <3> QED BY <1>4, <2>1, <2>2, <3>1, <3>3, SourceIs
  <2>3. CASE m \in DOMAIN restore
    <3>1. Storage[m] = [bits |-> 0, parts |-> {t.part : t \in Incoming(m)}]
      BY <1>5, <1>6, <2>3 DEF Storage
    <3>2. stored(m) = Incoming(m)
      BY <1>4, <2>1, <2>3 DEF SourceOf, Moved
    <3> QED BY <1>4, <2>1, <2>3, <3>1, <3>2, SourceIs
  <2>4. CASE m \notin Moved
    <3>1. Storage[m] = [bits |-> Checkpoints[Base][m].bits, parts |-> Parts(Checkpoints[Base][m])]
      BY <1>6, <2>4 DEF Storage, Described, Moved
    <3>2. stored(m) = TensorsFrom(Base, m)
      BY <1>4, <2>1, <2>4 DEF SourceOf
    <3>3. {t.part : t \in stored(m)} = Parts(Checkpoints[Base][m])
      BY <3>2, PartsBack
    <3> QED BY <1>4, <2>1, <2>4, <3>1, <3>3, SourceIs
  <2> QED BY <2>2, <2>3, <2>4 DEF Moved
<1>7. ASSUME NEW h \in HeadModules, NEW t \in stored(h), t.part = "trellis"
      PROVE  HeadBits = {Checkpoints[t.dir][h].bits}
  <2> DEFINE taken == {m \in DOMAIN assign \cap HeadModules : Quantized(Checkpoints[assign[m]][m])}
  <2>1. h \in Modules /\ t \in SourceOf(h) /\ HeadModules = {h}
    BY <1>3 DEF OneHead
  <2>2. CASE h \in DOMAIN assign
    <3>1. t.dir = assign[h] /\ "trellis" \in Parts(Checkpoints[assign[h]][h])
      BY <1>7, <2>1, <2>2, SourceIs
    <3>2. Checkpoints[assign[h]][h] \in Stored
      BY <2>2, ComposeAssumption DEF PlanInv, PlanTypes, PlanSound, ModulesOf, Dirs
    <3>3. Checkpoints[assign[h]][h].bits # 0
      BY <3>1, <3>2 DEF Parts, Stored
    <3>4. Quantized(Checkpoints[assign[h]][h])
      BY <3>2, <3>3 DEF Quantized, Stored
    <3>5. taken = {h}
      BY <2>1, <2>2, <3>4
    <3> QED BY <3>1, <3>5 DEF HeadBits
  <2>3. CASE h \in DOMAIN restore
    BY <1>7, <2>1, <2>3, SourceIs
  <2>4. CASE h \notin Moved
    <3>1. t.dir = Base /\ taken = {}
      BY <2>1, <2>4, SourceIs DEF Moved
    <3> QED BY <2>1, <3>1 DEF HeadBits
  <2> QED BY <2>2, <2>3, <2>4 DEF Moved
<1> QED BY <1>1, <1>6, <1>7 DEF ConfigTrue, stored

\* An output with a quantization_config.json holds every module whole from its
\* one source and nothing else, an index that finds each tensor in the one shard
\* that has it, and entries and head_bits that describe what is stored: for every
\* command line, wherever earlier commands died, when the base keeps each module
\* in one shard and has one head.
THEOREM AlwaysOutputSound ==
    ASSUME OneShardEach, OneHead
    PROVE  ComposeSpec => []OutputSound
PROOF
<1>1. PlanInv /\ Written => OutputSound
  BY OutputWhole, OutputTrue DEF OutputSound
<1> QED BY <1>1, PlanAlways, WrittenAlways, PTL

(***************************************************************************)
(* The inductive invariant of BenchGate.                                    *)
(***************************************************************************)
Caches == UNION {[D -> {"frozen", "live"}] : D \in SUBSET Shape}
Roots == {"own", "persistent"}
Commands == {"bless", "check", "freeze"}

BenchTypes ==
  /\ source \in Sources /\ dirty \in BOOLEAN /\ env \in Envs /\ changes \in 0..MaxChanges
  /\ expected \in [Entries -> Captures \cup {None}]
  /\ fresh \in [Entries -> Captures \cup {None}]
  /\ manifest \in 0..MaxEnv
  /\ frozen \in {<<>>} \cup {<<D>> : D \in SUBSET Shape}
  /\ blob \in [Roots -> Caches]
  /\ \A k \in DOMAIN built : built[k] \in Sources
  /\ cmd \in Commands \cup {"idle"}
  /\ opts \in [tier : Tiers, root : Roots]
  /\ todo \subseteq DOMAIN Suite
  /\ failed \subseteq Entries /\ known \subseteq Broken
  /\ given \in 0..MaxCommands /\ (cmd # "idle" => given # 0)
  /\ disturbed \in BOOLEAN /\ torn \in BOOLEAN

NeverBlessed == \A e \in Broken : expected[e] = None

\* A command that runs has no verdict yet.
NoVerdict == cmd # "idle" => verdict = "none"

\* What holds of the capture that is running: its entry is one the command wants, it
\* began with the committed fixture, and it loaded the trees at hand unless they moved.
Running ==
  run # NoRun =>
    /\ run \in [source : Sources, env : Envs] /\ Working /\ Wanted(Entry)
    /\ cmd # "freeze" /\ frozen # <<>> => Blob = [s \in frozen[1] |-> "frozen"]
    /\ ~disturbed => run.source = source
    /\ ~torn /\ ~Ready => run.source = source

\* A derived checkpoint is stored under the digest of the files that wrote it.
BuiltByName == ~torn => \A k \in DOMAIN built : EncoderOf[built[k]] = k

Left == {Suite[i] : i \in todo}

\* What a passing check promises of an entry.
Answers(e) ==
  LET base == expected[e] cap == fresh[e] IN
    /\ e \notin Broken /\ base # None /\ cap # None /\ cap.by = given
    /\ cap.logits = base.logits /\ cap.fixture = base.fixture
    /\ base.backend \in {0, cap.backend}
    /\ cap.weight = base.weight \/ 0 \in {cap.weight, base.weight}
    /\ e \in DOMAIN Sibling =>
         LET sib == expected[Sibling[e]] IN
           /\ sib # None /\ cap.logits = sib.logits
           /\ 4 * cap.weight <= 5 * sib.weight \/ sib.weight = 0

\* A check has dealt with every entry of its tier that is not left.
Checked == cmd = "check" => \A e \in InTier \ (Left \cup failed \cup known) : Answers(e)

\* A bless has recorded every entry of its tier that is not left, and from one build
\* unless something changed.
Snapshot(e) ==
  /\ expected[e] # None /\ expected[e].stamped /\ expected[e].by = given
  /\ ~disturbed =>
       /\ expected[e].loaded = source /\ expected[e].source = source
       /\ expected[e].dirty = dirty /\ expected[e].env = env

Recorded == cmd = "bless" => \A e \in InTier \ (Left \cup failed \cup Broken) : Snapshot(e)

BenchInv ==
  /\ BenchTypes /\ NeverBlessed /\ NoVerdict /\ Running /\ BuiltByName
  /\ Checked /\ Recorded /\ PassHonest /\ BlessWhole /\ NoSilentTuning /\ FixtureFresh

(***************************************************************************)
(* Facts about a capture.                                                   *)
(***************************************************************************)
\* A list that is not done has a first position.
LEMMA FirstLeft ==
    ASSUME BenchTypes, todo # {}
    PROVE  /\ Min(todo) \in todo /\ Entry \in Entries /\ Entry \in Left
           /\ {Suite[i] : i \in todo \ {Min(todo)}} \cup {Entry} = Left
PROOF
<1>1. DOMAIN Suite \subseteq Nat /\ \A i \in DOMAIN Suite : Suite[i] \in Entries
  BY BenchAssumption
<1>2. todo \subseteq Nat
  BY <1>1 DEF BenchTypes
<1>3. PICK x \in todo : \A y \in todo : ~(<<y, x>> \in OpToRel(<, Nat))
  BY <1>2, WFMin, NatLessThanWellFounded, Zenon
<1>4. \A y \in todo : ~(y < x)
  BY <1>2, <1>3, Zenon DEF OpToRel
<1>5. \A y \in todo : x <= y
  BY <1>2, <1>4
<1>6. Min(todo) \in todo
  BY <1>5 DEF Min
<1> QED BY <1>1, <1>6 DEF BenchTypes, Entry, Left

\* What a capture records, and what its stamp adds.
LEMMA CaptureFields ==
    ASSUME NEW e, NEW cap \in {Unstamped(e), Captured(e)}
    PROVE  /\ cap.source = source /\ cap.dirty = dirty /\ cap.env = env
           /\ cap.loaded = run.source /\ cap.by = given
           /\ cap.encoder = EncoderOf[Writer(e)]
           /\ cap.live = (\E s \in Shapes[e] : Tuned(e)[s] = "live")
           /\ cap = Captured(e) => cap.stamped /\ cap.drift = Drift(e)
           /\ cap = Unstamped(e) => ~cap.stamped
PROOF
<1> DEFINE alive == \E s \in Shapes[e] : Tuned(e)[s] = "live"
           raw == Unstamped(e)
<1>1. /\ raw.source = source /\ raw.dirty = dirty /\ raw.env = env
      /\ raw.loaded = run.source /\ raw.by = given /\ raw.encoder = EncoderOf[Writer(e)]
      /\ raw.live = alive /\ ~raw.stamped
      /\ DOMAIN raw = {"source", "dirty", "env", "loaded", "by", "logits", "fixture", "encoder",
                       "stamped", "weight", "backend", "drift", "live"}
  <2> HIDE DEF alive
  <2> QED BY DEF Unstamped, alive
<1> HIDE DEF alive, raw
<1>2. /\ Captured(e).stamped /\ Captured(e).drift = Drift(e)
      /\ Captured(e).source = raw.source /\ Captured(e).dirty = raw.dirty
      /\ Captured(e).env = raw.env /\ Captured(e).loaded = raw.loaded /\ Captured(e).by = raw.by
      /\ Captured(e).encoder = raw.encoder /\ Captured(e).live = raw.live
  BY <1>1 DEF Captured, Stamp, raw
<1> QED BY <1>1, <1>2 DEF alive, raw

LEMMA CaptureTypes ==
    ASSUME BenchTypes, Running, Ready, NEW e \in Entries, e = Entry,
           NEW cap \in {Unstamped(e), Captured(e)}
    PROVE  cap \in Captures /\ cap # None
PROOF
<1>1. run.source \in Sources /\ run.env \in Envs /\ cmd # "idle"
  BY DEF Running, Ready, Working
<1>2. Writer(e) \in Sources
  BY <1>1 DEF Writer, Ready, BenchTypes
<1>3. \A v \in Sources : /\ Serves[v][e].logits \in Nat /\ Serves[v][e].weight \in Nat
                         /\ Serves[v][e].fixture \in Nat
  BY BenchAssumption
<1>4. Logs[run.env].weighs \in BOOLEAN /\ Logs[run.env].backend \in Nat
  BY <1>1, BenchAssumption
<1>5. Digest(e) \in Nat /\ Scores(e) \in Nat /\ Serves[run.source][e].weight \in Nat
  BY <1>1, <1>2, <1>3 DEF Digest, Scores
<1>6. given \in 1..MaxCommands
  BY <1>1, BenchAssumption DEF BenchTypes
<1>7. Drift(e) \in BOOLEAN /\ (\E s \in Shapes[e] : Tuned(e)[s] = "live") \in BOOLEAN
  BY DEF Drift
<1>8. Unstamped(e) \in Captures
  <2> DEFINE alive == \E s \in Shapes[e] : Tuned(e)[s] = "live"
             encoder == EncoderOf[Writer(e)]
  <2>1. encoder \in {EncoderOf[v] : v \in Sources} /\ alive \in BOOLEAN
    BY <1>2, <1>7
  <2> HIDE DEF alive, encoder
  <2>2. Unstamped(e) =
          [source |-> source, dirty |-> dirty, env |-> env, loaded |-> run.source, by |-> given,
           logits |-> Scores(e), fixture |-> Digest(e), encoder |-> encoder, stamped |-> FALSE,
           weight |-> 0, backend |-> 0, drift |-> FALSE, live |-> alive]
    BY DEF Unstamped, alive, encoder
  <2> QED BY <1>1, <1>5, <1>6, <2>1, <2>2 DEF Captures, BenchTypes
<1>9. Captured(e) \in Captures
  <2> DEFINE weight == IF Logs[run.env].weighs THEN Serves[run.source][e].weight ELSE 0
             backend == Logs[run.env].backend
  <2>1. weight \in Nat /\ backend \in Nat
    BY <1>4, <1>5
  <2>2. Captured(e) = [Unstamped(e) EXCEPT !.stamped = TRUE, !.weight = weight,
                                           !.backend = backend, !.drift = Drift(e)]
    BY DEF Captured, Stamp
  <2>3. Drift(e) \in BOOLEAN
    BY <1>7
  <2> DEFINE encoders == {EncoderOf[v] : v \in Sources}
             raw == Unstamped(e)
             drift == Drift(e)
  <2>4. raw \in [source : Sources, dirty : BOOLEAN, env : Envs, loaded : Sources,
                 by : 1..MaxCommands, logits : Nat, fixture : Nat, encoder : encoders,
                 stamped : BOOLEAN, weight : Nat, backend : Nat, drift : BOOLEAN, live : BOOLEAN]
    BY <1>8 DEF Captures
  <2> HIDE DEF weight, backend, encoders, raw, drift
  <2>5. [raw EXCEPT !.stamped = TRUE, !.weight = weight, !.backend = backend, !.drift = drift]
          \in [source : Sources, dirty : BOOLEAN, env : Envs, loaded : Sources,
              by : 1..MaxCommands, logits : Nat, fixture : Nat, encoder : encoders,
              stamped : BOOLEAN, weight : Nat, backend : Nat, drift : BOOLEAN, live : BOOLEAN]
    BY <2>1, <2>3, <2>4 DEF drift
  <2> QED BY <2>2, <2>5 DEF Captures, encoders, raw, drift
<1>10. cap # None
  <2>1. cap.source = source
    BY CaptureFields
  <2>2. source # 0
    BY BenchAssumption DEF BenchTypes, Sources
  <2> QED BY <2>1, <2>2 DEF None
<1> QED BY <1>8, <1>9, <1>10

\* Where no kernel was timed into the blob, each one needed came from the fixture.
LEMMA CaptureTuning ==
    ASSUME Running, Ready, cmd # "freeze", NEW e, NEW cap \in {Unstamped(e), Captured(e)},
           cap.stamped, cap.live
    PROVE  cap.drift
PROOF
<1>1. cap = Captured(e) /\ cap.drift = Drift(e)
  BY CaptureFields
<1>2. PICK s \in Shapes[e] : Tuned(e)[s] = "live"
  BY CaptureFields
<1>3. SUFFICES ASSUME ~Drift(e) PROVE FALSE
  BY <1>1
<1>4. frozen # <<>> /\ Tuned(e) = Blob
  BY <1>3 DEF Drift
<1>5. Blob = [x \in frozen[1] |-> "frozen"]
  BY <1>4 DEF Running, Ready
<1>6. s \in DOMAIN Tuned(e)
  BY DEF Tuned
<1> QED BY <1>2, <1>4, <1>5, <1>6

\* A capture serves what the encoder's files write as it found them.
LEMMA CaptureEncoder ==
    ASSUME BuiltByName, Ready, ~torn, NEW e, e = Entry, NEW cap \in {Unstamped(e), Captured(e)}
    PROVE  cap.encoder = EncoderOf[cap.loaded]
PROOF
<1>1. cap.encoder = EncoderOf[Writer(e)] /\ cap.loaded = run.source
  BY CaptureFields
<1>2. EncoderOf[Writer(e)] = EncoderOf[run.source]
  BY DEF Writer, FixtureKey, Ready, BuiltByName
<1> QED BY <1>1, <1>2

LEMMA TunedTypes ==
    ASSUME BenchTypes, NEW e \in Entries
    PROVE  Blob \in Caches /\ Tuned(e) \in Caches /\ SeedTune(Blob) \in Caches
PROOF
<1>1. Blob \in Caches
  BY DEF BenchTypes, Root, Blob
<1>2. frozen # <<>> => frozen[1] \subseteq Shape
  BY DEF BenchTypes
<1>3. SeedTune(Blob) \in Caches
  BY <1>1, <1>2 DEF SeedTune, Caches
<1>4. PICK D \in SUBSET Shape : Blob \in [D -> {"frozen", "live"}]
  BY <1>1 DEF Caches
<1>5. Shapes[e] \subseteq Shape
  BY DEF Shape
<1>6. Tuned(e) \in [D \cup Shapes[e] -> {"frozen", "live"}]
  BY <1>4 DEF Tuned
<1> QED BY <1>1, <1>3, <1>5, <1>6 DEF Caches

\* A capture that is over leaves the caches typed, and no checkpoint rebuilt.
LEMMA CachesKept ==
    ASSUME BenchTypes, NEW e \in Entries, Failed(e) \/ UNCHANGED caches
    PROVE  blob' \in [Roots -> Caches] /\ built' = built
PROOF
<1>1. Root \in Roots /\ blob \in [Roots -> Caches]
  BY DEF BenchTypes, Root
<1>2. Tuned(e) \in Caches
  BY TunedTypes
<1> QED BY <1>1, <1>2 DEF Failed, Ran, caches

(***************************************************************************)
(* The steps.                                                               *)
(***************************************************************************)
LEMMA InitBench == Init => BenchInv
PROOF
<1> SUFFICES ASSUME Init PROVE BenchInv
  OBVIOUS
<1>1. 1 \in Sources /\ 1 \in Envs
  BY BenchAssumption DEF Sources, Envs
<1>2. <<>> \in Caches
  <2>1. <<>> \in [{} -> {"frozen", "live"}]
    OBVIOUS
  <2> QED BY <2>1 DEF Caches
<1>3. Nothing \in [Entries -> Captures \cup {None}]
  BY DEF Nothing
<1>4. BenchTypes
  <2>1. blob \in [Roots -> Caches]
    BY <1>2 DEF Init, Roots
  <2>2. opts \in [tier : Tiers, root : Roots]
    BY DEF Init, Tiers, Roots
  <2>3. 0 \in 0..MaxEnv /\ 0 \in 0..MaxCommands /\ 0 \in 0..MaxChanges
    BY BenchAssumption
  <2>4. (\A k \in DOMAIN built : built[k] \in Sources) /\ todo \subseteq DOMAIN Suite
    BY DEF Init
  <2> QED BY <1>1, <1>3, <2>1, <2>2, <2>3, <2>4 DEF Init, BenchTypes
<1>5. NoSilentTuning /\ FixtureFresh
  BY DEF Init, Nothing, NoSilentTuning, FixtureFresh
<1> QED
  BY <1>4, <1>5, BenchAssumption
  DEF Init, BenchInv, NeverBlessed, Nothing, BuiltByName, NoVerdict, Running, Checked, Recorded,
      PassHonest, BlessWhole

\* A change of trees or packages is noticed by the history, if by nothing else.
LEMMA OperatorStep ==
    ASSUME BenchInv, Edit \/ Commit \/ Install
    PROVE  BenchInv'
PROOF
<1>1. /\ UNCHANGED <<kept, caches, cmd, job, run, verdict, given>>
      /\ Disturbs /\ (torn => torn') /\ torn' \in BOOLEAN
  BY DEF Edit, Commit, Install, BenchInv, BenchTypes
<1>2. disturbed' \in BOOLEAN /\ (disturbed => disturbed') /\ (cmd # "idle" => disturbed')
  BY <1>1 DEF Disturbs, BenchInv, BenchTypes
<1>3. BenchTypes'
  <2>1. source' \in Sources /\ env' \in Envs /\ dirty' \in BOOLEAN
    <3>1. source \in Sources /\ env \in Envs /\ dirty \in BOOLEAN
      BY DEF BenchInv, BenchTypes
    <3>2. MaxEnv \in Nat
      BY BenchAssumption
    <3>3. CASE Edit
      BY <3>1, <3>3 DEF Edit
    <3>4. CASE Commit
      BY <3>1, <3>4 DEF Commit
    <3>5. CASE Install
      BY <3>1, <3>2, <3>5 DEF Install, Envs
    <3> QED BY <3>3, <3>4, <3>5
  <2>2. changes' \in 0..MaxChanges
    BY <1>1, BenchAssumption DEF Disturbs, BenchInv, BenchTypes
  <2> QED BY <1>1, <1>2, <2>1, <2>2 DEF BenchInv, BenchTypes, kept, caches, job
<1>4. Running'
  <2>1. SUFFICES ASSUME run # NoRun
                 PROVE  Running'
    BY <1>1 DEF Running
  <2>2. /\ run \in [source : Sources, env : Envs] /\ Working /\ Wanted(Entry)
        /\ cmd # "freeze" /\ frozen # <<>> => Blob = [s \in frozen[1] |-> "frozen"]
        /\ ~torn /\ ~Ready => run.source = source
    BY <2>1 DEF BenchInv, Running
  <2>3. Ready' = Ready /\ Entry' = Entry /\ Blob' = Blob /\ Working' = Working
    BY <1>1 DEF Ready, Entry, Blob, Root, Working, FixtureKey, caches, job
  <2>4. Wanted(Entry)'
    BY <1>1, <2>2, <2>3 DEF Wanted, PassedOver, kept, job
  <2>5. disturbed'
    BY <1>2, <2>2 DEF Working
  <2>6. ~torn' /\ ~Ready' => run.source = source'
    BY <2>1, <2>2, <2>3, <1>1 DEF Edit, Commit, Install
  <2>7. /\ run' = run /\ frozen' = frozen /\ cmd' = cmd
    BY <1>1 DEF kept
  <2> QED BY <2>2, <2>3, <2>4, <2>5, <2>6, <2>7 DEF Running
<1>5. BuiltByName' /\ NoVerdict' /\ NeverBlessed' /\ NoSilentTuning' /\ FixtureFresh'
  BY <1>1
  DEF BenchInv, BuiltByName, NoVerdict, NeverBlessed, NoSilentTuning, FixtureFresh, kept, caches, job
<1>6. Checked' /\ PassHonest'
  BY <1>1 DEF BenchInv, Checked, Answers, PassHonest, InTier, Left, kept, job
<1>7. Recorded' /\ BlessWhole'
  BY <1>1, <1>2 DEF BenchInv, Recorded, Snapshot, BlessWhole, InTier, Left, kept, job
<1> QED BY <1>3, <1>4, <1>5, <1>6, <1>7 DEF BenchInv

\* A command begins with its whole tier left and without a verdict.
LEMMA StartStep ==
    ASSUME BenchInv, NEW c \in Commands, NEW tier \in Tiers, NEW root \in Roots,
           Idle, Start(c, tier, root)
    PROVE  BenchInv'
PROOF
<1>1. <<>> \in Caches
  <2>1. <<>> \in [{} -> {"frozen", "live"}]
    OBVIOUS
  <2> QED BY <2>1 DEF Caches
<1>2. BenchTypes'
  <2>1. opts' \in [tier : Tiers, root : Roots] /\ todo' \subseteq DOMAIN Suite
    BY DEF Start, ByTier, Roots, BenchInv, BenchTypes
  <2>2. blob' \in [Roots -> Caches]
    BY <1>1 DEF Start, Roots, BenchInv, BenchTypes
  <2>3. given' \in 0..MaxCommands /\ given' # 0
    BY BenchAssumption DEF Idle, BenchInv, BenchTypes
  <2>4. fresh' \in [Entries -> Captures \cup {None}]
    BY DEF Start, Nothing
  <2> QED
    BY <2>1, <2>2, <2>3, <2>4 DEF BenchInv, BenchTypes, Idle, Start, world, kept
<1>3. InTier' = Left'
  BY DEF InTier, Left, Start, ByTier
<1>4. Running'
  BY DEF BenchInv, Running, Idle, Working
<1> QED
  BY <1>2, <1>3, <1>4
  DEF BenchInv, NeverBlessed, BuiltByName, NoVerdict, Checked, Recorded, PassHonest, BlessWhole,
      NoSilentTuning, FixtureFresh, Idle, Start, world, kept, Nothing, Commands

LEMMA RefuseStep ==
    ASSUME BenchInv, Idle, Refuse
    PROVE  BenchInv'
PROOF
<1>1. BenchTypes'
  BY BenchAssumption DEF BenchInv, BenchTypes, Idle, Refuse, world, kept, caches, job
<1>2. Running'
  BY DEF BenchInv, Running, Idle, Working
<1> QED
  BY <1>1, <1>2
  DEF BenchInv, NeverBlessed, BuiltByName, NoVerdict, Checked, Recorded, PassHonest, BlessWhole,
      NoSilentTuning, FixtureFresh, Idle, Refuse, world, kept, caches, job

\* A capture starts from the committed fixture and with the trees at hand.
LEMMA LaunchStep ==
    ASSUME BenchInv, Launch
    PROVE  BenchInv'
PROOF
<1>1. /\ Working /\ Wanted(Entry) /\ run' = [source |-> source, env |-> env]
      /\ blob' = [blob EXCEPT ![Root] = SeedTune(blob[Root])]
      /\ UNCHANGED <<world, kept, built, cmd, job, verdict, given, history>>
  BY DEF Launch
<1>2. Entry \in Entries
  BY <1>1, FirstLeft DEF BenchInv, Working
<1>3. SeedTune(Blob) \in Caches
  BY <1>2, TunedTypes DEF BenchInv
<1>4. BenchTypes'
  <2>1. blob' \in [Roots -> Caches]
    BY <1>1, <1>3 DEF BenchInv, BenchTypes, Blob
  <2> QED BY <1>1, <2>1 DEF BenchInv, BenchTypes, world, kept, job, history
<1>5. Running'
  <2>1. run' \in [source : Sources, env : Envs] /\ run'.source = source'
    BY <1>1 DEF BenchInv, BenchTypes, world
  <2>2. Working' /\ Wanted(Entry)'
    BY <1>1 DEF Working, Wanted, Entry, PassedOver, kept, job
  <2>3. Blob' = SeedTune(Blob)
    BY <1>1 DEF Blob, Root, BenchInv, BenchTypes, job
  <2>4. cmd' # "freeze" /\ frozen' # <<>> => Blob' = [s \in frozen'[1] |-> "frozen"]
    BY <1>1, <2>3 DEF SeedTune, kept
  <2> QED BY <2>1, <2>2, <2>4 DEF Running
<1> QED
  BY <1>1, <1>4, <1>5
  DEF BenchInv, NeverBlessed, BuiltByName, NoVerdict, Checked, Recorded, PassHonest, BlessWhole,
      NoSilentTuning, FixtureFresh, InTier, Left, Answers, Snapshot, world, kept, job, history

\* As long as the tree held still, a checkpoint is built by the files its name digests.
LEMMA BuildStep ==
    ASSUME BenchInv, Build
    PROVE  BenchInv'
PROOF
<1>1. /\ run # NoRun /\ ~Ready
      /\ built' = [k \in DOMAIN built \cup {FixtureKey} |->
                    IF k \in DOMAIN built THEN built[k] ELSE source]
      /\ UNCHANGED <<world, kept, blob, cmd, job, run, verdict, given, history>>
  BY DEF Build
<1>2. BenchTypes'
  <2>1. \A k \in DOMAIN built' : built'[k] \in Sources
    BY <1>1 DEF BenchInv, BenchTypes
  <2> QED BY <1>1, <2>1 DEF BenchInv, BenchTypes, world, kept, job, history
<1>3. BuiltByName'
  <2>1. ~torn => run.source = source
    BY <1>1 DEF BenchInv, Running
  <2>2. torn' = torn
    BY <1>1 DEF history
  <2> QED BY <1>1, <2>1, <2>2 DEF BenchInv, BuiltByName, FixtureKey
<1>4. Running'
  <2>1. /\ run' = run /\ cmd' = cmd /\ Entry' = Entry /\ Blob' = Blob /\ frozen' = frozen
        /\ disturbed' = disturbed /\ torn' = torn /\ source' = source
    BY <1>1 DEF Entry, Blob, Root, world, kept, job, history
  <2>2. Working' /\ Wanted(Entry)'
    BY <1>1, <2>1 DEF BenchInv, Running, Working, Wanted, PassedOver, kept, job
  <2>3. Ready'
    BY <1>1, <2>1 DEF Ready, FixtureKey
  <2> QED BY <1>1, <2>1, <2>2, <2>3 DEF BenchInv, Running
<1> QED
  BY <1>1, <1>2, <1>3, <1>4
  DEF BenchInv, NeverBlessed, NoVerdict, Checked, Recorded, PassHonest, BlessWhole,
      NoSilentTuning, FixtureFresh, InTier, Left, Answers, Snapshot, world, kept, job, history

\* What a capture records is neither tuned in silence nor of a stale fixture.
LEMMA RecordingStep ==
    ASSUME BenchInv, cmd # "freeze", NEW e \in Entries, e = Entry, torn' = torn,
           \/ UNCHANGED <<expected, fresh>>
           \/ /\ Ready
              /\ \E cap \in {Unstamped(e), Captured(e)} :
                   /\ expected' \in {expected, [expected EXCEPT ![e] = cap]}
                   /\ fresh' \in {fresh, [fresh EXCEPT ![e] = cap]}
    PROVE  /\ expected' \in [Entries -> Captures \cup {None}]
           /\ fresh' \in [Entries -> Captures \cup {None}]
           /\ NoSilentTuning' /\ FixtureFresh'
PROOF
<1>1. /\ expected \in [Entries -> Captures \cup {None}]
      /\ fresh \in [Entries -> Captures \cup {None}]
  BY DEF BenchInv, BenchTypes
<1>2. CASE UNCHANGED <<expected, fresh>>
  BY <1>1, <1>2 DEF BenchInv, NoSilentTuning, FixtureFresh
<1>3. ASSUME Ready, NEW cap \in {Unstamped(e), Captured(e)},
             expected' \in {expected, [expected EXCEPT ![e] = cap]},
             fresh' \in {fresh, [fresh EXCEPT ![e] = cap]}
      PROVE  /\ expected' \in [Entries -> Captures \cup {None}]
             /\ fresh' \in [Entries -> Captures \cup {None}]
             /\ NoSilentTuning' /\ FixtureFresh'
  <2>1. /\ cap \in Captures /\ cap # None
        /\ cap.stamped /\ cap.live => cap.drift
        /\ ~torn => cap.encoder = EncoderOf[cap.loaded]
    BY <1>3, CaptureTypes, CaptureTuning, CaptureEncoder DEF BenchInv
  <2>2. \A f \in Entries : /\ expected'[f] \in {expected[f], cap}
                           /\ fresh'[f] \in {fresh[f], cap}
    BY <1>1, <1>3
  <2>3. NoSilentTuning'
    BY <2>1, <2>2 DEF BenchInv, NoSilentTuning
  <2>4. FixtureFresh'
    BY <2>1, <2>2 DEF BenchInv, FixtureFresh
  <2> QED BY <1>1, <1>3, <2>1, <2>3, <2>4
<1> QED BY <1>2, <1>3

\* Any step of a command over its list, but for what it makes of the entry.
LEMMA ListStep ==
    ASSUME BenchInv, NEW c \in Commands, Step(c),
           Failed(Entry) \/ UNCHANGED caches,
           \/ Continue
           \/ cmd' = "idle" /\ verdict' \in {"aborted", "refused"} /\ UNCHANGED todo,
           failed' \in {failed, Refused(Entry)},
           known' \subseteq Broken,
           expected' \in [Entries -> Captures \cup {None}],
           fresh' \in [Entries -> Captures \cup {None}]
    PROVE  BenchTypes' /\ Running' /\ BuiltByName' /\ NoVerdict' /\ PassHonest' /\ BlessWhole'
PROOF
<1>1. Entry \in Entries
  BY FirstLeft DEF BenchInv, Step, Working
<1>2. blob' \in [Roots -> Caches] /\ built' = built
  BY <1>1, CachesKept DEF BenchInv
<1>3. /\ verdict' \in {"none", "aborted", "refused"}
      /\ cmd' \in {c, "idle"} /\ (cmd' # "idle" => verdict' = "none")
      /\ todo' \subseteq todo /\ (cmd' # "idle" => cmd # "idle")
  BY DEF Step, Working, Continue, BenchInv, NoVerdict
<1>4. failed' \subseteq Entries
  BY <1>1 DEF BenchInv, BenchTypes, Refused
<1>5. BenchTypes'
  BY <1>2, <1>3, <1>4 DEF BenchInv, BenchTypes, Step, world, history
<1>6. Running' /\ BuiltByName'
  BY <1>2 DEF Running, Step, BenchInv, BuiltByName, history
<1> QED BY <1>3, <1>5, <1>6 DEF NoVerdict, PassHonest, BlessWhole

\* An entry that is passed over changes nothing but the list.
LEMMA SkipStep ==
    ASSUME BenchInv, Skip
    PROVE  BenchInv'
PROOF
<1>1. /\ cmd \in {"bless", "freeze"} /\ Step(cmd) /\ Entry \in Broken /\ Continue
      /\ UNCHANGED <<expected, caches, fresh, failed, known>>
  BY DEF Skip, PassedOver, Step, Working, BenchInv, BenchTypes, Commands
<1>2. Left \subseteq Left' \cup {Entry}
  BY <1>1, FirstLeft DEF BenchInv, Step, Working, Continue, Left
<1>3. BenchTypes' /\ Running' /\ BuiltByName' /\ NoVerdict' /\ PassHonest' /\ BlessWhole'
  BY <1>1, ListStep DEF BenchInv, BenchTypes, Commands
<1>4. NeverBlessed' /\ NoSilentTuning' /\ FixtureFresh'
  BY <1>1 DEF BenchInv, NeverBlessed, NoSilentTuning, FixtureFresh, Step, history
<1>5. Checked' /\ Recorded'
  BY <1>1, <1>2
  DEF BenchInv, Checked, Recorded, Snapshot, InTier, Continue, Step, world, history
<1> QED BY <1>3, <1>4, <1>5 DEF BenchInv

LEMMA BlessStep ==
    ASSUME BenchInv, BlessEntry \/ BlessTpFails \/ BlessStops
    PROVE  BenchInv'
PROOF
<1>1. /\ Step("bless") /\ Entry \in Entries /\ UNCHANGED <<fresh, known>>
      /\ Left \subseteq Left' \cup {Entry} /\ run # NoRun
  BY FirstLeft
  DEF BenchInv, Step, Working, BlessEntry, BlessTpFails, BlessStops, Continue, Left, Failed, Ran, Ready
<1>2. \/ UNCHANGED expected
      \/ Ready /\ \E cap \in {Unstamped(Entry), Captured(Entry)} :
                    expected' = [expected EXCEPT ![Entry] = cap]
  BY DEF BlessEntry, BlessTpFails, BlessStops, Ran
<1>3. /\ expected' \in [Entries -> Captures \cup {None}]
      /\ fresh' \in [Entries -> Captures \cup {None}]
      /\ NoSilentTuning' /\ FixtureFresh'
  <2>1. cmd = "bless" /\ torn' = torn
    BY <1>1 DEF Step, history
  <2> QED BY <1>1, <1>2, <2>1, RecordingStep
<1>4. BenchTypes' /\ Running' /\ BuiltByName' /\ NoVerdict' /\ PassHonest' /\ BlessWhole'
  <2>1. Failed(Entry) \/ UNCHANGED caches
    BY <1>1 DEF BlessEntry, BlessTpFails, BlessStops, Failed
  <2>2. /\ failed' \in {failed, Refused(Entry)}
        /\ \/ Continue
           \/ cmd' = "idle" /\ verdict' \in {"aborted", "refused"} /\ UNCHANGED todo
    BY DEF BlessEntry, BlessTpFails, BlessStops, Ended
  <2>3. known' \subseteq Broken
    BY <1>1 DEF BenchInv, BenchTypes
  <2> QED BY <1>1, <1>3, <2>1, <2>2, <2>3, ListStep DEF Commands
<1>5. Entry \notin Broken
  BY <1>1 DEF BenchInv, Running, Wanted, PassedOver, Step
<1>6. \A e \in Entries \ {Entry} : expected'[e] = expected[e]
  BY <1>2 DEF BenchInv, BenchTypes
<1>7. NeverBlessed'
  BY <1>1, <1>5, <1>6, BenchAssumption DEF BenchInv, NeverBlessed, BenchTypes
<1>8. Checked'
  BY <1>1 DEF Step, Checked, BlessEntry, BlessTpFails, BlessStops, Continue, Ended
<1>9. Recorded'
  <2>1. SUFFICES ASSUME cmd' = "bless",
                        NEW e \in InTier' \ (Left' \cup failed' \cup Broken)
                 PROVE  Snapshot(e)'
    BY DEF Recorded
  <2>2. /\ InTier' = InTier /\ failed \subseteq failed' /\ disturbed' = disturbed
        /\ source' = source /\ dirty' = dirty /\ env' = env /\ given' = given /\ e \in Entries
    <3>1. InTier \subseteq Entries
      BY BenchAssumption DEF InTier, ByTier
    <3>2. InTier' = InTier
      BY <1>1 DEF InTier, Step
    <3> QED
      BY <1>1, <2>1, <3>1, <3>2
      DEF Step, world, history, BlessEntry, BlessTpFails, BlessStops, Refused
  <2>3. CASE e # Entry
    <3>1. Snapshot(e)
      BY <1>1, <2>1, <2>2, <2>3 DEF BenchInv, Recorded, Step
    <3> QED BY <1>6, <2>2, <2>3, <3>1 DEF Snapshot
  <2>4. CASE e = Entry
    <3>1. BlessEntry /\ expected' = [expected EXCEPT ![Entry] = Captured(Entry)] /\ Ready
      BY <2>1, <2>4 DEF BlessEntry, BlessTpFails, BlessStops, Refused, Ended, Ran
    <3>2. expected'[e] = Captured(e)
      BY <2>2, <2>4, <3>1 DEF BenchInv, BenchTypes
    <3>3. Captured(e) # None
      BY <2>2, <2>4, <3>1, CaptureTypes DEF BenchInv
    <3>4. ~disturbed => run.source = source
      BY <1>1 DEF BenchInv, Running
    <3>5. /\ Captured(e).stamped /\ Captured(e).source = source /\ Captured(e).dirty = dirty
          /\ Captured(e).env = env /\ Captured(e).by = given /\ Captured(e).loaded = run.source
      BY CaptureFields
    <3> QED BY <2>2, <3>2, <3>3, <3>4, <3>5 DEF Snapshot
  <2> QED BY <2>3, <2>4
<1> QED BY <1>3, <1>4, <1>7, <1>8, <1>9 DEF BenchInv

LEMMA BlessEndStep ==
    ASSUME BenchInv, BlessEnd
    PROVE  BenchInv'
PROOF
<1>1. /\ cmd = "bless" /\ todo = {} /\ manifest' = env /\ cmd' = "idle"
      /\ verdict' \in {"blessed", "partly"} /\ (verdict' = "blessed" => failed = {})
      /\ UNCHANGED <<source, dirty, env, changes, expected, frozen, blob, built, run,
                     opts, todo, fresh, failed, known, given, disturbed, torn>>
  BY DEF BlessEnd, Ended, world, caches, job, history
<1>2. BenchTypes'
  <2>1. manifest' \in 0..MaxEnv
    BY <1>1, BenchAssumption DEF BenchInv, BenchTypes, Envs
  <2> QED BY <1>1, <2>1 DEF BenchInv, BenchTypes
<1>3. Running'
  BY <1>1 DEF BenchInv, Running, Working
<1>4. BlessWhole'
  <2>1. SUFFICES ASSUME failed = {}, NEW e \in InTier \ Broken, NEW f \in InTier \ Broken
                 PROVE  Snapshot(e) /\ Snapshot(f)
    BY <1>1 DEF BlessWhole, InTier, Snapshot
  <2>2. Left = {}
    BY <1>1 DEF Left
  <2> QED BY <1>1, <2>1, <2>2 DEF BenchInv, Recorded
<1> QED
  BY <1>1, <1>2, <1>3, <1>4
  DEF BenchInv, NeverBlessed, BuiltByName, NoVerdict, Checked, Recorded, PassHonest,
      NoSilentTuning, FixtureFresh

LEMMA CheckStep ==
    ASSUME BenchInv, CheckEntry \/ CheckNoBaseline \/ CheckKnownBroken
    PROVE  BenchInv'
PROOF
<1>1. /\ Step("check") /\ Entry \in Entries /\ UNCHANGED expected /\ Continue
      /\ Left \subseteq Left' \cup {Entry}
  BY FirstLeft
  DEF BenchInv, Step, Working, CheckEntry, CheckNoBaseline, CheckKnownBroken, Continue, Left
<1>2. \/ UNCHANGED fresh
      \/ Ready /\ fresh' = [fresh EXCEPT ![Entry] = Captured(Entry)]
  BY DEF CheckEntry, CheckNoBaseline, CheckKnownBroken, Ran
<1>3. /\ fresh' \in [Entries -> Captures \cup {None}]
      /\ NoSilentTuning' /\ FixtureFresh'
  <2>1. cmd = "check" /\ torn' = torn
    BY <1>1 DEF Step, history
  <2> QED BY <1>1, <1>2, <2>1, RecordingStep
<1>4. BenchTypes' /\ Running' /\ BuiltByName' /\ NoVerdict' /\ PassHonest' /\ BlessWhole'
  <2>1. Failed(Entry) \/ UNCHANGED caches
    BY DEF CheckEntry, CheckNoBaseline, CheckKnownBroken, Failed, Ran, Ready
  <2>2. failed' \in {failed, Refused(Entry)}
    BY DEF CheckEntry, CheckNoBaseline, CheckKnownBroken
  <2>3. known' \subseteq Broken
    BY DEF CheckEntry, CheckNoBaseline, CheckKnownBroken, BenchInv, BenchTypes
  <2>4. expected' \in [Entries -> Captures \cup {None}]
    BY <1>1 DEF BenchInv, BenchTypes
  <2> QED BY <1>1, <1>3, <2>1, <2>2, <2>3, <2>4, ListStep DEF Commands
<1>5. \A e \in Entries \ {Entry} : fresh'[e] = fresh[e]
  BY <1>2 DEF BenchInv, BenchTypes
<1>6. NeverBlessed' /\ Recorded'
  BY <1>1 DEF BenchInv, NeverBlessed, Recorded, Step, Continue
<1>7. Checked'
  <2>1. SUFFICES ASSUME NEW e \in InTier' \ (Left' \cup failed' \cup known')
                 PROVE  Answers(e)'
    BY DEF Checked
  <2>2. /\ InTier' = InTier /\ failed \subseteq failed' /\ known \subseteq known'
        /\ e \in Entries /\ expected' = expected /\ given' = given
    <3>1. InTier \subseteq Entries
      BY BenchAssumption DEF InTier, ByTier
    <3>2. InTier' = InTier
      BY <1>1 DEF InTier, Step
    <3> QED
      BY <1>1, <2>1, <3>1, <3>2 DEF Step, CheckEntry, CheckNoBaseline, CheckKnownBroken, Refused
  <2>3. CASE e # Entry
    <3>1. Answers(e)
      BY <1>1, <2>1, <2>2, <2>3 DEF BenchInv, Checked, Step
    <3> QED BY <1>5, <2>2, <2>3, <3>1 DEF Answers
  <2>4. CASE e = Entry
    <3>1. CheckEntry /\ e \notin Broken /\ Agrees(e, Captured(e)) /\ Ready
      BY <2>1, <2>4 DEF CheckEntry, CheckNoBaseline, CheckKnownBroken, Refused, Ran
    <3>2. fresh'[e] = Captured(e)
      BY <2>2, <2>4, <3>1 DEF CheckEntry, BenchInv, BenchTypes
    <3>3. Captured(e) # None /\ Captured(e) \in Captures /\ Captured(e).by = given
      BY <2>2, <2>4, <3>1, CaptureTypes, CaptureFields DEF BenchInv
    <3>4. expected[e] # None
      BY <2>4, <3>1 DEF BenchInv, Running, Wanted, Ready, CheckEntry, Step
    <3>5. Captured(e).weight \in Nat
      BY <3>3 DEF Captures
    <3>6. /\ Captured(e).logits = expected[e].logits /\ Captured(e).fixture = expected[e].fixture
          /\ expected[e].backend \in {0, Captured(e).backend}
          /\ Captured(e).weight = expected[e].weight \/ 0 \in {Captured(e).weight, expected[e].weight}
      BY <3>1 DEF Agrees, Same
    <3>7. ASSUME e \in DOMAIN Sibling
          PROVE  /\ expected[Sibling[e]] # None /\ Captured(e).logits = expected[Sibling[e]].logits
                 /\ \/ 4 * Captured(e).weight <= 5 * expected[Sibling[e]].weight
                    \/ expected[Sibling[e]].weight = 0
      <4> DEFINE sib == expected[Sibling[e]]
                 w == Captured(e).weight
      <4>1. /\ sib # None /\ sib.logits = Captured(e).logits
            /\ w # 0 /\ sib.weight # 0 => 4 * w <= 5 * sib.weight
        BY <3>1, <3>7 DEF Agrees, AnswersToSibling, Same
      <4>2. sib.weight \in Nat
        <5>1. sib \in Captures
          BY <3>7, <4>1, BenchAssumption DEF BenchInv, BenchTypes
        <5> QED BY <5>1 DEF Captures
      <4> HIDE DEF sib, w
      <4>3. w \in Nat
        BY <3>5 DEF w
      <4>4. 4 * w <= 5 * sib.weight \/ sib.weight = 0
        BY <4>1, <4>2, <4>3
      <4> QED BY <4>1, <4>4 DEF sib, w
    <3> QED BY <2>2, <3>1, <3>2, <3>3, <3>4, <3>6, <3>7 DEF Answers
  <2> QED BY <2>3, <2>4
<1> QED BY <1>3, <1>4, <1>6, <1>7 DEF BenchInv

LEMMA CheckEndStep ==
    ASSUME BenchInv, CheckEnd
    PROVE  BenchInv'
PROOF
<1>1. /\ cmd = "check" /\ todo = {} /\ cmd' = "idle"
      /\ verdict' \in {"pass", "fail"} /\ (verdict' = "pass" => failed = {})
      /\ UNCHANGED <<source, dirty, env, changes, expected, manifest, frozen, blob, built, run,
                     opts, todo, fresh, failed, known, given, disturbed, torn>>
  BY DEF CheckEnd, Ended, world, kept, caches, job, history
<1>2. BenchTypes' /\ Running'
  BY <1>1 DEF BenchInv, BenchTypes, Running, Working
<1>3. PassHonest'
  <2>1. SUFFICES ASSUME failed = {}, NEW e \in InTier \ known
                 PROVE  Answers(e)
    BY <1>1 DEF PassHonest, InTier, Answers
  <2>2. Left = {}
    BY <1>1 DEF Left
  <2> QED BY <1>1, <2>1, <2>2 DEF BenchInv, Checked
<1> QED
  BY <1>1, <1>2, <1>3
  DEF BenchInv, NeverBlessed, BuiltByName, NoVerdict, Checked, Recorded, BlessWhole,
      NoSilentTuning, FixtureFresh

LEMMA FreezeStep ==
    ASSUME BenchInv, FreezeEntry \/ FreezeFails
    PROVE  BenchInv'
PROOF
<1>1. Step("freeze") /\ UNCHANGED <<expected, fresh, failed, known>>
  BY DEF FreezeEntry, FreezeFails
<1>2. BenchTypes' /\ Running' /\ BuiltByName' /\ NoVerdict' /\ PassHonest' /\ BlessWhole'
  <2>1. Failed(Entry) \/ UNCHANGED caches
    BY DEF FreezeEntry, FreezeFails, Failed, Ran, Ready
  <2>2. \/ Continue
        \/ cmd' = "idle" /\ verdict' \in {"aborted", "refused"} /\ UNCHANGED todo
    BY DEF FreezeEntry, FreezeFails, Ended
  <2>3. /\ known' \subseteq Broken
        /\ expected' \in [Entries -> Captures \cup {None}]
        /\ fresh' \in [Entries -> Captures \cup {None}]
    BY <1>1 DEF BenchInv, BenchTypes
  <2> QED BY <1>1, <2>1, <2>2, <2>3, ListStep DEF Commands
<1>3. NeverBlessed' /\ NoSilentTuning' /\ FixtureFresh'
  BY <1>1 DEF BenchInv, NeverBlessed, NoSilentTuning, FixtureFresh, Step, history
<1>4. cmd' \in {"freeze", "idle"}
  BY <1>1 DEF Step, FreezeEntry, FreezeFails, Continue, Ended
<1> QED BY <1>2, <1>3, <1>4 DEF BenchInv, Checked, Recorded

LEMMA FreezeEndStep ==
    ASSUME BenchInv, FreezeEnd
    PROVE  BenchInv'
PROOF
<1>1. /\ cmd' = "idle" /\ verdict' \in {"refused", "froze"} /\ todo = {}
      /\ frozen' \in {frozen, <<DOMAIN Blob>>}
      /\ UNCHANGED <<source, dirty, env, changes, expected, manifest, blob, built, run,
                     opts, todo, fresh, failed, known, given, disturbed, torn>>
  BY DEF FreezeEnd, Ended, world, caches, job, history
<1>2. BenchTypes'
  <2>1. Blob \in Caches
    BY DEF BenchInv, BenchTypes, Root, Blob
  <2>2. DOMAIN Blob \in SUBSET Shape
    BY <2>1 DEF Caches
  <2>3. frozen' \in {<<>>} \cup {<<D>> : D \in SUBSET Shape}
    BY <1>1, <2>2 DEF BenchInv, BenchTypes
  <2> QED BY <1>1, <2>3 DEF BenchInv, BenchTypes
<1>3. Running'
  BY <1>1 DEF BenchInv, Running, Working
<1> QED
  BY <1>1, <1>2, <1>3
  DEF BenchInv, NeverBlessed, BuiltByName, NoVerdict, Checked, Recorded, PassHonest, BlessWhole,
      NoSilentTuning, FixtureFresh

LEMMA AbortStep ==
    ASSUME BenchInv, Abort
    PROVE  BenchInv'
PROOF
<1>1. /\ cmd' = "idle" /\ verdict' = "aborted" /\ run' = NoRun
      /\ UNCHANGED <<source, dirty, env, changes, expected, manifest, frozen,
                     opts, given, disturbed, torn>>
      /\ todo' = {} /\ fresh' = Nothing /\ failed' = {} /\ known' = {}
  BY DEF Abort, Ended, world, kept, history
<1>2. blob' \in [Roots -> Caches] /\ built' = built
  <2>1. CASE UNCHANGED caches
    BY <2>1 DEF BenchInv, BenchTypes, caches
  <2>2. CASE todo # {} /\ Failed(Entry)
    BY <2>2, FirstLeft, CachesKept DEF BenchInv
  <2> QED BY <2>1, <2>2 DEF Abort
<1>3. BenchTypes' /\ Running'
  BY <1>1, <1>2 DEF BenchInv, BenchTypes, Running, Nothing
<1> QED
  BY <1>1, <1>2, <1>3
  DEF BenchInv, NeverBlessed, BuiltByName, NoVerdict, Checked, Recorded, PassHonest, BlessWhole,
      NoSilentTuning, FixtureFresh, Nothing

LEMMA BenchStep == BenchInv /\ [Next]_vars => BenchInv'
PROOF
<1> SUFFICES ASSUME BenchInv, [Next]_vars
             PROVE  BenchInv'
  OBVIOUS
<1>1. ASSUME NEW tier \in Tiers, NEW a \in BOOLEAN, Bless(tier, a)
      PROVE  BenchInv'
  BY <1>1, StartStep, RefuseStep DEF Bless, Roots, Commands
<1>2. ASSUME NEW tier \in Tiers, NEW cold \in BOOLEAN, NEW strict \in BOOLEAN,
             Check(tier, cold, strict)
      PROVE  BenchInv'
  BY <1>2, StartStep, RefuseStep DEF Check, Roots, Commands
<1>3. ASSUME NEW tier \in Tiers, FreezeTune(tier)
      PROVE  BenchInv'
  BY <1>3, StartStep DEF FreezeTune, Roots, Commands
<1>4. CASE UNCHANGED vars
  BY <1>4
  DEF vars, world, kept, caches, job, history, BenchInv, BenchTypes, NeverBlessed, BuiltByName,
      NoVerdict, Running, Working, Wanted, PassedOver, Ready, FixtureKey, Entry, Blob, Root,
      Checked, Recorded, PassHonest, BlessWhole, NoSilentTuning, FixtureFresh, InTier, Left,
      Answers, Snapshot
<1> QED
  BY <1>1, <1>2, <1>3, <1>4, OperatorStep, LaunchStep, BuildStep, SkipStep, BlessStep,
     BlessEndStep, CheckStep, CheckEndStep, FreezeStep, FreezeEndStep, AbortStep
  DEF Next

(***************************************************************************)
(* What follows.                                                            *)
(***************************************************************************)
LEMMA BenchAlways == Spec => []BenchInv
  BY InitBench, BenchStep, PTL DEF Spec

\* Whatever was blessed, aborted, edited and upgraded before or meanwhile: a check
\* that passes captured every entry of its tier that is not known to be broken, and
\* each agrees with its own baseline and with its sibling's, in weight and backend
\* where there are numbers to compare.
THEOREM AlwaysPassHonest == Spec => []PassHonest
PROOF
<1>1. BenchInv => PassHonest
  BY DEF BenchInv
<1> QED BY <1>1, BenchAlways, PTL

\* A bless that ends well has recorded its whole tier itself, every baseline with its
\* stamp; if nothing was edited, committed or installed while it ran, all are from one
\* version of the source, in the environment that the manifest names.
THEOREM AlwaysBlessWhole == Spec => []BlessWhole
PROOF
<1>1. BenchInv => BlessWhole
  BY DEF BenchInv
<1> QED BY <1>1, BenchAlways, PTL

\* Types, and: no stamped capture, recorded or just taken, used a kernel that the
\* autotuner chose by timing without being marked as drifted; and none served a derived
\* checkpoint of another encoder than the one it loaded, unless the tree was changed
\* in between a digest and a build -- whatever earlier commands left in the caches.
THEOREM AlwaysCapturesFresh == Spec => []CapturesFresh
PROOF
<1>1. BenchInv => CapturesFresh
  <2>1. SUFFICES ASSUME BenchInv PROVE TypeOK
    BY DEF BenchInv, CapturesFresh
  <2>2. ASSUME NEW r \in Roots, NEW s \in DOMAIN blob[r]
        PROVE  s \in Shape /\ blob[r][s] \in {"frozen", "live"}
    <3>1. blob[r] \in Caches
      BY <2>1 DEF BenchInv, BenchTypes
    <3>2. PICK D \in SUBSET Shape : blob[r] \in [D -> {"frozen", "live"}]
      BY <3>1 DEF Caches
    <3> QED BY <3>2
  <2> QED
    BY <2>1, <2>2 DEF BenchInv, BenchTypes, NeverBlessed, Running, TypeOK, Roots, Commands
<1> QED BY <1>1, BenchAlways, PTL
=============================================================================
