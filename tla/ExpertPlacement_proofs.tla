---------------------- MODULE ExpertPlacement_proofs ----------------------
(***************************************************************************)
(* Proofs about ExpertPlacement, for every model, budget and host: what     *)
(* placement takes while tensors arrive in any order.                       *)
(***************************************************************************)
EXTENDS ExpertPlacement, FiniteSetTheorems, WellFoundedInduction, TLAPS

(***************************************************************************)
(* The inductive invariant.                                                 *)
(***************************************************************************)
LoadTypes ==
    /\ conf \in Configurations
    /\ spent \in Nat /\ expertBytes \in Nat
    /\ quota \in Nat \cup {-1}
    /\ DOMAIN plan \subseteq Block

NothingGivenBack == spent >= conf.tower

\* The quota is decided by the time a block is planned.
QuotaDecided == Cached /\ DOMAIN plan # {} => quota # -1

\* A decided quota fits the RAM found, but for less than a row per block.
QuotaFits ==
    quota # -1 => RowBytes * quota * Blocks < Positive(conf.hostFree) + Blocks * RowBytes

\* Host blocks hold at most a quota of rows per planned block.
RowsCounted == Cached => expertBytes <= RowBytes * (quota * Cardinality(DOMAIN plan))

LoadInv ==
    /\ LoadTypes /\ NothingGivenBack /\ BudgetKept
    /\ QuotaDecided /\ QuotaFits /\ RowsCounted /\ EvenShare

(***************************************************************************)
(* Arithmetic.                                                              *)
(***************************************************************************)
LEMMA RoundUpBounds ==
    ASSUME NEW a \in Nat, NEW b \in Nat \ {0}
    PROVE  /\ RoundUp(a, b) \in Nat
           /\ b * RoundUp(a, b) < a + b
BY DEF RoundUp

LEMMA BlockCount ==
    /\ Blocks \in Nat \ {0}
    /\ IsFiniteSet(Block)
    /\ Cardinality(Block) = Blocks
<1>1. /\ Cardinality(Layers) \in Nat \ {0}
      /\ Cardinality(Projection) \in Nat \ {0}
  BY SizesAssumption, FS_CardinalityType, FS_EmptySet
<1>2. Cardinality(Layers) * Cardinality(Projection) \in Nat \ {0}
  BY <1>1
<1> QED BY <1>2, SizesAssumption, FS_Product DEF Blocks, Block

\* Experts of a block whose ranks are all below n are at most n: no two of
\* them have the same rank.
LEMMA RanksBelow ==
    ASSUME NEW b, NEW T, T \subseteq Matched(b), NEW n \in Nat,
           \A e \in T : Cardinality({f \in Matched(b) : f < e}) < n
    PROVE  IsFiniteSet(T) /\ Cardinality(T) \in Nat /\ Cardinality(T) <= n
<1> DEFINE Below(e) == {f \in Matched(b) : f < e}
           rank == [e \in T |-> Cardinality(Below(e))]
<1>1. IsFiniteSet(Matched(b)) /\ Matched(b) \subseteq Nat
  <2>1. Matched(b) \subseteq Expert /\ Expert \subseteq Nat
    BY SizesAssumption DEF Matched, Expert
  <2>2. IsFiniteSet(Expert)
    BY SizesAssumption, FS_Interval DEF Expert
  <2> QED BY <2>1, <2>2, FS_Subset
<1>2. \A e \in T : IsFiniteSet(Below(e)) /\ Cardinality(Below(e)) \in Nat
  BY <1>1, FS_Subset, FS_CardinalityType
<1>3. ASSUME NEW d \in T, NEW e \in T, d < e
      PROVE  Cardinality(Below(d)) # Cardinality(Below(e))
  <2>1. Below(d) \subseteq Below(e)
    BY <1>1, <1>3
  <2>2. d \in Below(e) /\ d \notin Below(d)
    BY <1>1, <1>3
  <2> QED BY <1>2, <2>1, <2>2, FS_Subset
<1>4. \A d, e \in T : rank[d] = rank[e] => d = e
  BY <1>1, <1>3
<1>5. rank \in [T -> 0 .. n - 1]
  <2>1. \A e \in T : Cardinality(Below(e)) \in Nat /\ Cardinality(Below(e)) < n
    BY <1>2
  <2> HIDE DEF Below
  <2>2. \A e \in T : Cardinality(Below(e)) \in 0 .. n - 1
    BY <2>1
  <2> QED BY <2>2
<1>6. rank \in Injection(T, 0 .. n - 1)
  BY <1>4, <1>5 DEF Injection, IsInjective
<1>7. IsFiniteSet(0 .. n - 1) /\ Cardinality(0 .. n - 1) = n
  BY FS_Interval
<1>8. IsFiniteSet(T) /\ Cardinality(T) <= n
  BY <1>6, <1>7, FS_Injection
<1> QED BY <1>8, FS_CardinalityType

(***************************************************************************)
(* What a block's plan takes.                                               *)
(***************************************************************************)
LEMMA LowestCount ==
    ASSUME NEW b, NEW n \in Nat
    PROVE  /\ IsFiniteSet(Lowest(b, n))
           /\ Cardinality(Lowest(b, n)) \in Nat
           /\ Cardinality(Lowest(b, n)) <= n
<1>1. /\ Lowest(b, n) \subseteq Matched(b)
      /\ \A e \in Lowest(b, n) : Cardinality({f \in Matched(b) : f < e}) < n
  BY DEF Lowest
<1> QED BY <1>1, RanksBelow

\* The budget is checked before each expert, so that only the last overruns it.
LEMMA BudgetCount ==
    ASSUME LoadTypes, NEW b
    PROVE  LET n == Cardinality(TakenByBudget(b))
           IN  n \in Nat /\ (n = 0 \/ spent + RowBytes * n < conf.budget + RowBytes)
<1> DEFINE T == TakenByBudget(b)
           n == Cardinality(T)
           rank(e) == Cardinality({f \in Matched(b) : f < e})
<1>1. T \subseteq Matched(b) /\ \A e \in T : spent + RowBytes * rank(e) < conf.budget
  BY DEF TakenByBudget, Room
<1>2. \A e \in T : rank(e) \in Nat
  <2>1. IsFiniteSet(Expert)
    BY SizesAssumption, FS_Interval DEF Expert
  <2>2. \A e : IsFiniteSet({f \in Matched(b) : f < e})
    BY <2>1, FS_Subset DEF Matched
  <2> QED BY <2>2, FS_CardinalityType
<1>3. IsFiniteSet(T) /\ n \in Nat
  <2>1. IsFiniteSet(Expert)
    BY SizesAssumption, FS_Interval DEF Expert
  <2>2. T \subseteq Expert
    BY <1>1 DEF Matched
  <2> QED BY <2>1, <2>2, FS_Subset, FS_CardinalityType
<1>4. conf.budget \in Nat /\ spent \in Nat /\ RowBytes \in Nat
  BY SizesAssumption, ConfigurationsAssumption DEF LoadTypes, Configurations
<1> HIDE DEF T, rank
<1>5. ASSUME n # 0, ~(spent + RowBytes * n < conf.budget + RowBytes)
      PROVE  FALSE
  <2>1. \A e \in T : rank(e) < n - 1
    <3> SUFFICES ASSUME NEW e \in T, rank(e) >= n - 1 PROVE FALSE
      BY <1>2, <1>3
    <3>1. RowBytes * rank(e) >= RowBytes * (n - 1)
      BY <1>2, <1>3, <1>4
    <3>2. RowBytes * (n - 1) = RowBytes * n - RowBytes
      BY <1>3, <1>4
    <3>3. spent + RowBytes * rank(e) < conf.budget
      BY <1>1
    <3>4. RowBytes * rank(e) \in Nat /\ RowBytes * n \in Nat
      BY <1>2, <1>3, <1>4
    <3> QED BY <1>4, <1>5, <3>1, <3>2, <3>3, <3>4
  <2>2. n - 1 \in Nat
    BY <1>3, <1>5
  <2>3. n <= n - 1
    BY <1>1, <2>1, <2>2, RanksBelow DEF rank
  <2> QED BY <1>3, <2>3
<1> QED BY <1>3, <1>5 DEF T

\* The quota: a natural number of experts, that fits the RAM found.
LEMMA ShareFits ==
    ASSUME LoadTypes, NothingGivenBack
    PROVE  /\ Share \in Nat
           /\ RowBytes * Share * Blocks < Positive(conf.hostFree) + Blocks * RowBytes
<1> DEFINE unit == Blocks * RowBytes
           want == Blocks * NumExperts * RowBytes
           left == Positive(HostLeft)
<1>1. /\ RowBytes \in Nat \ {0} /\ NumExperts \in Nat \ {0} /\ Blocks \in Nat \ {0}
      /\ conf.hostFree \in Int /\ conf.tower \in Nat
      /\ spent \in Nat /\ expertBytes \in Nat
  BY SizesAssumption, ConfigurationsAssumption, BlockCount DEF LoadTypes, Configurations
<1>2. HostLeft \in Int /\ HostLeft <= conf.hostFree
  BY <1>1 DEF HostLeft, NothingGivenBack
<1>3. left \in Nat /\ Positive(conf.hostFree) \in Nat /\ left <= Positive(conf.hostFree)
  BY <1>1, <1>2 DEF Positive, Larger
<1>4. unit \in Nat \ {0} /\ want = NumExperts * unit /\ want \in Nat \ {0}
  BY <1>1
<1>5. CASE want <= HostLeft
  <2>1. Share = NumExperts
    BY <1>5 DEF Share
  <2>2. HostLeft <= left
    BY <1>2 DEF Positive, Larger
  <2>3. RowBytes * Share * Blocks = want
    BY <1>1, <2>1
  <2> QED BY <1>1, <1>2, <1>3, <1>4, <1>5, <2>1, <2>2, <2>3
<1>6. CASE ~(want <= HostLeft)
  <2>1. Share = RoundUp(left * NumExperts, want)
    BY <1>6 DEF Share
  <2>2. left * NumExperts \in Nat
    BY <1>1, <1>3
  <2>3. Share \in Nat /\ want * Share < left * NumExperts + want
    BY <1>4, <2>1, <2>2, RoundUpBounds
  <2> HIDE DEF left, want
  <2>4. NumExperts * (unit * Share) < NumExperts * (left + unit)
    <3>1. want * Share = NumExperts * (unit * Share)
      BY <1>1, <1>4, <2>3
    <3>2. left * NumExperts + want = NumExperts * (left + unit)
      BY <1>1, <1>3, <1>4
    <3> QED BY <2>3, <3>1, <3>2
  <2>5. unit * Share < left + unit
    <3> DEFINE x == unit * Share
               y == left + unit
    <3>1. x \in Nat /\ y \in Nat
      BY <1>3, <1>4, <2>3
    <3>2. NumExperts * x < NumExperts * y
      BY <2>4
    <3> HIDE DEF x, y
    <3>3. x < y
      BY <1>1, <3>1, <3>2
    <3> QED BY <3>3 DEF x, y
  <2>6. RowBytes * Share * Blocks = unit * Share
    BY <1>1, <2>3
  <2> QED BY <1>1, <1>3, <1>4, <2>3, <2>5, <2>6
<1> QED BY <1>5, <1>6

(***************************************************************************)
(* The invariant holds at the start, and every action keeps it.             *)
(***************************************************************************)
LEMMA LoadInvInit == Init => LoadInv
<1> SUFFICES ASSUME Init PROVE LoadInv
  OBVIOUS
<1>1. conf.tower \in Nat
  BY ConfigurationsAssumption DEF Init, Configurations
<1>2. DOMAIN plan = {}
  BY DEF Init
<1>3. LoadTypes /\ NothingGivenBack /\ BudgetKept
  BY <1>1, <1>2 DEF Init, LoadTypes, NothingGivenBack, BudgetKept
<1>4. QuotaDecided /\ QuotaFits /\ EvenShare
  BY <1>2 DEF Init, QuotaDecided, QuotaFits, EvenShare
<1>5. Cardinality(DOMAIN plan) = 0
  BY <1>2, FS_EmptySet
<1>6. RowsCounted
  BY <1>5, SizesAssumption DEF Init, RowsCounted
<1> QED BY <1>3, <1>4, <1>6 DEF LoadInv

\* Steps that store no row of experts leave the host blocks as they are.
LEMMA LoadInvKept ==
    ASSUME LoadInv, UNCHANGED <<conf, expertBytes, quota, plan>>,
           spent' \in Nat, spent' >= spent, BudgetKept'
    PROVE  LoadInv'
<1>1. LoadTypes'
  BY DEF LoadInv, LoadTypes
<1>2. NothingGivenBack'
  <2>1. conf.tower \in Nat /\ spent \in Nat
    BY ConfigurationsAssumption DEF LoadInv, LoadTypes, Configurations
  <2> QED BY <2>1 DEF LoadInv, NothingGivenBack
<1>3. Cached' = Cached /\ \A b, n : Lowest(b, n)' = Lowest(b, n)
  BY DEF Cached, Lowest, Matched
<1>4. QuotaDecided' /\ QuotaFits' /\ RowsCounted' /\ EvenShare'
  BY <1>3 DEF LoadInv, QuotaDecided, QuotaFits, RowsCounted, EvenShare
<1> QED BY <1>1, <1>2, <1>4 DEF LoadInv

LEMMA StoreDenseKeeps ==
    ASSUME LoadInv, NEW d \in Dense, StoreDense(d)
    PROVE  LoadInv'
<1>1. /\ conf.tower \in Nat /\ conf.budget \in Nat /\ spent \in Nat
      /\ DenseBytes \in Nat \ {0} /\ RowBytes \in Nat \ {0}
  BY SizesAssumption, ConfigurationsAssumption DEF LoadInv, LoadTypes, Configurations
<1>2. UNCHANGED <<conf, expertBytes, quota, plan>>
  BY DEF StoreDense
<1>3. CASE Room(spent)
  <2>1. spent' = spent + DenseBytes /\ spent < conf.budget
    BY <1>3 DEF StoreDense, Room
  <2>2. Larger(RowBytes, DenseBytes) \in Nat /\ DenseBytes <= Larger(RowBytes, DenseBytes)
    BY <1>1 DEF Larger
  <2>3. spent' < conf.budget + Larger(RowBytes, DenseBytes)
    BY <1>1, <2>1, <2>2
  <2>4. BudgetKept'
    BY <1>2, <2>3 DEF BudgetKept
  <2> QED BY <1>1, <1>2, <2>1, <2>4, LoadInvKept
<1>4. CASE ~Room(spent)
  <2>1. spent' = spent
    BY <1>4 DEF StoreDense
  <2>2. BudgetKept'
    BY <1>2, <2>1 DEF LoadInv, BudgetKept
  <2> QED BY <1>1, <1>2, <2>1, <2>2, LoadInvKept
<1> QED BY <1>3, <1>4

\* A block that is planned already: nothing but the row's arrival is new.
LEMMA StoreRowKeeps ==
    ASSUME LoadInv, NEW r \in Row, StoreExpert(r), <<r[1], r[2]>> \in DOMAIN plan
    PROVE  LoadInv'
<1>1. UNCHANGED <<conf, spent, expertBytes, quota, plan>>
  BY DEF StoreExpert
<1>2. spent \in Nat /\ BudgetKept'
  BY <1>1 DEF LoadInv, LoadTypes, BudgetKept
<1> QED BY <1>1, <1>2, LoadInvKept

\* A block's first row, without the cache: its experts go by the budget.
LEMMA PlanByBudgetKeeps ==
    ASSUME LoadInv, NEW r \in Row, StoreExpert(r), <<r[1], r[2]>> \notin DOMAIN plan,
           ~Cached
    PROVE  LoadInv'
<1> DEFINE b == <<r[1], r[2]>>
           n == Cardinality(TakenByBudget(b))
<1>1. /\ conf' = conf /\ expertBytes' = expertBytes /\ quota' = quota
      /\ spent' = spent + RowBytes * n
      /\ DOMAIN plan' = DOMAIN plan \cup {b}
  BY DEF StoreExpert, Taken
<1>2. n \in Nat /\ (n = 0 \/ spent + RowBytes * n < conf.budget + RowBytes)
  BY BudgetCount DEF LoadInv
<1>3. /\ conf.tower \in Nat /\ conf.budget \in Nat /\ spent \in Nat
      /\ DenseBytes \in Nat \ {0} /\ RowBytes \in Nat \ {0}
  BY SizesAssumption, ConfigurationsAssumption DEF LoadInv, LoadTypes, Configurations
<1> HIDE DEF n
<1>4. RowBytes * n \in Nat /\ (n = 0 => RowBytes * n = 0)
  BY <1>2, <1>3
<1>5. spent' \in Nat /\ spent' >= spent
  BY <1>1, <1>3, <1>4
<1>6. LoadTypes'
  <2>1. b \in Block
    BY DEF Row, Block
  <2> QED BY <1>1, <1>5, <2>1 DEF LoadInv, LoadTypes
<1>7. NothingGivenBack'
  BY <1>1, <1>3, <1>5 DEF LoadInv, NothingGivenBack
<1>8. BudgetKept'
  <2>1. Larger(RowBytes, DenseBytes) \in Nat /\ RowBytes <= Larger(RowBytes, DenseBytes)
    BY <1>3 DEF Larger
  <2>2. CASE n = 0
    <3>1. spent' = spent
      BY <1>1, <1>3, <1>4, <2>2
    <3> QED BY <1>1, <3>1 DEF LoadInv, BudgetKept
  <2>3. CASE n # 0
    <3>1. spent' < conf.budget + Larger(RowBytes, DenseBytes)
      BY <1>1, <1>2, <1>3, <1>4, <2>1, <2>3
    <3> QED BY <1>1, <3>1 DEF BudgetKept
  <2> QED BY <2>2, <2>3
<1>9. ~Cached' /\ QuotaFits'
  BY <1>1 DEF Cached, LoadInv, QuotaFits
<1> QED BY <1>6, <1>7, <1>8, <1>9 DEF LoadInv, QuotaDecided, RowsCounted, EvenShare

\* A block's first row, with the cache: the share of it that the quota is.
LEMMA PlanByQuotaKeeps ==
    ASSUME LoadInv, NEW r \in Row, StoreExpert(r), <<r[1], r[2]>> \notin DOMAIN plan,
           Cached
    PROVE  LoadInv'
<1> DEFINE b == <<r[1], r[2]>>
           rows == Cardinality(Lowest(b, Quota))
           planned == Cardinality(DOMAIN plan)
<1>1. /\ conf' = conf /\ spent' = spent /\ quota' = Quota
      /\ expertBytes' = expertBytes + RowBytes * rows
      /\ plan' = [c \in DOMAIN plan \cup {b} |-> IF c = b THEN Lowest(b, Quota) ELSE plan[c]]
  BY DEF StoreExpert, Taken
<1>2. /\ RowBytes \in Nat \ {0} /\ spent \in Nat /\ expertBytes \in Nat
  BY SizesAssumption DEF LoadInv, LoadTypes
<1>3. /\ Quota \in Nat
      /\ RowBytes * Quota * Blocks < Positive(conf.hostFree) + Blocks * RowBytes
  BY ShareFits DEF Quota, LoadInv, LoadTypes, QuotaFits
<1>4. DOMAIN plan # {} => Quota = quota
  BY DEF Quota, LoadInv, QuotaDecided
<1>5. rows \in Nat /\ rows <= Quota
  BY <1>3, LowestCount
<1> HIDE DEF rows
<1>6. RowBytes * rows \in Nat
  BY <1>2, <1>5
<1>7. LoadTypes'
  <2>1. b \in Block
    BY DEF Row, Block
  <2>2. DOMAIN plan' \subseteq Block
    BY <1>1, <2>1 DEF LoadInv, LoadTypes
  <2>3. expertBytes' \in Nat
    BY <1>1, <1>2, <1>6
  <2> QED BY <1>1, <1>3, <2>2, <2>3 DEF LoadInv, LoadTypes
<1>8. NothingGivenBack' /\ BudgetKept'
  BY <1>1 DEF LoadInv, NothingGivenBack, BudgetKept
<1>9. QuotaDecided' /\ QuotaFits'
  BY <1>1, <1>3 DEF QuotaDecided, QuotaFits
<1>10. RowsCounted'
  <2>1. IsFiniteSet(DOMAIN plan) /\ planned \in Nat
    BY BlockCount, FS_Subset, FS_CardinalityType DEF LoadInv, LoadTypes
  <2>2. Cardinality(DOMAIN plan') = planned + 1
    BY <1>1, <2>1, FS_AddElement
  <2>3. expertBytes <= RowBytes * (Quota * planned)
    <3>1. CASE DOMAIN plan = {}
      <4>1. planned = 0
        BY <3>1, FS_EmptySet
      <4>2. expertBytes <= RowBytes * (quota * 0)
        BY <4>1 DEF LoadInv, RowsCounted
      <4>3. quota * 0 = 0 /\ Quota * 0 = 0
        BY <1>3 DEF LoadInv, LoadTypes
      <4> QED BY <4>1, <4>2, <4>3
    <3>2. CASE DOMAIN plan # {}
      BY <1>4, <3>2 DEF LoadInv, RowsCounted
    <3> QED BY <3>1, <3>2
  <2> HIDE DEF planned
  <2>4. RowBytes * rows <= RowBytes * Quota
    BY <1>2, <1>3, <1>5
  <2>5. RowBytes * (Quota * (planned + 1)) = RowBytes * (Quota * planned) + RowBytes * Quota
    BY <1>2, <1>3, <2>1
  <2>6. /\ RowBytes * (Quota * planned) \in Nat /\ RowBytes * Quota \in Nat
    BY <1>2, <1>3, <2>1
  <2>7. expertBytes + RowBytes * rows <= RowBytes * (Quota * (planned + 1))
    BY <1>2, <1>6, <2>3, <2>4, <2>5, <2>6
  <2> QED BY <1>1, <2>2, <2>7 DEF RowsCounted
<1>11. EvenShare'
  <2>1. \A c, n : Lowest(c, n)' = Lowest(c, n)
    BY <1>1 DEF Lowest, Matched
  <2>2. \A c \in DOMAIN plan : plan[c] = Lowest(c, Quota)
    BY <1>4 DEF LoadInv, EvenShare
  <2>3. \A c \in DOMAIN plan' : plan'[c] = Lowest(c, Quota)
    BY <1>1, <2>2
  <2> QED BY <1>1, <2>1, <2>3 DEF EvenShare
<1> QED BY <1>7, <1>8, <1>9, <1>10, <1>11 DEF LoadInv

LEMMA LoadInvStep == LoadInv /\ [Next]_vars => LoadInv'
<1> SUFFICES ASSUME LoadInv, [Next]_vars PROVE LoadInv'
  OBVIOUS
<1>1. ASSUME NEW d \in Dense, StoreDense(d) PROVE LoadInv'
  BY <1>1, StoreDenseKeeps
<1>2. ASSUME NEW r \in Row, StoreExpert(r) PROVE LoadInv'
  BY <1>2, StoreRowKeeps, PlanByBudgetKeeps, PlanByQuotaKeeps
<1>3. ASSUME UNCHANGED <<conf, loadVars>> PROVE LoadInv'
  <2>1. UNCHANGED <<conf, spent, expertBytes, quota, plan>>
    BY <1>3 DEF loadVars
  <2>2. spent \in Nat /\ BudgetKept'
    BY <2>1 DEF LoadInv, LoadTypes, BudgetKept
  <2> QED BY <2>1, <2>2, LoadInvKept
<1>4. CASE FinishLoad
  BY <1>3, <1>4 DEF FinishLoad
<1>5. ASSUME NEW available \in Availables, NEW reserve \in Reserves,
             Measure(available, reserve)
      PROVE  LoadInv'
  BY <1>3, <1>5 DEF Measure
<1>6. CASE UNCHANGED vars
  BY <1>3, <1>6 DEF vars
<1> QED BY <1>1, <1>2, <1>4, <1>5, <1>6 DEF Next

(***************************************************************************)
(* The theorems.                                                            *)
(***************************************************************************)
LEMMA LoadInvAlways == Spec => []LoadInv
BY LoadInvInit, LoadInvStep, PTL DEF Spec

\* cpu_offload's accounting: in any order of arrival the budget is overrun by
\* less than one tensor.
THEOREM BudgetAlwaysKept == Spec => []BudgetKept
<1>1. LoadInv => BudgetKept
  BY DEF LoadInv
<1> QED BY <1>1, LoadInvAlways, PTL

\* _host_quota is decided once, so every block hosts the same share.
THEOREM PlacementEven == Spec => []EvenShare
<1>1. LoadInv => EvenShare
  BY DEF LoadInv
<1> QED BY <1>1, LoadInvAlways, PTL

\* What the blocks take together fits the RAM that was found, but for the row
\* by which each block's share is rounded up.
THEOREM HostAlwaysHolds == Spec => []HostHolds
<1>1. LoadInv => HostHolds
  <2> SUFFICES ASSUME LoadInv, Cached
               PROVE  expertBytes < Positive(conf.hostFree) + Blocks * RowBytes
    BY DEF HostHolds
  <2> DEFINE planned == Cardinality(DOMAIN plan)
  <2>1. /\ RowBytes \in Nat \ {0} /\ Blocks \in Nat \ {0}
        /\ expertBytes \in Nat /\ conf.hostFree \in Int
    BY SizesAssumption, ConfigurationsAssumption, BlockCount
       DEF LoadInv, LoadTypes, Configurations
  <2>2. planned \in Nat /\ planned <= Blocks
    BY BlockCount, FS_Subset, FS_CardinalityType DEF LoadInv, LoadTypes
  <2>3. expertBytes <= RowBytes * (quota * planned)
    BY DEF LoadInv, RowsCounted
  <2>4. Positive(conf.hostFree) \in Nat
    BY <2>1 DEF Positive, Larger
  <2>5. CASE quota = -1
    <3>1. DOMAIN plan = {}
      BY <2>5 DEF LoadInv, QuotaDecided
    <3>2. planned = 0
      BY <3>1, FS_EmptySet
    <3>3. expertBytes <= 0
      BY <2>1, <2>3, <2>5, <3>2
    <3> QED BY <2>1, <2>4, <3>3
  <2>6. CASE quota # -1
    <3>1. quota \in Nat /\ RowBytes * quota * Blocks < Positive(conf.hostFree) + Blocks * RowBytes
      BY <2>6 DEF LoadInv, LoadTypes, QuotaFits
    <3> HIDE DEF planned
    <3>2. quota * planned <= quota * Blocks
      BY <2>1, <2>2, <3>1
    <3>3. quota * planned \in Nat /\ quota * Blocks \in Nat
      BY <2>1, <2>2, <3>1
    <3>4. RowBytes * (quota * planned) <= RowBytes * (quota * Blocks)
      BY <2>1, <3>2, <3>3
    <3>5. RowBytes * (quota * Blocks) = RowBytes * quota * Blocks
      BY <2>1, <3>1
    <3> QED BY <2>1, <2>3, <2>4, <3>1, <3>3, <3>4, <3>5
  <2> QED BY <2>5, <2>6
<1> QED BY <1>1, LoadInvAlways, PTL

\* All that placement promises at once.
THEOREM PlacementAlwaysKept == Spec => []PlacementKept
BY BudgetAlwaysKept, PlacementEven, HostAlwaysHolds, PTL DEF PlacementKept

(***************************************************************************)
(* The cache is built once, after the load, and for good.                   *)
(***************************************************************************)
\* Nothing of the cache is there before the load ends, and the layers it is
\* built for are gone from _PENDING once vLLM has measured.
BuildInv ==
    /\ phase = "load" => pending = {} /\ cache = "none" /\ measured = None
    /\ measured # None => pending = {}
    /\ StaticHoldsAll

\* What StaticHoldsAll compares with the slots is settled by the load.
LEMMA HostedSettled ==
    ASSUME UNCHANGED plan
    PROVE  /\ HostedLayers' = HostedLayers
           /\ \A l : Hosted(l)' = Hosted(l)
BY DEF HostedLayers, Hosted, Labels, HostRows

LEMMA BuildInvStep == BuildInv /\ [Next]_vars => BuildInv'
<1> SUFFICES ASSUME BuildInv, [Next]_vars PROVE BuildInv'
  OBVIOUS
<1>1. ASSUME phase = "load", phase' = "load", UNCHANGED cacheVars
      PROVE  BuildInv'
  BY <1>1 DEF BuildInv, StaticHoldsAll, cacheVars
<1>2. ASSUME NEW d \in Dense, StoreDense(d) PROVE BuildInv'
  BY <1>1, <1>2 DEF StoreDense
<1>3. ASSUME NEW r \in Row, StoreExpert(r) PROVE BuildInv'
  BY <1>1, <1>3 DEF StoreExpert
<1>4. CASE FinishLoad
  BY <1>4 DEF FinishLoad, BuildInv, StaticHoldsAll
<1>5. ASSUME NEW available \in Availables, NEW reserve \in Reserves,
             Measure(available, reserve)
      PROVE  BuildInv'
  <2>1. phase' = "serve" /\ pending' = {} /\ UNCHANGED plan
    BY <1>5 DEF Measure, NowPending, loadVars
  <2>2. CASE UNCHANGED <<staged, cache, slots>>
    BY <2>1, <2>2, HostedSettled DEF BuildInv, StaticHoldsAll
  <2>3. CASE cache' # "static"
    BY <2>1, <2>3 DEF BuildInv, StaticHoldsAll
  <2>4. CASE staged' = {} /\ \A l \in HostedLayers : slots'[l] >= Cardinality(Hosted(l))
    <3>1. \A l \in HostedLayers : Hosted(l) # {}
      BY DEF HostedLayers, Hosted, Labels
    <3> QED BY <2>1, <2>4, <3>1, HostedSettled DEF BuildInv, StaticHoldsAll
  <2> QED BY <1>5, <2>2, <2>3, <2>4 DEF Measure, Build, HoldsEverything
<1>6. CASE UNCHANGED vars
  <2>1. UNCHANGED <<phase, plan, staged, pending, cache, slots, measured>>
    BY <1>6 DEF vars, loadVars, cacheVars
  <2> QED BY <2>1, HostedSettled DEF BuildInv, StaticHoldsAll
<1> QED BY <1>2, <1>3, <1>4, <1>5, <1>6 DEF Next

LEMMA BuildInvAlways == Spec => []BuildInv
<1>1. Init => BuildInv
  BY DEF Init, BuildInv, StaticHoldsAll
<1> QED BY <1>1, BuildInvStep, PTL DEF Spec

\* _STATIC: with the controller left out no expert is without a slot, and no
\* layer is left to stage into a window that KV may own.
THEOREM StaticAlwaysHoldsAll == Spec => []StaticHoldsAll
<1>1. BuildInv => StaticHoldsAll
  BY DEF BuildInv
<1> QED BY <1>1, BuildInvAlways, PTL

\* Once the cache is built no later call of determine_available_memory, and
\* nothing else, moves a slot or the window: graphs may capture them.
THEOREM CacheBuiltOnce == Spec => BuiltOnce
<1>1. BuildInv /\ [Next]_vars
        => [measured # None => UNCHANGED <<cache, slots, window, staged>>]_vars
  <2> SUFFICES ASSUME BuildInv, Next, measured # None
               PROVE  UNCHANGED <<cache, slots, window, staged>>
    OBVIOUS
  <2>1. phase # "load" /\ pending = {}
    BY DEF BuildInv
  <2> QED BY <2>1 DEF Next, StoreDense, StoreExpert, FinishLoad, Measure
<1> QED BY <1>1, BuildInvAlways, PTL DEF Spec, BuiltOnce

(***************************************************************************)
(* Sums, counted, and the largest of a finite set.                          *)
(***************************************************************************)
Units(f) == UNION {{x} \X (1 .. f[x]) : x \in DOMAIN f}

LEMMA UnitsAre == ASSUME NEW f PROVE \A z : z \in Units(f) <=> \E x \in DOMAIN f : \E n \in 1 .. f[x] : z = <<x, n>>
BY DEF Units

LEMMA UnitsFinite ==
    ASSUME NEW f, IsFiniteSet(DOMAIN f), \A x \in DOMAIN f : f[x] \in Nat
    PROVE  IsFiniteSet(Units(f)) /\ Total(f) = Cardinality(Units(f)) /\ Total(f) \in Nat
<1> DEFINE pile == [x \in DOMAIN f |-> {x} \X (1 .. f[x])]
           piles == {{x} \X (1 .. f[x]) : x \in DOMAIN f}
<1>1. pile \in Surjection(DOMAIN f, piles)
  BY DEF Surjection
<1>2. IsFiniteSet(piles)
  <2> HIDE DEF pile, piles
  <2> QED BY <1>1, FS_Surjection
<1>3. \A T \in piles : IsFiniteSet(T)
  <2>1. ASSUME NEW x \in DOMAIN f PROVE IsFiniteSet({x} \X (1 .. f[x]))
    <3>1. PICK n \in Int : f[x] = n
      OBVIOUS
    <3>2. IsFiniteSet(1 .. n)
      BY FS_Interval
    <3>3. IsFiniteSet({x})
      BY FS_Singleton
    <3> QED BY <3>1, <3>2, <3>3, FS_Product
  <2> QED BY <2>1
<1>4. IsFiniteSet(Units(f))
  <2> HIDE DEF piles
  <2>1. IsFiniteSet(UNION piles)
    BY <1>2, <1>3, FS_UNION
  <2> QED BY <2>1 DEF Units, piles
<1> QED BY <1>4, FS_CardinalityType DEF Total, Units

\* A value and the sum of others lie within the whole sum.
LEMMA TotalWithin ==
    ASSUME NEW f, IsFiniteSet(DOMAIN f), \A x \in DOMAIN f : f[x] \in Nat,
           NEW y \in DOMAIN f, NEW A \in SUBSET (DOMAIN f \ {y})
    PROVE  Total([x \in A |-> f[x]]) + f[y] <= Total(f)
<1> DEFINE g == [x \in A |-> f[x]]
           own == {y} \X (1 .. f[y])
<1>1. DOMAIN g = A /\ IsFiniteSet(A) /\ \A x \in A : g[x] = f[x] /\ g[x] \in Nat
  BY FS_Subset
<1> HIDE DEF g
<1>2. IsFiniteSet(Units(g)) /\ Total(g) = Cardinality(Units(g))
  BY <1>1, UnitsFinite
<1>3. IsFiniteSet(Units(f)) /\ Total(f) = Cardinality(Units(f))
  BY UnitsFinite
<1>4. IsFiniteSet(own) /\ Cardinality(own) = f[y]
  <2>1. IsFiniteSet({y}) /\ Cardinality({y}) = 1
    BY FS_Singleton
  <2>2. PICK n \in Nat : f[y] = n
    OBVIOUS
  <2>3. IsFiniteSet(1 .. n) /\ Cardinality(1 .. n) = n
    BY FS_Interval
  <2>4. IsFiniteSet(own) /\ Cardinality(own) = Cardinality({y}) * Cardinality(1 .. n)
    BY <2>1, <2>2, <2>3, FS_Product
  <2> QED BY <2>1, <2>2, <2>3, <2>4
<1>5. Units(g) \cup own \in SUBSET Units(f)
  BY <1>1, UnitsAre
<1>6. Units(g) \cap own = {}
  BY <1>1, UnitsAre
<1> HIDE DEF own
<1>7. Cardinality(Units(g) \cap own) = 0
  BY <1>6, FS_EmptySet
<1>8. Cardinality(Units(g) \cup own)
        = Cardinality(Units(g)) + Cardinality(own) - Cardinality(Units(g) \cap own)
  BY <1>2, <1>4, FS_Union
<1>9. Cardinality(Units(g) \cup own) <= Cardinality(Units(f))
  BY <1>3, <1>5, FS_Subset
<1>10. Cardinality(Units(g)) \in Nat /\ Cardinality(own) \in Nat
  BY <1>2, <1>4, FS_CardinalityType
<1> QED BY <1>2, <1>3, <1>4, <1>7, <1>8, <1>9, <1>10 DEF g

\* Values of at most n sum up to at most n of each.
LEMMA TotalAtMost ==
    ASSUME NEW f, IsFiniteSet(DOMAIN f), NEW n \in Nat,
           \A x \in DOMAIN f : f[x] \in Nat /\ f[x] <= n
    PROVE  Total(f) <= Cardinality(DOMAIN f) * n
<1>1. IsFiniteSet(1 .. n) /\ Cardinality(1 .. n) = n
  BY FS_Interval
<1>2. /\ IsFiniteSet((DOMAIN f) \X (1 .. n))
      /\ Cardinality((DOMAIN f) \X (1 .. n)) = Cardinality(DOMAIN f) * n
  BY <1>1, FS_Product
<1>3. Units(f) \in SUBSET ((DOMAIN f) \X (1 .. n))
  BY UnitsAre
<1> QED BY <1>2, <1>3, UnitsFinite, FS_Subset

\* Values of n sum up to n of each.
LEMMA TotalOfEqual ==
    ASSUME NEW f, IsFiniteSet(DOMAIN f), NEW n \in Nat, \A x \in DOMAIN f : f[x] = n
    PROVE  Total(f) = Cardinality(DOMAIN f) * n
<1>1. IsFiniteSet(1 .. n) /\ Cardinality(1 .. n) = n
  BY FS_Interval
<1>2. Cardinality((DOMAIN f) \X (1 .. n)) = Cardinality(DOMAIN f) * n
  BY <1>1, FS_Product
<1>3. Units(f) = (DOMAIN f) \X (1 .. n)
  BY UnitsAre
<1> QED BY <1>2, <1>3, UnitsFinite

LEMMA LargestIn ==
    ASSUME NEW S \in SUBSET Nat, IsFiniteSet(S), S # {}
    PROVE  Max(S) \in S /\ \A y \in S : y <= Max(S)
<1> DEFINE above(x) == {y \in S : y > x}
           N == {Cardinality(above(x)) : x \in S}
<1>1. \A x \in S : IsFiniteSet(above(x)) /\ Cardinality(above(x)) \in Nat
  BY FS_Subset, FS_CardinalityType
<1>2. N \subseteq Nat /\ N # {}
  BY <1>1
<1>3. ASSUME NEW x \in S, NEW y \in S, y > x
      PROVE  Cardinality(above(y)) < Cardinality(above(x))
  <2>1. y \in above(x) /\ y \notin above(y)
    BY <1>3
  <2>2. above(y) \in SUBSET above(x)
    <3>1. \A z \in S : z > y => z > x
      BY <1>3
    <3> QED BY <3>1
  <2> DEFINE small == above(y)
             big == above(x)
  <2>3. small \in SUBSET big /\ small # big /\ IsFiniteSet(big) /\ IsFiniteSet(small)
    BY <1>1, <2>1, <2>2
  <2> HIDE DEF above, small, big
  <2>4. Cardinality(small) < Cardinality(big)
    BY <2>3, FS_Subset, FS_CardinalityType
  <2> QED BY <2>4 DEF small, big
<1>4. PICK n \in N : \A m \in N : ~(<<m, n>> \in OpToRel(<, Nat))
  <2> HIDE DEF N
  <2> QED BY <1>2, WFMin, NatLessThanWellFounded, Zenon
<1>5. \A m \in N : ~(m < n)
  <2> HIDE DEF N
  <2> QED BY <1>2, <1>4, Zenon DEF OpToRel
<1>6. PICK x \in S : n = Cardinality(above(x))
  OBVIOUS
<1>7. \A y \in S : ~(y > x)
  <2> HIDE DEF above
  <2> QED BY <1>3, <1>5, <1>6
<1>8. \A y \in S : y <= x
  BY <1>7
<1> QED BY <1>8 DEF Max

LEMMA LowestIn ==
    ASSUME NEW S \in SUBSET Nat, S # {}
    PROVE  \E x \in S : \A y \in S : x <= y
<1>1. PICK x \in S : \A y \in S : ~(<<y, x>> \in OpToRel(<, Nat))
  BY WFMin, NatLessThanWellFounded, Zenon
<1>2. \A y \in S : ~(y < x)
  BY <1>1, Zenon DEF OpToRel
<1> QED BY <1>2

(***************************************************************************)
(* Host blocks, and where they lie in the staging window.                   *)
(***************************************************************************)
LEMMA RoundUpCovers ==
    ASSUME NEW a \in Nat, NEW b \in Nat \ {0}
    PROVE  RoundUp(a, b) \in Nat /\ a <= b * RoundUp(a, b)
BY DEF RoundUp

LEMMA RowsFinite ==
    ASSUME TypeOK, NEW l, NEW j
    PROVE  /\ HostRows(l, j) \in SUBSET Expert /\ Expert \subseteq Nat
           /\ IsFiniteSet(HostRows(l, j)) /\ Cardinality(HostRows(l, j)) \in 0 .. NumExperts
<1>1. HostRows(l, j) \in SUBSET Expert
  BY DEF TypeOK, HostRows, Matched
<1>2. NumExperts \in Nat \ {0} /\ Expert \subseteq Nat
  BY SizesAssumption DEF Expert
<1>3. IsFiniteSet(Expert) /\ Cardinality(Expert) = NumExperts
  BY <1>2, FS_Interval DEF Expert
<1>4. /\ IsFiniteSet(HostRows(l, j)) /\ Cardinality(HostRows(l, j)) <= NumExperts
      /\ Cardinality(HostRows(l, j)) \in Nat
  BY <1>1, <1>3, FS_Subset, FS_CardinalityType
<1> QED BY <1>1, <1>2, <1>4

LEMMA LayersFinite ==
    ASSUME TypeOK
    PROVE  /\ HostedLayers \in SUBSET Layers /\ IsFiniteSet(HostedLayers)
           /\ \A l : /\ Labels(l) \in SUBSET Projection /\ IsFiniteSet(Labels(l))
                     /\ Cardinality(Labels(l)) \in Nat
                     /\ Cardinality(Hosted(l)) \in 0 .. NumExperts /\ IsFiniteSet(Hosted(l))
<1>1. IsFiniteSet(Layers) /\ IsFiniteSet(Projection)
  BY SizesAssumption
<1>2. HostedLayers \in SUBSET Layers /\ IsFiniteSet(HostedLayers)
  BY <1>1, FS_Subset DEF HostedLayers
<1>3. ASSUME NEW l
      PROVE  /\ Labels(l) \in SUBSET Projection /\ IsFiniteSet(Labels(l))
             /\ Cardinality(Labels(l)) \in Nat
  BY <1>1, FS_Subset, FS_CardinalityType DEF Labels
<1>4. ASSUME NEW l
      PROVE  Cardinality(Hosted(l)) \in 0 .. NumExperts /\ IsFiniteSet(Hosted(l))
  <2>1. \A j : HostRows(l, j) \in SUBSET Expert
    BY RowsFinite
  <2>2. Hosted(l) \in SUBSET Expert
    BY <2>1 DEF Hosted
  <2>3. NumExperts \in Nat \ {0}
    BY SizesAssumption
  <2>4. IsFiniteSet(Expert) /\ Cardinality(Expert) = NumExperts
    BY <2>3, FS_Interval DEF Expert
  <2>5. IsFiniteSet(Hosted(l)) /\ Cardinality(Hosted(l)) <= NumExperts
    BY <2>2, <2>4, FS_Subset
  <2> QED BY <2>3, <2>5, FS_CardinalityType
<1> QED BY <1>2, <1>3, <1>4

LEMMA PaddedCovers ==
    ASSUME TypeOK, NEW l, NEW j
    PROVE  /\ Padded(l, j) \in Nat /\ BlockBytes(l, j) \in Nat
           /\ BlockBytes(l, j) <= Padded(l, j)
<1>1. RowBytes \in Nat \ {0} /\ Align \in Nat \ {0}
  BY SizesAssumption
<1>2. PICK n \in Nat : n = Cardinality(HostRows(l, j))
  BY RowsFinite
<1>3. BlockBytes(l, j) \in Nat
  BY <1>1, <1>2 DEF BlockBytes
<1>4. RoundUp(BlockBytes(l, j), Align) \in Nat
  BY <1>1, <1>3, RoundUpCovers
<1> QED BY <1>1, <1>3, <1>4, RoundUpCovers DEF Padded

\* A block's place ends before the next block's begins, and within the window
\* that its layer needs.
LEMMA PlacesApart ==
    ASSUME TypeOK, NEW l, NEW j \in Labels(l)
    PROVE  /\ Offset(l, j) \in Nat /\ WindowFor(l) \in Nat
           /\ Offset(l, j) + Padded(l, j) <= WindowFor(l)
           /\ \A k \in Labels(l) : j < k => Offset(l, j) + Padded(l, j) <= Offset(l, k)
<1> DEFINE below(k) == {i \in Labels(l) : i < k}
           g(k) == [i \in below(k) |-> Padded(l, i)]
           f == [i \in Labels(l) |-> Padded(l, i)]
<1>1. Labels(l) \in SUBSET Nat /\ IsFiniteSet(Labels(l))
  BY LayersFinite, SizesAssumption
<1>2. \A i : Padded(l, i) \in Nat
  BY PaddedCovers
<1>3. \A k : Offset(l, k) = Total(g(k))
  BY DEF Offset
<1>4. WindowFor(l) = Total(f)
  BY DEF WindowFor
<1>5. \A k : below(k) \in SUBSET Labels(l) /\ IsFiniteSet(below(k))
  BY <1>1, FS_Subset
<1>6. ASSUME NEW k PROVE Total(g(k)) \in Nat
  <2>1. DOMAIN g(k) = below(k) /\ \A i \in below(k) : g(k)[i] \in Nat
    BY <1>2
  <2> DEFINE h == g(k)
  <2>2. IsFiniteSet(DOMAIN h) /\ \A i \in DOMAIN h : h[i] \in Nat
    BY <1>5, <2>1
  <2> HIDE DEF h
  <2>3. Total(h) \in Nat
    BY <2>2, UnitsFinite
  <2> QED BY <2>3 DEF h
<1>7. DOMAIN f = Labels(l) /\ \A i \in Labels(l) : f[i] = Padded(l, i) /\ f[i] \in Nat
  BY <1>2
<1>8. Total(f) \in Nat
  <2> HIDE DEF f
  <2> QED BY <1>1, <1>7, UnitsFinite
<1>9. below(j) \in SUBSET (Labels(l) \ {j})
  BY <1>1
<1>10. Total(g(j)) + Padded(l, j) <= Total(f)
  <2>1. g(j) = [x \in below(j) |-> f[x]]
    BY <1>5, <1>7
  <2> HIDE DEF f, g, below
  <2>2. Total([x \in below(j) |-> f[x]]) + f[j] <= Total(f)
    BY <1>1, <1>7, <1>9, TotalWithin
  <2> QED BY <1>7, <2>1, <2>2
<1>11. ASSUME NEW k \in Labels(l), j < k
       PROVE  Total(g(j)) + Padded(l, j) <= Total(g(k))
  <2> DEFINE h == g(k)
  <2>1. j \in below(k) /\ below(j) \in SUBSET (below(k) \ {j})
    BY <1>1, <1>11
  <2>2. DOMAIN h = below(k) /\ \A i \in below(k) : h[i] = Padded(l, i) /\ h[i] \in Nat
    BY <1>2
  <2>3. g(j) = [x \in below(j) |-> h[x]]
    BY <2>1, <2>2
  <2> HIDE DEF h, f, below, g
  <2>4. Total([x \in below(j) |-> h[x]]) + h[j] <= Total(h)
    BY <1>5, <2>1, <2>2, TotalWithin
  <2>5. Total([x \in below(j) |-> h[x]]) = Total(g(j)) /\ h[j] = Padded(l, j)
    BY <2>1, <2>2, <2>3
  <2>6. Total(h) = Total(g(k))
    BY DEF h
  <2> QED BY <2>4, <2>5, <2>6
<1> HIDE DEF f, g, below
<1> QED BY <1>3, <1>4, <1>6, <1>8, <1>10, <1>11

\* A row lies within its block, and ends before the rows above it begin.
LEMMA RowsApart ==
    ASSUME TypeOK, NEW l, NEW j, NEW e \in HostRows(l, j)
    PROVE  LET At(d) == RowBytes * Cardinality({f \in HostRows(l, j) : f < d})
           IN  /\ At(e) \in Nat /\ At(e) + RowBytes <= BlockBytes(l, j)
               /\ \A d \in HostRows(l, j) : e < d => At(e) + RowBytes <= At(d)
<1> DEFINE R == HostRows(l, j)
           below(d) == {f \in R : f < d}
           c(d) == Cardinality(below(d))
<1>1. R \subseteq Nat /\ IsFiniteSet(R) /\ Cardinality(R) \in Nat
  BY RowsFinite
<1>2. \A d : below(d) \in SUBSET R
  OBVIOUS
<1>3. \A d : IsFiniteSet(below(d)) /\ c(d) \in Nat
  BY <1>1, <1>2, FS_Subset, FS_CardinalityType
<1>4. ASSUME NEW T \in SUBSET R, e \in T, below(e) \subseteq T
      PROVE  c(e) + 1 <= Cardinality(T)
  <2>1. e \notin below(e)
    BY <1>1
  <2>2. IsFiniteSet(T) /\ Cardinality(T) \in Nat
    BY <1>1, FS_Subset, FS_CardinalityType
  <2> DEFINE s == below(e)
  <2>3. s \in SUBSET T /\ s # T /\ IsFiniteSet(s)
    BY <1>3, <1>4, <2>1
  <2> HIDE DEF s, R
  <2>4. Cardinality(s) < Cardinality(T) /\ Cardinality(s) \in Nat
    BY <2>2, <2>3, FS_Subset, FS_CardinalityType
  <2> QED BY <2>2, <2>4 DEF s
<1>5. RowBytes \in Nat \ {0}
  BY SizesAssumption
<1>6. c(e) + 1 <= Cardinality(R)
  BY <1>2, <1>4
<1>7. ASSUME NEW d \in R, e < d PROVE c(e) + 1 <= c(d)
  <2>1. e \in below(d) /\ below(e) \subseteq below(d)
    BY <1>1, <1>7
  <2> QED BY <1>2, <1>4, <2>1
<1> HIDE DEF c, below
<1>8. RowBytes * c(e) \in Nat /\ RowBytes * (c(e) + 1) = RowBytes * c(e) + RowBytes
  BY <1>3, <1>5
<1>9. ASSUME NEW n \in Nat, c(e) + 1 <= n PROVE RowBytes * c(e) + RowBytes <= RowBytes * n
  <2>1. RowBytes * (c(e) + 1) <= RowBytes * n
    BY <1>3, <1>5, <1>9
  <2> QED BY <1>8, <2>1
<1>10. RowBytes * c(e) + RowBytes <= BlockBytes(l, j)
  BY <1>1, <1>6, <1>9 DEF BlockBytes
<1>11. \A d \in R : e < d => RowBytes * c(e) + RowBytes <= RowBytes * c(d)
  BY <1>3, <1>7, <1>9
<1> QED BY <1>8, <1>10, <1>11 DEF c, below

\* The layers that stage find their window large enough.
Windowed == \A l \in staged : l \in HostedLayers /\ WindowFor(l) <= window

LEMMA StagingAlwaysFits == TypeOK /\ Windowed => StagingFits
<1> SUFFICES ASSUME TypeOK, Windowed, NEW l \in staged
             PROVE  LET rows == {r \in Projection \X Expert : r[2] \in HostRows(l, r[1])}
                        Start(r) == RowOffset(l, r[1], r[2])
                    IN  /\ \A r \in rows : Start(r) + RowBytes <= window
                        /\ \A r, s \in rows : r # s => \/ Start(r) + RowBytes <= Start(s)
                                                      \/ Start(s) + RowBytes <= Start(r)
  BY DEF StagingFits
<1> DEFINE rows == {r \in Projection \X Expert : r[2] \in HostRows(l, r[1])}
           Start(r) == RowOffset(l, r[1], r[2])
           At(r) == RowBytes * Cardinality({f \in HostRows(l, r[1]) : f < r[2]})
<1>1. window \in Nat /\ RowBytes \in Nat
  BY SizesAssumption DEF TypeOK
<1>2. ASSUME NEW r \in rows
      PROVE  /\ r[1] \in Labels(l) /\ r[1] \in Nat /\ r[2] \in HostRows(l, r[1]) /\ r[2] \in Nat
             /\ Start(r) = Offset(l, r[1]) + At(r)
             /\ Offset(l, r[1]) \in Nat /\ At(r) \in Nat /\ Padded(l, r[1]) \in Nat
             /\ At(r) + RowBytes <= Padded(l, r[1])
             /\ Offset(l, r[1]) + Padded(l, r[1]) <= window
  <2>1. r[1] \in Projection /\ r[2] \in HostRows(l, r[1])
    OBVIOUS
  <2>2. r[1] \in Labels(l) /\ r[1] \in Nat /\ r[2] \in Nat
    BY <2>1, RowsFinite, SizesAssumption DEF Labels
  <2>3. At(r) \in Nat /\ At(r) + RowBytes <= BlockBytes(l, r[1])
    BY <2>1, RowsApart
  <2>4. /\ Padded(l, r[1]) \in Nat /\ BlockBytes(l, r[1]) \in Nat
        /\ BlockBytes(l, r[1]) <= Padded(l, r[1])
    BY PaddedCovers
  <2>5. /\ Offset(l, r[1]) \in Nat /\ WindowFor(l) \in Nat
        /\ Offset(l, r[1]) + Padded(l, r[1]) <= WindowFor(l)
    BY <2>2, PlacesApart
  <2>6. WindowFor(l) <= window
    BY DEF Windowed
  <2>7. Start(r) = Offset(l, r[1]) + At(r)
    BY DEF RowOffset
  <2> HIDE DEF Start, At
  <2>8. At(r) + RowBytes <= Padded(l, r[1])
    BY <1>1, <2>3, <2>4
  <2>9. Offset(l, r[1]) + Padded(l, r[1]) <= window
    BY <1>1, <2>4, <2>5, <2>6
  <2> QED BY <2>1, <2>2, <2>3, <2>4, <2>5, <2>7, <2>8, <2>9
<1>3. ASSUME NEW r \in rows PROVE Start(r) + RowBytes <= window
  <2> HIDE DEF rows, Start, At
  <2> QED BY <1>1, <1>2
<1>4. ASSUME NEW r \in rows, NEW s \in rows, r[1] < s[1]
      PROVE  Start(r) + RowBytes <= Start(s)
  <2>1. Offset(l, r[1]) + Padded(l, r[1]) <= Offset(l, s[1])
    BY <1>2, <1>4, PlacesApart
  <2> HIDE DEF rows, Start, At
  <2> QED BY <1>1, <1>2, <2>1
<1>5. ASSUME NEW r \in rows, NEW s \in rows, r[1] = s[1], r[2] < s[2]
      PROVE  Start(r) + RowBytes <= Start(s)
  <2>1. At(r) + RowBytes <= At(s)
    BY <1>2, <1>5, RowsApart
  <2> HIDE DEF rows, Start, At
  <2> QED BY <1>1, <1>2, <1>5, <2>1
<1>6. ASSUME NEW r \in rows, NEW s \in rows, r # s
      PROVE  r[1] < s[1] \/ s[1] < r[1] \/ (r[1] = s[1] /\ (r[2] < s[2] \/ s[2] < r[2]))
  <2>1. r[1] # s[1] \/ r[2] # s[2]
    BY <1>6
  <2>2. {r[1], s[1], r[2], s[2]} \subseteq Nat
    BY <1>2
  <2> QED BY <2>1, <2>2
<1>7. \A r, s \in rows : r # s => \/ Start(r) + RowBytes <= Start(s)
                                  \/ Start(s) + RowBytes <= Start(r)
  <2> HIDE DEF rows, Start, At
  <2>1. ASSUME NEW r \in rows, NEW s \in rows, r # s
        PROVE  Start(r) + RowBytes <= Start(s) \/ Start(s) + RowBytes <= Start(r)
    BY <1>4, <1>5, <1>6, <2>1
  <2> QED BY <2>1
<1> QED BY <1>3, <1>7

(***************************************************************************)
(* The invariant of the memory: what each phase leaves for the next.        *)
(***************************************************************************)
Empty == [l \in Layers |-> 0]

\* The model is served when all of its rows are there.
Loaded == phase = "serve" => Row \subseteq arrived

\* With every row selected the host blocks hold a quota of rows per planned block.
RowsExact ==
    Cached /\ conf.matching = Row
        => expertBytes = RowBytes * (quota * Cardinality(DOMAIN plan))

\* What there is before the cache is built.
Unbuilt ==
    /\ phase = "load" => pending = {} /\ staged = {} /\ window = 0
                          /\ measures = 0 /\ slots = Empty
    /\ pending # {} => phase = "serve" /\ Cached /\ pending = HostedLayers /\ slots = Empty
    /\ measures = 0 => measured = None

\* The slots are those that the memory measured allows.
Sized ==
    measured # None =>
        /\ phase = "serve" /\ Cached /\ HostedLayers # {}
        /\ measured.available \in Nat /\ measured.reserve \in Nat
        /\ slots = Capacity(SlotsWanted(measured.available, measured.reserve))

MemInv ==
    /\ TypeOK /\ Windowed /\ Loaded /\ RowsExact /\ Unbuilt /\ Sized /\ MemoryAccounted

(***************************************************************************)
(* While tensors arrive.                                                    *)
(***************************************************************************)
LEMMA ShareAtMost ==
    ASSUME LoadTypes, NothingGivenBack
    PROVE  Share \in 0 .. NumExperts
<1> DEFINE want == Blocks * NumExperts * RowBytes
           left == Positive(HostLeft)
<1>1. /\ RowBytes \in Nat \ {0} /\ NumExperts \in Nat \ {0} /\ Blocks \in Nat \ {0}
      /\ conf.hostFree \in Int /\ conf.tower \in Nat
      /\ spent \in Nat /\ expertBytes \in Nat
  BY SizesAssumption, ConfigurationsAssumption, BlockCount DEF LoadTypes, Configurations
<1>2. HostLeft \in Int
  BY <1>1 DEF HostLeft
<1>3. left \in Nat /\ (HostLeft < 0 \/ left = HostLeft) /\ (HostLeft < 0 => left = 0)
  BY <1>2 DEF Positive, Larger
<1>4. want \in Nat \ {0}
  BY <1>1
<1>5. CASE want <= HostLeft
  <2>1. Share = NumExperts
    BY <1>5 DEF Share
  <2> QED BY <1>1, <2>1
<1>6. CASE ~(want <= HostLeft)
  <2>1. Share = RoundUp(left * NumExperts, want)
    BY <1>6 DEF Share
  <2>2. left <= want
    BY <1>2, <1>3, <1>4, <1>6
  <2> HIDE DEF left, want
  <2>3. left * NumExperts \in Nat
    BY <1>1, <1>3
  <2>4. Share \in Nat /\ want * Share < left * NumExperts + want
    BY <1>4, <2>1, <2>3, RoundUpBounds
  <2>5. left * NumExperts <= want * NumExperts
    BY <1>1, <1>3, <1>4, <2>2
  <2>6. want * Share < want * (NumExperts + 1)
    <3>1. want * (NumExperts + 1) = want * NumExperts + want /\ want * NumExperts \in Nat
      BY <1>1, <1>4
    <3>2. want * Share \in Nat
      BY <1>4, <2>4
    <3> QED BY <1>1, <1>4, <2>3, <2>4, <2>5, <3>1, <3>2
  <2>7. Share < NumExperts + 1
    <3>1. PICK x \in Nat : x = Share
      BY <2>4
    <3>2. PICK y \in Nat : y = NumExperts + 1
      BY <1>1
    <3>3. want * x < want * y
      BY <2>6, <3>1, <3>2
    <3>4. x < y
      BY <1>4, <3>3
    <3> QED BY <3>1, <3>2, <3>4
  <2> QED BY <1>1, <2>4, <2>7
<1> QED BY <1>5, <1>6

\* Every expert of a block that is selected whole counts: the first n are n.
LEMMA LowestOfAll ==
    ASSUME conf.matching = Row, NEW b \in Block, NEW n \in 0 .. NumExperts
    PROVE  Lowest(b, n) = 0 .. n - 1 /\ Cardinality(Lowest(b, n)) = n
<1>1. NumExperts \in Nat \ {0}
  BY SizesAssumption
<1>2. Matched(b) = Expert
  BY DEF Matched, Block, Row
<1>3. ASSUME NEW e \in Expert PROVE Cardinality({f \in Matched(b) : f < e}) = e
  <2>1. {f \in Matched(b) : f < e} = 0 .. e - 1
    BY <1>1, <1>2 DEF Expert
  <2>2. PICK m \in Int : m = e - 1
    BY DEF Expert
  <2>3. Cardinality(0 .. m) = IF 0 > m THEN 0 ELSE m - 0 + 1
    BY FS_Interval
  <2>4. e \in Nat
    BY <1>1 DEF Expert
  <2>5. Cardinality(0 .. m) = e
    BY <2>2, <2>3, <2>4
  <2> QED BY <2>1, <2>2, <2>5
<1>4. Lowest(b, n) = 0 .. n - 1
  <2>1. Lowest(b, n) = {e \in Expert : e < n}
    BY <1>2, <1>3 DEF Lowest
  <2> QED BY <1>1, <2>1 DEF Expert
<1>5. Cardinality(0 .. n - 1) = n
  <2>1. PICK m \in Int : m = n - 1
    BY <1>1
  <2>2. Cardinality(0 .. m) = IF 0 > m THEN 0 ELSE m - 0 + 1
    BY FS_Interval
  <2> QED BY <1>1, <2>1, <2>2
<1> QED BY <1>4, <1>5

\* What holds of the cache while there is none yet.
LEMMA StillLoading ==
    ASSUME MemInv, BuildInv, phase = "load", phase' = "load", TypeOK', UNCHANGED cacheVars
    PROVE  Windowed' /\ Loaded' /\ Unbuilt' /\ Sized' /\ MemoryAccounted'
<1>1. /\ pending = {} /\ staged = {} /\ window = 0 /\ measures = 0 /\ slots = Empty
      /\ measured = None
  BY DEF MemInv, BuildInv, Unbuilt
<1>2. UNCHANGED <<window, staged, pending, slots, measured, kv, measures>>
  BY DEF cacheVars
<1> QED BY <1>1, <1>2 DEF Windowed, Loaded, Unbuilt, Sized, MemoryAccounted

LEMMA DenseKeepsMem ==
    ASSUME MemInv, LoadInv', BuildInv, NEW d \in Dense, StoreDense(d)
    PROVE  MemInv'
<1>1. phase = "load" /\ phase' = "load" /\ UNCHANGED cacheVars
  BY DEF StoreDense
<1>2. UNCHANGED <<conf, expertBytes, quota, plan>> /\ arrived' = arrived \cup {d}
  BY DEF StoreDense
<1>3. \A b : Matched(b)' = Matched(b)
  BY <1>2 DEF Matched
<1>4. arrived' \cap Row = arrived \cap Row /\ arrived' \subseteq Row \cup Dense
  BY <1>2, SizesAssumption DEF MemInv, TypeOK
<1>5. spent' \in Nat
  BY DEF LoadInv, LoadTypes
<1>6. UNCHANGED <<window, staged, pending, cache, slots, measured, kv, measures>>
  BY <1>1 DEF cacheVars
<1>7. TypeOK'
  BY <1>1, <1>2, <1>3, <1>4, <1>5, <1>6 DEF MemInv, TypeOK
<1>8. RowsExact'
  BY <1>2 DEF MemInv, RowsExact, Cached
<1> QED BY <1>1, <1>7, <1>8, StillLoading DEF MemInv

LEMMA ExpertKeepsMem ==
    ASSUME MemInv, LoadInv, LoadInv', BuildInv, NEW r \in Row, StoreExpert(r)
    PROVE  MemInv'
<1> DEFINE b == <<r[1], r[2]>>
<1>1. phase = "load" /\ phase' = "load" /\ UNCHANGED cacheVars
  BY DEF StoreExpert
<1>2. conf' = conf /\ arrived' = arrived \cup {r}
  BY DEF StoreExpert
<1>3. \A c : Matched(c)' = Matched(c)
  BY <1>2 DEF Matched
<1>4. UNCHANGED <<window, staged, pending, cache, slots, measured, kv, measures>>
  BY <1>1 DEF cacheVars
<1>5. spent' \in Nat /\ expertBytes' \in Nat
  BY DEF LoadInv, LoadTypes
<1>6. Quota \in 0 .. NumExperts
  BY ShareAtMost DEF Quota, LoadInv, LoadTypes, MemInv, TypeOK
<1>7. Taken(b) \subseteq Matched(b)
  BY DEF Taken, Lowest, TakenByBudget
<1>8. {<<s[1], s[2]>> : s \in arrived' \cap Row} = DOMAIN plan \cup {b}
  BY <1>2 DEF MemInv, TypeOK
<1>9. DOMAIN plan' = DOMAIN plan \cup {b} /\ quota' \in -1 .. NumExperts
  <2>1. quota \in -1 .. NumExperts /\ Quota \in -1 .. NumExperts
    BY <1>6 DEF MemInv, TypeOK
  <2>2. CASE b \in DOMAIN plan
    <3>1. plan' = plan /\ quota' = quota
      BY <2>2 DEF StoreExpert
    <3> QED BY <2>1, <2>2, <3>1
  <2>3. CASE b \notin DOMAIN plan
    <3>1. /\ plan' = [c \in DOMAIN plan \cup {b} |-> IF c = b THEN Taken(b) ELSE plan[c]]
          /\ quota' = IF Cached THEN Quota ELSE quota
      BY <2>3 DEF StoreExpert
    <3> QED BY <2>1, <3>1
  <2> QED BY <2>2, <2>3
<1>10. \A c \in DOMAIN plan' : plan'[c] \subseteq Matched(c)
  BY <1>7, <1>9 DEF StoreExpert, MemInv, TypeOK
<1> HIDE DEF b
<1>11. TypeOK'
  <2>1. /\ conf' \in Configurations /\ phase' \in {"load", "serve"}
        /\ arrived' \subseteq Row \cup Dense
    BY <1>1, <1>2 DEF MemInv, TypeOK
  <2>2. /\ {spent, expertBytes, window, measures}' \subseteq Nat
        /\ quota' \in -1 .. NumExperts
    BY <1>4, <1>5, <1>9 DEF MemInv, TypeOK
  <2>3. /\ DOMAIN plan' = {<<s[1], s[2]>> : s \in arrived' \cap Row}
        /\ \A c \in DOMAIN plan' : plan'[c] \subseteq Matched(c)'
    BY <1>3, <1>8, <1>9, <1>10
  <2> QED BY <1>4, <2>1, <2>2, <2>3 DEF MemInv, TypeOK
<1>12. RowsExact'
  <2> SUFFICES ASSUME Cached, conf.matching = Row
               PROVE  expertBytes' = RowBytes * (quota' * Cardinality(DOMAIN plan'))
    BY <1>2 DEF RowsExact, Cached
  <2>1. CASE b \in DOMAIN plan
    <3>1. UNCHANGED <<expertBytes, quota, plan>>
      BY <2>1 DEF StoreExpert, b
    <3> QED BY <3>1 DEF MemInv, RowsExact
  <2>2. CASE b \notin DOMAIN plan
    <3> DEFINE planned == Cardinality(DOMAIN plan)
               n == Cardinality(Lowest(b, Quota))
    <3>1. quota' = Quota /\ expertBytes' = expertBytes + RowBytes * n
      BY <2>2 DEF StoreExpert, Taken, b
    <3>2. b \in Block
      BY DEF b, Block, Row
    <3>3. n = Quota
      BY <1>6, <3>2, LowestOfAll
    <3>4. IsFiniteSet(DOMAIN plan) /\ planned \in Nat
      BY BlockCount, FS_Subset, FS_CardinalityType DEF LoadInv, LoadTypes
    <3>5. Cardinality(DOMAIN plan') = planned + 1
      BY <1>9, <2>2, <3>4, FS_AddElement
    <3>6. RowBytes \in Nat \ {0} /\ NumExperts \in Nat \ {0} /\ Quota \in Nat
      BY <1>6, SizesAssumption
    <3>7. expertBytes = RowBytes * (Quota * planned)
      <4>1. expertBytes = RowBytes * (quota * planned)
        BY DEF MemInv, RowsExact
      <4>2. CASE DOMAIN plan = {}
        <5>1. planned = 0 /\ quota \in Int
          BY <4>2, FS_EmptySet DEF LoadInv, LoadTypes
        <5>2. quota * 0 = 0 /\ Quota * 0 = 0
          BY <3>6, <5>1
        <5> QED BY <4>1, <5>1, <5>2
      <4>3. CASE DOMAIN plan # {}
        BY <4>1, <4>3 DEF Quota, LoadInv, QuotaDecided
      <4> QED BY <4>2, <4>3
    <3> HIDE DEF n, planned
    <3>8. RowBytes * (Quota * (planned + 1)) = RowBytes * (Quota * planned) + RowBytes * Quota
      BY <3>4, <3>6
    <3> QED BY <3>1, <3>3, <3>5, <3>7, <3>8
  <2> QED BY <2>1, <2>2
<1> QED BY <1>1, <1>11, <1>12, StillLoading DEF MemInv

(***************************************************************************)
(* The end of load.                                                         *)
(***************************************************************************)
\* What depends on the plan alone stays when the plan does.
LEMMA PlanSettled ==
    ASSUME UNCHANGED plan
    PROVE  /\ HostedLayers' = HostedLayers
           /\ \A l : Hosted(l)' = Hosted(l) /\ Labels(l)' = Labels(l) /\ WindowFor(l)' = WindowFor(l)
           /\ \A l, j : HostRows(l, j)' = HostRows(l, j)
<1>1. \A l, j : HostRows(l, j)' = HostRows(l, j)
  BY DEF HostRows
<1>2. /\ HostedLayers' = HostedLayers
      /\ \A l : Hosted(l)' = Hosted(l) /\ Labels(l)' = Labels(l)
  BY <1>1 DEF HostedLayers, Hosted, Labels
<1>3. \A l, j : Padded(l, j)' = Padded(l, j)
  BY <1>1 DEF Padded, BlockBytes
<1>4. \A l : WindowFor(l)' = WindowFor(l)
  BY <1>2, <1>3 DEF WindowFor
<1> QED BY <1>1, <1>2, <1>4

\* The window is the largest that any layer needs.
LEMMA WindowLargest ==
    ASSUME TypeOK, HostedLayers # {}
    PROVE  WindowBytes \in Nat /\ \A l \in HostedLayers : WindowFor(l) <= WindowBytes
<1> DEFINE S == {WindowFor(l) : l \in HostedLayers}
           g == [l \in HostedLayers |-> WindowFor(l)]
<1>1. ASSUME NEW l \in HostedLayers PROVE WindowFor(l) \in Nat
  <2>1. PICK j : j \in Labels(l)
    BY DEF HostedLayers
  <2> QED BY <2>1, PlacesApart
<1>2. S \in SUBSET Nat /\ S # {}
  BY <1>1
<1>3. g \in Surjection(HostedLayers, S)
  BY DEF Surjection
<1>4. IsFiniteSet(S)
  <2> HIDE DEF g, S
  <2> QED BY <1>3, LayersFinite, FS_Surjection
<1>5. Max(S) \in Nat /\ \A y \in S : y <= Max(S)
  <2> HIDE DEF S
  <2> QED BY <1>2, <1>4, LargestIn
<1> QED BY <1>5 DEF WindowBytes

LEMMA FinishKeepsMem ==
    ASSUME MemInv, BuildInv, FinishLoad
    PROVE  MemInv'
<1>1. UNCHANGED <<conf, arrived, spent, expertBytes, quota, plan, cache, slots, measured, kv, measures>>
  BY DEF FinishLoad, loadVars
<1>2. /\ phase = "load" /\ phase' = "serve" /\ Row \subseteq arrived
      /\ staged' = HostedLayers /\ pending' = IF Cached THEN HostedLayers ELSE {}
      /\ window' = IF HostedLayers = {} THEN 0 ELSE WindowBytes
  BY DEF FinishLoad
<1>3. measured = None /\ measures = 0
  BY <1>2 DEF MemInv, Unbuilt, BuildInv
<1>4. window' \in Nat
  BY <1>2, WindowLargest DEF MemInv
<1>5. \A b : Matched(b)' = Matched(b)
  BY <1>1 DEF Matched
<1>6. HostedLayers \subseteq Layers
  BY DEF HostedLayers
<1>7. TypeOK'
  <2>1. /\ conf' \in Configurations /\ phase' \in {"load", "serve"}
        /\ arrived' \subseteq Row \cup Dense
    BY <1>1, <1>2 DEF MemInv, TypeOK
  <2>2. /\ {spent, expertBytes, window, measures}' \subseteq Nat
        /\ quota' \in -1 .. NumExperts
    BY <1>1, <1>4 DEF MemInv, TypeOK
  <2>3. /\ DOMAIN plan' = {<<s[1], s[2]>> : s \in arrived' \cap Row}
        /\ \A c \in DOMAIN plan' : plan'[c] \subseteq Matched(c)'
    BY <1>1, <1>5 DEF MemInv, TypeOK
  <2>4. staged' \subseteq Layers /\ pending' \subseteq Layers
    BY <1>2, <1>6
  <2> QED BY <1>1, <2>1, <2>2, <2>3, <2>4 DEF MemInv, TypeOK
<1>8. Windowed'
  <2>1. \A l \in HostedLayers : WindowFor(l) <= window'
    BY <1>2, WindowLargest DEF MemInv
  <2> QED BY <1>1, <1>2, <2>1, PlanSettled DEF Windowed
<1>9. Loaded' /\ RowsExact'
  BY <1>1, <1>2 DEF MemInv, Loaded, RowsExact, Cached
<1>10. Unbuilt'
  <2>1. Cached' = Cached /\ HostedLayers' = HostedLayers
    BY <1>1, PlanSettled DEF Cached
  <2>2. slots' = Empty
    BY <1>1, <1>2 DEF MemInv, Unbuilt, Empty
  <2> QED BY <1>1, <1>2, <1>3, <2>1, <2>2 DEF Unbuilt
<1>11. Sized' /\ MemoryAccounted'
  BY <1>1, <1>3 DEF Sized, MemoryAccounted
<1> QED BY <1>7, <1>8, <1>9, <1>10, <1>11 DEF MemInv

(***************************************************************************)
(* The slots.                                                               *)
(***************************************************************************)
LEMMA SlotRowIs ==
    ASSUME TypeOK, HostedLayers # {}
    PROVE  /\ First \in HostedLayers /\ \A l \in HostedLayers : First <= l
           /\ Cardinality(HostedLayers) \in Nat \ {0}
           /\ Cardinality(Labels(First)) \in Nat \ {0}
           /\ SlotRow \in Nat \ {0}
<1>1. HostedLayers \in SUBSET Nat
  BY LayersFinite, SizesAssumption
<1>2. First \in HostedLayers /\ \A l \in HostedLayers : First <= l
  BY <1>1, LowestIn DEF First
<1>3. \A l \in HostedLayers : Labels(l) # {}
  BY DEF HostedLayers
<1>4. Cardinality(HostedLayers) \in Nat \ {0}
  BY LayersFinite, FS_CardinalityType, FS_EmptySet
<1>5. Cardinality(Labels(First)) \in Nat \ {0}
  BY <1>2, <1>3, LayersFinite, FS_CardinalityType, FS_EmptySet
<1>6. RowBytes \in Nat \ {0}
  BY SizesAssumption
<1>7. PICK x \in Nat \ {0}, y \in Nat \ {0} :
        x = Cardinality(Labels(First)) /\ y = Cardinality(HostedLayers)
  BY <1>4, <1>5
<1>8. RowBytes * x * y \in Nat \ {0}
  BY <1>6
<1> QED BY <1>2, <1>4, <1>5, <1>7, <1>8 DEF SlotRow

LEMMA PerLayerMaxIs ==
    ASSUME TypeOK, HostedLayers # {}
    PROVE  \E l \in HostedLayers, j \in Projection :
              PerLayerMax = Cardinality(HostRows(l, j)) /\ PerLayerMax \in Nat
<1> DEFINE S == {Cardinality(HostRows(l, j)) : l \in HostedLayers, j \in Projection}
           P == HostedLayers \X Projection
           g == [p \in P |-> Cardinality(HostRows(p[1], p[2]))]
<1>1. Projection # {} /\ IsFiniteSet(Projection)
  BY SizesAssumption
<1>2. \A l, j : Cardinality(HostRows(l, j)) \in Nat
  BY RowsFinite
<1>3. S \in SUBSET Nat /\ S # {}
  <2>1. \A t \in S : t \in Nat
    <3>1. ASSUME NEW t \in S PROVE t \in Nat
      <4>1. PICK l \in HostedLayers, j \in Projection : t = Cardinality(HostRows(l, j))
        OBVIOUS
      <4> QED BY <1>2, <4>1
    <3> QED BY <3>1
  <2>2. PICK l \in HostedLayers, j \in Projection : TRUE
    BY <1>1
  <2>3. Cardinality(HostRows(l, j)) \in S
    OBVIOUS
  <2> QED BY <2>1, <2>3
<1>4. g \in Surjection(P, S)
  <2>1. g \in [P -> S]
    OBVIOUS
  <2>2. \A t \in S : \E p \in P : g[p] = t
    <3>1. ASSUME NEW t \in S PROVE \E p \in P : g[p] = t
      <4>1. PICK l \in HostedLayers, j \in Projection : t = Cardinality(HostRows(l, j))
        OBVIOUS
      <4>2. <<l, j>> \in P /\ g[<<l, j>>] = t
        BY <4>1
      <4> QED BY <4>2
    <3> QED BY <3>1
  <2> HIDE DEF g, S
  <2> QED BY <2>1, <2>2 DEF Surjection
<1>5. IsFiniteSet(P)
  BY <1>1, LayersFinite, FS_Product
<1>6. IsFiniteSet(S)
  <2> HIDE DEF g, S, P
  <2> QED BY <1>4, <1>5, FS_Surjection
<1>7. Max(S) \in S
  <2> HIDE DEF S
  <2> QED BY <1>3, <1>6, LargestIn
<1>8. PerLayerMax = Max(S)
  BY DEF PerLayerMax
<1>9. PICK l \in HostedLayers, j \in Projection : Max(S) = Cardinality(HostRows(l, j))
  <2>1. ASSUME NEW t \in S
        PROVE  \E l \in HostedLayers, j \in Projection : t = Cardinality(HostRows(l, j))
    OBVIOUS
  <2> HIDE DEF S
  <2> QED BY <1>7, <2>1
<1> HIDE DEF S
<1>10. PerLayerMax = Cardinality(HostRows(l, j)) /\ PerLayerMax \in Nat
  BY <1>2, <1>8, <1>9
<1> QED BY <1>10

LEMMA TargetIs ==
    ASSUME LoadTypes, NEW a \in Nat, NEW r \in Nat
    PROVE  /\ Target(a, r) \in Nat /\ Floor \in Nat /\ MayFree \in Nat
           /\ Target(a, r) <= a /\ Target(a, r) <= Larger(Positive(a - r), Floor)
           /\ Target(a, r) \in {a, expertBytes, Larger(Positive(a - r), Floor)}
<1>1. conf.budget \in Nat /\ spent \in Nat /\ expertBytes \in Nat
  BY ConfigurationsAssumption DEF LoadTypes, Configurations
<1>2. MayFree \in Nat
  BY <1>1 DEF MayFree, Positive, Larger
<1>3. Floor \in Nat
  BY <1>1, <1>2 DEF Floor, Positive, Larger
<1>4. Larger(Positive(a - r), Floor) \in Nat
  BY <1>3 DEF Positive, Larger
<1> DEFINE m == Larger(Positive(a - r), Floor)
<1> HIDE DEF m
<1>5. m \in Nat /\ Target(a, r) = Smaller(Smaller(m, expertBytes), a)
  BY <1>4 DEF Target, m
<1>6. /\ Target(a, r) \in Nat /\ Target(a, r) <= a /\ Target(a, r) <= m
      /\ Target(a, r) \in {a, expertBytes, m}
  BY <1>1, <1>5 DEF Smaller
<1> QED BY <1>2, <1>3, <1>6 DEF m

LEMMA QuotientIs ==
    ASSUME NEW a \in Nat, NEW b \in Nat \ {0}
    PROVE  a \div b \in Nat /\ b * (a \div b) <= a /\ a < b * (a \div b) + b
OBVIOUS

\* The slots wanted are at most what the largest block holds, and in the auto
\* mode at most what fits the target.
LEMMA WantedIs ==
    ASSUME TypeOK, LoadTypes, HostedLayers # {}, NEW a \in Nat, NEW r \in Nat
    PROVE  LET n == SlotsWanted(a, r)
           IN  /\ n \in Nat /\ n <= PerLayerMax
               /\ conf.mode # "fixed" =>
                     /\ n * SlotRow <= Target(a, r)
                     /\ n = PerLayerMax \/ Target(a, r) < n * SlotRow + SlotRow
<1>1. PerLayerMax \in Nat
  BY PerLayerMaxIs
<1>2. SlotRow \in Nat \ {0} /\ Target(a, r) \in Nat
  BY SlotRowIs, TargetIs
<1> DEFINE q == Target(a, r) \div SlotRow
<1>3. q \in Nat /\ SlotRow * q <= Target(a, r) /\ Target(a, r) < SlotRow * q + SlotRow
  BY <1>2, QuotientIs
<1>4. FixedSlots \in Nat
  BY ConfigurationsAssumption
<1> HIDE DEF q
<1>5. CASE conf.mode = "fixed"
  BY <1>1, <1>4, <1>5 DEF SlotsWanted, Smaller
<1>6. CASE conf.mode # "fixed"
  <2>1. SlotsWanted(a, r) = Smaller(PerLayerMax, q)
    BY <1>6 DEF SlotsWanted, q
  <2> DEFINE n == SlotsWanted(a, r)
  <2>2. n \in Nat /\ n <= PerLayerMax /\ n <= q /\ (n = PerLayerMax \/ n = q)
    BY <1>1, <1>3, <2>1 DEF Smaller
  <2> HIDE DEF n
  <2>3. n * SlotRow <= q * SlotRow /\ q * SlotRow = SlotRow * q
    BY <1>2, <1>3, <2>2
  <2>4. n * SlotRow \in Nat /\ SlotRow * q \in Nat
    BY <1>2, <1>3, <2>2
  <2>5. n * SlotRow <= Target(a, r)
    BY <1>2, <1>3, <2>3, <2>4
  <2>6. n = q => Target(a, r) < n * SlotRow + SlotRow
    BY <1>3, <2>3
  <2> QED BY <2>2, <2>5, <2>6 DEF n
<1> QED BY <1>5, <1>6

LEMMA CapacityIs ==
    ASSUME TypeOK, NEW n \in Nat
    PROVE  /\ Capacity(n) \in [Layers -> 0 .. NumExperts]
           /\ \A l \in Layers : Capacity(n)[l] <= n
           /\ Capacity(0) = Empty
<1>1. \A l : Cardinality(Hosted(l)) \in 0 .. NumExperts
  BY LayersFinite
<1>2. NumExperts \in Nat
  BY SizesAssumption
<1>3. ASSUME NEW m \in Nat, NEW l
      PROVE  Smaller(m, Cardinality(Hosted(l))) \in 0 .. NumExperts
             /\ Smaller(m, Cardinality(Hosted(l))) <= m
  <2>1. PICK c \in 0 .. NumExperts : c = Cardinality(Hosted(l))
    BY <1>1
  <2> QED BY <1>2, <2>1 DEF Smaller
<1>4. \A l : Smaller(0, Cardinality(Hosted(l))) = 0
  BY <1>2, <1>3
<1> QED BY <1>3, <1>4 DEF Capacity, Empty

\* What the slots use, at most and exactly.
LEMMA UsedIs ==
    ASSUME TypeOK, NEW c \in [Layers -> 0 .. NumExperts]
    PROVE  /\ Used(c) \in Nat
           /\ \A n \in Nat :
                (\A l \in HostedLayers : c[l] * RowBytes * Cardinality(Labels(l)) <= n)
                  => Used(c) <= Cardinality(HostedLayers) * n
           /\ \A n \in Nat :
                (\A l \in HostedLayers : c[l] * RowBytes * Cardinality(Labels(l)) = n)
                  => Used(c) = Cardinality(HostedLayers) * n
<1> DEFINE f == [l \in HostedLayers |-> c[l] * RowBytes * Cardinality(Labels(l))]
<1>1. Used(c) = Total(f)
  BY DEF Used
<1>2. RowBytes \in Nat /\ NumExperts \in Nat
  BY SizesAssumption
<1>3. ASSUME NEW l \in HostedLayers PROVE c[l] * RowBytes * Cardinality(Labels(l)) \in Nat
  <2>1. c[l] \in Nat /\ Cardinality(Labels(l)) \in Nat
    BY <1>2, LayersFinite
  <2>2. PICK x \in Nat, y \in Nat : x = c[l] /\ y = Cardinality(Labels(l))
    BY <2>1
  <2>3. x * RowBytes * y \in Nat
    BY <1>2
  <2> QED BY <2>2, <2>3
<1>4. /\ DOMAIN f = HostedLayers /\ IsFiniteSet(HostedLayers)
      /\ \A l \in HostedLayers : f[l] = c[l] * RowBytes * Cardinality(Labels(l)) /\ f[l] \in Nat
  BY <1>3, LayersFinite
<1> HIDE DEF f
<1>5. Total(f) \in Nat
  BY <1>4, UnitsFinite
<1>6. ASSUME NEW n \in Nat, \A l \in HostedLayers : c[l] * RowBytes * Cardinality(Labels(l)) <= n
      PROVE  Total(f) <= Cardinality(HostedLayers) * n
  <2>1. \A x \in DOMAIN f : f[x] \in Nat /\ f[x] <= n
    BY <1>4, <1>6
  <2>2. Total(f) <= Cardinality(DOMAIN f) * n
    BY <1>4, <2>1, TotalAtMost
  <2> QED BY <1>4, <2>2
<1>7. ASSUME NEW n \in Nat, \A l \in HostedLayers : c[l] * RowBytes * Cardinality(Labels(l)) = n
      PROVE  Total(f) = Cardinality(HostedLayers) * n
  <2>1. \A x \in DOMAIN f : f[x] = n
    BY <1>4, <1>7
  <2>2. Total(f) = Cardinality(DOMAIN f) * n
    BY <1>4, <2>1, TotalOfEqual
  <2> QED BY <1>4, <2>2
<1> QED BY <1>1, <1>5, <1>6, <1>7

LEMMA EmptyUsesNone == ASSUME TypeOK PROVE Used(Empty) = 0
<1>1. NumExperts \in Nat /\ RowBytes \in Nat
  BY SizesAssumption
<1>2. Empty \in [Layers -> 0 .. NumExperts] /\ \A l \in Layers : Empty[l] = 0
  BY <1>1 DEF Empty
<1>3. ASSUME NEW l \in HostedLayers PROVE Empty[l] * RowBytes * Cardinality(Labels(l)) = 0
  <2>1. PICK y \in Nat : y = Cardinality(Labels(l))
    BY LayersFinite
  <2>2. 0 * RowBytes * y = 0
    BY <1>1
  <2>3. Empty[l] = 0
    BY <1>2, LayersFinite
  <2> QED BY <2>1, <2>2, <2>3
<1>4. Used(Empty) = Cardinality(HostedLayers) * 0
  BY <1>2, <1>3, UsedIs
<1>5. Cardinality(HostedLayers) \in Nat
  BY LayersFinite, FS_CardinalityType
<1> QED BY <1>4, <1>5

(***************************************************************************)
(* When vLLM measures.                                                      *)
(***************************************************************************)
\* The size of the slots is settled by the load.
LEMMA SizesSettled ==
    ASSUME UNCHANGED <<conf, spent, expertBytes, plan>>
    PROVE  /\ \A a, r : SlotsWanted(a, r)' = SlotsWanted(a, r)
           /\ \A n : Capacity(n)' = Capacity(n)
           /\ \A c : Used(c)' = Used(c)
<1>1. /\ HostedLayers' = HostedLayers
      /\ \A l : Hosted(l)' = Hosted(l) /\ Labels(l)' = Labels(l)
      /\ \A l, j : HostRows(l, j)' = HostRows(l, j)
  BY PlanSettled
<1>2. First' = First /\ PerLayerMax' = PerLayerMax
  BY <1>1 DEF First, PerLayerMax
<1>3. SlotRow' = SlotRow
  BY <1>1, <1>2 DEF SlotRow
<1>4. MayFree' = MayFree
  BY DEF MayFree
<1>5. Floor' = Floor
  BY <1>4 DEF Floor
<1>6. \A a, r : Target(a, r)' = Target(a, r)
  BY <1>5 DEF Target
<1>7. \A a, r : SlotsWanted(a, r)' = SlotsWanted(a, r)
  BY <1>2, <1>3, <1>6 DEF SlotsWanted
<1>8. \A n : Capacity(n)' = Capacity(n)
  BY <1>1 DEF Capacity
<1>9. \A c : Used(c)' = Used(c)
  BY <1>1 DEF Used
<1> QED BY <1>7, <1>8, <1>9

\* What does not touch what the load settled.
LEMMA ServingTyped ==
    ASSUME MemInv, UNCHANGED <<conf, phase, arrived, spent, expertBytes, quota, plan>>,
           window' \in Nat, measures' \in Nat, staged' \subseteq staged, pending' \subseteq pending,
           cache' \in {"none", "static", "live"}, slots' \in [Layers -> 0 .. NumExperts],
           measured' = None \/ DOMAIN measured' = {"available", "reserve", "window"},
           kv' = None \/ kv' \in Int
    PROVE  TypeOK' /\ Loaded' /\ RowsExact'
<1>1. \A b : Matched(b)' = Matched(b)
  BY DEF Matched
<1>2. /\ conf' \in Configurations /\ phase' \in {"load", "serve"}
      /\ arrived' \subseteq Row \cup Dense
  BY DEF MemInv, TypeOK
<1>3. {spent, expertBytes, window, measures}' \subseteq Nat /\ quota' \in -1 .. NumExperts
  BY DEF MemInv, TypeOK
<1>4. /\ DOMAIN plan' = {<<s[1], s[2]>> : s \in arrived' \cap Row}
      /\ \A c \in DOMAIN plan' : plan'[c] \subseteq Matched(c)'
  BY <1>1 DEF MemInv, TypeOK
<1>5. staged' \subseteq Layers /\ pending' \subseteq Layers
  BY DEF MemInv, TypeOK
<1>6. TypeOK'
  BY <1>2, <1>3, <1>4, <1>5 DEF TypeOK
<1>7. Loaded' /\ RowsExact'
  BY DEF MemInv, Loaded, RowsExact, Cached
<1> QED BY <1>6, <1>7

\* A call that finds nothing pending changes only what it returns.
LEMMA MeasureAgainKeepsMem ==
    ASSUME MemInv, NEW available \in Availables, NEW reserve \in Reserves,
           Measure(available, reserve), pending = {}
    PROVE  MemInv'
<1>1. /\ UNCHANGED <<conf, phase, arrived, spent, expertBytes, quota, plan>>
      /\ UNCHANGED <<window, staged, cache, slots, measured>>
      /\ phase = "serve" /\ pending' = {} /\ kv' = available /\ measures' = measures + 1
  BY DEF Measure, loadVars, NowPending
<1>2. available \in Int /\ measures \in Nat /\ measures' \in Nat /\ measures' # 0
  BY <1>1, ConfigurationsAssumption DEF MemInv, TypeOK
<1>3. TypeOK' /\ Loaded' /\ RowsExact'
  BY <1>1, <1>2, ServingTyped DEF MemInv, TypeOK
<1>4. Windowed'
  BY <1>1, PlanSettled DEF MemInv, Windowed
<1>5. Unbuilt'
  BY <1>1, <1>2 DEF Unbuilt
<1>6. Sized'
  BY <1>1, PlanSettled, SizesSettled DEF MemInv, Sized, Cached
<1>7. MemoryAccounted'
  BY <1>1, <1>2 DEF MemInv, Unbuilt, MemoryAccounted
<1> QED BY <1>3, <1>4, <1>5, <1>6, <1>7 DEF MemInv

\* The call that builds the cache takes from what was measured what the slots
\* use, and adds the window that nobody needs any more.
LEMMA BuildKeepsMem ==
    ASSUME MemInv, LoadInv, NEW available \in Availables, NEW reserve \in Reserves,
           Measure(available, reserve), pending # {}
    PROVE  MemInv'
<1> DEFINE n == SlotsWanted(available, reserve)
           c == Capacity(n)
<1>1. /\ UNCHANGED <<conf, phase, arrived, spent, expertBytes, quota, plan>>
      /\ phase = "serve" /\ pending' = {} /\ measures' = measures + 1
      /\ Build(available, reserve)
      /\ measured' = [available |-> available, reserve |-> reserve, window |-> window]
  BY DEF Measure, loadVars, NowPending
<1>2. available \in Nat /\ reserve \in Nat
  BY ConfigurationsAssumption
<1>3. Cached /\ pending = HostedLayers /\ slots = Empty /\ TypeOK /\ LoadTypes
  BY DEF MemInv, Unbuilt, LoadInv
<1>4. n \in Nat
  BY <1>2, <1>3, WantedIs
<1>5. /\ c \in [Layers -> 0 .. NumExperts] /\ Capacity(0) = Empty /\ Used(c) \in Nat
  BY <1>3, <1>4, CapacityIs, UsedIs
<1>6. window \in Nat /\ measures \in Nat /\ staged \subseteq Layers
  BY <1>3 DEF TypeOK
<1>7. /\ slots' = c /\ window' \in Nat /\ staged' \subseteq staged
      /\ cache' \in {"none", "static", "live"} /\ kv' \in Int
      /\ kv' + Used(c) + window' = available + window
      /\ staged' = {} \/ window' = window
  <2>1. CASE n = 0
    <3>1. UNCHANGED <<window, staged, cache, slots>> /\ kv' = available
      BY <1>1, <2>1 DEF Build
    <3>2. c = Empty /\ Used(c) = 0
      BY <1>3, <1>5, <2>1, EmptyUsesNone
    <3>3. kv' + Used(c) + window' = available + window
      BY <1>2, <1>6, <3>1, <3>2
    <3>4. cache \in {"none", "static", "live"}
      BY <1>3 DEF TypeOK
    <3> QED BY <1>2, <1>3, <1>6, <3>1, <3>2, <3>3, <3>4
  <2>2. CASE n # 0 /\ HoldsEverything(c)
    <3>1. /\ slots' = c /\ cache' = "static" /\ window' = 0 /\ staged' = {}
          /\ kv' = available - (Used(c) - window)
      BY <1>1, <2>2 DEF Build, FreedWindow
    <3> HIDE DEF c, n
    <3> QED BY <1>2, <1>5, <1>6, <3>1
  <2>3. CASE n # 0 /\ ~HoldsEverything(c)
    <3>1. /\ slots' = c /\ cache' = "live" /\ UNCHANGED <<window, staged>>
          /\ kv' = available - Used(c)
      BY <1>1, <2>3 DEF Build
    <3> HIDE DEF c, n
    <3> QED BY <1>2, <1>5, <1>6, <3>1
  <2> QED BY <2>1, <2>2, <2>3
<1> HIDE DEF c
<1>8. DOMAIN measured' = {"available", "reserve", "window"}
  BY <1>1
<1>9. TypeOK' /\ Loaded' /\ RowsExact'
  BY <1>1, <1>5, <1>6, <1>7, <1>8, ServingTyped
<1>10. Windowed'
  BY <1>1, <1>7, PlanSettled DEF MemInv, Windowed
<1>11. Unbuilt'
  BY <1>1, <1>6 DEF Unbuilt
<1>12. /\ measured'.available = available /\ measured'.reserve = reserve
       /\ measured'.window = window
  BY <1>1
<1>13. Sized'
  <2>1. Cached' /\ HostedLayers' # {} /\ phase' = "serve"
    BY <1>1, <1>3, PlanSettled DEF Cached
  <2>2. Capacity(SlotsWanted(measured.available, measured.reserve))' = c
    <3>1. SlotsWanted(measured.available, measured.reserve)' = n
      BY <1>1, <1>12, SizesSettled
    <3> QED BY <1>1, <3>1, SizesSettled DEF c
  <2> QED BY <1>2, <1>7, <1>12, <2>1, <2>2 DEF Sized
<1>14. MemoryAccounted'
  <2>1. Used(slots)' = Used(c)
    BY <1>1, <1>7, SizesSettled
  <2> QED BY <1>7, <1>12, <2>1 DEF MemoryAccounted
<1> QED BY <1>9, <1>10, <1>11, <1>13, <1>14 DEF MemInv

LEMMA MemInvInit == Init => MemInv
<1> SUFFICES ASSUME Init PROVE MemInv
  OBVIOUS
<1>1. conf.tower \in Nat /\ NumExperts \in Nat \ {0}
  BY SizesAssumption, ConfigurationsAssumption DEF Init, Configurations
<1>2. DOMAIN plan = {} /\ {<<r[1], r[2]>> : r \in arrived \cap Row} = {}
  BY DEF Init
<1>3. TypeOK
  BY <1>1, <1>2 DEF Init, TypeOK
<1>4. RowsExact
  <2>1. Cardinality(DOMAIN plan) = 0 /\ quota = -1 /\ expertBytes = 0
    BY <1>2, FS_EmptySet DEF Init
  <2>2. RowBytes * (-1 * 0) = 0
    BY SizesAssumption
  <2> QED BY <2>1, <2>2 DEF RowsExact
<1>5. Windowed /\ Loaded /\ Unbuilt /\ Sized /\ MemoryAccounted
  BY DEF Init, Windowed, Loaded, Unbuilt, Sized, MemoryAccounted, Empty
<1> QED BY <1>3, <1>4, <1>5 DEF MemInv

LEMMA MemInvStep == MemInv /\ LoadInv /\ LoadInv' /\ BuildInv /\ [Next]_vars => MemInv'
<1> SUFFICES ASSUME MemInv, LoadInv, LoadInv', BuildInv, [Next]_vars PROVE MemInv'
  OBVIOUS
<1>1. ASSUME NEW d \in Dense, StoreDense(d) PROVE MemInv'
  BY <1>1, DenseKeepsMem
<1>2. ASSUME NEW r \in Row, StoreExpert(r) PROVE MemInv'
  BY <1>2, ExpertKeepsMem
<1>3. CASE FinishLoad
  BY <1>3, FinishKeepsMem
<1>4. ASSUME NEW available \in Availables, NEW reserve \in Reserves,
             Measure(available, reserve)
      PROVE  MemInv'
  BY <1>4, MeasureAgainKeepsMem, BuildKeepsMem
<1>5. CASE UNCHANGED vars
  <2>1. /\ UNCHANGED <<conf, phase, arrived, spent, expertBytes, quota, plan>>
        /\ UNCHANGED <<window, staged, pending, cache, slots, measured, kv, measures>>
    BY <1>5 DEF vars, loadVars, cacheVars
  <2>2. TypeOK' /\ Loaded' /\ RowsExact'
    BY <2>1, ServingTyped DEF MemInv, TypeOK
  <2>3. Windowed'
    BY <2>1, PlanSettled DEF MemInv, Windowed
  <2>4. Unbuilt' /\ Sized' /\ MemoryAccounted'
    BY <2>1, PlanSettled, SizesSettled
       DEF MemInv, Unbuilt, Sized, MemoryAccounted, Cached, Empty
  <2> QED BY <2>2, <2>3, <2>4 DEF MemInv
<1> QED BY <1>1, <1>2, <1>3, <1>4, <1>5 DEF Next

LEMMA MemInvAlways == Spec => []MemInv
BY MemInvInit, MemInvStep, LoadInvAlways, BuildInvAlways, PTL DEF Spec

(***************************************************************************)
(* The slots against the reserve and the budget.                            *)
(***************************************************************************)
\* The projections of a layer that selectors match.
Selected(m, l) == {j \in Projection : \E e \in Expert : <<l, j, e>> \in m}

\* build sizes a slot by the first layer it hosts: no other layer may have more
\* projections that the selectors match.
FirstFullest ==
    \A m \in Selections : \A k \in Layers :
        Selected(m, k) # {} /\ (\A i \in Layers : Selected(m, i) # {} => k <= i)
            => \A l \in Layers : Cardinality(Selected(m, l)) <= Cardinality(Selected(m, k))

\* Once served, a block hosts the lowest of its experts, as many as the quota.
LEMMA ServedShare ==
    ASSUME MemInv, LoadInv, phase = "serve", Cached, HostedLayers # {}
    PROVE  /\ quota \in 1 .. NumExperts
           /\ \A b \in Block : b \in DOMAIN plan /\ plan[b] = Lowest(b, quota)
           /\ DOMAIN plan = Block
           /\ \A l \in Layers : Labels(l) = Selected(conf.matching, l)
<1>1. DOMAIN plan = Block
  <2>1. arrived \cap Row = Row
    BY DEF MemInv, Loaded
  <2>2. DOMAIN plan = {<<r[1], r[2]>> : r \in Row}
    BY <2>1 DEF MemInv, TypeOK
  <2>3. 0 \in Expert
    BY SizesAssumption DEF Expert
  <2>4. \A b \in Block : <<b[1], b[2], 0>> \in Row /\ b = <<b[1], b[2]>>
    BY <2>3 DEF Block, Row
  <2>5. Block \subseteq {<<r[1], r[2]>> : r \in Row}
    <3>1. ASSUME NEW b \in Block PROVE b \in {<<r[1], r[2]>> : r \in Row}
      <4> DEFINE r == <<b[1], b[2], 0>>
      <4>1. r \in Row /\ b = <<r[1], r[2]>>
        BY <2>4
      <4> QED BY <4>1
    <3> QED BY <3>1
  <2>6. {<<r[1], r[2]>> : r \in Row} \subseteq Block
    BY DEF Row, Block
  <2> QED BY <2>2, <2>5, <2>6
<1>2. \A b \in Block : plan[b] = Lowest(b, quota)
  BY <1>1 DEF LoadInv, EvenShare
<1>3. quota \in 0 .. NumExperts
  <2>1. DOMAIN plan # {}
    <3>1. PICK l \in Layers, j \in Projection : TRUE
      BY SizesAssumption
    <3>2. <<l, j>> \in Block
      BY DEF Block
    <3> QED BY <1>1, <3>2
  <2>2. quota # -1 /\ quota \in -1 .. NumExperts
    BY <2>1 DEF LoadInv, QuotaDecided, MemInv, TypeOK
  <2> QED BY <2>2, SizesAssumption
<1>4. quota # 0
  <2> SUFFICES ASSUME quota = 0 PROVE FALSE
    OBVIOUS
  <2>1. \A b \in Block : plan[b] = {}
    <3>1. ASSUME NEW b \in Block PROVE Lowest(b, 0) = {}
      <4>1. Cardinality(Lowest(b, 0)) <= 0 /\ Cardinality(Lowest(b, 0)) \in Nat
            /\ IsFiniteSet(Lowest(b, 0))
        BY LowestCount
      <4> QED BY <4>1, FS_EmptySet
    <3> QED BY <1>2, <3>1
  <2>2. \A l, j : HostRows(l, j) = {}
    BY <1>1, <2>1 DEF HostRows
  <2> QED BY <2>2 DEF HostedLayers, Labels
<1>5. ASSUME NEW l \in Layers, NEW j \in Projection
      PROVE  HostRows(l, j) # {} <=> \E e \in Expert : <<l, j, e>> \in conf.matching
  <2> DEFINE b == <<l, j>>
  <2>1. HostRows(l, j) = Lowest(b, quota)
    BY <1>1, <1>2 DEF HostRows, Block
  <2>2. Matched(b) = {e \in Expert : <<l, j, e>> \in conf.matching} /\ Matched(b) \in SUBSET Nat
    BY SizesAssumption DEF Matched, Expert
  <2>3. Matched(b) # {} => Lowest(b, quota) # {}
    <3> SUFFICES ASSUME Matched(b) # {} PROVE Lowest(b, quota) # {}
      OBVIOUS
    <3> HIDE DEF b
    <3>1. PICK e \in Matched(b) : \A f \in Matched(b) : e <= f
      BY <2>2, LowestIn
    <3>2. {f \in Matched(b) : f < e} = {}
      BY <2>2, <3>1
    <3>3. Cardinality({f \in Matched(b) : f < e}) = 0
      BY <3>2, FS_EmptySet
    <3>4. e \in Lowest(b, quota)
      BY <1>3, <1>4, <3>3 DEF Lowest
    <3> QED BY <3>4
  <2>4. Lowest(b, quota) \subseteq Matched(b)
    BY DEF Lowest
  <2> QED BY <2>1, <2>2, <2>3, <2>4
<1>6. \A l \in Layers : Labels(l) = Selected(conf.matching, l)
  BY <1>5 DEF Labels, Selected
<1> QED BY <1>1, <1>2, <1>3, <1>4, <1>6

\* At most what a slot of every layer takes, times the slots.
LEMMA UsedWithinRows ==
    ASSUME FirstFullest, MemInv, LoadInv, measured # None
    PROVE  LET n == SlotsWanted(measured.available, measured.reserve)
           IN  n \in Nat /\ Used(slots) <= n * SlotRow
<1> DEFINE n == SlotsWanted(measured.available, measured.reserve)
           u == n * RowBytes * Cardinality(Labels(First))
<1>1. /\ phase = "serve" /\ Cached /\ HostedLayers # {} /\ TypeOK /\ LoadTypes
      /\ measured.available \in Nat /\ measured.reserve \in Nat
      /\ slots = Capacity(n)
  BY DEF MemInv, Sized, LoadInv
<1>2. n \in Nat
  BY <1>1, WantedIs
<1>3. /\ First \in HostedLayers /\ \A l \in HostedLayers : First <= l
      /\ Cardinality(HostedLayers) \in Nat \ {0} /\ Cardinality(Labels(First)) \in Nat \ {0}
  BY <1>1, SlotRowIs
<1>4. ASSUME NEW l \in Layers PROVE Cardinality(Labels(l)) <= Cardinality(Labels(First))
  <2>1. First \in Layers /\ \A k \in Layers : Labels(k) = Selected(conf.matching, k)
    BY <1>1, <1>3, ServedShare, LayersFinite
  <2>2. Selected(conf.matching, First) # {}
    BY <1>3, <2>1 DEF HostedLayers
  <2>3. \A i \in Layers : Selected(conf.matching, i) # {} => First <= i
    BY <1>3, <2>1 DEF HostedLayers
  <2>4. conf.matching \in Selections
    BY <1>1 DEF LoadTypes, Configurations
  <2> QED BY <2>1, <2>2, <2>3, <2>4 DEF FirstFullest
<1> HIDE DEF n
<1>5. /\ slots \in [Layers -> 0 .. NumExperts] /\ \A l \in Layers : slots[l] <= n
  BY <1>1, <1>2, CapacityIs
<1>6. RowBytes \in Nat /\ NumExperts \in Nat
  BY SizesAssumption
<1>7. ASSUME NEW l \in HostedLayers
      PROVE  slots[l] * RowBytes * Cardinality(Labels(l)) <= u
  <2>1. l \in Layers
    BY <1>1, LayersFinite
  <2>2. PICK x \in Nat, y \in Nat, z \in Nat :
          x = slots[l] /\ y = Cardinality(Labels(l)) /\ z = Cardinality(Labels(First))
    BY <1>1, <1>3, <1>5, <1>6, <2>1, LayersFinite
  <2>3. x <= n /\ y <= z
    BY <1>4, <1>5, <2>1, <2>2
  <2>4. x * RowBytes <= n * RowBytes /\ x * RowBytes \in Nat /\ n * RowBytes \in Nat
    BY <1>2, <1>6, <2>3
  <2>5. PICK p \in Nat, q \in Nat : p = x * RowBytes /\ q = n * RowBytes
    BY <2>4
  <2>6. p * y <= q * y /\ q * y <= q * z
    BY <2>3, <2>4, <2>5
  <2>7. p * y \in Nat /\ q * y \in Nat /\ q * z \in Nat
    OBVIOUS
  <2>8. p * y <= q * z
    BY <2>6, <2>7
  <2> QED BY <2>2, <2>5, <2>8
<1>8. u \in Nat
  <2>1. PICK z \in Nat : z = Cardinality(Labels(First))
    BY <1>3
  <2>2. n * RowBytes * z \in Nat
    BY <1>2, <1>6
  <2> QED BY <2>1, <2>2
<1>9. Used(slots) <= Cardinality(HostedLayers) * u
  <2> HIDE DEF u
  <2> QED BY <1>1, <1>5, <1>7, <1>8, UsedIs
<1>10. Cardinality(HostedLayers) * u = n * SlotRow
  <2>1. PICK y \in Nat, z \in Nat : y = Cardinality(HostedLayers) /\ z = Cardinality(Labels(First))
    BY <1>3
  <2>2. y * (n * RowBytes * z) = n * (RowBytes * z * y)
    BY <1>2, <1>6
  <2> QED BY <2>1, <2>2 DEF SlotRow
<1> QED BY <1>2, <1>9, <1>10 DEF n

LEMMA ReserveHolds == FirstFullest /\ MemInv /\ LoadInv => ReserveKept
<1> SUFFICES ASSUME FirstFullest, MemInv, LoadInv, conf.mode = "auto", measured # None
             PROVE  /\ Used(slots) <= measured.available
                    /\ Used(slots) <=
                         Larger(Positive(measured.available - measured.reserve), Floor)
  BY DEF ReserveKept
<1> DEFINE n == SlotsWanted(measured.available, measured.reserve)
           t == Target(measured.available, measured.reserve)
           m == Larger(Positive(measured.available - measured.reserve), Floor)
<1>1. /\ HostedLayers # {} /\ TypeOK /\ LoadTypes
      /\ measured.available \in Nat /\ measured.reserve \in Nat
      /\ slots = Capacity(n)
  BY DEF MemInv, Sized, LoadInv
<1>2. n \in Nat /\ n * SlotRow <= t
  BY <1>1, WantedIs
<1>3. t \in Nat /\ t <= measured.available /\ t <= m /\ Floor \in Nat
  BY <1>1, TargetIs
<1>4. Used(slots) <= n * SlotRow
  BY UsedWithinRows
<1>5. Used(slots) \in Nat
  BY <1>1, <1>2, CapacityIs, UsedIs
<1>6. n * SlotRow \in Nat
  <2>1. SlotRow \in Nat
    BY <1>1, SlotRowIs
  <2> HIDE DEF n
  <2> QED BY <1>2, <2>1
<1>7. m \in Nat
  BY <1>1, <1>3 DEF Larger, Positive
<1> DEFINE w == n * SlotRow
<1>8. w \in Nat /\ w <= t /\ Used(slots) <= w
  BY <1>2, <1>4, <1>6
<1> HIDE DEF n, t, m, w
<1>9. Used(slots) <= measured.available /\ Used(slots) <= m
  BY <1>1, <1>3, <1>5, <1>7, <1>8
<1> QED BY <1>9 DEF m

\* With every row selected every layer has the same slots.
LEMMA SlotsExact ==
    ASSUME MemInv, LoadInv, conf.mode # "fixed", conf.matching = Row, measured # None
    PROVE  LET n == SlotsWanted(measured.available, measured.reserve)
           IN  /\ n \in Nat /\ PerLayerMax = quota
               /\ Used(slots) = n * SlotRow /\ expertBytes = quota * SlotRow
<1> DEFINE n == SlotsWanted(measured.available, measured.reserve)
<1>1. /\ phase = "serve" /\ Cached /\ HostedLayers # {} /\ TypeOK /\ LoadTypes
      /\ measured.available \in Nat /\ measured.reserve \in Nat
      /\ slots = Capacity(n)
  BY DEF MemInv, Sized, LoadInv
<1>2. /\ quota \in 1 .. NumExperts
      /\ \A b \in Block : b \in DOMAIN plan /\ plan[b] = Lowest(b, quota)
      /\ DOMAIN plan = Block
  BY <1>1, ServedShare
<1>3. NumExperts \in Nat \ {0} /\ RowBytes \in Nat \ {0} /\ Projection # {}
  BY SizesAssumption
<1>4. ASSUME NEW l \in Layers, NEW j \in Projection
      PROVE  HostRows(l, j) = 0 .. quota - 1 /\ Cardinality(HostRows(l, j)) = quota
             /\ HostRows(l, j) # {}
  <2>1. <<l, j>> \in Block
    BY DEF Block
  <2>2. HostRows(l, j) = Lowest(<<l, j>>, quota)
    BY <1>2, <2>1 DEF HostRows
  <2>3. quota \in 0 .. NumExperts
    BY <1>2, <1>3
  <2>4. HostRows(l, j) = 0 .. quota - 1 /\ Cardinality(HostRows(l, j)) = quota
    BY <2>1, <2>2, <2>3, LowestOfAll
  <2>5. 0 \in 0 .. quota - 1
    BY <1>2, <1>3
  <2> QED BY <2>4, <2>5
<1>5. \A l \in Layers : Labels(l) = Projection
  BY <1>4 DEF Labels
<1>6. HostedLayers = Layers
  BY <1>3, <1>5 DEF HostedLayers
<1>7. \A l \in Layers : Hosted(l) = 0 .. quota - 1
  BY <1>3, <1>4, <1>5 DEF Hosted
<1>8. \A l \in Layers : Cardinality(Hosted(l)) = quota
  <2>1. PICK j \in Projection : TRUE
    BY <1>3
  <2> QED BY <1>4, <1>7, <2>1
<1>9. PerLayerMax = quota
  BY <1>1, <1>4, <1>6, PerLayerMaxIs
<1>10. n \in Nat /\ n <= quota
  BY <1>1, <1>9, WantedIs
<1> HIDE DEF n
<1>11. \A l \in Layers : slots[l] = n
  BY <1>1, <1>2, <1>8, <1>10 DEF Capacity, Smaller
<1>12. First \in Layers /\ Cardinality(Labels(First)) = Cardinality(Projection)
  BY <1>1, <1>5, <1>6, SlotRowIs
<1>13. PICK x \in Nat, y \in Nat : x = Cardinality(Layers) /\ y = Cardinality(Projection)
  BY SizesAssumption, FS_CardinalityType
<1>14. SlotRow = RowBytes * y * x /\ Blocks = x * y
  BY <1>6, <1>12, <1>13 DEF SlotRow, Blocks
<1>15. n * RowBytes * y \in Nat
  BY <1>3, <1>10
<1>16. Used(slots) = x * (n * RowBytes * y)
  <2>1. slots \in [Layers -> 0 .. NumExperts]
    BY <1>1, <1>10, CapacityIs
  <2>2. \A l \in HostedLayers :
          slots[l] * RowBytes * Cardinality(Labels(l)) = n * RowBytes * y
    BY <1>5, <1>6, <1>11, <1>13
  <2>3. Used(slots) = Cardinality(HostedLayers) * (n * RowBytes * y)
    BY <1>1, <1>15, <2>1, <2>2, UsedIs
  <2> QED BY <1>6, <1>13, <2>3
<1>17. x * (n * RowBytes * y) = n * (RowBytes * y * x)
  BY <1>3, <1>10
<1>18. expertBytes = RowBytes * (quota * (x * y))
  <2>1. Cardinality(DOMAIN plan) = x * y
    BY <1>2, <1>14, BlockCount
  <2> QED BY <1>1, <2>1 DEF MemInv, RowsExact
<1>19. RowBytes * (quota * (x * y)) = quota * (RowBytes * y * x)
  BY <1>2, <1>3
<1> QED BY <1>9, <1>10, <1>14, <1>16, <1>17, <1>18, <1>19 DEF n

LEMMA BudgetHolds == MemInv /\ LoadInv => FreedWithinBudget
<1> DEFINE a == measured.available
           r == measured.reserve
           n == SlotsWanted(a, r)
           t == Target(a, r)
           extra == Larger(RowBytes, DenseBytes)
           allowed == Positive(conf.budget - conf.tower)
           used == Used(slots)
           m == Larger(Positive(a - r), Floor)
<1> SUFFICES ASSUME MemInv, LoadInv, conf.mode = "auto", conf.matching = Row, measured # None
             PROVE  \/ spent - conf.tower + expertBytes - used < allowed + extra + SlotRow
                    \/ a - used < SlotRow
  BY DEF FreedWithinBudget
<1>1. /\ HostedLayers # {} /\ TypeOK /\ LoadTypes /\ a \in Nat /\ r \in Nat
  BY DEF MemInv, Sized, LoadInv
<1>2. n \in Nat /\ PerLayerMax = quota /\ used = n * SlotRow /\ expertBytes = quota * SlotRow
  BY SlotsExact
<1>3. n = PerLayerMax \/ t < n * SlotRow + SlotRow
  BY <1>1, WantedIs
<1>4. SlotRow \in Nat \ {0}
  BY <1>1, SlotRowIs
<1>5. t \in {a, expertBytes, m} /\ Floor \in Nat /\ MayFree \in Nat
  BY <1>1, TargetIs
<1>6. /\ conf.budget \in Nat /\ conf.tower \in Nat /\ spent \in Nat /\ expertBytes \in Nat
      /\ RowBytes \in Nat \ {0} /\ DenseBytes \in Nat \ {0}
  BY SizesAssumption, ConfigurationsAssumption DEF LoadTypes, Configurations, LoadInv
<1>7. used \in Nat
  <2> HIDE DEF n
  <2>1. n * SlotRow \in Nat
    BY <1>2, <1>4
  <2> QED BY <1>2, <2>1
<1>8. n = PerLayerMax => used = expertBytes
  BY <1>2
<1>9. t < used + SlotRow \/ used = expertBytes
  BY <1>2, <1>3, <1>8
<1>10. extra \in Nat \ {0} /\ allowed \in Nat /\ conf.budget - conf.tower <= allowed
  BY <1>6 DEF Larger, Positive
<1>11. spent <= conf.tower \/ spent < conf.budget + extra
  BY DEF LoadInv, BudgetKept
<1>12. spent - conf.tower < allowed + extra
  <2> HIDE DEF extra, allowed
  <2> QED BY <1>6, <1>10, <1>11
<1>13. spent - conf.tower + MayFree < allowed + extra
  <2>1. MayFree = IF conf.budget - spent > 0 THEN conf.budget - spent ELSE 0
    BY <1>6 DEF MayFree, Positive, Larger
  <2> HIDE DEF extra, allowed
  <2>2. CASE conf.budget - spent > 0
    <3>1. MayFree = conf.budget - spent
      BY <2>1, <2>2
    <3> QED BY <1>6, <1>10, <3>1
  <2>3. CASE ~(conf.budget - spent > 0)
    <3>1. MayFree = 0
      BY <2>1, <2>3
    <3> QED BY <1>6, <1>10, <1>12, <3>1
  <2> QED BY <2>2, <2>3
<1>14. m >= Floor /\ Floor >= expertBytes - MayFree /\ m \in Int
  BY <1>1, <1>5, <1>6 DEF Larger, Floor, Positive
<1> HIDE DEF used, t, extra, allowed, m, a, r, n
<1>15. CASE used = expertBytes
  BY <1>4, <1>6, <1>7, <1>10, <1>12, <1>15
<1>16. CASE t < used + SlotRow /\ t = a
  BY <1>1, <1>4, <1>7, <1>16
<1>17. CASE t < used + SlotRow /\ t = expertBytes
  BY <1>4, <1>6, <1>7, <1>10, <1>12, <1>17
<1>18. CASE t < used + SlotRow /\ t = m
  BY <1>4, <1>5, <1>6, <1>7, <1>10, <1>13, <1>14, <1>18
<1> QED BY <1>5, <1>9, <1>15, <1>16, <1>17, <1>18

\* What slots, window and KV get of the memory vLLM measured is all of it, the
\* rows a layer stages are apart in the window, and the slots leave the reserve
\* and the budget what is theirs.
THEOREM MemoryAlwaysKept ==
    ASSUME FirstFullest
    PROVE  Spec => []MemoryKept
<1>1. MemInv /\ LoadInv => MemoryKept
  BY StagingAlwaysFits, ReserveHolds, BudgetHolds DEF MemoryKept, MemInv
<1> QED BY <1>1, MemInvAlways, LoadInvAlways, PTL

=============================================================================
