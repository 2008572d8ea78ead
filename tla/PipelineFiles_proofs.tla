------------------------ MODULE PipelineFiles_proofs ------------------------
(***************************************************************************)
(* Proofs about the files the quantization pipeline works with: those the   *)
(* stages before `quantize` make (QuantInputs) and their copies in the      *)
(* archive (MirrorSync).                                                    *)
(*                                                                          *)
(* QuantInputs, for any slices, categories, layers and numbers of commands, *)
(* stops and removals: a stage that exits with 0 has made all it stands     *)
(* for, own voice is scored on no prompt that calibration used until its    *)
(* evaluation is made anew, rows are measured once and finished factors are *)
(* whole.  MirrorSync, for any files, sizes and clock: what the mirror's    *)
(* record says is archived.                                                 *)
(***************************************************************************)
EXTENDS QuantInputs, MirrorSync, FiniteSetTheorems, SequenceTheorems, TLAPS

(***************************************************************************)
(* Sequences and bounds.                                                    *)
(***************************************************************************)
LEMMA Ends ==
    ASSUME NEW S, NEW s \in Seq(S), s # <<>>
    PROVE  /\ Tail(s) \in Seq(S) /\ Head(s) \in S
           /\ ToSet(s) = {Head(s)} \cup ToSet(Tail(s))
           /\ Last(s) = IF Tail(s) = <<>> THEN Head(s) ELSE Last(Tail(s))
<1> DEFINE t == Tail(s)
<1>1. /\ t \in Seq(S) /\ Head(s) \in S /\ Head(s) = s[1]
      /\ Len(t) = Len(s) - 1 /\ Len(s) \in Nat \ {0}
      /\ \A i \in 1 .. Len(t) : t[i] = s[i + 1]
  BY HeadTailProperties
<1>2. t = <<>> => Len(t) = 0
  <2>1. Len(<<>>) = 0
    BY EmptySeq
  <2> QED BY <2>1, Zenon
<1>3. t # <<>> => Len(t) # 0
  BY <1>1, EmptySeq
<1> HIDE DEF t
<1>4. DOMAIN s = 1 .. Len(s) /\ DOMAIN t = 1 .. Len(t)
  BY <1>1
<1>5. ToSet(t) \subseteq ToSet(s) /\ Head(s) \in ToSet(s)
  BY <1>1, <1>4 DEF ToSet
<1>6. ASSUME NEW i \in DOMAIN s PROVE s[i] \in {Head(s)} \cup ToSet(t)
  <2>1. CASE i = 1
    BY <1>1, <2>1
  <2>2. CASE i # 1
    <3>1. i - 1 \in 1 .. Len(t) /\ t[i - 1] = s[i]
      BY <1>1, <1>4, <2>2
    <3> QED BY <1>4, <3>1 DEF ToSet
  <2> QED BY <2>1, <2>2
<1>7. ToSet(s) = {Head(s)} \cup ToSet(t)
  BY <1>5, <1>6 DEF ToSet
<1>8. Last(s) = IF t = <<>> THEN Head(s) ELSE Last(t)
  <2>1. CASE t = <<>>
    <3>1. Len(s) = 1
      BY <1>1, <1>2, <2>1
    <3> QED BY <1>1, <2>1, <3>1 DEF Last
  <2>2. CASE t # <<>>
    <3>1. Len(t) \in 1 .. Len(t) /\ Len(t) + 1 = Len(s)
      BY <1>1, <1>3, <2>2
    <3> QED BY <1>1, <2>2, <3>1 DEF Last
  <2> QED BY <2>1, <2>2
<1> QED BY <1>1, <1>7, <1>8 DEF t

LEMMA Joined ==
    ASSUME NEW S, NEW s \in Seq(S), NEW t \in Seq(S)
    PROVE  /\ s \o t \in Seq(S) /\ ToSet(s \o t) = ToSet(s) \cup ToSet(t)
           /\ t # <<>> => s \o t # <<>> /\ Last(s \o t) = Last(t)
<1>1. /\ s \o t \in Seq(S) /\ Len(s \o t) = Len(s) + Len(t)
      /\ \A i \in 1 .. Len(s) + Len(t) :
           (s \o t)[i] = IF i <= Len(s) THEN s[i] ELSE t[i - Len(s)]
  BY ConcatProperties
<1>2. /\ Len(s) \in Nat /\ Len(t) \in Nat
      /\ DOMAIN s = 1 .. Len(s) /\ DOMAIN t = 1 .. Len(t)
      /\ DOMAIN (s \o t) = 1 .. Len(s) + Len(t)
  BY <1>1
<1>3. ToSet(s \o t) \subseteq ToSet(s) \cup ToSet(t)
  <2> SUFFICES ASSUME NEW i \in 1 .. Len(s) + Len(t)
               PROVE  (s \o t)[i] \in ToSet(s) \cup ToSet(t)
    BY <1>2 DEF ToSet
  <2>1. CASE i <= Len(s)
    BY <1>1, <1>2, <2>1 DEF ToSet
  <2>2. CASE ~(i <= Len(s))
    <3>1. i - Len(s) \in 1 .. Len(t)
      BY <1>2, <2>2
    <3> QED BY <1>1, <1>2, <2>2, <3>1 DEF ToSet
  <2> QED BY <2>1, <2>2
<1>4. ToSet(s) \subseteq ToSet(s \o t)
  BY <1>1, <1>2 DEF ToSet
<1>5. ToSet(t) \subseteq ToSet(s \o t)
  <2> SUFFICES ASSUME NEW i \in 1 .. Len(t) PROVE t[i] \in ToSet(s \o t)
    BY <1>2 DEF ToSet
  <2>1. Len(s) + i \in 1 .. Len(s) + Len(t) /\ (s \o t)[Len(s) + i] = t[i]
    BY <1>1, <1>2
  <2> QED BY <1>2, <2>1 DEF ToSet
<1>6. ASSUME t # <<>> PROVE s \o t # <<>> /\ Last(s \o t) = Last(t)
  <2>1. Len(t) > 0
    BY <1>2, <1>6
  <2>2. Len(s) + Len(t) \in 1 .. Len(s) + Len(t)
    BY <1>2, <2>1
  <2>3. (s \o t)[Len(s) + Len(t)] = t[Len(t)]
    BY <1>1, <1>2, <2>1, <2>2
  <2> QED BY <1>1, <1>2, <2>1, <2>3 DEF Last
<1> QED BY <1>1, <1>3, <1>4, <1>5, <1>6

LEMMA MinOf == \A a, b \in Int : Min({a, b}) = IF a <= b THEN a ELSE b
<1> SUFFICES ASSUME NEW a \in Int, NEW b \in Int
             PROVE  Min({a, b}) = IF a <= b THEN a ELSE b
  OBVIOUS
<1> DEFINE m == IF a <= b THEN a ELSE b
<1>1. m \in {a, b} /\ \A y \in {a, b} : m <= y
  OBVIOUS
<1>2. \A x \in {a, b} : (\A y \in {a, b} : x <= y) => x = m
  OBVIOUS
<1> QED BY <1>1, <1>2 DEF Min

LEMMA UptoIs ==
    ASSUME NEW a \in Nat, NEW n \in Nat, a < n, NEW size \in Nat \ {0}
    PROVE  Upto(a, n, size) = (IF a + size <= n THEN a + size ELSE n) /\ Upto(a, n, size) \in a + 1 .. n
BY MinOf DEF Upto

\* The categories are measured in some order, each of them once.
LEMMA OrderOf ==
    /\ SetToSeq(Category) \in Seq(Category)
    /\ ToSet(SetToSeq(Category)) = Category
<1> DEFINE n == Cardinality(Category)
           order == SetToSeq(Category)
<1>1. IsFiniteSet(Category)
  BY InputsAssumption
<1>2. n \in Nat /\ ExistsBijection(1 .. n, Category)
  BY <1>1, FS_CardinalityType
<1>3. \E f \in [1 .. n -> Category] : IsInjective(f)
  BY <1>2 DEF ExistsBijection, Bijection, Injection
<1>4. order \in [1 .. n -> Category] /\ IsInjective(order)
  BY <1>3 DEF SetToSeq
<1>5. order \in Injection(1 .. n, Category)
  BY <1>4 DEF Injection
<1>6. Cardinality(1 .. n) = n
  BY <1>2, FS_Interval
<1>7. order \in Surjection(1 .. n, Category)
  BY <1>1, <1>5, <1>6, FS_Injection
<1> QED BY <1>2, <1>4, <1>7 DEF Surjection, ToSet

(***************************************************************************)
(* Chunks.                                                                  *)
(***************************************************************************)
Chunk == [from : Nat, to : Nat, anchor : Anchor]
Covers(k, row) == k.from <= row /\ row < k.to

\* The chunks cut the rows below m, each row into one chunk, and reach up to m.
Cuts(C, m) ==
    /\ C \subseteq Chunk
    /\ m = 0 \/ \E k \in C : k.to = m
    /\ \A k \in C : k.from < k.to /\ k.to <= m
    /\ \A row \in 0 .. m - 1 : \E k \in C : Covers(k, row) /\ \A j \in C : Covers(j, row) => j = k

LEMMA CutsTop ==
    ASSUME NEW C, NEW m \in Nat, Cuts(C, m)
    PROVE  Max({0} \cup {k.to : k \in C}) = m
<1> DEFINE T == {0} \cup {k.to : k \in C}
<1>1. m \in T /\ (\A y \in T : m >= y) /\ T \subseteq Nat
  BY DEF Cuts, Chunk
<1> HIDE DEF T
<1>2. \A x \in T : (\A y \in T : x >= y) => x = m
  BY <1>1
<1> QED BY <1>1, <1>2 DEF Max, T

LEMMA CutsOnce ==
    ASSUME NEW C, NEW m \in Nat, Cuts(C, m), NEW row \in 0 .. m - 1
    PROVE  Cardinality({k \in C : k.from <= row /\ row < k.to}) = 1
<1>1. PICK k \in C : Covers(k, row) /\ \A j \in C : Covers(j, row) => j = k
  BY DEF Cuts
<1>2. {j \in C : j.from <= row /\ row < j.to} = {k}
  BY <1>1 DEF Covers
<1> QED BY <1>2, FS_Singleton

LEMMA CutsOn ==
    ASSUME NEW C, NEW m \in Nat, Cuts(C, m), NEW b \in Nat, m < b, NEW a \in Anchor
    PROVE  Cuts(C \cup {[from |-> m, to |-> b, anchor |-> a]}, b)
<1> DEFINE new == [from |-> m, to |-> b, anchor |-> a]
           D == C \cup {new}
<1>1. new \in Chunk /\ new.from = m /\ new.to = b
  BY DEF Chunk
<1>2. \A j \in C : j.from \in Nat /\ j.to \in Nat /\ j.from < j.to /\ j.to <= m
  BY DEF Cuts, Chunk
<1> HIDE DEF new
<1>3. ASSUME NEW row \in 0 .. b - 1
      PROVE  \E k \in D : Covers(k, row) /\ \A j \in D : Covers(j, row) => j = k
  <2>1. CASE row < m
    <3>1. PICK k \in C : Covers(k, row) /\ \A j \in C : Covers(j, row) => j = k
      BY <2>1 DEF Cuts
    <3>2. ~Covers(new, row)
      BY <1>1, <2>1 DEF Covers
    <3> QED BY <3>1, <3>2
  <2>2. CASE ~(row < m)
    <3>1. Covers(new, row)
      BY <1>1, <2>2 DEF Covers
    <3>2. \A j \in C : ~Covers(j, row)
      BY <1>2, <2>2 DEF Covers
    <3> QED BY <3>1, <3>2
  <2> QED BY <2>1, <2>2
<1>4. D \subseteq Chunk /\ \E k \in D : k.to = b
  BY <1>1 DEF Cuts
<1>5. \A k \in D : k.from < k.to /\ k.to <= b
  BY <1>1, <1>2
<1> QED BY <1>3, <1>4, <1>5 DEF Cuts, new

(***************************************************************************)
(* The invariant: what there is.                                            *)
(***************************************************************************)
Work ==
    [do : {"eval"}, on : ToSet(Composite)]
    \cup [do : {"diag", "generator", "decontaminate", "join", "blend"}]
    \cup [do : {"cal", "name"}, on : Generators]
    \cup [do : {"recall"}, on : {"pool", "reference", "slice"}]
    \cup [do : {"anchors"}, on : Anchors]
    \cup [do : {"category"}, on : Category, upto : Nat]
    \cup [do : {"pass"}, on : 1 .. Seeds]
    \cup [do : {"ranges"}, on : {"ownvoice", "cal"}, from : Layer, by : LayersPerRun]
    \cup [do : {"done"}, on : Factor]

Order ==
    [op : {"none", "eval-traces", "cal-traces", "traces", "recall-slice", "yaqa"}]
    \cup [op : {"measure"}, rows : RowSpecs]

Directory ==
    [layer : [Layer -> {"none", "torn", "whole"}], marks : SUBSET (Nat \X Nat),
     log : [Layer -> [to : 0 .. Layers, ok : BOOLEAN]], done : BOOLEAN]

Types ==
    /\ trace \in [Slice -> (SUBSET Heldout) \cup {None}]
    /\ cal \in Calibration \cup {None}
    /\ named \in Generators \cup {None}
    /\ rfn \in [anchor : Anchor, probe : BOOLEAN]
    /\ hout \in [Factor -> Directory]
    /\ cmd \in Order /\ todo \in Seq(Work)
    /\ cmd = Idle => todo = <<>>

Pending == ToSet(todo)

\* A category's rows are cut into the chunks measured, and no step measures past its rows.
Cut ==
    /\ DOMAIN chunks = Category
    /\ \A c \in Category : \E m \in 0 .. Available[c] : Cuts(chunks[c], m)
    /\ \A s \in Pending : s.do = "category" => s.upto <= Available[s.on]

\* The last diagnostic trace stands for all of them.
LastDiag == Diagnosed => \A sl \in ToSet(Diagnostic) : trace[sl] # None

HeldOut == trace["self"] = None \/ trace["self"] \cap cal.prompts = {}

\* What a command has not made yet it has still to do.
TracesDue ==
    /\ cmd.op \in {"eval-traces", "traces"} =>
         /\ \A sl \in ToSet(Composite) : trace[sl] # None \/ \E s \in Pending : s.do = "eval" /\ s.on = sl
         /\ Diagnosed \/ \E s \in Pending : s.do = "diag"
    /\ cmd.op \in {"cal-traces", "traces"} =>
         /\ cal # None \/ \E s \in Pending : s.do = "cal"
         /\ named # None \/ \E s \in Pending : s.do = "name"
         /\ IF todo = <<>> THEN HeldOut ELSE Last(todo).do = "decontaminate"

RowsDue ==
    cmd.op = "measure" =>
        \A c \in Category :
            \/ Measured(c) >= Wanted(cmd.rows, c)
            \/ \E s \in Pending : s.do = "category" /\ s.on = c /\ s.upto = Wanted(cmd.rows, c)

FactorsDue ==
    cmd.op = "yaqa" =>
        \A f \in Factor : hout[f].done \/ \E s \in Pending : s.do = "done" /\ s.on = f

InputsInv == Types /\ Cut /\ LastDiag /\ TracesDue /\ RowsDue /\ FactorsDue

(***************************************************************************)
(* Steps that go on to the next.                                            *)
(***************************************************************************)
LEMMA Kinds ==
    ASSUME NEW s \in Work
    PROVE  /\ s.do = "eval" => s.on \in ToSet(Composite)
           /\ s.do \in {"cal", "name"} => s.on \in Generators
           /\ s.do = "anchors" => s.on \in Anchors
           /\ s.do = "category" => s.on \in Category /\ s.upto \in Nat
           /\ s.do = "ranges" =>
                s \in [do : {"ranges"}, on : {"ownvoice", "cal"}, from : Layer, by : LayersPerRun]
           /\ s.do = "done" => s.on \in Factor /\ s = [do |-> "done", on |-> s.on]
BY DEF Work

LEMMA AtHead ==
    ASSUME Types, todo # <<>>
    PROVE  /\ Head(todo) \in Work /\ Head(todo) \in Pending /\ cmd # Idle
           /\ Tail(todo) \in Seq(Work) /\ Pending = {Head(todo)} \cup ToSet(Tail(todo))
           /\ Last(todo) = IF Tail(todo) = <<>> THEN Head(todo) ELSE Last(Tail(todo))
BY Ends DEF Types, Pending

LEMMA TracesGo ==
    ASSUME Types, TracesDue, todo # <<>>, Onward,
           \A sl \in Slice : trace[sl] # None => trace'[sl] # None,
           cal # None => cal' # None, named # None => named' # None,
           Head(todo).do = "eval" => trace'[Head(todo).on] # None,
           Head(todo).do = "diag" => Diagnosed',
           Head(todo).do = "cal" => cal' # None,
           Head(todo).do = "name" => named' # None,
           Head(todo).do = "decontaminate" => HeldOut'
    PROVE  TracesDue'
<1> DEFINE h == Head(todo)
           t == Tail(todo)
<1>1. /\ Pending = {h} \cup ToSet(t) /\ todo' = t /\ cmd' = cmd /\ Pending' = ToSet(t)
      /\ Last(todo) = IF t = <<>> THEN h ELSE Last(t)
  BY AtHead DEF Onward, Pending
<1> HIDE DEF h, t
<1>2. ToSet(Composite) \subseteq Slice /\ Last(Diagnostic) \in Slice
  <2>1. Len(Diagnostic) \in DOMAIN Diagnostic
    BY InputsAssumption, EmptySeq
  <2> QED BY <2>1 DEF Slice, ToSet, Last
<1>3. Diagnosed => Diagnosed'
  BY <1>2 DEF Diagnosed
<1>4. ASSUME cmd.op \in {"eval-traces", "traces"}, NEW sl \in ToSet(Composite)
      PROVE  trace'[sl] # None \/ \E s \in Pending' : s.do = "eval" /\ s.on = sl
  BY <1>1, <1>2, <1>4 DEF TracesDue, h
<1>5. cmd.op \in {"eval-traces", "traces"} => Diagnosed' \/ \E s \in Pending' : s.do = "diag"
  BY <1>1, <1>3 DEF TracesDue, h
<1>6. cmd.op \in {"cal-traces", "traces"} =>
        /\ cal' # None \/ \E s \in Pending' : s.do = "cal"
        /\ named' # None \/ \E s \in Pending' : s.do = "name"
  BY <1>1 DEF TracesDue, h
<1>7. cmd.op \in {"cal-traces", "traces"} =>
        IF t = <<>> THEN HeldOut' ELSE Last(t).do = "decontaminate"
  BY <1>1 DEF TracesDue, h
<1> QED BY <1>1, <1>4, <1>5, <1>6, <1>7 DEF TracesDue

LEMMA RowsGo ==
    ASSUME Types, RowsDue, todo # <<>>, Onward, UNCHANGED chunks,
           Head(todo).do = "category" => Measured(Head(todo).on) >= Head(todo).upto
    PROVE  RowsDue'
<1>1. /\ Pending = {Head(todo)} \cup ToSet(Tail(todo)) /\ cmd' = cmd /\ Pending' = ToSet(Tail(todo))
      /\ \A c \in Category : Measured(c)' = Measured(c)
  BY AtHead DEF Onward, Pending, Measured
<1> QED BY <1>1 DEF RowsDue

LEMMA FactorsGo ==
    ASSUME Types, FactorsDue, todo # <<>>, Onward,
           \A f \in Factor : hout[f].done => hout'[f].done,
           Head(todo).do = "done" => hout'[Head(todo).on].done
    PROVE  FactorsDue'
<1>1. Pending = {Head(todo)} \cup ToSet(Tail(todo)) /\ cmd' = cmd /\ Pending' = ToSet(Tail(todo))
  BY AtHead DEF Onward, Pending
<1> QED BY <1>1 DEF FactorsDue

LEMMA CutStays ==
    ASSUME Cut, UNCHANGED chunks, Pending' \subseteq Pending
    PROVE  Cut'
BY DEF Cut

\* Nothing is due of a command that is over.
LEMMA NothingDue == ASSUME cmd' = Idle PROVE TracesDue' /\ RowsDue' /\ FactorsDue'
BY DEF TracesDue, RowsDue, FactorsDue, Idle

LEMMA TypesGo ==
    ASSUME Types, todo # <<>>, Onward,
           trace' \in [Slice -> (SUBSET Heldout) \cup {None}], cal' \in Calibration \cup {None},
           named' \in Generators \cup {None}, rfn' \in [anchor : Anchor, probe : BOOLEAN],
           hout' \in [Factor -> Directory]
    PROVE  Types' /\ Pending' \subseteq Pending
BY AtHead DEF Types, Onward, Pending

\* What the steps of a trace are given.
LEMMA Kept ==
    /\ \A sl \in Slice : Prompts(sl) \in SUBSET Heldout /\ Prompts(sl) # None
    /\ ToSet(Diagnostic) \subseteq Slice /\ ToSet(Composite) \subseteq Slice
    /\ Last(Diagnostic) \in ToSet(Diagnostic) /\ "self" \in Slice
<1>1. \A p \in SUBSET Heldout : p # None
  BY InputsAssumption
<1>2. Len(Diagnostic) \in DOMAIN Diagnostic
  BY InputsAssumption, EmptySeq
<1>3. Last(Diagnostic) \in ToSet(Diagnostic) /\ Last(Diagnostic) = "self"
  BY <1>2, InputsAssumption DEF ToSet, Last
<1> QED BY <1>1, <1>3 DEF Slice, Prompts

LEMMA MakeEvalKeeps == InputsInv /\ MakeEval => InputsInv'
<1> SUFFICES ASSUME InputsInv, MakeEval PROVE InputsInv'
  OBVIOUS
<1> DEFINE sl == Head(todo).on
<1>1. /\ todo # <<>> /\ Onward /\ Head(todo).do = "eval" /\ sl \in Slice
      /\ trace' = [trace EXCEPT ![sl] = IF @ = None THEN Prompts(sl) ELSE @]
      /\ UNCHANGED <<cal, named, rfn, hout, chunks>>
  BY AtHead, Kinds, Kept DEF InputsInv, MakeEval, At, measured, factors
<1> HIDE DEF sl
<1>2. /\ trace' \in [Slice -> (SUBSET Heldout) \cup {None}] /\ trace'[sl] # None
      /\ \A x \in Slice : trace[x] # None => trace'[x] # None
  BY <1>1, Kept DEF InputsInv, Types
<1>3. Types' /\ Pending' \subseteq Pending
  BY <1>1, <1>2, TypesGo DEF InputsInv, Types
<1>4. TracesDue'
  BY <1>1, <1>2, TracesGo DEF InputsInv, sl
<1>5. RowsDue' /\ FactorsDue'
  BY <1>1, RowsGo, FactorsGo DEF InputsInv
<1>6. LastDiag'
  <2> SUFFICES ASSUME Diagnosed', NEW x \in ToSet(Diagnostic) PROVE trace'[x] # None
    BY DEF LastDiag
  <2>1. sl \notin ToSet(Diagnostic)
    BY <1>1, AtHead, Kinds, InputsAssumption DEF InputsInv, sl
  <2>2. \A y \in ToSet(Diagnostic) : trace'[y] = trace[y]
    BY <1>1, <2>1, Kept DEF InputsInv, Types
  <2> QED BY <2>2, Kept DEF InputsInv, LastDiag, Diagnosed
<1> QED BY <1>1, <1>3, <1>4, <1>5, <1>6, CutStays DEF InputsInv

LEMMA MakeDiagKeeps == InputsInv /\ MakeDiag => InputsInv'
<1> SUFFICES ASSUME InputsInv, MakeDiag PROVE InputsInv'
  OBVIOUS
<1>1. /\ todo # <<>> /\ Onward /\ Head(todo).do = "diag"
      /\ trace' = IF Diagnosed THEN trace
                  ELSE [sl \in Slice |-> IF sl \in ToSet(Diagnostic) THEN Prompts(sl) ELSE trace[sl]]
      /\ UNCHANGED <<cal, named, rfn, hout, chunks>>
  BY DEF MakeDiag, At, measured, factors
<1>2. /\ trace' \in [Slice -> (SUBSET Heldout) \cup {None}]
      /\ \A x \in Slice : trace[x] # None => trace'[x] # None
  BY <1>1, Kept DEF InputsInv, Types
<1>3. \A x \in ToSet(Diagnostic) : trace'[x] # None
  BY <1>1, Kept DEF InputsInv, LastDiag
<1>4. Diagnosed' /\ LastDiag'
  BY <1>3, Kept DEF Diagnosed, LastDiag
<1>5. Types' /\ Pending' \subseteq Pending
  BY <1>1, <1>2, TypesGo DEF InputsInv, Types
<1>6. TracesDue'
  BY <1>1, <1>2, <1>4, TracesGo DEF InputsInv
<1>7. RowsDue' /\ FactorsDue'
  BY <1>1, RowsGo, FactorsGo DEF InputsInv
<1> QED BY <1>1, <1>4, <1>5, <1>6, <1>7, CutStays DEF InputsInv

\* A step of a command that leaves the evaluation traces, the chunks and the
\* factors alone.
LEMMA GoesOn ==
    ASSUME InputsInv, todo # <<>>, Onward, UNCHANGED <<trace, chunks, hout>>,
           cal' \in Calibration \cup {None}, named' \in Generators \cup {None},
           rfn' \in [anchor : Anchor, probe : BOOLEAN],
           cal # None => cal' # None, named # None => named' # None,
           Head(todo).do = "cal" => cal' # None, Head(todo).do = "name" => named' # None,
           Head(todo).do \notin {"eval", "diag", "decontaminate", "category", "done"}
    PROVE  InputsInv'
<1>1. Types' /\ Pending' \subseteq Pending
  BY TypesGo DEF InputsInv, Types
<1>2. TracesDue'
  BY TracesGo DEF InputsInv
<1>3. RowsDue' /\ FactorsDue'
  BY RowsGo, FactorsGo DEF InputsInv
<1>4. LastDiag'
  BY DEF InputsInv, LastDiag, Diagnosed
<1> QED BY <1>1, <1>2, <1>3, <1>4, CutStays DEF InputsInv

LEMMA MakeGeneratorKeeps == InputsInv /\ MakeGenerator => InputsInv'
BY GoesOn DEF MakeGenerator, At, measured, factors, InputsInv, Types

LEMMA MakeCalKeeps == InputsInv /\ MakeCal => InputsInv'
<1> SUFFICES ASSUME InputsInv, MakeCal PROVE InputsInv'
  OBVIOUS
<1>1. /\ todo # <<>> /\ Onward /\ Head(todo).do = "cal" /\ Head(todo).on \in Generators
      /\ UNCHANGED <<trace, named, rfn, hout, chunks>>
  BY AtHead, Kinds DEF InputsInv, MakeCal, At, measured, factors
<1>2. cal' \in Calibration /\ cal' # None
  <2>1. CASE cal # None
    BY <2>1, InputsAssumption DEF MakeCal, InputsInv, Types
  <2>2. CASE cal = None
    <3>1. PICK p \in SUBSET Pool : cal' = [gen |-> Head(todo).on, prompts |-> p]
      BY <2>2 DEF MakeCal, Drawn
    <3>2. cal' \in Calibration
      BY <1>1, <3>1 DEF Calibration, Generator
    <3> QED BY <3>2, InputsAssumption
  <2> QED BY <2>1, <2>2
<1> QED BY <1>1, <1>2, GoesOn DEF InputsInv, Types

LEMMA NameGeneratorKeeps == InputsInv /\ NameGenerator => InputsInv'
<1> SUFFICES ASSUME InputsInv, NameGenerator PROVE InputsInv'
  OBVIOUS
<1>1. /\ todo # <<>> /\ Onward /\ Head(todo).do = "name" /\ Head(todo).on \in Generators
      /\ named' = Head(todo).on /\ UNCHANGED <<trace, cal, rfn, hout, chunks>>
  BY AtHead, Kinds DEF InputsInv, NameGenerator, At, measured, factors
<1>2. named' \in Generators /\ named' # None
  BY <1>1, InputsAssumption DEF Generator
<1> QED BY <1>1, <1>2, GoesOn DEF InputsInv, Types

LEMMA DecontaminateSelfKeeps == InputsInv /\ DecontaminateSelf => InputsInv'
<1> SUFFICES ASSUME InputsInv, DecontaminateSelf PROVE InputsInv'
  OBVIOUS
<1>1. /\ todo # <<>> /\ Onward /\ Head(todo).do = "decontaminate"
      /\ trace' = [trace EXCEPT !["self"] = IF @ = None THEN None ELSE Decontaminated(@)]
      /\ UNCHANGED <<cal, named, rfn, hout, chunks>>
  BY DEF DecontaminateSelf, At, measured, factors
<1>2. "self" \in Slice /\ trace \in [Slice -> (SUBSET Heldout) \cup {None}]
  BY Kept DEF InputsInv, Types
<1>3. trace'["self"] = IF trace["self"] = None THEN None ELSE trace["self"] \ cal.prompts
  BY <1>1, <1>2 DEF Decontaminated
<1>4. HeldOut'
  BY <1>1, <1>3 DEF HeldOut
<1>5. \A p \in SUBSET Heldout : p # None
  BY InputsAssumption
<1> DEFINE old == trace["self"]
           new == trace'["self"]
           used == cal.prompts
<1>6. old \in (SUBSET Heldout) \cup {None} /\ new = IF old = None THEN None ELSE old \ used
  BY <1>2, <1>3
<1> HIDE DEF old, new, used
<1>7. new \in (SUBSET Heldout) \cup {None} /\ (old # None => new # None)
  <2>1. CASE old = None
    BY <1>6, <2>1
  <2>2. CASE old # None
    <3>1. old \in SUBSET Heldout /\ new = old \ used
      BY <1>6, <2>2
    <3> QED BY <1>5, <2>2, <3>1
  <2> QED BY <2>1, <2>2
<1> USE DEF old, new
<1>8. /\ trace' \in [Slice -> (SUBSET Heldout) \cup {None}]
      /\ \A x \in Slice : trace[x] # None => trace'[x] # None
      /\ \A x \in Slice : trace'[x] # None => trace[x] # None
  <2>1. \A x \in Slice : x # "self" => trace'[x] = trace[x]
    BY <1>1, <1>2
  <2>2. trace' = [x \in Slice |-> trace'[x]]
    BY <1>1, <1>2
  <2>3. \A x \in Slice : trace'[x] \in (SUBSET Heldout) \cup {None}
    BY <1>2, <1>7, <2>1
  <2> QED BY <1>3, <1>7, <2>1, <2>2, <2>3
<1>9. Types' /\ Pending' \subseteq Pending
  BY <1>1, <1>8, TypesGo DEF InputsInv, Types
<1>10. TracesDue'
  BY <1>1, <1>4, <1>8, TracesGo DEF InputsInv
<1>11. RowsDue' /\ FactorsDue'
  BY <1>1, RowsGo, FactorsGo DEF InputsInv
<1>12. LastDiag'
  BY <1>8, Kept DEF InputsInv, LastDiag, Diagnosed
<1> QED BY <1>1, <1>9, <1>10, <1>11, <1>12, CutStays DEF InputsInv

LEMMA MakeRecallKeeps == InputsInv /\ MakeRecall => InputsInv'
BY GoesOn DEF MakeRecall, At, measured, factors, InputsInv, Types

LEMMA MakeAnchorsKeeps == InputsInv /\ MakeAnchors => InputsInv'
<1> SUFFICES ASSUME InputsInv, MakeAnchors PROVE InputsInv'
  OBVIOUS
<1>1. /\ todo # <<>> /\ Onward /\ Head(todo).do = "anchors"
      /\ UNCHANGED <<trace, cal, named, hout, chunks>>
  BY DEF MakeAnchors, At, traces, factors
<1>2. rfn' \in [anchor : Anchor, probe : BOOLEAN]
  BY DEF MakeAnchors, InputsInv, Types, Anchor
<1> QED BY <1>1, <1>2, GoesOn DEF InputsInv, Types

LEMMA OwnvoicePassKeeps == InputsInv /\ OwnvoicePass => InputsInv'
BY GoesOn DEF OwnvoicePass, At, measured, traces, InputsInv, Types

LEMMA JoinRowsKeeps == InputsInv /\ JoinRows => InputsInv'
BY GoesOn DEF JoinRows, At, measured, traces, InputsInv, Types

LEMMA WantedIs ==
    ASSUME NEW spec \in RowSpecs, NEW c \in Category
    PROVE  Wanted(spec, c) \in 0 .. Available[c]
<1>1. Want(spec)[c] \in Nat /\ Available[c] \in Nat
  BY InputsAssumption DEF Want
<1> QED BY <1>1, MinOf DEF Wanted

LEMMA MeasureRangeKeeps == InputsInv /\ MeasureRange => InputsInv'
<1> SUFFICES ASSUME InputsInv, MeasureRange PROVE InputsInv'
  OBVIOUS
<1>a. PICK c, n : c = Head(todo).on /\ n = Head(todo).upto
  OBVIOUS
<1> DEFINE b == Upto(Measured(c), n, MeasureChunk)
           new == [from |-> Measured(c), to |-> b, anchor |-> rfn.anchor]
<1>1. /\ todo # <<>> /\ c \in Category /\ n \in Nat /\ n <= Available[c] /\ Measured(c) < n
      /\ chunks' = [chunks EXCEPT ![c] = @ \cup {new}]
      /\ UNCHANGED <<trace, cal, named, rfn, hout, cmd, todo>>
  <2>1. todo # <<>> /\ Head(todo).do = "category"
    BY DEF MeasureRange, At
  <2>2. Head(todo) \in Pending /\ Head(todo) \in Work
    BY <2>1, AtHead DEF InputsInv
  <2>3. c \in Category /\ n \in Nat /\ n <= Available[c]
    BY <1>a, <2>1, <2>2, Kinds DEF InputsInv, Cut
  <2> QED BY <1>a, <2>1, <2>3 DEF MeasureRange, traces, factors
<1>2. PICK m \in 0 .. Available[c] : Cuts(chunks[c], m)
  BY <1>1 DEF InputsInv, Cut
<1>3. Available[c] \in Nat /\ MeasureChunk \in Nat \ {0}
  BY <1>1, InputsAssumption
<1>4. Measured(c) = m
  BY <1>2, <1>3, CutsTop DEF Measured
<1>5. b \in m + 1 .. n
  <2>1. m \in Nat /\ m < n
    BY <1>1, <1>2, <1>3, <1>4
  <2>2. Upto(m, n, MeasureChunk) \in m + 1 .. n
    BY <1>1, <1>3, <2>1, UptoIs
  <2> QED BY <1>4, <2>2
<1>6. rfn.anchor \in Anchor
  BY DEF InputsInv, Types
<1> HIDE DEF b
<1>7. Cuts(chunks[c] \cup {new}, b)
  BY <1>1, <1>2, <1>3, <1>4, <1>5, <1>6, CutsOn
<1>8. chunks'[c] = chunks[c] \cup {new} /\ DOMAIN chunks' = Category
  BY <1>1 DEF InputsInv, Cut
<1>9. \A d \in Category : d # c => chunks'[d] = chunks[d]
  BY <1>1 DEF InputsInv, Cut
<1> HIDE DEF new
<1>10. Pending' = Pending
  BY <1>1 DEF Pending
<1>11. Cut'
  <2>1. \A d \in Category : \E k \in 0 .. Available[d] : Cuts(chunks'[d], k)
    <3>1. b \in 0 .. Available[c] /\ Cuts(chunks'[c], b)
      BY <1>1, <1>2, <1>3, <1>5, <1>7, <1>8
    <3>2. \A d \in Category : \E k \in 0 .. Available[d] : Cuts(chunks[d], k)
      BY DEF InputsInv, Cut
    <3> QED BY <1>9, <3>1, <3>2
  <2> QED BY <1>8, <1>10, <2>1 DEF InputsInv, Cut
<1>12. Measured(c)' = b
  <2>1. Cuts(chunks'[c], b) /\ b \in Nat
    BY <1>2, <1>3, <1>5, <1>7, <1>8
  <2> QED BY <2>1, CutsTop DEF Measured
<1>13. \A d \in Category : Measured(d)' >= Measured(d)
  <2> SUFFICES ASSUME NEW d \in Category PROVE Measured(d)' >= Measured(d)
    OBVIOUS
  <2>1. CASE d = c
    <3>1. m \in Int /\ b \in Int /\ b > m
      BY <1>2, <1>3, <1>5
    <3> QED BY <1>4, <1>12, <2>1, <3>1
  <2>2. CASE d # c
    <3>1. PICK k \in 0 .. Available[d] : Cuts(chunks[d], k)
      BY DEF InputsInv, Cut
    <3>2. Measured(d) = k
      BY <3>1, InputsAssumption, CutsTop DEF Measured
    <3>3. Measured(d)' = Measured(d)
      BY <1>9, <2>2 DEF Measured
    <3> QED BY <3>1, <3>2, <3>3
  <2> QED BY <2>1, <2>2
<1>14. RowsDue'
  <2> SUFFICES ASSUME cmd.op = "measure", NEW d \in Category,
                      ~(\E s \in Pending : s.do = "category" /\ s.on = d /\ s.upto = Wanted(cmd.rows, d))
               PROVE  Measured(d)' >= Wanted(cmd.rows, d)
    BY <1>1, <1>10 DEF RowsDue
  <2>1. Measured(d) >= Wanted(cmd.rows, d) /\ cmd.rows \in RowSpecs
    BY DEF InputsInv, RowsDue, Types, Order
  <2>2. Wanted(cmd.rows, d) \in Int
    BY <2>1, WantedIs
  <2>3. Measured(d) \in Int /\ Measured(d)' \in Int
    <3>1. PICK k \in 0 .. Available[d] : Cuts(chunks[d], k)
      BY DEF InputsInv, Cut
    <3>2. PICK j \in 0 .. Available[d] : Cuts(chunks'[d], j)
      BY <1>11 DEF Cut
    <3>3. k \in Nat /\ j \in Nat
      BY <3>1, <3>2, InputsAssumption
    <3>4. Measured(d) = k
      BY <3>1, <3>3, CutsTop DEF Measured
    <3>5. Measured(d)' = j
      BY <3>2, <3>3, CutsTop DEF Measured
    <3> QED BY <3>3, <3>4, <3>5
  <2> QED BY <1>13, <2>1, <2>2, <2>3
<1>15. Types' /\ LastDiag' /\ TracesDue' /\ FactorsDue'
  BY <1>1, <1>10 DEF InputsInv, Types, LastDiag, Diagnosed, TracesDue, HeldOut, FactorsDue
<1> QED BY <1>11, <1>14, <1>15 DEF InputsInv

LEMMA CategoryMeasuredKeeps == InputsInv /\ CategoryMeasured => InputsInv'
<1> SUFFICES ASSUME InputsInv, CategoryMeasured PROVE InputsInv'
  OBVIOUS
<1>1. /\ todo # <<>> /\ Onward /\ Head(todo).do = "category"
      /\ Measured(Head(todo).on) >= Head(todo).upto
      /\ UNCHANGED <<trace, cal, named, rfn, chunks, hout>>
  BY DEF CategoryMeasured, At, traces, measured, factors
<1>2. Types' /\ Pending' \subseteq Pending
  BY <1>1, TypesGo DEF InputsInv, Types
<1>3. TracesDue' /\ RowsDue' /\ FactorsDue'
  BY <1>1, TracesGo, RowsGo, FactorsGo DEF InputsInv
<1>4. LastDiag'
  BY <1>1 DEF InputsInv, LastDiag, Diagnosed
<1> QED BY <1>1, <1>2, <1>3, <1>4, CutStays DEF InputsInv

(***************************************************************************)
(* Steps on the factors.                                                    *)
(***************************************************************************)
\* The next range of the collection under way.
Moved(s, b) == [s EXCEPT ![1].from = b]

LEMMA Advance ==
    ASSUME NEW s \in Seq(Work), s # <<>>, Head(s).do = "ranges", NEW b \in Layer,
           NEW t, t = Moved(s, b)
    PROVE  /\ t \in Seq(Work) /\ t # <<>> /\ Len(t) = Len(s) /\ t[1].from = b
           /\ t[1].do = "ranges" /\ t[1].on = s[1].on /\ t[1].by = s[1].by
           /\ \A i \in 2 .. Len(s) : t[i] = s[i]
           /\ \A w \in ToSet(s) : w.do # "ranges" => w \in ToSet(t)
           /\ \A w \in ToSet(t) : w.do # "ranges" => w \in ToSet(s)
           /\ Last(t).do = Last(s).do
<1> DEFINE R == [do : {"ranges"}, on : {"ownvoice", "cal"}, from : Layer, by : LayersPerRun]
           n == Len(s)
<1>1. n \in Nat \ {0} /\ s \in [1 .. n -> Work] /\ Head(s) = s[1] /\ 1 \in 1 .. n
  BY HeadTailProperties, LenProperties, EmptySeq
<1>2. s[1] \in R
  BY <1>1, Kinds
<1> HIDE DEF n
<1> DEFINE e == [s[1] EXCEPT !.from = b]
<1>3. e \in R /\ e.do = "ranges" /\ e.from = b /\ e.on = s[1].on /\ e.by = s[1].by
  BY <1>2
<1>4. e \in Work
  BY <1>3 DEF Work
<1>5. t = [s EXCEPT ![1] = e]
  BY DEF Moved
<1> HIDE DEF e, R
<1>6. /\ t \in Seq(Work) /\ Len(t) = n
      /\ \A i \in 1 .. n : t[i] = IF i = 1 THEN e ELSE s[i]
  BY <1>1, <1>4, <1>5, ExceptSeq DEF n
<1>7. t # <<>> /\ t[1] = e /\ \A i \in 2 .. n : t[i] = s[i]
  <2>1. n # 0 /\ Len(<<>>) = 0
    BY <1>1, EmptySeq
  <2>2. t # <<>>
    BY <1>6, <2>1, Zenon
  <2> QED BY <1>1, <1>6, <2>2
<1>8. s[1].do = "ranges" /\ t[1].do = "ranges"
  BY <1>1, <1>3, <1>7
<1>9. \A i \in 1 .. n : i = 1 \/ i \in 2 .. n
  BY <1>1
<1>10. DOMAIN s = 1 .. n /\ DOMAIN t = 1 .. n
  BY <1>1, <1>6, LenProperties DEF n
<1>11. \A w \in ToSet(s) : w.do # "ranges" => w \in ToSet(t)
  BY <1>7, <1>8, <1>9, <1>10 DEF ToSet
<1>12. \A w \in ToSet(t) : w.do # "ranges" => w \in ToSet(s)
  BY <1>7, <1>8, <1>9, <1>10 DEF ToSet
<1>13. Last(t).do = Last(s).do
  <2>1. Last(t) = t[n] /\ Last(s) = s[n] /\ n \in 1 .. n
    BY <1>1, <1>6 DEF Last, n
  <2> QED BY <1>7, <1>8, <1>9, <2>1
<1> QED BY <1>3, <1>6, <1>7, <1>8, <1>11, <1>12, <1>13 DEF n

\* What a command has to do stays due while it goes from one range to the next.
LEMMA RangesGo ==
    ASSUME InputsInv, todo # <<>>, Head(todo).do = "ranges",
           UNCHANGED <<trace, cal, named, rfn, chunks>>, hout' \in [Factor -> Directory],
           \A f \in Factor : hout[f].done => hout'[f].done,
           NEW b \in Layer, OnwardFrom(b)
    PROVE  InputsInv'
<1>1. todo \in Seq(Work)
  BY DEF InputsInv, Types
<1>2. /\ todo' \in Seq(Work) /\ todo' # <<>> /\ Last(todo').do = Last(todo).do
      /\ \A w \in Pending : w.do # "ranges" => w \in Pending'
      /\ \A w \in Pending' : w.do # "ranges" => w \in Pending
      /\ UNCHANGED cmd
  <2>1. todo' = [todo EXCEPT ![1].from = b] /\ UNCHANGED cmd
    BY DEF OnwardFrom
  <2> PICK s, t : s = todo /\ t = todo'
    OBVIOUS
  <2>3. s \in Seq(Work) /\ s # <<>> /\ Head(s).do = "ranges" /\ t = Moved(s, b)
    BY <1>1, <2>1 DEF Moved
  <2>2. /\ t \in Seq(Work) /\ t # <<>> /\ Last(t).do = Last(s).do
        /\ \A w \in ToSet(s) : w.do # "ranges" => w \in ToSet(t)
        /\ \A w \in ToSet(t) : w.do # "ranges" => w \in ToSet(s)
    BY <2>3, Advance
  <2> QED BY <2>1, <2>2 DEF Pending
<1>3. Types' /\ Cut' /\ LastDiag'
  BY <1>2 DEF InputsInv, Types, Cut, LastDiag, Diagnosed
<1>4. TracesDue'
  BY <1>2 DEF InputsInv, TracesDue, Diagnosed, HeldOut
<1>5. RowsDue' /\ FactorsDue'
  BY <1>2 DEF InputsInv, RowsDue, FactorsDue, Measured
<1> QED BY <1>3, <1>4, <1>5 DEF InputsInv

\* A step of `yaqa` that goes on to the next.
LEMMA FactorGoesOn ==
    ASSUME InputsInv, todo # <<>>, Onward, UNCHANGED <<trace, cal, named, rfn, chunks>>,
           hout' \in [Factor -> Directory], \A f \in Factor : hout[f].done => hout'[f].done,
           Head(todo).do \in {"ranges", "blend", "done"},
           Head(todo).do = "done" => hout'[Head(todo).on].done
    PROVE  InputsInv'
<1>1. Types' /\ Pending' \subseteq Pending
  BY TypesGo DEF InputsInv, Types
<1>2. TracesDue' /\ RowsDue' /\ FactorsDue'
  BY TracesGo, RowsGo, FactorsGo DEF InputsInv
<1>3. LastDiag'
  BY DEF InputsInv, LastDiag, Diagnosed
<1> QED BY <1>1, <1>2, <1>3, CutStays DEF InputsInv

\* The directory a run over layers a .. b - 1 leaves, with its marks or without.
RanBare(f, a, e, L) == [hout EXCEPT ![f].layer = L, ![f].log[a] = e]
Ran(f, a, e, L, M) == [hout EXCEPT ![f].layer = L, ![f].log[a] = e, ![f].marks = M]

LEMMA AfterRange ==
    ASSUME Types, NEW f \in Factor, NEW a \in Layer, NEW e \in [to : 0 .. Layers, ok : BOOLEAN],
           NEW L \in [Layer -> {"none", "torn", "whole"}], NEW M \in SUBSET (Nat \X Nat),
           hout' = Ran(f, a, e, L, M)
    PROVE  /\ hout' \in [Factor -> Directory]
           /\ hout'[f].layer = L /\ hout'[f].marks = M /\ hout'[f].done = hout[f].done
           /\ hout'[f].log[a] = e
           /\ \A x \in Layer : x # a => hout'[f].log[x] = hout[f].log[x]
           /\ \A g \in Factor : g # f => hout'[g] = hout[g]
<1> DEFINE d == [layer |-> L, marks |-> M,
                 log |-> [hout[f].log EXCEPT ![a] = e], done |-> hout[f].done]
<1>1. hout \in [Factor -> Directory] /\ hout[f] \in Directory
  BY DEF Types
<1>2. [hout[f].log EXCEPT ![a] = e] \in [Layer -> [to : 0 .. Layers, ok : BOOLEAN]]
  BY <1>1 DEF Directory
<1>3. d \in Directory
  BY <1>1, <1>2 DEF Directory
<1>4. [hout[f] EXCEPT !.layer = L, !.log[a] = e, !.marks = M] = d
  <2> DEFINE h == hout[f]
             x == [h EXCEPT !.layer = L, !.log[a] = e, !.marks = M]
  <2>1. x = [y \in {"layer", "marks", "log", "done"} |-> x[y]]
    BY <1>1 DEF Directory
  <2>2. x.layer = L /\ x.marks = M /\ x.done = h.done /\ x.log = [h.log EXCEPT ![a] = e]
    BY <1>1 DEF Directory
  <2> HIDE DEF x
  <2>3. x = d
    BY <2>1, <2>2
  <2> QED BY <2>3 DEF x
<1>5. hout'[f] = d /\ \A g \in Factor : g # f => hout'[g] = hout[g]
  BY <1>1, <1>4 DEF Ran
<1>6. DOMAIN hout' = Factor /\ hout' = [g \in Factor |-> hout'[g]]
  <2>1. DOMAIN hout' = Factor
    BY <1>1 DEF Ran
  <2>2. hout' = [g \in DOMAIN hout' |-> hout'[g]]
    BY DEF Ran
  <2> QED BY <2>1, <2>2
<1>7. /\ d.layer = L /\ d.marks = M /\ d.done = hout[f].done /\ d.log[a] = e
      /\ \A x \in Layer : x # a => d.log[x] = hout[f].log[x]
  BY <1>1 DEF Directory
<1> HIDE DEF d
<1>8. hout' \in [Factor -> Directory]
  BY <1>1, <1>3, <1>5, <1>6
<1> QED BY <1>5, <1>7, <1>8

\* The range the collection under way runs next.
LEMMA RangeAtHead ==
    ASSUME Types, At("ranges"), NEW f, f = Head(todo).on, NEW a, a = Head(todo).from,
           NEW s, s = Head(todo).by, NEW b, b = Upto(a, Layers, s)
    PROVE  /\ todo # <<>> /\ f \in {"ownvoice", "cal"} /\ f \in Factor /\ a \in Layer /\ s \in LayersPerRun
           /\ b = (IF a + s <= Layers THEN a + s ELSE Layers) /\ b \in a + 1 .. Layers
           /\ a \in Nat /\ b \in 0 .. Layers /\ Layers \in Nat \ {0} /\ s \in Nat \ {0}
<1>1. todo # <<>> /\ Head(todo) \in Work /\ Head(todo).do = "ranges"
  BY AtHead DEF At
<1>2. f \in {"ownvoice", "cal"} /\ a \in Layer /\ s \in LayersPerRun
  BY <1>1, Kinds
<1>3. Layers \in Nat \ {0} /\ s \in Nat \ {0}
  BY <1>2, InputsAssumption
<1>4. a \in Nat /\ a < Layers
  BY <1>2, <1>3 DEF Layer
<1>5. b = (IF a + s <= Layers THEN a + s ELSE Layers) /\ b \in a + 1 .. Layers
  BY <1>3, <1>4, UptoIs
<1> QED BY <1>1, <1>2, <1>3, <1>4, <1>5 DEF Factor

LEMMA CollectRangeKeeps == InputsInv /\ CollectRange => InputsInv'
<1> SUFFICES ASSUME InputsInv, CollectRange PROVE InputsInv'
  OBVIOUS
<1>1. PICK f, a, s : f = Head(todo).on /\ a = Head(todo).from /\ s = Head(todo).by
  OBVIOUS
<1>2. PICK b : b = Upto(a, Layers, s)
  OBVIOUS
<1>3. /\ todo # <<>> /\ f \in Factor /\ a \in Layer /\ b \in a + 1 .. Layers /\ b \in 0 .. Layers
      /\ a \in Nat /\ Layers \in Nat \ {0}
  BY <1>1, <1>2, RangeAtHead DEF CollectRange, InputsInv
<1>4. /\ Head(todo).do = "ranges" /\ UNCHANGED <<trace, cal, named, rfn, chunks>>
      /\ hout' = IF Collected(f, a, b) THEN hout
                 ELSE [hout EXCEPT ![f].layer = Written(f, a, b, "whole"),
                                   ![f].log[a] = [to |-> b, ok |-> TRUE],
                                   ![f].marks = @ \cup {<<a, b>>}]
      /\ IF b < Layers THEN OnwardFrom(b) ELSE Onward
  BY <1>1, <1>2 DEF CollectRange, At, traces, measured
<1>5. hout' \in [Factor -> Directory] /\ \A g \in Factor : hout'[g].done = hout[g].done
  <2>1. CASE Collected(f, a, b)
    BY <1>4, <2>1 DEF InputsInv, Types
  <2>2. CASE ~Collected(f, a, b)
    <3>1. hout[f] \in Directory
      BY <1>3 DEF InputsInv, Types
    <3>2. Written(f, a, b, "whole") \in [Layer -> {"none", "torn", "whole"}]
      BY <3>1 DEF Written, Directory
    <3>3. hout[f].marks \cup {<<a, b>>} \in SUBSET (Nat \X Nat)
      BY <1>3, <3>1 DEF Directory
    <3>4. /\ hout' \in [Factor -> Directory] /\ hout'[f].done = hout[f].done
          /\ \A g \in Factor : g # f => hout'[g] = hout[g]
      <4>1. PICK e, L, M : /\ e = [to |-> b, ok |-> TRUE]
                           /\ L = Written(f, a, b, "whole") /\ M = hout[f].marks \cup {<<a, b>>}
        OBVIOUS
      <4>2. hout' = Ran(f, a, e, L, M)
        BY <1>4, <2>2, <4>1 DEF Ran
      <4>3. e \in [to : 0 .. Layers, ok : BOOLEAN]
        BY <1>3, <4>1
      <4>4. L \in [Layer -> {"none", "torn", "whole"}] /\ M \in SUBSET (Nat \X Nat)
        BY <3>2, <3>3, <4>1
      <4>5. Types
        BY DEF InputsInv
      <4> QED BY <1>3, <4>2, <4>3, <4>4, <4>5, AfterRange
    <3> QED BY <3>4
  <2> QED BY <2>1, <2>2
<1>6. CASE b < Layers
  <2>1. b \in Layer /\ OnwardFrom(b)
    BY <1>3, <1>4, <1>6 DEF Layer
  <2> QED BY <1>3, <1>4, <1>5, <2>1, RangesGo
<1>7. CASE ~(b < Layers)
  BY <1>3, <1>4, <1>5, <1>7, FactorGoesOn
<1> QED BY <1>6, <1>7

\* A command that is over, with the evaluation traces, the chunks and the names as they were.
LEMMA CommandOver ==
    ASSUME InputsInv, cmd' = Idle, todo' = <<>>,
           trace' \in [Slice -> (SUBSET Heldout) \cup {None}], cal' \in Calibration \cup {None},
           rfn' \in [anchor : Anchor, probe : BOOLEAN], hout' \in [Factor -> Directory],
           UNCHANGED <<named, chunks>>, LastDiag'
    PROVE  InputsInv'
<1>1. Types'
  <2>1. <<>> \in Seq(Work) /\ Idle \in Order
    BY EmptySeq DEF Idle, Order
  <2> QED BY <2>1 DEF InputsInv, Types
<1>2. Pending' = {}
  BY EmptySeq DEF Pending, ToSet
<1>3. Cut'
  BY <1>2, CutStays DEF InputsInv
<1> QED BY <1>1, <1>3, NothingDue DEF InputsInv

LEMMA BlendHoutKeeps == InputsInv /\ BlendHout => InputsInv'
<1> SUFFICES ASSUME InputsInv, BlendHout PROVE InputsInv'
  OBVIOUS
<1>1. todo # <<>> /\ Head(todo).do = "blend" /\ UNCHANGED <<trace, cal, named, rfn, chunks>>
  BY DEF BlendHout, At, traces, measured
<1>2. CASE SameTensors
  <2>1. Onward /\ hout' = [hout EXCEPT !["blend"].layer = [l \in Layer |-> Blended(l)]]
    BY <1>2 DEF BlendHout
  <2>2. hout \in [Factor -> Directory] /\ "blend" \in Factor
    BY DEF InputsInv, Types, Factor
  <2>3. [l \in Layer |-> Blended(l)] \in [Layer -> {"none", "torn", "whole"}]
    <3>1. hout["cal"] \in Directory
      BY <2>2 DEF Factor
    <3> QED BY <3>1 DEF Blended, Directory
  <2>4. hout' \in [Factor -> Directory] /\ \A g \in Factor : hout'[g].done = hout[g].done
    <3>1. \A d \in Directory, L \in [Layer -> {"none", "torn", "whole"}] :
             [d EXCEPT !.layer = L] \in Directory /\ [d EXCEPT !.layer = L].done = d.done
      BY DEF Directory
    <3> QED BY <2>1, <2>2, <2>3, <3>1
  <2> QED BY <1>1, <2>1, <2>4, FactorGoesOn
<1>3. CASE ~SameTensors
  <2>1. cmd' = Idle /\ todo' = <<>> /\ UNCHANGED hout
    BY <1>3 DEF BlendHout, Halt
  <2> QED BY <1>1, <2>1, CommandOver DEF InputsInv, Types, LastDiag, Diagnosed
<1> QED BY <1>2, <1>3

LEMMA FactorDoneKeeps == InputsInv /\ FactorDone => InputsInv'
<1> SUFFICES ASSUME InputsInv, FactorDone PROVE InputsInv'
  OBVIOUS
<1>1. PICK f : f = Head(todo).on
  OBVIOUS
<1>2. /\ todo # <<>> /\ Head(todo).do = "done" /\ UNCHANGED <<trace, cal, named, rfn, chunks>>
      /\ Onward /\ f \in Factor /\ hout' = [hout EXCEPT ![f].done = TRUE]
  BY <1>1, AtHead, Kinds DEF FactorDone, At, traces, measured, InputsInv
<1>3. hout' \in [Factor -> Directory] /\ \A g \in Factor : hout'[g].done = (g = f \/ hout[g].done)
  <2>1. \A d \in Directory : [d EXCEPT !.done = TRUE] \in Directory /\ [d EXCEPT !.done = TRUE].done = TRUE
    BY DEF Directory
  <2>2. hout \in [Factor -> Directory] /\ \A g \in Factor : hout[g].done \in BOOLEAN
    BY DEF InputsInv, Types, Directory
  <2> QED BY <1>2, <2>1, <2>2
<1>4. (\A g \in Factor : hout[g].done => hout'[g].done) /\ hout'[f].done
  BY <1>2, <1>3
<1> QED BY <1>1, <1>2, <1>3, <1>4, FactorGoesOn

LEMMA ExitKeeps == InputsInv /\ Exit => InputsInv'
BY CommandOver DEF Exit, traces, measured, factors, InputsInv, Types, LastDiag, Diagnosed

LEMMA RemoveEvalKeeps == InputsInv /\ RemoveEval => InputsInv'
<1> SUFFICES ASSUME InputsInv, RemoveEval PROVE InputsInv'
  OBVIOUS
<1>1. /\ cmd' = Idle /\ todo' = <<>> /\ trace' = [sl \in Slice |-> None]
      /\ UNCHANGED <<cal, named, rfn, chunks, hout>>
  BY DEF RemoveEval, Between, measured, factors, InputsInv, Types
<1>2. trace' \in [Slice -> (SUBSET Heldout) \cup {None}]
  BY <1>1
<1>3. ~Diagnosed'
  BY <1>1, Kept DEF Diagnosed
<1> QED BY <1>1, <1>2, <1>3, CommandOver DEF InputsInv, Types, LastDiag

LEMMA RemoveCalKeeps == InputsInv /\ RemoveCal => InputsInv'
BY CommandOver DEF RemoveCal, Between, measured, factors, InputsInv, Types, LastDiag, Diagnosed

LEMMA BaselineBuiltKeeps == InputsInv /\ BaselineBuilt => InputsInv'
BY CommandOver DEF BaselineBuilt, Between, traces, factors, InputsInv, Types, LastDiag, Diagnosed

LEMMA SameMarks ==
    ASSUME hout \in [Factor -> Directory], NEW f \in Factor, NEW a, NEW L, NEW e
    PROVE  RanBare(f, a, e, L) = Ran(f, a, e, L, hout[f].marks)
<1> DEFINE x == [hout[f] EXCEPT !.layer = L, !.log[a] = e]
           y == [hout[f] EXCEPT !.layer = L, !.log[a] = e, !.marks = hout[f].marks]
<1>1. hout[f] \in Directory
  OBVIOUS
<1>2. x = y
  BY <1>1 DEF Directory
<1> QED BY <1>2 DEF Ran, RanBare

(***************************************************************************)
(* A stop.                                                                  *)
(***************************************************************************)
\* Only the whole run writes the last diagnostic trace.
LEMMA PartOfDiagTraces ==
    InputsInv /\ PartOfDiag => trace' \in [Slice -> (SUBSET Heldout) \cup {None}] /\ LastDiag'
<1> SUFFICES ASSUME InputsInv, PartOfDiag
             PROVE  trace' \in [Slice -> (SUBSET Heldout) \cup {None}] /\ LastDiag'
  OBVIOUS
<1>1. PICK n \in DOMAIN Diagnostic :
        trace' = [sl \in Slice |-> IF sl \in Prefix(n) THEN Prompts(sl) ELSE trace[sl]]
  BY DEF PartOfDiag
<1>2. trace' \in [Slice -> (SUBSET Heldout) \cup {None}]
  BY <1>1, Kept DEF InputsInv, Types
<1> DEFINE k == Len(Diagnostic)
<1>3. /\ k \in Nat /\ DOMAIN Diagnostic = 1 .. k /\ IsInjective(Diagnostic)
      /\ Diagnostic \in Seq(ToSet(Diagnostic))
  BY InputsAssumption, LenProperties
<1>4. Prefix(n) = {Diagnostic[i] : i \in 1 .. n}
  <2>1. n \in 1 .. k
    BY <1>3
  <2>2. /\ SubSeq(Diagnostic, 1, n) \in Seq(ToSet(Diagnostic)) /\ Len(SubSeq(Diagnostic, 1, n)) = n
        /\ \A i \in 1 .. n : SubSeq(Diagnostic, 1, n)[i] = Diagnostic[i]
    BY <1>3, <2>1, SubSeqProperties
  <2>3. DOMAIN SubSeq(Diagnostic, 1, n) = 1 .. n
    BY <2>2, LenProperties
  <2> QED BY <2>2, <2>3 DEF Prefix, ToSet
<1> HIDE DEF k
<1>5. ASSUME n = k PROVE \A sl \in ToSet(Diagnostic) : trace'[sl] # None
  <2>1. ToSet(Diagnostic) = {Diagnostic[i] : i \in 1 .. k}
    BY <1>3 DEF ToSet
  <2> QED BY <1>1, <1>4, <1>5, <2>1, Kept
<1>6. ASSUME n # k PROVE ~Diagnosed'
  <2>1. k \in 1 .. k /\ k \notin 1 .. n /\ 1 .. n \subseteq 1 .. k
    BY <1>3, <1>6, InputsAssumption, EmptySeq
  <2>2. Diagnostic[k] \notin Prefix(n)
    BY <1>3, <1>4, <2>1 DEF IsInjective
  <2>3. trace'[Diagnostic[k]] = trace[Diagnostic[k]] /\ Last(Diagnostic) = Diagnostic[k]
    BY <1>1, <2>2, Kept DEF Last, k
  <2>4. ~Diagnosed
    BY DEF PartOfDiag
  <2> QED BY <2>3, <2>4 DEF Diagnosed
<1>7. LastDiag'
  BY <1>5, <1>6 DEF LastDiag
<1> QED BY <1>2, <1>7

LEMMA StopKeeps == InputsInv /\ Stop => InputsInv'
<1> SUFFICES ASSUME InputsInv, Stop PROVE InputsInv'
  OBVIOUS
<1>1. cmd' = Idle /\ todo' = <<>>
  BY DEF Stop, Halt
<1>2. CASE UNCHANGED <<traces, measured, factors>>
  BY <1>1, <1>2, CommandOver DEF traces, measured, factors, InputsInv, Types, LastDiag, Diagnosed
<1>3. CASE PartOfDiag
  BY <1>1, <1>3, PartOfDiagTraces, CommandOver DEF PartOfDiag, measured, factors, InputsInv, Types
<1>4. CASE PartOfAnchors
  <2>1. rfn' \in [anchor : Anchor, probe : BOOLEAN]
    BY <1>4 DEF PartOfAnchors, InputsInv, Types
  <2> QED BY <1>1, <1>4, <2>1, CommandOver
          DEF PartOfAnchors, traces, factors, InputsInv, Types, LastDiag, Diagnosed
<1>5. CASE PartOfRange
  <2>1. PICK f, a, s : f = Head(todo).on /\ a = Head(todo).from /\ s = Head(todo).by
    OBVIOUS
  <2>2. PICK b : b = Upto(a, Layers, s)
    OBVIOUS
  <2>3. f \in Factor /\ a \in Layer /\ b \in 0 .. Layers
    BY <1>5, <2>1, <2>2, RangeAtHead DEF PartOfRange, InputsInv
  <2>4. PICK m \in a .. b - 1 :
          hout' = [hout EXCEPT ![f].layer = WrittenUpTo(f, a, m), ![f].log[a] = [to |-> b, ok |-> FALSE]]
    BY <1>5, <2>1, <2>2 DEF PartOfRange
  <2> DEFINE e == [to |-> b, ok |-> FALSE]
  <2>5. hout' = Ran(f, a, e, WrittenUpTo(f, a, m), hout[f].marks)
    <3>1. hout' = RanBare(f, a, e, WrittenUpTo(f, a, m))
      BY <2>4 DEF RanBare
    <3> QED BY <2>3, <3>1, SameMarks DEF InputsInv, Types
  <2>6. WrittenUpTo(f, a, m) \in [Layer -> {"none", "torn", "whole"}] /\ hout[f].marks \in SUBSET (Nat \X Nat)
    BY <2>3 DEF WrittenUpTo, InputsInv, Types, Directory
  <2>7. hout' \in [Factor -> Directory]
    <3>1. e \in [to : 0 .. Layers, ok : BOOLEAN]
      BY <2>3
    <3> HIDE DEF e
    <3> QED BY <2>3, <2>5, <2>6, <3>1, AfterRange DEF InputsInv
  <2> QED BY <1>1, <1>5, <2>7, CommandOver
          DEF PartOfRange, traces, measured, InputsInv, Types, LastDiag, Diagnosed
<1>6. CASE PartOfBlend
  <2>1. PICK m \in Layer : hout' = [hout EXCEPT !["blend"].layer = WrittenUpTo("blend", 0, m)]
    BY <1>6 DEF PartOfBlend
  <2>2. hout \in [Factor -> Directory] /\ "blend" \in Factor
    BY DEF InputsInv, Types, Factor
  <2>3. WrittenUpTo("blend", 0, m) \in [Layer -> {"none", "torn", "whole"}]
    BY <2>2 DEF WrittenUpTo, Directory
  <2>4. \A d \in Directory, L \in [Layer -> {"none", "torn", "whole"}] : [d EXCEPT !.layer = L] \in Directory
    BY DEF Directory
  <2>5. hout' \in [Factor -> Directory]
    BY <2>1, <2>2, <2>3, <2>4
  <2> QED BY <1>1, <1>6, <2>5, CommandOver
          DEF PartOfBlend, traces, measured, InputsInv, Types, LastDiag, Diagnosed
<1> QED BY <1>2, <1>3, <1>4, <1>5, <1>6 DEF Stop

(***************************************************************************)
(* Commands.                                                                *)
(***************************************************************************)
LEMMA Listed ==
    ASSUME NEW S, NEW n \in Nat, NEW s \in [1 .. n -> S]
    PROVE  s \in Seq(S) /\ ToSet(s) = {s[i] : i \in 1 .. n}
BY IsASeq, LenProperties DEF ToSet

LEMMA Single ==
    ASSUME NEW S, NEW x \in S
    PROVE  <<x>> \in Seq(S) /\ ToSet(<<x>>) = {x} /\ <<x>> # <<>> /\ Last(<<x>>) = x
<1>1. <<x>> \in Seq(S) /\ Len(<<x>>) = 1 /\ <<x>>[1] = x /\ DOMAIN <<x>> = 1 .. 1
  OBVIOUS
<1>2. 1 .. 1 = {1}
  OBVIOUS
<1> QED BY <1>1, <1>2 DEF ToSet, Last

LEMMA Nothing == /\ <<>> \in Seq(Work) /\ ToSet(<<>>) = {}
BY EmptySeq DEF ToSet

\* A step that neither measures a category nor makes a factor.
Plain(s) == s.do \notin {"category", "ranges", "blend", "done"}

LEMMA EvalStepsAre ==
    /\ EvalSteps \in Seq(Work) /\ \A s \in ToSet(EvalSteps) : Plain(s)
    /\ \A sl \in ToSet(Composite) : \E s \in ToSet(EvalSteps) : s.do = "eval" /\ s.on = sl
    /\ \E s \in ToSet(EvalSteps) : s.do = "diag"
<1> DEFINE n == Len(Composite)
           e == [i \in DOMAIN Composite |-> [do |-> "eval", on |-> Composite[i]]]
           d == <<[do |-> "diag"]>>
           D == [do |-> "diag"]
<1>1. n \in Nat /\ Composite \in [1 .. n -> ToSet(Composite)] /\ DOMAIN Composite = 1 .. n
  BY InputsAssumption, LenProperties
<1>2. \A i \in 1 .. n : e[i] = [do |-> "eval", on |-> Composite[i]] /\ e[i] \in Work
                         /\ e[i].do = "eval" /\ e[i].on = Composite[i]
  BY <1>1 DEF Work
<1>3. DOMAIN e = 1 .. n /\ e \in [1 .. n -> Work]
  BY <1>1, <1>2
<1>4. D \in Work /\ D.do = "diag"
  BY DEF Work
<1> HIDE DEF n, e, D
<1>5. e \in Seq(Work) /\ ToSet(e) = {e[i] : i \in 1 .. n}
  BY <1>1, <1>3, Listed
<1>6. d \in Seq(Work) /\ ToSet(d) = {D}
  BY <1>4, Single DEF D
<1>7. EvalSteps = e \o d
  BY DEF EvalSteps, e
<1> HIDE DEF d
<1>8. EvalSteps \in Seq(Work) /\ ToSet(EvalSteps) = ToSet(e) \cup ToSet(d)
  BY <1>5, <1>6, <1>7, Joined
<1>9. \A s \in ToSet(EvalSteps) : Plain(s)
  BY <1>2, <1>4, <1>5, <1>6, <1>8 DEF Plain
<1>10. ASSUME NEW sl \in ToSet(Composite) PROVE \E s \in ToSet(EvalSteps) : s.do = "eval" /\ s.on = sl
  <2>1. PICK i \in 1 .. n : sl = Composite[i]
    BY <1>1 DEF ToSet
  <2>2. e[i] \in ToSet(EvalSteps) /\ e[i].do = "eval" /\ e[i].on = sl
    BY <1>2, <1>5, <1>8, <2>1
  <2> QED BY <2>2
<1> QED BY <1>4, <1>6, <1>8, <1>9, <1>10

LEMMA CalStepsAre ==
    ASSUME NEW g \in Generators
    PROVE  /\ CalSteps(g) \in Seq(Work) /\ \A s \in ToSet(CalSteps(g)) : Plain(s)
           /\ \E s \in ToSet(CalSteps(g)) : s.do = "cal"
           /\ \E s \in ToSet(CalSteps(g)) : s.do = "name"
           /\ CalSteps(g) # <<>> /\ Last(CalSteps(g)).do = "decontaminate"
<1> DEFINE m == IF g = "uncalibrated" THEN <<[do |-> "generator"]>> ELSE <<>>
           G == [do |-> "generator"]
           A == [do |-> "cal", on |-> g]
           B == [do |-> "name", on |-> g]
           C == [do |-> "decontaminate"]
           r == <<A, B, C>>
<1>1. /\ {G, A, B, C} \subseteq Work /\ A.do = "cal" /\ B.do = "name"
      /\ C.do = "decontaminate" /\ \A s \in {G, A, B, C} : Plain(s)
  BY DEF Work, Plain
<1>2. CalSteps(g) = m \o r
  BY DEF CalSteps
<1> HIDE DEF G, A, B, C
<1>3. r \in Seq(Work) /\ ToSet(r) = {A, B, C} /\ r # <<>> /\ Last(r) = C
  <2>1. /\ r \in Seq(Work) /\ Len(r) = 3 /\ r[1] = A /\ r[2] = B /\ r[3] = C
        /\ DOMAIN r = 1 .. 3 /\ r # <<>>
    BY <1>1
  <2>2. 1 .. 3 = {1, 2, 3}
    OBVIOUS
  <2> HIDE DEF r
  <2>3. ToSet(r) = {A, B, C}
    BY <2>1, <2>2 DEF ToSet
  <2> QED BY <2>1, <2>3 DEF Last
<1>4. m \in Seq(Work) /\ ToSet(m) \subseteq {G}
  <2>1. CASE g = "uncalibrated"
    BY <1>1, <2>1, Single DEF G
  <2>2. CASE g # "uncalibrated"
    BY <2>2, Nothing
  <2> QED BY <2>1, <2>2
<1> HIDE DEF m, r
<1>5. /\ CalSteps(g) \in Seq(Work) /\ ToSet(CalSteps(g)) = ToSet(m) \cup ToSet(r)
      /\ CalSteps(g) # <<>> /\ Last(CalSteps(g)) = C
  BY <1>2, <1>3, <1>4, Joined
<1> QED BY <1>1, <1>3, <1>4, <1>5

LEMMA RecallStepsAre ==
    \A s : s = [i \in 1 .. 3 |-> [do |-> "recall", on |-> <<"pool", "reference", "slice">>[i]]] =>
        s \in Seq(Work) /\ \A w \in ToSet(s) : Plain(w)
<1> SUFFICES ASSUME NEW s, s = [i \in 1 .. 3 |-> [do |-> "recall", on |-> <<"pool", "reference", "slice">>[i]]]
             PROVE  s \in Seq(Work) /\ \A w \in ToSet(s) : Plain(w)
  OBVIOUS
<1> DEFINE q == <<"pool", "reference", "slice">>
           S == Work
<1>1. \A i \in 1 .. 3 : q[i] \in {"pool", "reference", "slice"}
  OBVIOUS
<1> HIDE DEF q
<1>2. DOMAIN s = 1 .. 3 /\ \A i \in 1 .. 3 : s[i] = [do |-> "recall", on |-> q[i]]
  BY DEF q
<1>3. \A i \in 1 .. 3 : [do |-> "recall", on |-> q[i]] \in Work /\ Plain([do |-> "recall", on |-> q[i]])
  <2>1. \A x \in {"pool", "reference", "slice"} :
          [do |-> "recall", on |-> x] \in Work /\ Plain([do |-> "recall", on |-> x])
    BY DEF Work, Plain
  <2> QED BY <1>1, <2>1
<1>4. s = [i \in 1 .. 3 |-> s[i]]
  OBVIOUS
<1>5. s \in [1 .. 3 -> S] /\ \A i \in 1 .. 3 : Plain(s[i])
  BY <1>2, <1>3, <1>4
<1> HIDE DEF S
<1>6. \E q0 : q0 = s /\ q0 \in [1 .. 3 -> S]
  BY <1>5
<1>7. s \in Seq(S) /\ ToSet(s) = {s[i] : i \in 1 .. 3}
  <2>1. PICK t \in [1 .. 3 -> S] : t = s
    BY <1>6
  <2>2. 3 \in Nat
    OBVIOUS
  <2>3. t \in Seq(S) /\ ToSet(t) = {t[i] : i \in 1 .. 3}
    BY <2>2, Listed
  <2> QED BY <2>1, <2>3
<1> QED BY <1>5, <1>7 DEF S

\* A command starts with all of its steps before it.
LEMMA StartKeeps ==
    ASSUME InputsInv, NEW c \in Order, c # Idle, NEW steps \in Seq(Work), Start(c, steps),
           \A s \in ToSet(steps) : s.do = "category" => s.upto <= Available[s.on],
           TracesDue', RowsDue', FactorsDue'
    PROVE  InputsInv'
<1>1. cmd' = c /\ todo' = steps /\ UNCHANGED <<trace, cal, named, rfn, chunks, hout>>
  BY DEF Start, traces, measured, factors
<1>2. Types' /\ LastDiag'
  BY <1>1 DEF InputsInv, Types, LastDiag, Diagnosed
<1>3. Cut'
  BY <1>1 DEF InputsInv, Cut, Pending
<1> QED BY <1>2, <1>3 DEF InputsInv

LEMMA RefuseKeeps == InputsInv /\ Refuse => InputsInv'
BY DEF Refuse, traces, measured, factors, InputsInv, Types, Cut, LastDiag, Diagnosed,
       TracesDue, HeldOut, RowsDue, Measured, FactorsDue, Pending

LEMMA EvalTracesKeeps == \A r \in BOOLEAN : InputsInv /\ EvalTraces(r) => InputsInv'
<1> SUFFICES ASSUME NEW r \in BOOLEAN, InputsInv, EvalTraces(r) PROVE InputsInv'
  OBVIOUS
<1>1. CASE r
  <2>1. Start([op |-> "eval-traces"], EvalSteps)
    BY <1>1 DEF EvalTraces, TraceSetup
  <2>2. cmd' = [op |-> "eval-traces"] /\ Pending' = ToSet(EvalSteps)
    BY <2>1 DEF Start, Pending
  <2>3. TracesDue' /\ RowsDue' /\ FactorsDue'
    BY <2>2, EvalStepsAre DEF TracesDue, RowsDue, FactorsDue
  <2>4. [op |-> "eval-traces"] \in Order /\ [op |-> "eval-traces"] # Idle
    BY DEF Order, Idle
  <2> QED BY <2>1, <2>3, <2>4, EvalStepsAre, StartKeeps DEF Plain
<1>2. CASE ~r
  BY <1>2, RefuseKeeps DEF EvalTraces, TraceSetup
<1> QED BY <1>1, <1>2

LEMMA CalTracesKeeps ==
    \A r \in BOOLEAN, g \in Generators : InputsInv /\ CalTraces(r, g) => InputsInv'
<1> SUFFICES ASSUME NEW r \in BOOLEAN, NEW g \in Generators, InputsInv, CalTraces(r, g) PROVE InputsInv'
  OBVIOUS
<1>1. CASE r /\ trace["swe"] # None
  <2>1. Start([op |-> "cal-traces"], CalSteps(g))
    BY <1>1 DEF CalTraces, TraceSetup
  <2>2. cmd' = [op |-> "cal-traces"] /\ Pending' = ToSet(CalSteps(g)) /\ todo' = CalSteps(g)
    BY <2>1 DEF Start, Pending
  <2>3. TracesDue' /\ RowsDue' /\ FactorsDue'
    BY <2>2, CalStepsAre DEF TracesDue, RowsDue, FactorsDue
  <2>4. [op |-> "cal-traces"] \in Order /\ [op |-> "cal-traces"] # Idle
    BY DEF Order, Idle
  <2> QED BY <2>1, <2>3, <2>4, CalStepsAre, StartKeeps DEF Plain
<1>2. CASE ~(r /\ trace["swe"] # None)
  BY <1>2, RefuseKeeps DEF CalTraces, TraceSetup
<1> QED BY <1>1, <1>2

LEMMA TracesKeeps ==
    \A r \in BOOLEAN, g \in Generators : InputsInv /\ Traces(r, g) => InputsInv'
<1> SUFFICES ASSUME NEW r \in BOOLEAN, NEW g \in Generators, InputsInv, Traces(r, g) PROVE InputsInv'
  OBVIOUS
<1>1. CASE r
  <2> DEFINE s == EvalSteps \o CalSteps(g)
  <2>1. Start([op |-> "traces"], s)
    BY <1>1 DEF Traces, TraceSetup
  <2>2. /\ s \in Seq(Work) /\ ToSet(s) = ToSet(EvalSteps) \cup ToSet(CalSteps(g))
        /\ s # <<>> /\ Last(s) = Last(CalSteps(g))
    BY EvalStepsAre, CalStepsAre, Joined
  <2> HIDE DEF s
  <2>3. cmd' = [op |-> "traces"] /\ Pending' = ToSet(s) /\ todo' = s
    BY <2>1 DEF Start, Pending
  <2>4. TracesDue'
    BY <2>2, <2>3, EvalStepsAre, CalStepsAre DEF TracesDue
  <2>5. RowsDue' /\ FactorsDue'
    BY <2>3 DEF RowsDue, FactorsDue
  <2>6. [op |-> "traces"] \in Order /\ [op |-> "traces"] # Idle
    BY DEF Order, Idle
  <2>7. \A w \in ToSet(s) : Plain(w)
    BY <2>2, EvalStepsAre, CalStepsAre
  <2> QED BY <2>1, <2>2, <2>4, <2>5, <2>6, <2>7, StartKeeps DEF Plain
<1>2. CASE ~r
  BY <1>2, RefuseKeeps DEF Traces, TraceSetup
<1> QED BY <1>1, <1>2

LEMMA RecallSliceKeeps == InputsInv /\ RecallSlice => InputsInv'
<1> SUFFICES ASSUME InputsInv, RecallSlice PROVE InputsInv'
  OBVIOUS
<1>1. PICK s : s = [i \in 1 .. 3 |-> [do |-> "recall", on |-> <<"pool", "reference", "slice">>[i]]]
  OBVIOUS
<1>2. Start([op |-> "recall-slice"], s)
  BY <1>1 DEF RecallSlice
<1>3. TracesDue' /\ RowsDue' /\ FactorsDue'
  BY <1>2 DEF Start, TracesDue, RowsDue, FactorsDue
<1>4. [op |-> "recall-slice"] \in Order /\ [op |-> "recall-slice"] # Idle
  BY DEF Order, Idle
<1> QED BY <1>1, <1>2, <1>3, <1>4, RecallStepsAre, StartKeeps DEF Plain

MeasureSteps(spec, anchor) ==
    LET order == SetToSeq(Category)
    IN  <<[do |-> "anchors", on |-> anchor]>>
        \o [i \in DOMAIN order |->
              [do |-> "category", on |-> order[i], upto |-> Wanted(spec, order[i])]]

LEMMA MeasureStepsAre ==
    ASSUME NEW spec \in RowSpecs, NEW anchor \in Anchors
    PROVE  /\ MeasureSteps(spec, anchor) \in Seq(Work)
           /\ \A w \in ToSet(MeasureSteps(spec, anchor)) :
                Plain(w) \/ (w.do = "category" /\ w.upto <= Available[w.on])
           /\ \A c \in Category : \E w \in ToSet(MeasureSteps(spec, anchor)) :
                w.do = "category" /\ w.on = c /\ w.upto = Wanted(spec, c)
<1> DEFINE order == SetToSeq(Category)
           n == Len(order)
           A == [do |-> "anchors", on |-> anchor]
           a == <<A>>
           r == [i \in DOMAIN order |->
                   [do |-> "category", on |-> order[i], upto |-> Wanted(spec, order[i])]]
           s == a \o r
<1>1. s = MeasureSteps(spec, anchor)
  BY DEF MeasureSteps
<1>2. order \in Seq(Category) /\ ToSet(order) = Category
  BY OrderOf
<1>3. n \in Nat /\ DOMAIN order = 1 .. n /\ \A i \in 1 .. n : order[i] \in Category
  BY <1>2, LenProperties
<1> HIDE DEF order, n
<1>4. \A i \in 1 .. n : Wanted(spec, order[i]) \in Nat /\ Wanted(spec, order[i]) <= Available[order[i]]
  <2> SUFFICES ASSUME NEW i \in 1 .. n
               PROVE  Wanted(spec, order[i]) \in Nat /\ Wanted(spec, order[i]) <= Available[order[i]]
    OBVIOUS
  <2>1. order[i] \in Category /\ Available[order[i]] \in Nat
    BY <1>3, InputsAssumption
  <2>2. Wanted(spec, order[i]) \in 0 .. Available[order[i]]
    BY <2>1, WantedIs
  <2> QED BY <2>1, <2>2
<1>5. \A i \in 1 .. n : /\ r[i].do = "category" /\ r[i].on = order[i]
                        /\ r[i].upto = Wanted(spec, order[i]) /\ r[i] \in Work
  BY <1>3, <1>4 DEF Work
<1>6. r \in [1 .. n -> Work]
  BY <1>3, <1>5
<1>7. A \in Work /\ Plain(A)
  BY DEF Work, Plain
<1> HIDE DEF r, A
<1>8. r \in Seq(Work) /\ ToSet(r) = {r[i] : i \in 1 .. n}
  BY <1>3, <1>6, Listed
<1>9. a \in Seq(Work) /\ ToSet(a) = {A}
  BY <1>7, Single
<1> HIDE DEF a
<1>10. s \in Seq(Work) /\ ToSet(s) = {A} \cup {r[i] : i \in 1 .. n}
  BY <1>8, <1>9, Joined
<1> HIDE DEF s
<1>11. \A w \in ToSet(s) : Plain(w) \/ (w.do = "category" /\ w.upto <= Available[w.on])
  BY <1>4, <1>5, <1>7, <1>10
<1>12. ASSUME NEW c \in Category
       PROVE  \E w \in ToSet(s) : w.do = "category" /\ w.on = c /\ w.upto = Wanted(spec, c)
  <2>1. PICK i \in 1 .. n : c = order[i]
    BY <1>2, <1>3 DEF ToSet
  <2> QED BY <1>5, <1>10, <2>1
<1> QED BY <1>1, <1>10, <1>11, <1>12

LEMMA MeasureKeeps ==
    \A spec \in RowSpecs, anchor \in Anchors : InputsInv /\ Measure(spec, anchor) => InputsInv'
<1> SUFFICES ASSUME NEW spec \in RowSpecs, NEW anchor \in Anchors, InputsInv, Measure(spec, anchor)
             PROVE  InputsInv'
  OBVIOUS
<1>1. CASE cal = None
  BY <1>1, RefuseKeeps DEF Measure
<1>2. CASE cal # None
  <2> DEFINE s == MeasureSteps(spec, anchor)
             c == [op |-> "measure", rows |-> spec]
  <2>1. Start(c, s)
    BY <1>2 DEF Measure, MeasureSteps
  <2>2. c \in Order /\ c # Idle /\ c.op = "measure" /\ c.rows = spec
    BY DEF Order, Idle
  <2>3. s \in Seq(Work) /\ \A w \in ToSet(s) : w.do = "category" => w.upto <= Available[w.on]
    BY MeasureStepsAre DEF Plain
  <2> HIDE DEF s, c
  <2>4. cmd' = c /\ Pending' = ToSet(s)
    BY <2>1 DEF Start, Pending
  <2>5. RowsDue'
    BY <2>2, <2>4, MeasureStepsAre DEF RowsDue, s
  <2>6. TracesDue' /\ FactorsDue'
    BY <2>2, <2>4 DEF TracesDue, FactorsDue
  <2> QED BY <2>1, <2>2, <2>3, <2>5, <2>6, StartKeeps
<1> QED BY <1>1, <1>2

\* The order the factors are made in.
Rank(w) ==
    CASE w.do = "ranges" -> IF w.on = "ownvoice" THEN 1 ELSE 3
      [] w.do = "done" -> IF w.on = "ownvoice" THEN 2 ELSE IF w.on = "cal" THEN 4 ELSE 6
      [] w.do = "blend" -> 5
      [] OTHER -> 0
Sorted(s) == \A i, j \in 1 .. Len(s) : i <= j => Rank(s[i]) <= Rank(s[j])

LEMMA RankIs == \A w : Rank(w) \in 0 .. 6
BY DEF Rank

LEMMA SortedJoined ==
    ASSUME NEW s \in Seq(Work), NEW t \in Seq(Work), Sorted(s), Sorted(t),
           \A v \in ToSet(s), w \in ToSet(t) : Rank(v) <= Rank(w)
    PROVE  Sorted(s \o t)
<1>1. /\ Len(s \o t) = Len(s) + Len(t)
      /\ \A i \in 1 .. Len(s) + Len(t) :
           (s \o t)[i] = IF i <= Len(s) THEN s[i] ELSE t[i - Len(s)]
  BY ConcatProperties
<1>2. /\ Len(s) \in Nat /\ Len(t) \in Nat /\ DOMAIN s = 1 .. Len(s) /\ DOMAIN t = 1 .. Len(t)
  BY LenProperties
<1> SUFFICES ASSUME NEW i \in 1 .. Len(s) + Len(t), NEW j \in 1 .. Len(s) + Len(t), i <= j
             PROVE  Rank((s \o t)[i]) <= Rank((s \o t)[j])
  BY <1>1 DEF Sorted
<1>3. CASE j <= Len(s)
  <2>1. i \in 1 .. Len(s) /\ j \in 1 .. Len(s)
    BY <1>2, <1>3
  <2> QED BY <1>1, <1>2, <1>3, <2>1 DEF Sorted
<1>4. CASE ~(j <= Len(s)) /\ i <= Len(s)
  <2>1. i \in 1 .. Len(s) /\ j - Len(s) \in 1 .. Len(t)
    BY <1>2, <1>4
  <2>2. s[i] \in ToSet(s) /\ t[j - Len(s)] \in ToSet(t)
    BY <1>2, <2>1 DEF ToSet
  <2> QED BY <1>1, <1>4, <2>1, <2>2
<1>5. CASE ~(j <= Len(s)) /\ ~(i <= Len(s))
  <2>1. i - Len(s) \in 1 .. Len(t) /\ j - Len(s) \in 1 .. Len(t) /\ i - Len(s) <= j - Len(s)
    BY <1>2, <1>5
  <2>2. Rank(t[i - Len(s)]) <= Rank(t[j - Len(s)])
    BY <2>1 DEF Sorted
  <2> QED BY <1>1, <1>5, <2>1, <2>2
<1> QED BY <1>3, <1>4, <1>5

LEMMA Pair ==
    ASSUME NEW a \in Work, NEW b \in Work, Rank(a) <= Rank(b)
    PROVE  <<a, b>> \in Seq(Work) /\ ToSet(<<a, b>>) = {a, b} /\ Sorted(<<a, b>>)
<1> DEFINE p == <<a, b>>
<1>1. p \in Seq(Work) /\ Len(p) = 2 /\ DOMAIN p = 1 .. 2 /\ p[1] = a /\ p[2] = b
  OBVIOUS
<1>2. 1 .. 2 = {1, 2}
  OBVIOUS
<1> HIDE DEF p
<1>3. ToSet(p) = {a, b}
  BY <1>1, <1>2 DEF ToSet
<1>4. Sorted(p)
  BY <1>1, <1>2, RankIs DEF Sorted
<1> QED BY <1>1, <1>3, <1>4 DEF p

LEMMA Empty == <<>> \in Seq(Work) /\ ToSet(<<>>) = {} /\ Sorted(<<>>)
<1>1. Len(<<>>) = 0
  BY EmptySeq
<1>2. 1 .. 0 = {}
  OBVIOUS
<1>3. Sorted(<<>>)
  BY <1>1, <1>2 DEF Sorted
<1> QED BY <1>3, Nothing

LEMMA PairUnless ==
    ASSUME NEW a \in Work, NEW b \in Work, Rank(a) <= Rank(b),
           NEW h, NEW q, q = IF h.done THEN <<>> ELSE <<a, b>>
    PROVE  q \in Seq(Work) /\ Sorted(q) /\ ToSet(q) = IF h.done THEN {} ELSE {a, b}
<1>1. CASE h.done
  BY <1>1, Empty
<1>2. CASE ~h.done
  <2>1. q = <<a, b>>
    BY <1>2
  <2> QED BY <1>2, <2>1, Pair
<1> QED BY <1>1, <1>2

Ranges(f, step) == [do |-> "ranges", on |-> f, from |-> 0, by |-> step]
Done(f) == [do |-> "done", on |-> f]
Blend == [do |-> "blend"]
BlendSteps == IF hout["blend"].done THEN <<>> ELSE <<Blend, Done("blend")>>
YaqaSteps(step) == OwnvoiceRows \o Collect("ownvoice", step) \o Collect("cal", step) \o BlendSteps

LEMMA Ranked ==
    ASSUME NEW step \in LayersPerRun
    PROVE  /\ \A f \in {"ownvoice", "cal"} : Ranges(f, step) \in Work /\ Done(f) \in Work
           /\ Blend \in Work /\ Done("blend") \in Work
           /\ Rank(Ranges("ownvoice", step)) = 1 /\ Rank(Done("ownvoice")) = 2
           /\ Rank(Ranges("cal", step)) = 3 /\ Rank(Done("cal")) = 4
           /\ Rank(Blend) = 5 /\ Rank(Done("blend")) = 6
<1>1. 0 \in Layer
  BY InputsAssumption DEF Layer
<1>2. /\ \A f \in {"ownvoice", "cal"} : Ranges(f, step) \in Work /\ Done(f) \in Work
      /\ Blend \in Work /\ Done("blend") \in Work
  BY <1>1 DEF Ranges, Done, Blend, Work, Factor
<1>3. /\ Rank(Ranges("ownvoice", step)) = 1 /\ Rank(Ranges("cal", step)) = 3
  BY DEF Rank, Ranges
<1>4. Rank(Done("ownvoice")) = 2 /\ Rank(Done("cal")) = 4 /\ Rank(Done("blend")) = 6
  BY DEF Rank, Done
<1>5. Rank(Blend) = 5
  BY DEF Rank, Blend
<1> QED BY <1>2, <1>3, <1>4, <1>5

LEMMA OwnvoiceRowsAre ==
    /\ OwnvoiceRows \in Seq(Work) /\ Sorted(OwnvoiceRows)
    /\ \A w \in ToSet(OwnvoiceRows) : w.do \in {"pass", "join"} /\ Rank(w) = 0
<1>1. CASE hout["ownvoice"].done \/ own.joined
  BY <1>1, Empty DEF OwnvoiceRows
<1>2. CASE ~(hout["ownvoice"].done \/ own.joined)
  <2> DEFINE p == [s \in 1 .. Seeds |-> [do |-> "pass", on |-> s]]
             J == [do |-> "join"]
             j == <<J>>
  <2>1. OwnvoiceRows = p \o j
    BY <1>2 DEF OwnvoiceRows
  <2>2. J \in Work /\ J.do = "join" /\ \A i \in 1 .. Seeds : p[i] \in Work /\ p[i].do = "pass"
    BY DEF Work
  <2>3. p \in [1 .. Seeds -> Work] /\ Seeds \in Nat
    BY <2>2, InputsAssumption
  <2> HIDE DEF p, J
  <2>4. p \in Seq(Work) /\ ToSet(p) = {p[i] : i \in 1 .. Seeds}
    BY <2>3, Listed
  <2>5. j \in Seq(Work) /\ ToSet(j) = {J}
    BY <2>2, Single
  <2> HIDE DEF j
  <2>6. OwnvoiceRows \in Seq(Work) /\ ToSet(OwnvoiceRows) = ToSet(p) \cup ToSet(j)
    BY <2>1, <2>4, <2>5, Joined
  <2>7. \A w \in ToSet(OwnvoiceRows) : w.do \in {"pass", "join"}
    BY <2>2, <2>4, <2>5, <2>6
  <2>8. \A w \in ToSet(OwnvoiceRows) : Rank(w) = 0
    BY <2>7 DEF Rank
  <2>9. \A i \in 1 .. Len(OwnvoiceRows) : OwnvoiceRows[i] \in ToSet(OwnvoiceRows)
    BY <2>6, LenProperties DEF ToSet
  <2>10. Sorted(OwnvoiceRows)
    BY <2>8, <2>9 DEF Sorted
  <2> QED BY <2>6, <2>7, <2>8, <2>10
<1> QED BY <1>1, <1>2

LEMMA YaqaStepsAre ==
    ASSUME NEW step \in LayersPerRun
    PROVE  /\ YaqaSteps(step) \in Seq(Work) /\ Sorted(YaqaSteps(step))
           /\ \A w \in ToSet(YaqaSteps(step)) :
                \/ w.do \in {"pass", "join"}
                \/ \E f \in {"ownvoice", "cal"} : ~hout[f].done /\ w \in {Ranges(f, step), Done(f)}
                \/ ~hout["blend"].done /\ w \in {Blend, Done("blend")}
           /\ \A f \in {"ownvoice", "cal"} :
                ~hout[f].done => {Ranges(f, step), Done(f)} \subseteq ToSet(YaqaSteps(step))
           /\ ~hout["blend"].done => {Blend, Done("blend")} \subseteq ToSet(YaqaSteps(step))
<1> DEFINE r == OwnvoiceRows
           o == Collect("ownvoice", step)
           c == Collect("cal", step)
           b == BlendSteps
<1>1. /\ o \in Seq(Work) /\ Sorted(o)
      /\ ToSet(o) = IF hout["ownvoice"].done THEN {} ELSE {Ranges("ownvoice", step), Done("ownvoice")}
  <2>1. o = IF hout["ownvoice"].done THEN <<>> ELSE <<Ranges("ownvoice", step), Done("ownvoice")>>
    BY DEF Collect, Ranges, Done
  <2>2. /\ Ranges("ownvoice", step) \in Work /\ Done("ownvoice") \in Work
        /\ Rank(Ranges("ownvoice", step)) <= Rank(Done("ownvoice"))
    BY Ranked
  <2> HIDE DEF o
  <2> QED BY <2>1, <2>2, PairUnless
<1>2. /\ c \in Seq(Work) /\ Sorted(c)
      /\ ToSet(c) = IF hout["cal"].done THEN {} ELSE {Ranges("cal", step), Done("cal")}
  <2>1. c = IF hout["cal"].done THEN <<>> ELSE <<Ranges("cal", step), Done("cal")>>
    BY DEF Collect, Ranges, Done
  <2>2. /\ Ranges("cal", step) \in Work /\ Done("cal") \in Work
        /\ Rank(Ranges("cal", step)) <= Rank(Done("cal"))
    BY Ranked
  <2> HIDE DEF c
  <2> QED BY <2>1, <2>2, PairUnless
<1>3. /\ b \in Seq(Work) /\ Sorted(b)
      /\ ToSet(b) = IF hout["blend"].done THEN {} ELSE {Blend, Done("blend")}
  <2>1. b = IF hout["blend"].done THEN <<>> ELSE <<Blend, Done("blend")>>
    BY DEF BlendSteps
  <2>2. Rank(Blend) <= Rank(Done("blend"))
    BY Ranked
  <2> HIDE DEF b
  <2> QED BY <2>1, <2>2, PairUnless, Ranked
<1>4. r \in Seq(Work) /\ Sorted(r) /\ \A w \in ToSet(r) : w.do \in {"pass", "join"} /\ Rank(w) = 0
  BY OwnvoiceRowsAre
<1>5. /\ \A w \in ToSet(o) : Rank(w) \in 1 .. 2
      /\ \A w \in ToSet(c) : Rank(w) \in 3 .. 4
      /\ \A w \in ToSet(b) : Rank(w) \in 5 .. 6
  BY <1>1, <1>2, <1>3, Ranked
<1>6. YaqaSteps(step) = ((r \o o) \o c) \o b
  BY DEF YaqaSteps
<1> HIDE DEF r, o, c, b
<1> DEFINE x == r \o o
           y == x \o c
<1>7. x \in Seq(Work) /\ Sorted(x) /\ ToSet(x) = ToSet(r) \cup ToSet(o)
  BY <1>1, <1>4, <1>5, Joined, SortedJoined
<1> HIDE DEF x
<1>8. y \in Seq(Work) /\ Sorted(y) /\ ToSet(y) = ToSet(x) \cup ToSet(c)
  <2>1. \A v \in ToSet(x), w \in ToSet(c) : Rank(v) <= Rank(w)
    BY <1>4, <1>5, <1>7
  <2> QED BY <1>2, <1>7, <2>1, Joined, SortedJoined
<1> HIDE DEF y
<1>9. /\ YaqaSteps(step) \in Seq(Work) /\ Sorted(YaqaSteps(step))
      /\ ToSet(YaqaSteps(step)) = ToSet(y) \cup ToSet(b)
  <2>1. \A v \in ToSet(y), w \in ToSet(b) : Rank(v) <= Rank(w)
    BY <1>4, <1>5, <1>7, <1>8
  <2>2. YaqaSteps(step) = y \o b
    BY <1>6 DEF x, y
  <2> QED BY <1>3, <1>8, <2>1, <2>2, Joined, SortedJoined
<1> DEFINE Y == ToSet(YaqaSteps(step))
<1>10. Y = ToSet(r) \cup ToSet(o) \cup ToSet(c) \cup ToSet(b)
  BY <1>7, <1>8, <1>9
<1> HIDE DEF Y
<1>11. ASSUME NEW w \in Y
       PROVE  \/ w.do \in {"pass", "join"}
              \/ \E f \in {"ownvoice", "cal"} : ~hout[f].done /\ w \in {Ranges(f, step), Done(f)}
              \/ ~hout["blend"].done /\ w \in {Blend, Done("blend")}
  BY <1>1, <1>2, <1>3, <1>4, <1>10
<1>12. \A f \in {"ownvoice", "cal"} : ~hout[f].done => {Ranges(f, step), Done(f)} \subseteq Y
  BY <1>1, <1>2, <1>10
<1>13. ~hout["blend"].done => {Blend, Done("blend")} \subseteq Y
  BY <1>3, <1>10
<1> QED BY <1>9, <1>11, <1>12, <1>13 DEF Y

LEMMA YaqaKeeps ==
    \A r \in BOOLEAN, step \in LayersPerRun : InputsInv /\ Yaqa(r, step) => InputsInv'
<1> SUFFICES ASSUME NEW r \in BOOLEAN, NEW step \in LayersPerRun, InputsInv, Yaqa(r, step)
             PROVE  InputsInv'
  OBVIOUS
<1>1. CASE r /\ cal # None
  <2> DEFINE s == YaqaSteps(step)
             c == [op |-> "yaqa"]
  <2>1. Start(c, s)
    BY <1>1 DEF Yaqa, TraceSetup, YaqaSteps, BlendSteps, Blend, Done
  <2>2. c \in Order /\ c # Idle /\ c.op = "yaqa"
    BY DEF Order, Idle
  <2> HIDE DEF s, c
  <2>3. cmd' = c /\ Pending' = ToSet(s) /\ UNCHANGED hout
    BY <2>1 DEF Start, Pending, factors
  <2>4. \A w \in ToSet(s) : w.do # "category"
    <3>1. \A f : /\ Ranges(f, step).do # "category" /\ Done(f).do # "category"
                /\ Blend.do # "category"
      BY DEF Ranges, Done, Blend
    <3> SUFFICES ASSUME NEW w \in ToSet(s) PROVE w.do # "category"
      OBVIOUS
    <3>2. \/ w.do \in {"pass", "join"}
          \/ \E f \in {"ownvoice", "cal"} : w \in {Ranges(f, step), Done(f)}
          \/ w \in {Blend, Done("blend")}
      BY YaqaStepsAre DEF s
    <3> QED BY <3>1, <3>2
  <2>5. \A f \in Factor : hout[f].done \/ Done(f) \in ToSet(s)
    BY YaqaStepsAre DEF Factor, s
  <2>6. FactorsDue'
    <3> SUFFICES ASSUME NEW f \in Factor, ~hout[f].done
                 PROVE  \E w \in ToSet(s) : w.do = "done" /\ w.on = f
      BY <2>3 DEF FactorsDue
    <3>1. Done(f) \in ToSet(s) /\ Done(f).do = "done" /\ Done(f).on = f
      BY <2>5 DEF Done
    <3> QED BY <3>1
  <2>7. TracesDue' /\ RowsDue'
    BY <2>2, <2>3 DEF TracesDue, RowsDue
  <2>8. s \in Seq(Work)
    BY YaqaStepsAre DEF s
  <2> QED BY <2>1, <2>2, <2>4, <2>6, <2>7, <2>8, StartKeeps
<1>2. CASE ~(r /\ cal # None)
  BY <1>2, RefuseKeeps DEF Yaqa, TraceSetup
<1> QED BY <1>1, <1>2

(***************************************************************************)
(* The invariant holds in every state.                                      *)
(***************************************************************************)
LEMMA FactorTypes ==
    /\ EmptyFactor \in Directory
    /\ \A step \in LayersPerRun : OldFactor(step) \in Directory
<1>1. EmptyFactor \in Directory
  BY InputsAssumption DEF EmptyFactor, Directory
<1>2. ASSUME NEW step \in LayersPerRun PROVE OldFactor(step) \in Directory
  <2>1. step \in Nat \ {0} /\ Layers \in Nat \ {0} /\ 0 \in Layer
    BY InputsAssumption DEF Layer
  <2>2. Min({step, Layers}) \in 0 .. Layers
    BY <2>1, MinOf
  <2> DEFINE L == [l \in Layer |-> IF l < step THEN "whole" ELSE "none"]
             e == [to |-> Min({step, Layers}), ok |-> TRUE]
  <2>3. L \in [Layer -> {"none", "torn", "whole"}] /\ e \in [to : 0 .. Layers, ok : BOOLEAN]
    BY <2>2
  <2>4. OldFactor(step) = [EmptyFactor EXCEPT !.layer = L, !.log[0] = e]
    BY DEF OldFactor
  <2> HIDE DEF L, e
  <2>5. \A d \in Directory : [d EXCEPT !.layer = L, !.log[0] = e] \in Directory
    BY <2>1, <2>3 DEF Directory
  <2> QED BY <1>1, <2>4, <2>5
<1> QED BY <1>1, <1>2

LEMMA InputsInit == Init => InputsInv
<1> SUFFICES ASSUME Init PROVE InputsInv
  OBVIOUS
<1>1. /\ cmd = Idle /\ todo = <<>> /\ named = None /\ rfn = [anchor |-> None, probe |-> FALSE]
      /\ chunks = [c \in Category |-> {}]
  BY DEF Init
<1>2. Pending = {} /\ todo \in Seq(Work) /\ cmd \in Order
  BY <1>1, Nothing DEF Pending, Order, Idle
<1>3. rfn \in [anchor : Anchor, probe : BOOLEAN]
  BY <1>1 DEF Anchor
<1>4. \A c \in Category : Available[c] \in Nat /\ Cuts(chunks[c], 0)
  <2>1. 0 .. 0 - 1 = {}
    OBVIOUS
  <2> QED BY <1>1, <2>1, InputsAssumption DEF Cuts
<1>5. Cut
  <2>1. \A c \in Category : 0 \in 0 .. Available[c]
    BY <1>4
  <2> QED BY <1>1, <1>2, <1>4, <2>1 DEF Cut
<1>6. TracesDue /\ RowsDue /\ FactorsDue
  BY <1>1 DEF TracesDue, RowsDue, FactorsDue, Idle
<1>7. CASE cal = None /\ trace = [sl \in Slice |-> None] /\ hout = [f \in Factor |-> EmptyFactor]
  <2>1. ~Diagnosed
    BY <1>7, Kept DEF Diagnosed
  <2>2. trace \in [Slice -> (SUBSET Heldout) \cup {None}] /\ hout \in [Factor -> Directory]
    BY <1>7, FactorTypes
  <2> QED BY <1>1, <1>2, <1>3, <1>5, <1>6, <1>7, <2>1, <2>2 DEF InputsInv, Types, LastDiag
<1>8. CASE /\ \E p \in SUBSET (Heldout \cup Pool) : cal = [gen |-> "uncalibrated", prompts |-> p]
           /\ trace = [sl \in Slice |-> Prompts(sl)]
           /\ \E step \in LayersPerRun :
                hout = [f \in Factor |-> IF f = "ownvoice" THEN OldFactor(step) ELSE EmptyFactor]
  <2>1. cal \in Calibration
    BY <1>8 DEF Calibration, Generator
  <2>2. trace \in [Slice -> (SUBSET Heldout) \cup {None}] /\ \A sl \in Slice : trace[sl] # None
    BY <1>8, Kept
  <2>3. LastDiag
    BY <2>2, Kept DEF LastDiag
  <2>4. hout \in [Factor -> Directory]
    BY <1>8, FactorTypes
  <2> QED BY <1>1, <1>2, <1>3, <1>5, <1>6, <2>1, <2>2, <2>3, <2>4 DEF InputsInv, Types
<1> QED BY <1>7, <1>8 DEF Init

LEMMA InputsStep == InputsInv /\ [Next]_vars => InputsInv'
<1> SUFFICES ASSUME InputsInv, [Next]_vars PROVE InputsInv'
  OBVIOUS
<1>1. CASE Command
  BY <1>1, EvalTracesKeeps, CalTracesKeeps, TracesKeeps, YaqaKeeps, RecallSliceKeeps, MeasureKeeps
     DEF Command
<1>2. CASE Step
  BY <1>2, MakeEvalKeeps, MakeDiagKeeps, MakeGeneratorKeeps, MakeCalKeeps, NameGeneratorKeeps,
     DecontaminateSelfKeeps, MakeRecallKeeps, MakeAnchorsKeeps, MeasureRangeKeeps,
     CategoryMeasuredKeeps, OwnvoicePassKeeps, JoinRowsKeeps, CollectRangeKeeps, BlendHoutKeeps,
     FactorDoneKeeps
     DEF Step
<1>3. CASE Exit \/ Stop \/ RemoveEval \/ RemoveCal \/ BaselineBuilt
  BY <1>3, ExitKeeps, StopKeeps, RemoveEvalKeeps, RemoveCalKeeps, BaselineBuiltKeeps
<1>4. CASE UNCHANGED vars
  BY <1>4 DEF vars, traces, measured, factors, InputsInv, Types, Cut, LastDiag, Diagnosed,
              TracesDue, HeldOut, RowsDue, Measured, FactorsDue, Pending
<1> QED BY <1>1, <1>2, <1>3, <1>4 DEF Next

THEOREM InputsAlways == Spec => []InputsInv
<1> QED BY InputsInit, InputsStep, PTL DEF Spec

(***************************************************************************)
(* What the invariant says of a command that exits with 0.                  *)
(***************************************************************************)
\* Only a command with nothing left to do succeeds.
LEMMA OnlyExits ==
    ASSUME InputsInv, [Next]_vars, NEW op, op # "none", Succeeds(op)
    PROVE  Exit
<1>1. cmd # Idle /\ cmd' = Idle /\ ok'
  BY DEF Succeeds, Idle
<1>2. ASSUME NEW c, NEW steps, Start(c, steps) PROVE FALSE
  BY <1>1, <1>2 DEF Start, ReadyFor
<1>3. ~Refuse
  BY <1>1 DEF Refuse, ReadyFor
<1>4. ~Command
  BY <1>2, <1>3 DEF Command, EvalTraces, CalTraces, Traces, Yaqa, RecallSlice, Measure, TraceSetup
<1>5. ~Onward
  BY <1>1 DEF Onward
<1>6. ~MeasureRange
  BY <1>1 DEF MeasureRange
<1>7. ~CollectRange
  BY <1>1, <1>5 DEF CollectRange, OnwardFrom
<1>8. ~BlendHout
  BY <1>1, <1>5 DEF BlendHout, Halt
<1>9. ~Step
  BY <1>5, <1>6, <1>7, <1>8
     DEF Step, MakeEval, MakeDiag, MakeGenerator, MakeCal, NameGenerator, DecontaminateSelf,
         MakeRecall, MakeAnchors, CategoryMeasured, OwnvoicePass, JoinRows, FactorDone
<1>10. ~Stop
  BY <1>1 DEF Stop, Halt
<1>11. ~(RemoveEval \/ RemoveCal \/ BaselineBuilt)
  BY <1>1 DEF RemoveEval, RemoveCal, BaselineBuilt, Between
<1>12. ~(UNCHANGED vars)
  BY <1>1 DEF vars
<1> QED BY <1>4, <1>9, <1>10, <1>11, <1>12 DEF Next

(***************************************************************************)
(* Own voice is held out (decontaminate_self, --exclude_self): a stage that *)
(* makes calibration traces leaves no overlap, and none comes about but by  *)
(* an evaluation made anew beside the calibration trace of before.          *)
(***************************************************************************)
LEMMA OverlapComes ==
    ASSUME InputsInv, [Next]_vars, ~Overlap, Overlap'
    PROVE  trace["self"] = None /\ cal' = cal
<1>1. /\ "self" \in Slice /\ trace \in [Slice -> (SUBSET Heldout) \cup {None}]
      /\ Heldout \cap Pool = {}
      /\ todo # <<>> => Head(todo) \in Work
  BY Kept, AtHead, InputsAssumption DEF InputsInv, Types
<1>2. CASE UNCHANGED <<trace, cal>>
  BY <1>2 DEF Overlap
<1>3. CASE MakeEval
  <2>1. trace'["self"] = trace["self"] \/ trace["self"] = None
    BY <1>1, <1>3 DEF MakeEval
  <2> QED BY <1>3, <2>1 DEF MakeEval, Overlap
<1>4. CASE MakeDiag \/ PartOfDiag
  <2>1. UNCHANGED trace \/ trace["self"] = None
    BY <1>4, InputsAssumption DEF MakeDiag, PartOfDiag, Diagnosed
  <2> QED BY <1>4, <2>1 DEF MakeDiag, PartOfDiag, Overlap
<1>5. CASE MakeCal
  <2>1. trace' = trace /\ (cal' = cal \/ \E p \in SUBSET Pool : cal'.prompts = p)
    BY <1>5 DEF MakeCal, Drawn
  <2>2. CASE cal' = cal
    BY <2>1, <2>2 DEF Overlap
  <2>3. ASSUME NEW p \in SUBSET Pool, cal'.prompts = p PROVE FALSE
    <3>1. trace["self"] # None /\ trace["self"] \cap p # {}
      BY <2>1, <2>3 DEF Overlap
    <3>2. trace["self"] \subseteq Heldout
      BY <1>1, <3>1
    <3>3. Heldout \cap Pool = {} /\ p \subseteq Pool
      BY <1>1, <2>3
    <3> QED BY <3>1, <3>2, <3>3
  <2> QED BY <2>1, <2>2, <2>3
<1>6. CASE DecontaminateSelf
  <2>1. /\ cal' = cal
        /\ trace'["self"] = IF trace["self"] = None THEN None ELSE trace["self"] \ cal.prompts
    BY <1>1, <1>6 DEF DecontaminateSelf, Decontaminated
  <2>2. (trace["self"] \ cal.prompts) \cap cal.prompts = {}
    OBVIOUS
  <2>3. trace'["self"] = None \/ trace'["self"] \cap cal'.prompts = {}
    BY <2>1, <2>2
  <2> QED BY <2>3 DEF Overlap
<1>7. CASE RemoveEval
  BY <1>1, <1>7 DEF RemoveEval, Overlap
<1>8. CASE RemoveCal
  BY <1>8 DEF RemoveCal, Overlap
<1>9. CASE Command
  BY <1>2, <1>9 DEF Command, EvalTraces, CalTraces, Traces, Yaqa, RecallSlice, Measure, TraceSetup,
     Start, Refuse, traces
<1>10. CASE Step
  BY <1>2, <1>3, <1>4, <1>5, <1>6, <1>10
     DEF Step, MakeGenerator, NameGenerator, MakeRecall, MakeAnchors, MeasureRange, CategoryMeasured,
         OwnvoicePass, JoinRows, CollectRange, BlendHout, FactorDone, traces
<1>11. CASE Stop
  BY <1>2, <1>4, <1>11 DEF Stop, PartOfAnchors, PartOfRange, PartOfBlend, traces
<1>12. CASE Exit \/ BaselineBuilt \/ UNCHANGED vars
  BY <1>2, <1>12 DEF Exit, BaselineBuilt, vars, traces
<1> QED BY <1>7, <1>8, <1>9, <1>10, <1>11, <1>12 DEF Next

THEOREM AlwaysSelfHeldOut == Spec => SelfHeldOut
<1> DEFINE Out ==
      /\ Succeeds("traces") \/ Succeeds("cal-traces") => ~Overlap'
      /\ ~Overlap /\ Overlap' => trace["self"] = None /\ cal' = cal
<1>1. ASSUME InputsInv, [Next]_vars PROVE Out
  <2>1. ASSUME Succeeds("traces") \/ Succeeds("cal-traces") PROVE ~Overlap'
    <3>1. Exit /\ cmd.op \in {"traces", "cal-traces"}
      BY <1>1, <2>1, OnlyExits DEF Succeeds
    <3>2. todo = <<>> /\ UNCHANGED <<trace, cal>>
      BY <3>1 DEF Exit, traces
    <3>3. HeldOut
      BY <1>1, <3>1, <3>2 DEF InputsInv, TracesDue
    <3> QED BY <3>2, <3>3 DEF HeldOut, Overlap
  <2> QED BY <1>1, <2>1, OverlapComes
<1>2. [][Out]_vars => SelfHeldOut
  BY PTL DEF SelfHeldOut
<1> QED BY <1>1, <1>2, InputsAlways, PTL DEF Spec

(***************************************************************************)
(* A stage that exits with 0 has made all it stands for, however much of it *)
(* earlier attempts had left (run_until, do_measure, do_yaqa).              *)
(***************************************************************************)
THEOREM AlwaysMadeAll == Spec => MadeAll
<1> DEFINE Made ==
      /\ Succeeds("eval-traces") \/ Succeeds("traces") => \A sl \in Slice : trace[sl] # None
      /\ Succeeds("cal-traces") \/ Succeeds("traces") => cal # None /\ named # None
      /\ Succeeds("measure") => \A c \in Category : Measured(c) >= Wanted(cmd.rows, c)
      /\ Succeeds("yaqa") => \A f \in Factor : hout[f].done
<1>1. ASSUME InputsInv, [Next]_vars PROVE Made
  <2> SUFFICES ASSUME NEW op \in {"eval-traces", "cal-traces", "traces", "measure", "yaqa"}, Succeeds(op)
               PROVE  /\ op \in {"eval-traces", "traces"} => \A sl \in Slice : trace[sl] # None
                      /\ op \in {"cal-traces", "traces"} => cal # None /\ named # None
                      /\ op = "measure" => \A c \in Category : Measured(c) >= Wanted(cmd.rows, c)
                      /\ op = "yaqa" => \A f \in Factor : hout[f].done
    OBVIOUS
  <2>1. todo = <<>> /\ cmd.op = op
    BY <1>1, OnlyExits DEF Exit, Succeeds
  <2>2. Pending = {}
    BY <2>1, Nothing DEF Pending
  <2>3. op \in {"eval-traces", "traces"} => \A sl \in Slice : trace[sl] # None
    BY <1>1, <2>1, <2>2 DEF InputsInv, TracesDue, LastDiag, Slice
  <2>4. op \in {"cal-traces", "traces"} => cal # None /\ named # None
    BY <1>1, <2>1, <2>2 DEF InputsInv, TracesDue
  <2>5. op = "measure" => \A c \in Category : Measured(c) >= Wanted(cmd.rows, c)
    BY <1>1, <2>1, <2>2 DEF InputsInv, RowsDue
  <2>6. op = "yaqa" => \A f \in Factor : hout[f].done
    BY <1>1, <2>1, <2>2 DEF InputsInv, FactorsDue
  <2> QED BY <2>3, <2>4, <2>5, <2>6
<1>2. [][Made]_vars => MadeAll
  BY PTL DEF MadeAll
<1> QED BY <1>1, <1>2, InputsAlways, PTL DEF Spec

(***************************************************************************)
(* Rows are measured once: the chunks of a category cover its rows from the *)
(* first on, each row once, under any sequence of --rows (do_measure).      *)
(***************************************************************************)
LEMMA PartitionFollows == InputsInv => TypeOK /\ ChunksPartition
<1> SUFFICES ASSUME InputsInv PROVE TypeOK /\ ChunksPartition
  OBVIOUS
<1>1. ASSUME NEW c \in Category, NEW row \in 0 .. Measured(c) - 1
      PROVE  Cardinality({k \in chunks[c] : k.from <= row /\ row < k.to}) = 1
  <2>1. PICK m \in 0 .. Available[c] : Cuts(chunks[c], m)
    BY DEF InputsInv, Cut
  <2>2. m \in Nat
    BY <2>1, InputsAssumption
  <2>3. Measured(c) = m
    BY <2>1, <2>2, CutsTop DEF Measured
  <2> QED BY <1>1, <2>1, <2>2, <2>3, CutsOnce
<1>2. ASSUME NEW c \in Category, NEW k \in chunks[c]
      PROVE  k.from < k.to /\ k.to <= Available[c] /\ k.anchor \in Anchor
  <2>1. PICK m \in 0 .. Available[c] : Cuts(chunks[c], m)
    BY DEF InputsInv, Cut
  <2>2. m \in Nat /\ Available[c] \in Nat /\ m <= Available[c]
    BY <2>1, InputsAssumption
  <2>3. k \in Chunk /\ k.from < k.to /\ k.to <= m
    BY <2>1 DEF Cuts
  <2> QED BY <2>2, <2>3 DEF Chunk
<1>3. \A f \in Factor : /\ hout[f].layer \in [Layer -> {"none", "torn", "whole"}]
                        /\ \A l \in Layer : hout[f].log[l].to \in 0 .. Layers
  BY DEF InputsInv, Types, Directory
<1>4. \A sl \in Slice : trace[sl] = None \/ trace[sl] \subseteq Heldout
  BY DEF InputsInv, Types
<1>5. TypeOK
  BY <1>2, <1>3, <1>4 DEF TypeOK, InputsInv, Types
<1> QED BY <1>1, <1>5 DEF ChunksPartition

THEOREM RowsAlwaysMeasuredOnce == Spec => [](TypeOK /\ ChunksPartition)
<1> QED BY InputsAlways, PartitionFollows, PTL

(***************************************************************************)
(* Factors, when every run collects the same number of layers at a time.    *)
(***************************************************************************)
OneStep == \A s, t \in LayersPerRun : s = t

Multiple(a, s) == \E k \in Nat : a = k * s

LEMMA Multiples ==
    ASSUME NEW s \in Nat \ {0}
    PROVE  /\ Multiple(0, s)
           /\ \A a \in Nat : Multiple(a, s) => Multiple(a + s, s)
           /\ \A a, b \in Nat : Multiple(a, s) /\ Multiple(b, s) /\ a < b => a + s <= b
<1>1. Multiple(0, s)
  <2>1. 0 = 0 * s
    OBVIOUS
  <2> QED BY <2>1 DEF Multiple
<1>2. ASSUME NEW a \in Nat, Multiple(a, s) PROVE Multiple(a + s, s)
  <2>1. PICK k \in Nat : a = k * s
    BY <1>2 DEF Multiple
  <2>2. a + s = (k + 1) * s
    BY <2>1
  <2>3. PICK j \in Nat : j = k + 1
    OBVIOUS
  <2>4. a + s = j * s
    BY <2>2, <2>3
  <2> QED BY <2>4, Zenon DEF Multiple
<1>3. ASSUME NEW a \in Nat, NEW b \in Nat, Multiple(a, s), Multiple(b, s), a < b PROVE a + s <= b
  <2>1. PICK k \in Nat, j \in Nat : a = k * s /\ b = j * s
    BY <1>3 DEF Multiple
  <2>2. k < j
    <3>1. j <= k => j * s <= k * s
      <4> SUFFICES ASSUME j <= k PROVE j * s <= k * s
        OBVIOUS
      <4>1. PICK d \in Nat : k = j + d
        <5>1. k - j \in Nat /\ k = j + (k - j)
          OBVIOUS
        <5> QED BY <5>1
      <4>2. k * s = j * s + d * s /\ d * s \in Nat /\ j * s \in Nat
        BY <4>1
      <4> QED BY <4>2
    <3> QED BY <1>3, <2>1, <3>1
  <2>3. PICK d \in Nat : j = k + 1 + d
    <3>1. j - (k + 1) \in Nat /\ j = k + 1 + (j - (k + 1))
      BY <2>2
    <3> QED BY <3>1
  <2>4. j * s = k * s + s + d * s /\ d * s \in Nat
    BY <2>3
  <2> QED BY <2>1, <2>4
<1> QED BY <1>1, <1>2, <1>3

\* Of a factor directory: layers a .. b - 1 are whole, all are, they count as collected.
WholeIn(d, a, b) == \A l \in Layer : a <= l /\ l < b => d.layer[l] = "whole"
AllWhole(d) == \A l \in Layer : d.layer[l] = "whole"
CollectedIn(d, a, b) == <<a, b>> \in d.marks \/ d.log[a] = [to |-> b, ok |-> TRUE]

\* The two sides a blend is made of.
Side == {"ownvoice", "cal"}

\* A range that counts as collected is whole.
RangesKept ==
    \A f \in Side, s \in LayersPerRun, a \in Layer :
        Multiple(a, s) /\ CollectedIn(hout[f], a, Upto(a, Layers, s))
            => WholeIn(hout[f], a, Upto(a, Layers, s))

\* Below the range a collection is at, its layers are whole.
RangesUnderWay ==
    \A w \in Pending : w.do = "ranges" =>
        ~hout[w.on].done /\ Multiple(w.from, w.by) /\ WholeIn(hout[w.on], 0, w.from)

\* What makes a factor whole comes before its DONE.json.
Makes(v, w) == IF w.on = "blend" THEN v.do = "blend" ELSE v.do = "ranges" /\ v.on = w.on
DoneDue ==
    \A w \in Pending : w.do = "done" => AllWhole(hout[w.on]) \/ \E v \in Pending : Makes(v, w)

BlendDue ==
    \A w \in Pending : w.do = "blend" =>
        /\ ~hout["blend"].done
        /\ \A f \in Side : AllWhole(hout[f]) \/ Done(f) \in Pending

FactorInv ==
    Sorted(todo) /\ RangesKept /\ FactorWhole /\ RangesUnderWay /\ DoneDue /\ BlendDue

LEMMA HeadLeast ==
    ASSUME Types, Sorted(todo), todo # <<>>
    PROVE  Sorted(Tail(todo)) /\ \A w \in Pending : Rank(Head(todo)) <= Rank(w)
<1>1. /\ todo \in Seq(Work) /\ Head(todo) = todo[1] /\ Len(todo) \in Nat \ {0}
      /\ Len(Tail(todo)) = Len(todo) - 1 /\ DOMAIN todo = 1 .. Len(todo)
      /\ \A i \in 1 .. Len(Tail(todo)) : Tail(todo)[i] = todo[i + 1]
  BY HeadTailProperties, LenProperties DEF Types
<1>2. ASSUME NEW w \in Pending PROVE Rank(Head(todo)) <= Rank(w)
  <2>1. PICK i \in 1 .. Len(todo) : w = todo[i]
    BY <1>1 DEF Pending, ToSet
  <2>2. 1 \in 1 .. Len(todo) /\ 1 <= i
    BY <1>1
  <2> QED BY <1>1, <2>1, <2>2 DEF Sorted
<1>3. ASSUME NEW i \in 1 .. Len(Tail(todo)), NEW j \in 1 .. Len(Tail(todo)), i <= j
      PROVE  Rank(Tail(todo)[i]) <= Rank(Tail(todo)[j])
  <2>1. i + 1 \in 1 .. Len(todo) /\ j + 1 \in 1 .. Len(todo) /\ i + 1 <= j + 1
    BY <1>1, <1>3
  <2>2. Rank(todo[i + 1]) <= Rank(todo[j + 1])
    BY <2>1 DEF Sorted
  <2> QED BY <1>1, <2>2
<1> QED BY <1>2, <1>3 DEF Sorted

LEMMA HeadGone ==
    ASSUME Types, Sorted(todo), todo # <<>>, Onward
    PROVE  Pending = {Head(todo)} \cup Pending' /\ Sorted(todo') /\ \A w \in Pending' : w \in Work
<1>1. /\ Tail(todo) \in Seq(Work) /\ Pending = {Head(todo)} \cup ToSet(Tail(todo))
      /\ todo' = Tail(todo) /\ Pending' = ToSet(Tail(todo)) /\ Sorted(Tail(todo))
  BY AtHead, HeadLeast DEF Onward, Pending
<1> PICK t : t = Tail(todo)
  OBVIOUS
<1>2. \A w \in ToSet(t) : w \in Work
  BY <1>1, LenProperties DEF ToSet
<1> QED BY <1>1, <1>2

\* A command that is over has nothing pending.
LEMMA FactorOver ==
    ASSUME todo' = <<>>, RangesKept', FactorWhole'
    PROVE  FactorInv'
<1>1. Pending' = {} /\ Sorted(todo')
  BY Empty DEF Pending
<1> QED BY <1>1 DEF FactorInv, RangesUnderWay, DoneDue, BlendDue

\* The steps of any other command leave the factors alone.
LEMMA FactorStill ==
    ASSUME FactorInv, UNCHANGED hout, Sorted(todo'),
           \A w \in Pending' : w \in Pending \/ Plain(w) \/ w.do = "category",
           \A w \in Pending : w.do \in {"ranges", "blend", "done"} => w \in Pending'
    PROVE  FactorInv'
<1>1. RangesKept' /\ FactorWhole'
  BY DEF FactorInv, RangesKept, FactorWhole
<1>2. \A w \in Pending' : w.do \in {"ranges", "blend", "done"} => w \in Pending
  BY DEF Plain
<1>3. RangesUnderWay'
  BY <1>2 DEF FactorInv, RangesUnderWay
<1>4. DoneDue'
  <2> SUFFICES ASSUME NEW w \in Pending', w.do = "done", ~AllWhole(hout[w.on])
               PROVE  \E v \in Pending' : Makes(v, w)
    BY DEF DoneDue
  <2>1. PICK v \in Pending : Makes(v, w)
    BY <1>2 DEF FactorInv, DoneDue
  <2>2. v \in Pending'
    BY <2>1 DEF Makes
  <2> QED BY <2>1, <2>2
<1>5. BlendDue'
  <2>1. \A f \in Side : Done(f) \in Pending => Done(f) \in Pending'
    BY DEF Done
  <2> QED BY <1>2, <2>1 DEF FactorInv, BlendDue
<1> QED BY <1>1, <1>3, <1>4, <1>5 DEF FactorInv

LEMMA FactorSkips ==
    ASSUME Types, FactorInv, todo # <<>>, Onward, UNCHANGED hout,
           Head(todo).do \notin {"ranges", "blend", "done"}
    PROVE  FactorInv'
<1>1. /\ todo' = Tail(todo) /\ Pending = {Head(todo)} \cup ToSet(Tail(todo))
      /\ Pending' = ToSet(Tail(todo))
  BY AtHead DEF Onward, Pending
<1>2. Sorted(todo')
  BY <1>1, HeadLeast DEF FactorInv
<1> QED BY <1>1, <1>2, FactorStill

(***************************************************************************)
(* Collecting a range.                                                      *)
(***************************************************************************)
\* The range the collection under way is at, and what collecting it leaves.
LEMMA RangeCollected ==
    ASSUME OneStep, InputsInv, FactorInv, CollectRange,
           NEW f, f = Head(todo).on, NEW a, a = Head(todo).from, NEW s, s = Head(todo).by,
           NEW b, b = Upto(a, Layers, s)
    PROVE  /\ \A g \in Factor : hout'[g].done = hout[g].done
           /\ \A g \in Factor, l \in Layer : hout[g].layer[l] = "whole" => hout'[g].layer[l] = "whole"
           /\ WholeIn(hout'[f], 0, b) /\ ~hout'[f].done /\ RangesKept'
<1>1. /\ todo # <<>> /\ f \in Side /\ f \in Factor /\ a \in Layer /\ s \in LayersPerRun
      /\ b = (IF a + s <= Layers THEN a + s ELSE Layers) /\ b \in a + 1 .. Layers
      /\ a \in Nat /\ b \in 0 .. Layers /\ Layers \in Nat \ {0} /\ s \in Nat \ {0}
  BY RangeAtHead DEF CollectRange, InputsInv, Side
<1>2. hout' = IF Collected(f, a, b) THEN hout
              ELSE Ran(f, a, [to |-> b, ok |-> TRUE], Written(f, a, b, "whole"),
                       hout[f].marks \cup {<<a, b>>})
  BY <1>1 DEF CollectRange, Ran, InputsInv, Types
<1>3. ~hout[f].done /\ Multiple(a, s) /\ WholeIn(hout[f], 0, a)
  <2>1. Head(todo) \in Pending /\ Head(todo).do = "ranges"
    BY AtHead DEF CollectRange, At, InputsInv
  <2> QED BY <2>1 DEF FactorInv, RangesUnderWay
<1>4. CASE Collected(f, a, b)
  <2>1. CollectedIn(hout[f], a, Upto(a, Layers, s))
    BY <1>4 DEF Collected, LoggedOk, CollectedIn
  <2>2. WholeIn(hout[f], a, b)
    BY <1>1, <1>3, <2>1 DEF FactorInv, RangesKept
  <2>3. \A l \in Layer : l \in Nat
    BY DEF Layer
  <2>4. WholeIn(hout[f], 0, b)
    BY <1>1, <1>3, <2>2, <2>3 DEF WholeIn
  <2>5. hout' = hout
    BY <1>2, <1>4
  <2> QED BY <1>3, <2>4, <2>5 DEF FactorInv, RangesKept
<1>5. CASE ~Collected(f, a, b)
  <2> DEFINE L == Written(f, a, b, "whole")
             M == hout[f].marks \cup {<<a, b>>}
             e == [to |-> b, ok |-> TRUE]
  <2>1. hout[f] \in Directory
    BY <1>1 DEF InputsInv, Types
  <2>2. L \in [Layer -> {"none", "torn", "whole"}] /\ M \in SUBSET (Nat \X Nat)
    BY <1>1, <2>1 DEF Written, Directory
  <2>3. \A l \in Layer : L[l] = IF l \in a .. b - 1 THEN "whole" ELSE hout[f].layer[l]
    BY DEF Written
  <2>4. hout' = Ran(f, a, e, L, M)
    BY <1>2, <1>5
  <2> HIDE DEF L, M
  <2>5. /\ hout'[f].layer = L /\ hout'[f].marks = M /\ hout'[f].done = hout[f].done
        /\ \A x \in Layer : x # a => hout'[f].log[x] = hout[f].log[x]
        /\ \A g \in Factor : g # f => hout'[g] = hout[g]
    <3>1. Types /\ f \in Factor /\ a \in Layer /\ e \in [to : 0 .. Layers, ok : BOOLEAN]
      BY <1>1 DEF InputsInv
    <3> HIDE DEF e
    <3> QED BY <2>2, <2>4, <3>1, AfterRange
  <2>6. \A l \in Layer : l \in Nat
    BY DEF Layer
  <2>7. \A l \in Layer : hout[f].layer[l] = "whole" => L[l] = "whole"
    BY <2>3
  <2>8. /\ \A g \in Factor : hout'[g].done = hout[g].done
        /\ \A g \in Factor, l \in Layer : hout[g].layer[l] = "whole" => hout'[g].layer[l] = "whole"
    BY <2>5, <2>7
  <2>9. WholeIn(hout'[f], 0, b) /\ WholeIn(hout'[f], a, b)
    <3> SUFFICES ASSUME NEW l \in Layer, l < b PROVE L[l] = "whole"
      BY <2>5 DEF WholeIn
    <3>1. CASE l < a
      BY <1>3, <2>6, <2>7, <3>1 DEF WholeIn
    <3>2. CASE ~(l < a)
      <4>1. l \in a .. b - 1
        BY <1>1, <2>6, <3>2
      <4> QED BY <2>3, <4>1
    <3> QED BY <3>1, <3>2
  <2>10. RangesKept'
    <3> SUFFICES ASSUME NEW g \in Side, NEW t \in LayersPerRun, NEW x \in Layer, Multiple(x, t),
                        CollectedIn(hout'[g], x, Upto(x, Layers, t))
                 PROVE  WholeIn(hout'[g], x, Upto(x, Layers, t))
      BY DEF RangesKept
    <3>1. t = s /\ g \in Factor
      BY <1>1 DEF OneStep, Side, Factor
    <3>2. CASE g = f /\ x = a
      BY <2>9, <3>1, <3>2
    <3>3. CASE g = f /\ x # a
      <4>1. CollectedIn(hout[f], x, Upto(x, Layers, t))
        <5>1. <<x, Upto(x, Layers, t)>> # <<a, b>>
          BY <3>3
        <5>2. hout'[f].log[x] = hout[f].log[x]
          BY <2>5, <3>3
        <5> QED BY <2>5, <3>3, <5>1, <5>2 DEF CollectedIn, M
      <4>2. WholeIn(hout[f], x, Upto(x, Layers, t))
        BY <3>3, <4>1 DEF FactorInv, RangesKept
      <4> QED BY <2>8, <3>1, <3>3, <4>2 DEF WholeIn
    <3>4. CASE g # f
      BY <2>5, <3>1, <3>4 DEF FactorInv, RangesKept
    <3> QED BY <3>2, <3>3, <3>4
  <2> QED BY <1>3, <2>5, <2>8, <2>9, <2>10
<1> QED BY <1>4, <1>5

\* The steps a collection moves on among.
LEMMA MovedOn ==
    ASSUME NEW s \in Seq(Work), s # <<>>, Head(s).do = "ranges", NEW b \in Layer,
           NEW t, t = Moved(s, b)
    PROVE  /\ t[1] \in ToSet(t) /\ \A w \in ToSet(t) : w = t[1] \/ w \in ToSet(s)
           /\ \A v \in ToSet(s) : v = Head(s) \/ v \in ToSet(t)
           /\ t[1].from = b /\ t[1].do = "ranges" /\ t[1].on = Head(s).on /\ t[1].by = Head(s).by
           /\ Sorted(s) => Sorted(t)
<1> DEFINE n == Len(s)
<1>1. /\ t \in Seq(Work) /\ Len(t) = n /\ t[1].from = b /\ t[1].do = "ranges"
      /\ t[1].on = s[1].on /\ t[1].by = s[1].by /\ \A i \in 2 .. n : t[i] = s[i]
  BY Advance
<1>2. Head(s) = s[1] /\ n \in Nat \ {0} /\ DOMAIN s = 1 .. n /\ DOMAIN t = 1 .. n
  BY <1>1, HeadTailProperties, LenProperties, EmptySeq
<1> HIDE DEF n
<1>3. 1 \in 1 .. n /\ \A i \in 1 .. n : i = 1 \/ i \in 2 .. n
  BY <1>2
<1>4. t[1] \in ToSet(t) /\ \A w \in ToSet(t) : w = t[1] \/ w \in ToSet(s)
  BY <1>1, <1>2, <1>3 DEF ToSet
<1>5. \A v \in ToSet(s) : v = Head(s) \/ v \in ToSet(t)
  BY <1>1, <1>2, <1>3 DEF ToSet
<1>6. \A i \in 1 .. n : Rank(t[i]) = Rank(s[i])
  <2>1. Rank(t[1]) = Rank(s[1])
    BY <1>1, <1>2 DEF Rank
  <2> QED BY <1>1, <1>3, <2>1
<1>7. Sorted(s) => Sorted(t)
  BY <1>1, <1>6 DEF Sorted, n
<1> QED BY <1>1, <1>2, <1>4, <1>5, <1>7

LEMMA CollectRangeHolds == OneStep /\ InputsInv /\ FactorInv /\ CollectRange => FactorInv'
<1> SUFFICES ASSUME OneStep, InputsInv, FactorInv, CollectRange PROVE FactorInv'
  OBVIOUS
<1> DEFINE h == Head(todo)
<1>1. PICK f, a, s : f = h.on /\ a = h.from /\ s = h.by
  OBVIOUS
<1>2. PICK b : b = Upto(a, Layers, s)
  OBVIOUS
<1>3. /\ \A g \in Factor : hout'[g].done = hout[g].done
      /\ \A g \in Factor, l \in Layer : hout[g].layer[l] = "whole" => hout'[g].layer[l] = "whole"
      /\ WholeIn(hout'[f], 0, b) /\ ~hout'[f].done /\ RangesKept'
  BY <1>1, <1>2, RangeCollected
<1>4. /\ todo # <<>> /\ todo \in Seq(Work) /\ h.do = "ranges" /\ h \in Pending /\ f \in Side
      /\ b = (IF a + s <= Layers THEN a + s ELSE Layers) /\ b \in a + 1 .. Layers
      /\ a \in Nat /\ s \in Nat \ {0} /\ Layers \in Nat
      /\ IF b < Layers THEN OnwardFrom(b) ELSE Onward
  BY <1>1, <1>2, AtHead, RangeAtHead DEF CollectRange, At, InputsInv, Types, Side
<1>5. Sorted(todo) /\ RangesUnderWay /\ DoneDue /\ BlendDue /\ FactorWhole
  BY DEF FactorInv
<1>6. /\ \A g \in Factor : AllWhole(hout[g]) => AllWhole(hout'[g])
      /\ \A g \in Factor : \A x, y : WholeIn(hout[g], x, y) => WholeIn(hout'[g], x, y)
  BY <1>3 DEF AllWhole, WholeIn
<1>7. FactorWhole'
  BY <1>3, <1>5 DEF FactorWhole
<1>8. \A w \in Pending : /\ w.do = "ranges" => w.on \in Side /\ w.on \in Factor
                         /\ w.do = "done" => w.on \in Factor
  <2>1. \A w \in Pending : w \in Work
    BY LenProperties DEF InputsInv, Types, Pending, ToSet
  <2> QED BY <2>1, Kinds DEF Side, Factor
<1>9. Side \subseteq Factor /\ "blend" \in Factor
  BY DEF Side, Factor
<1> HIDE DEF h
<1>10. CASE b < Layers
  <2> PICK t : t = todo'
    OBVIOUS
  <2>1. b \in Layer /\ t = Moved(todo, b)
    BY <1>4, <1>10 DEF OnwardFrom, Moved, Layer
  <2>2. /\ t[1] \in Pending' /\ \A w \in Pending' : w = t[1] \/ w \in Pending
        /\ \A v \in Pending : v = h \/ v \in Pending'
        /\ t[1].from = b /\ t[1].do = "ranges" /\ t[1].on = f /\ t[1].by = s
        /\ Sorted(todo')
    <3> PICK q : q = todo
      OBVIOUS
    <3>1. q \in Seq(Work) /\ q # <<>> /\ Head(q).do = "ranges" /\ t = Moved(q, b) /\ Sorted(q)
      BY <1>4, <1>5, <2>1 DEF h
    <3>2. /\ t[1] \in ToSet(t) /\ \A w \in ToSet(t) : w = t[1] \/ w \in ToSet(q)
          /\ \A v \in ToSet(q) : v = Head(q) \/ v \in ToSet(t)
          /\ t[1].from = b /\ t[1].do = "ranges" /\ t[1].on = Head(q).on /\ t[1].by = Head(q).by
          /\ Sorted(t)
      BY <2>1, <3>1, MovedOn
    <3> QED BY <1>1, <3>2 DEF Pending, h
  <2>3. Multiple(b, s)
    <3>1. Multiple(a, s)
      BY <1>1, <1>4, <1>5 DEF RangesUnderWay
    <3>2. b = a + s
      BY <1>4, <1>10
    <3> QED BY <1>4, <3>1, <3>2, Multiples
  <2>4. RangesUnderWay'
    <3> SUFFICES ASSUME NEW w \in Pending', w.do = "ranges"
                 PROVE  ~hout'[w.on].done /\ Multiple(w.from, w.by) /\ WholeIn(hout'[w.on], 0, w.from)
      BY DEF RangesUnderWay
    <3>1. CASE w = t[1]
      BY <1>3, <2>2, <2>3, <3>1
    <3>2. CASE w \in Pending
      BY <1>3, <1>5, <1>6, <1>8, <3>2 DEF RangesUnderWay
    <3> QED BY <2>2, <3>1, <3>2
  <2>5. DoneDue'
    <3> SUFFICES ASSUME NEW w \in Pending', w.do = "done", ~AllWhole(hout'[w.on])
                 PROVE  \E v \in Pending' : Makes(v, w)
      BY DEF DoneDue
    <3>1. w \in Pending /\ w.on \in Factor
      BY <1>8, <2>2
    <3>2. PICK v \in Pending : Makes(v, w)
      BY <1>5, <1>6, <3>1 DEF DoneDue
    <3>3. CASE v = h
      BY <1>1, <1>4, <2>2, <3>2, <3>3 DEF Makes
    <3>4. CASE v # h
      BY <2>2, <3>2, <3>4
    <3> QED BY <3>3, <3>4
  <2>6. BlendDue'
    <3> SUFFICES ASSUME NEW w \in Pending', w.do = "blend"
                 PROVE  /\ ~hout'["blend"].done
                        /\ \A g \in Side : AllWhole(hout'[g]) \/ Done(g) \in Pending'
      BY DEF BlendDue
    <3>1. w \in Pending
      BY <2>2
    <3>2. \A g \in Side : Done(g) \in Pending => Done(g) \in Pending'
      BY <1>4, <2>2 DEF Done
    <3> QED BY <1>3, <1>5, <1>6, <1>9, <3>1, <3>2 DEF BlendDue
  <2> QED BY <1>3, <1>7, <2>2, <2>4, <2>5, <2>6 DEF FactorInv
<1>11. CASE ~(b < Layers)
  <2>1. /\ Pending = {h} \cup Pending' /\ Sorted(todo')
    BY <1>4, <1>5, <1>11, AtHead, HeadLeast DEF Onward, Pending, InputsInv, h
  <2>2. AllWhole(hout'[f])
    <3>1. \A l \in Layer : l \in Nat /\ l < b
      BY <1>4, <1>11 DEF Layer
    <3> QED BY <1>3, <3>1 DEF AllWhole, WholeIn
  <2>3. RangesUnderWay'
    <3> SUFFICES ASSUME NEW w \in Pending', w.do = "ranges"
                 PROVE  ~hout'[w.on].done /\ Multiple(w.from, w.by) /\ WholeIn(hout'[w.on], 0, w.from)
      BY DEF RangesUnderWay
    <3> QED BY <1>3, <1>5, <1>6, <1>8, <2>1 DEF RangesUnderWay
  <2>4. DoneDue'
    <3> SUFFICES ASSUME NEW w \in Pending', w.do = "done", ~AllWhole(hout'[w.on])
                 PROVE  \E v \in Pending' : Makes(v, w)
      BY DEF DoneDue
    <3>1. w \in Pending /\ w.on \in Factor
      BY <1>8, <2>1
    <3>2. PICK v \in Pending : Makes(v, w)
      BY <1>5, <1>6, <3>1 DEF DoneDue
    <3>3. v # h
      BY <1>1, <1>4, <2>2, <3>2 DEF Makes
    <3> QED BY <2>1, <3>2, <3>3
  <2>5. BlendDue'
    <3> SUFFICES ASSUME NEW w \in Pending', w.do = "blend"
                 PROVE  /\ ~hout'["blend"].done
                        /\ \A g \in Side : AllWhole(hout'[g]) \/ Done(g) \in Pending'
      BY DEF BlendDue
    <3>1. w \in Pending
      BY <2>1
    <3>2. \A g \in Side : Done(g) \in Pending => Done(g) \in Pending'
      BY <1>4, <2>1 DEF Done
    <3> QED BY <1>3, <1>5, <1>6, <1>9, <3>1, <3>2 DEF BlendDue
  <2> QED BY <1>3, <1>7, <2>1, <2>3, <2>4, <2>5 DEF FactorInv
<1> QED BY <1>10, <1>11

(***************************************************************************)
(* Blending, DONE.json and stops.                                           *)
(***************************************************************************)
\* What is made before it is not pending any more when a step's turn has come.
LEMMA MadeBefore ==
    ASSUME Types, FactorInv, todo # <<>>
    PROVE  /\ Head(todo).do = "blend" => \A f \in Side : Done(f) \notin Pending
           /\ Head(todo).do = "done" => ~\E v \in Pending : Makes(v, Head(todo))
           /\ Head(todo).do = "done" =>
                \A w \in Pending : w.do = "ranges" => w.on # Head(todo).on
           /\ Head(todo) = Done("blend") => \A w \in Pending : w.do # "blend"
<1> DEFINE h == Head(todo)
<1>1. \A w \in Pending : Rank(h) <= Rank(w)
  BY HeadLeast DEF FactorInv
<1>2. h \in Work /\ \A w \in Pending : w \in Work
  BY AtHead, LenProperties DEF Types, Pending, ToSet
<1>3. \A w \in Pending : w.do = "ranges" => w.on \in Side
  BY <1>2, Kinds DEF Side
<1>4. h.do = "done" => h.on \in Factor
  BY <1>2, Kinds
<1> HIDE DEF h
<1>5. ASSUME h.do = "blend", NEW f \in Side PROVE Done(f) \notin Pending
  <2>1. Rank(h) = 5 /\ Rank(Done(f)) \in {2, 4}
    BY <1>5 DEF Rank, Done, Side
  <2> QED BY <1>1, <2>1
<1>6. ASSUME h.do = "done", NEW w \in Pending, w.do = "ranges" PROVE w.on # h.on
  <2>1. CASE w.on = "ownvoice"
    <3>1. Rank(w) = 1 /\ Rank(h) \in {2, 4, 6}
      BY <1>6, <2>1 DEF Rank
    <3> QED BY <1>1, <3>1
  <2>2. CASE w.on = "cal" /\ h.on = "cal"
    <3>1. Rank(w) = 3 /\ Rank(h) = 4
      BY <1>6, <2>2 DEF Rank
    <3> QED BY <1>1, <3>1
  <2> QED BY <1>3, <1>6, <2>1, <2>2 DEF Side
<1>7. ASSUME h.do = "done", h.on = "blend", NEW w \in Pending PROVE w.do # "blend"
  <2> SUFFICES ASSUME w.do = "blend" PROVE FALSE
    OBVIOUS
  <2>1. Rank(w) = 5 /\ Rank(h) = 6
    BY <1>7 DEF Rank
  <2> QED BY <1>1, <2>1
<1>8. h.do = "done" => ~\E v \in Pending : Makes(v, h)
  BY <1>6, <1>7 DEF Makes
<1>9. h = Done("blend") => h.do = "done" /\ h.on = "blend"
  BY DEF Done
<1> QED BY <1>5, <1>6, <1>7, <1>8, <1>9 DEF h

\* A directory of which only the layers change.
LEMMA Relaid ==
    ASSUME Types, NEW L \in [Layer -> {"none", "torn", "whole"}],
           hout' = [hout EXCEPT !["blend"].layer = L]
    PROVE  /\ \A f \in Side : f \in Factor /\ f # "blend" /\ hout'[f] = hout[f]
           /\ hout'["blend"].layer = L /\ hout'["blend"].done = hout["blend"].done
           /\ \A f \in Factor : f = "blend" \/ f \in Side
<1>1. hout \in [Factor -> Directory] /\ "blend" \in Factor /\ hout["blend"] \in Directory
  BY DEF Types, Factor
<1>2. \A f \in Side : f \in Factor /\ f # "blend"
  BY DEF Side, Factor
<1>3. hout'["blend"] = [hout["blend"] EXCEPT !.layer = L]
  BY <1>1
<1>4. hout'["blend"].layer = L /\ hout'["blend"].done = hout["blend"].done
  BY <1>1, <1>3 DEF Directory
<1>5. \A f \in Side : hout'[f] = hout[f]
  BY <1>1, <1>2
<1>6. \A f \in Factor : f = "blend" \/ f \in Side
  BY DEF Side, Factor
<1> QED BY <1>2, <1>4, <1>5, <1>6

LEMMA BlendHoutHolds == InputsInv /\ FactorInv /\ BlendHout => FactorInv'
<1> SUFFICES ASSUME InputsInv, FactorInv, BlendHout PROVE FactorInv'
  OBVIOUS
<1> DEFINE h == Head(todo)
<1>1. todo # <<>> /\ h.do = "blend" /\ h \in Pending /\ Types
  BY AtHead DEF BlendHout, At, InputsInv
<1>2. /\ ~hout["blend"].done /\ \A f \in Side : AllWhole(hout[f])
  BY <1>1, MadeBefore DEF FactorInv, BlendDue
<1>3. CASE ~SameTensors
  <2>1. todo' = <<>> /\ UNCHANGED hout
    BY <1>3 DEF BlendHout, Halt
  <2> QED BY <2>1, FactorOver DEF FactorInv, RangesKept, FactorWhole
<1>4. CASE SameTensors
  <2> DEFINE L == [l \in Layer |-> Blended(l)]
  <2>1. Onward /\ hout' = [hout EXCEPT !["blend"].layer = L]
    BY <1>4 DEF BlendHout
  <2>2. \A l \in Layer : L[l] = "whole"
    BY <1>2 DEF Blended, AllWhole, Side
  <2>3. L \in [Layer -> {"none", "torn", "whole"}]
    BY <2>2
  <2> HIDE DEF L
  <2>4. /\ \A f \in Side : f \in Factor /\ f # "blend" /\ hout'[f] = hout[f]
        /\ hout'["blend"].layer = L /\ hout'["blend"].done = hout["blend"].done
        /\ \A f \in Factor : f = "blend" \/ f \in Side
    BY <1>1, <2>1, <2>3, Relaid
  <2>5. AllWhole(hout'["blend"])
    BY <2>2, <2>4 DEF AllWhole
  <2>6. Pending = {h} \cup Pending' /\ Sorted(todo') /\ \A w \in Pending' : w \in Work
    BY <1>1, <2>1, HeadGone DEF FactorInv
  <2>7. RangesKept' /\ FactorWhole'
    BY <1>2, <2>2, <2>4 DEF FactorInv, RangesKept, FactorWhole
  <2>8. \A w \in Pending' : w.do = "ranges" => w.on \in Side
    BY <2>6, Kinds DEF Side
  <2>9. \A w \in Pending' : w.do = "done" => w.on \in Factor
    BY <2>6, Kinds
  <2>10. RangesUnderWay'
    BY <2>4, <2>6, <2>8 DEF FactorInv, RangesUnderWay
  <2>11. DoneDue'
    BY <1>2, <2>4, <2>5, <2>9 DEF DoneDue
  <2>12. BlendDue'
    BY <1>2, <2>4 DEF BlendDue
  <2> QED BY <2>6, <2>7, <2>10, <2>11, <2>12 DEF FactorInv
<1> QED BY <1>3, <1>4

LEMMA FactorDoneHolds == InputsInv /\ FactorInv /\ FactorDone => FactorInv'
<1> SUFFICES ASSUME InputsInv, FactorInv, FactorDone PROVE FactorInv'
  OBVIOUS
<1> DEFINE h == Head(todo)
<1>1. PICK f : f = h.on
  OBVIOUS
<1>2. todo # <<>> /\ h.do = "done" /\ h \in Pending /\ h \in Work /\ Types /\ Onward
  BY AtHead DEF FactorDone, At, InputsInv
<1>3. f \in Factor /\ h = Done(f) /\ hout' = [hout EXCEPT ![f].done = TRUE]
  BY <1>1, <1>2, Kinds DEF FactorDone, Done
<1>4. AllWhole(hout[f])
  BY <1>1, <1>2, MadeBefore DEF FactorInv, DoneDue
<1>5. /\ \A g \in Factor : g # f => hout'[g] = hout[g]
      /\ hout'[f].layer = hout[f].layer /\ hout'[f].marks = hout[f].marks
      /\ hout'[f].log = hout[f].log /\ hout'[f].done
  <2>1. hout \in [Factor -> Directory] /\ hout[f] \in Directory
    BY <1>2, <1>3 DEF Types
  <2> QED BY <1>3, <2>1 DEF Directory
<1>6. Pending = {h} \cup Pending' /\ Sorted(todo') /\ \A w \in Pending' : w \in Work
  BY <1>2, HeadGone DEF FactorInv
<1>7. \A g \in Factor : hout'[g].layer = hout[g].layer
  BY <1>5
<1>8. FactorWhole'
  <2> SUFFICES ASSUME NEW g \in Factor, hout'[g].done, NEW l \in Layer PROVE hout'[g].layer[l] = "whole"
    BY DEF FactorWhole
  <2>1. CASE g = f
    BY <1>4, <1>7, <2>1 DEF AllWhole
  <2>2. CASE g # f
    BY <1>5, <2>2 DEF FactorInv, FactorWhole
  <2> QED BY <2>1, <2>2
<1>9. RangesKept'
  <2>1. \A g \in Side : /\ g \in Factor /\ hout'[g].layer = hout[g].layer
                        /\ hout'[g].marks = hout[g].marks /\ hout'[g].log = hout[g].log
    BY <1>5 DEF Side, Factor
  <2> QED BY <2>1 DEF FactorInv, RangesKept, CollectedIn, WholeIn
<1> HIDE DEF h
<1>10. RangesUnderWay'
  <2> SUFFICES ASSUME NEW w \in Pending', w.do = "ranges"
               PROVE  ~hout'[w.on].done /\ Multiple(w.from, w.by) /\ WholeIn(hout'[w.on], 0, w.from)
    BY DEF RangesUnderWay
  <2>1. w \in Pending /\ w.on # f
    BY <1>1, <1>2, <1>6, MadeBefore DEF h
  <2>2. w.on \in Factor
    BY <1>6, Kinds DEF Factor
  <2> QED BY <1>5, <2>1, <2>2 DEF FactorInv, RangesUnderWay
<1>11. DoneDue'
  <2> SUFFICES ASSUME NEW w \in Pending', w.do = "done", ~AllWhole(hout'[w.on])
               PROVE  \E v \in Pending' : Makes(v, w)
    BY DEF DoneDue
  <2>1. w \in Pending /\ w.on \in Factor
    BY <1>6, Kinds
  <2>2. PICK v \in Pending : Makes(v, w)
    BY <1>7, <2>1 DEF FactorInv, DoneDue, AllWhole
  <2>3. v # h
    BY <1>2, <2>2 DEF Makes, h
  <2> QED BY <1>6, <2>2, <2>3
<1>12. BlendDue'
  <2> SUFFICES ASSUME NEW w \in Pending', w.do = "blend"
               PROVE  /\ ~hout'["blend"].done
                      /\ \A g \in Side : AllWhole(hout'[g]) \/ Done(g) \in Pending'
    BY DEF BlendDue
  <2>1. w \in Pending
    BY <1>6
  <2>2. f # "blend" /\ "blend" \in Factor
    BY <1>3, <2>1, <1>2, MadeBefore DEF h, Factor
  <2>3. ~hout'["blend"].done
    BY <1>5, <2>1, <2>2 DEF FactorInv, BlendDue
  <2>4. ASSUME NEW g \in Side, ~AllWhole(hout'[g]) PROVE Done(g) \in Pending'
    <3>1. ~AllWhole(hout[g]) /\ g # f
      BY <1>4, <1>7, <2>4 DEF AllWhole, Side, Factor
    <3>2. Done(g) \in Pending
      BY <2>1, <3>1 DEF FactorInv, BlendDue
    <3>3. Done(g) # h
      BY <1>1, <3>1 DEF Done, h
    <3> QED BY <1>6, <3>2, <3>3
  <2> QED BY <2>3, <2>4
<1> QED BY <1>6, <1>8, <1>9, <1>10, <1>11, <1>12 DEF FactorInv

LEMMA PartOfRangeKept ==
    OneStep /\ InputsInv /\ FactorInv /\ PartOfRange => RangesKept' /\ FactorWhole'
<1> SUFFICES ASSUME OneStep, InputsInv, FactorInv, PartOfRange PROVE RangesKept' /\ FactorWhole'
  OBVIOUS
<1>1. PICK f, a, s : f = Head(todo).on /\ a = Head(todo).from /\ s = Head(todo).by
  OBVIOUS
<1>2. PICK b : b = Upto(a, Layers, s)
  OBVIOUS
<1>3. /\ todo # <<>> /\ f \in Side /\ f \in Factor /\ a \in Layer /\ s \in LayersPerRun
      /\ b = (IF a + s <= Layers THEN a + s ELSE Layers) /\ b \in a + 1 .. Layers
      /\ a \in Nat /\ b \in 0 .. Layers /\ Layers \in Nat \ {0} /\ s \in Nat \ {0}
  BY <1>1, <1>2, RangeAtHead DEF PartOfRange, InputsInv, Side
<1>4. ~hout[f].done /\ Multiple(a, s)
  <2>1. Head(todo) \in Pending /\ Head(todo).do = "ranges"
    BY AtHead DEF PartOfRange, At, InputsInv
  <2> QED BY <1>1, <2>1 DEF FactorInv, RangesUnderWay
<1> DEFINE e == [to |-> b, ok |-> FALSE]
<1>5. PICK m \in a .. b - 1 :
        hout' = [hout EXCEPT ![f].layer = WrittenUpTo(f, a, m), ![f].log[a] = [to |-> b, ok |-> FALSE]]
  BY <1>1, <1>2 DEF PartOfRange
<1> DEFINE L == WrittenUpTo(f, a, m)
<1>6. hout[f] \in Directory /\ hout \in [Factor -> Directory] /\ Types
  BY <1>3 DEF InputsInv, Types
<1>7. L \in [Layer -> {"none", "torn", "whole"}] /\ hout[f].marks \in SUBSET (Nat \X Nat)
  BY <1>6 DEF WrittenUpTo, Directory
<1>8. \A l \in Layer : l \in a .. m \/ L[l] = hout[f].layer[l]
  <2>1. m \in a .. m /\ a .. m - 1 \subseteq a .. m
    BY <1>3
  <2> QED BY <2>1 DEF WrittenUpTo
<1>9. e \in [to : 0 .. Layers, ok : BOOLEAN] /\ e # [to |-> b, ok |-> TRUE]
  BY <1>3
<1>10. hout' = Ran(f, a, e, L, hout[f].marks)
  <2>1. hout' = RanBare(f, a, e, L)
    BY <1>5 DEF RanBare
  <2> QED BY <1>3, <1>6, <2>1, SameMarks
<1> HIDE DEF e, L
<1>11. /\ hout'[f].layer = L /\ hout'[f].marks = hout[f].marks /\ hout'[f].done = hout[f].done
       /\ hout'[f].log[a] = e
       /\ \A x \in Layer : x # a => hout'[f].log[x] = hout[f].log[x]
       /\ \A g \in Factor : g # f => hout'[g] = hout[g]
  BY <1>3, <1>6, <1>7, <1>9, <1>10, AfterRange
<1>12. FactorWhole'
  <2> SUFFICES ASSUME NEW g \in Factor, hout'[g].done, NEW l \in Layer PROVE hout'[g].layer[l] = "whole"
    BY DEF FactorWhole
  <2>1. g # f
    BY <1>4, <1>11
  <2> QED BY <1>11, <2>1 DEF FactorInv, FactorWhole
<1>13. RangesKept'
  <2> SUFFICES ASSUME NEW g \in Side, NEW t \in LayersPerRun, NEW x \in Layer, Multiple(x, t),
                      CollectedIn(hout'[g], x, Upto(x, Layers, t))
               PROVE  WholeIn(hout'[g], x, Upto(x, Layers, t))
    BY DEF RangesKept
  <2>1. t = s /\ g \in Factor
    BY <1>3 DEF OneStep, Side, Factor
  <2>2. CASE g # f
    BY <1>11, <2>1, <2>2 DEF FactorInv, RangesKept
  <2>3. CASE g = f /\ x = a
    <3>1. ~Collected(f, a, b)
      BY <1>1, <1>2 DEF PartOfRange
    <3>2. ~CollectedIn(hout'[f], a, b)
      BY <1>9, <1>11, <3>1 DEF CollectedIn, Collected
    <3> QED BY <1>2, <2>1, <2>3, <3>2
  <2>4. CASE g = f /\ x # a
    <3>1. CollectedIn(hout[f], x, Upto(x, Layers, t))
      BY <1>11, <2>4 DEF CollectedIn
    <3>2. WholeIn(hout[f], x, Upto(x, Layers, t))
      BY <2>4, <3>1 DEF FactorInv, RangesKept
    <3>3. x \in Nat /\ x < Layers
      BY <1>3 DEF Layer
    <3>4. Upto(x, Layers, t) = (IF x + s <= Layers THEN x + s ELSE Layers)
      BY <1>3, <2>1, <3>3, UptoIs
    <3>5. x + s <= a \/ a + s <= x
      <4>1. x < a \/ a < x
        BY <1>3, <2>4, <3>3
      <4> QED BY <1>3, <1>4, <2>1, <3>3, <4>1, Multiples
    <3> SUFFICES ASSUME NEW l \in Layer, x <= l, l < Upto(x, Layers, t) PROVE L[l] = "whole"
      BY <1>11, <2>4 DEF WholeIn
    <3>6. l \in Nat /\ m \in Nat /\ m < b
      BY <1>3 DEF Layer
    <3>7. l \notin a .. m
      BY <1>3, <3>3, <3>4, <3>5, <3>6
    <3> QED BY <1>8, <3>2, <3>7 DEF WholeIn
  <2> QED BY <2>2, <2>3, <2>4
<1> QED BY <1>12, <1>13

LEMMA StopHolds == OneStep /\ InputsInv /\ FactorInv /\ Stop => FactorInv'
<1> SUFFICES ASSUME OneStep, InputsInv, FactorInv, Stop PROVE FactorInv'
  OBVIOUS
<1>1. todo' = <<>>
  BY DEF Stop, Halt
<1>2. CASE UNCHANGED hout
  BY <1>1, <1>2, FactorOver DEF FactorInv, RangesKept, FactorWhole
<1>3. CASE PartOfRange
  BY <1>1, <1>3, PartOfRangeKept, FactorOver
<1>4. CASE PartOfBlend
  <2>1. PICK m \in Layer : hout' = [hout EXCEPT !["blend"].layer = WrittenUpTo("blend", 0, m)]
    BY <1>4 DEF PartOfBlend
  <2>2. Types /\ hout["blend"] \in Directory
    BY DEF InputsInv, Types, Factor
  <2>3. WrittenUpTo("blend", 0, m) \in [Layer -> {"none", "torn", "whole"}]
    BY <2>2 DEF WrittenUpTo, Directory
  <2>4. /\ \A f \in Side : f \in Factor /\ f # "blend" /\ hout'[f] = hout[f]
        /\ hout'["blend"].done = hout["blend"].done
        /\ \A f \in Factor : f = "blend" \/ f \in Side
    BY <2>1, <2>2, <2>3, Relaid
  <2>5. Head(todo) \in Pending /\ Head(todo).do = "blend"
    BY <1>4, <2>2, AtHead DEF PartOfBlend, At
  <2>6. ~hout["blend"].done
    BY <2>5 DEF FactorInv, BlendDue
  <2>7. RangesKept' /\ FactorWhole'
    BY <2>4, <2>6 DEF FactorInv, RangesKept, FactorWhole
  <2> QED BY <1>1, <2>7, FactorOver
<1>5. UNCHANGED hout \/ PartOfRange \/ PartOfBlend
  BY DEF Stop, PartOfDiag, PartOfAnchors, factors
<1> QED BY <1>2, <1>3, <1>4, <1>5

(***************************************************************************)
(* Commands and the other steps.                                            *)
(***************************************************************************)
LEMMA RefuseHolds == FactorInv /\ Refuse => FactorInv'
BY FactorStill DEF Refuse, factors, Pending, FactorInv

\* A command other than `yaqa` has no step on the factors.
LEMMA OtherStarts ==
    ASSUME InputsInv, FactorInv, NEW c, NEW steps \in Seq(Work), Start(c, steps),
           \A w \in ToSet(steps) : Plain(w) \/ w.do = "category"
    PROVE  FactorInv'
<1>1. cmd = Idle /\ todo' = steps /\ UNCHANGED hout
  BY DEF Start, ReadyFor, factors
<1>2. Pending = {} /\ Pending' = ToSet(steps)
  BY <1>1, Nothing DEF InputsInv, Types, Pending
<1>3. \A i \in 1 .. Len(steps) : Rank(steps[i]) = 0
  <2>1. \A w \in ToSet(steps) : Rank(w) = 0
    BY DEF Plain, Rank
  <2> QED BY <2>1, LenProperties DEF ToSet
<1>4. Sorted(steps)
  BY <1>3 DEF Sorted
<1> QED BY <1>1, <1>2, <1>4, FactorStill

LEMMA YaqaHolds ==
    \A r \in BOOLEAN, step \in LayersPerRun : InputsInv /\ FactorInv /\ Yaqa(r, step) => FactorInv'
<1> SUFFICES ASSUME NEW r \in BOOLEAN, NEW step \in LayersPerRun, InputsInv, FactorInv, Yaqa(r, step)
             PROVE  FactorInv'
  OBVIOUS
<1>1. CASE ~(r /\ cal # None)
  BY <1>1, RefuseHolds DEF Yaqa, TraceSetup
<1>2. CASE r /\ cal # None
  <2> DEFINE s == YaqaSteps(step)
  <2>1. Start([op |-> "yaqa"], s)
    BY <1>2 DEF Yaqa, TraceSetup, YaqaSteps, BlendSteps, Blend, Done
  <2>2. todo' = s /\ Pending' = ToSet(s) /\ UNCHANGED hout
    BY <2>1 DEF Start, Pending, factors
  <2>3. Sorted(s)
    BY YaqaStepsAre
  <2>4. \A w \in ToSet(s) :
          \/ w.do \in {"pass", "join"}
          \/ \E f \in Side : ~hout[f].done /\ w \in {Ranges(f, step), Done(f)}
          \/ ~hout["blend"].done /\ w \in {Blend, Done("blend")}
    BY YaqaStepsAre DEF Side
  <2>5. /\ \A f \in Side : ~hout[f].done => {Ranges(f, step), Done(f)} \subseteq ToSet(s)
        /\ ~hout["blend"].done => {Blend, Done("blend")} \subseteq ToSet(s)
    BY YaqaStepsAre DEF Side
  <2> HIDE DEF s
  <2>6. /\ \A f : /\ Ranges(f, step).do = "ranges" /\ Ranges(f, step).on = f
                  /\ Ranges(f, step).from = 0 /\ Ranges(f, step).by = step
        /\ \A f : Done(f).do = "done" /\ Done(f).on = f
        /\ Blend.do = "blend"
    BY DEF Ranges, Done, Blend
  <2>7. RangesKept' /\ FactorWhole'
    BY <2>2 DEF FactorInv, RangesKept, FactorWhole
  <2>8. RangesUnderWay'
    <3> SUFFICES ASSUME NEW w \in ToSet(s), w.do = "ranges"
                 PROVE  ~hout[w.on].done /\ Multiple(w.from, w.by) /\ WholeIn(hout[w.on], 0, w.from)
      BY <2>2 DEF RangesUnderWay
    <3>1. PICK f \in Side : ~hout[f].done /\ w = Ranges(f, step)
      BY <2>4, <2>6
    <3>2. Multiple(0, step)
      BY Multiples, InputsAssumption
    <3>3. WholeIn(hout[f], 0, 0)
      <4>1. \A l \in Layer : l \in Nat
        BY DEF Layer
      <4> QED BY <4>1 DEF WholeIn
    <3> QED BY <2>6, <3>1, <3>2, <3>3
  <2>9. DoneDue'
    <3> SUFFICES ASSUME NEW w \in ToSet(s), w.do = "done" PROVE \E v \in ToSet(s) : Makes(v, w)
      BY <2>2 DEF DoneDue
    <3>1. CASE \E f \in Side : ~hout[f].done /\ w = Done(f)
      <4>1. PICK f \in Side : ~hout[f].done /\ w = Done(f)
        BY <3>1
      <4>2. Ranges(f, step) \in ToSet(s) /\ f # "blend"
        BY <2>5, <4>1 DEF Side
      <4> QED BY <2>6, <4>1, <4>2 DEF Makes
    <3>2. CASE ~hout["blend"].done /\ w = Done("blend")
      <4>1. Blend \in ToSet(s)
        BY <2>5, <3>2
      <4> QED BY <2>6, <3>2, <4>1 DEF Makes
    <3> QED BY <2>4, <2>6, <3>1, <3>2
  <2>10. BlendDue'
    <3> SUFFICES ASSUME NEW w \in ToSet(s), w.do = "blend"
                 PROVE  /\ ~hout["blend"].done
                        /\ \A f \in Side : AllWhole(hout[f]) \/ Done(f) \in ToSet(s)
      BY <2>2 DEF BlendDue
    <3>1. ~hout["blend"].done
      BY <2>4, <2>6
    <3>2. \A f \in Side : f \in Factor /\ (hout[f].done => AllWhole(hout[f]))
      BY DEF FactorInv, FactorWhole, AllWhole, Side, Factor
    <3> QED BY <2>5, <3>1, <3>2
  <2> QED BY <2>2, <2>3, <2>7, <2>8, <2>9, <2>10 DEF FactorInv
<1> QED BY <1>1, <1>2

LEMMA CommandHolds == InputsInv /\ FactorInv /\ Command => FactorInv'
<1> SUFFICES ASSUME InputsInv, FactorInv, Command PROVE FactorInv'
  OBVIOUS
<1>1. CASE Refuse
  BY <1>1, RefuseHolds
<1>2. CASE \E c : Start(c, EvalSteps)
  BY <1>2, EvalStepsAre, OtherStarts
<1>3. CASE \E g \in Generators : \E c : Start(c, CalSteps(g))
  BY <1>3, CalStepsAre, OtherStarts
<1>4. CASE \E g \in Generators : \E c : Start(c, EvalSteps \o CalSteps(g))
  <2>1. PICK g \in Generators : \E c : Start(c, EvalSteps \o CalSteps(g))
    BY <1>4
  <2> PICK s : s = EvalSteps \o CalSteps(g)
    OBVIOUS
  <2>2. s \in Seq(Work) /\ ToSet(s) = ToSet(EvalSteps) \cup ToSet(CalSteps(g))
    BY EvalStepsAre, CalStepsAre, Joined
  <2>3. \A w \in ToSet(s) : Plain(w)
    BY <2>2, EvalStepsAre, CalStepsAre
  <2> QED BY <2>1, <2>2, <2>3, OtherStarts
<1>5. CASE RecallSlice
  <2> PICK s : s = [i \in 1 .. 3 |-> [do |-> "recall", on |-> <<"pool", "reference", "slice">>[i]]]
    OBVIOUS
  <2>1. Start([op |-> "recall-slice"], s)
    BY <1>5 DEF RecallSlice
  <2> QED BY <2>1, RecallStepsAre, OtherStarts
<1>6. CASE \E spec \in RowSpecs, anchor \in Anchors : \E c : Start(c, MeasureSteps(spec, anchor))
  BY <1>6, MeasureStepsAre, OtherStarts
<1>7. CASE \E r \in BOOLEAN, step \in LayersPerRun : Yaqa(r, step)
  BY <1>7, YaqaHolds
<1>8. ASSUME NEW r \in BOOLEAN, EvalTraces(r) PROVE Refuse \/ \E c : Start(c, EvalSteps)
  BY <1>8 DEF EvalTraces, TraceSetup
<1>9. ASSUME NEW r \in BOOLEAN, NEW g \in Generators, CalTraces(r, g)
      PROVE  Refuse \/ \E c : Start(c, CalSteps(g))
  BY <1>9 DEF CalTraces, TraceSetup
<1>10. ASSUME NEW r \in BOOLEAN, NEW g \in Generators, Traces(r, g)
       PROVE  Refuse \/ \E c : Start(c, EvalSteps \o CalSteps(g))
  BY <1>10 DEF Traces, TraceSetup
<1>11. ASSUME NEW spec \in RowSpecs, NEW anchor \in Anchors, Measure(spec, anchor)
       PROVE  Refuse \/ \E c : Start(c, MeasureSteps(spec, anchor))
  BY <1>11 DEF Measure, MeasureSteps
<1> QED BY <1>1, <1>2, <1>3, <1>4, <1>5, <1>6, <1>7, <1>8, <1>9, <1>10, <1>11 DEF Command

LEMMA FactorInit == OneStep /\ Init => FactorInv
<1> SUFFICES ASSUME OneStep, Init PROVE FactorInv
  OBVIOUS
<1>1. todo = <<>> /\ Pending = {} /\ Sorted(todo)
  BY Empty DEF Init, Pending
<1>2. RangesUnderWay /\ DoneDue /\ BlendDue
  BY <1>1 DEF RangesUnderWay, DoneDue, BlendDue
<1>3. Layers \in Nat \ {0} /\ \A l \in Layer : l \in Nat /\ l < Layers
  BY InputsAssumption DEF Layer
<1>4. \A s \in LayersPerRun : s \in Nat \ {0}
  BY InputsAssumption
<1>5. ASSUME NEW a \in Layer, NEW b, CollectedIn(EmptyFactor, a, b) PROVE FALSE
  BY <1>5 DEF EmptyFactor, CollectedIn
<1>6. ASSUME NEW s \in LayersPerRun, NEW t \in LayersPerRun, NEW a \in Layer,
             CollectedIn(OldFactor(s), a, Upto(a, Layers, t))
      PROVE  WholeIn(OldFactor(s), a, Upto(a, Layers, t))
  <2>1. /\ OldFactor(s).layer = [l \in Layer |-> IF l < s THEN "whole" ELSE "none"]
        /\ OldFactor(s).marks = {}
        /\ \A x \in Layer : x # 0 => OldFactor(s).log[x] = [to |-> 0, ok |-> FALSE]
    BY DEF OldFactor, EmptyFactor
  <2>2. a = 0
    BY <1>6, <2>1 DEF CollectedIn
  <2>3. t = s
    BY DEF OneStep
  <2>4. Upto(a, Layers, t) = (IF s <= Layers THEN s ELSE Layers)
    BY <1>3, <1>4, <2>2, <2>3, UptoIs
  <2> QED BY <1>3, <1>4, <2>1, <2>4 DEF WholeIn
<1>7. CASE hout = [f \in Factor |-> EmptyFactor]
  <2>1. RangesKept
    BY <1>5, <1>7 DEF RangesKept, Side, Factor
  <2>2. FactorWhole
    BY <1>7 DEF FactorWhole, EmptyFactor
  <2> QED BY <1>1, <1>2, <2>1, <2>2 DEF FactorInv
<1>8. CASE \E step \in LayersPerRun :
             hout = [f \in Factor |-> IF f = "ownvoice" THEN OldFactor(step) ELSE EmptyFactor]
  <2>1. PICK step \in LayersPerRun :
          hout = [f \in Factor |-> IF f = "ownvoice" THEN OldFactor(step) ELSE EmptyFactor]
    BY <1>8
  <2>2. RangesKept
    BY <1>5, <1>6, <2>1 DEF RangesKept, Side, Factor
  <2>3. FactorWhole
    <3>1. ~EmptyFactor.done /\ ~OldFactor(step).done
      BY DEF EmptyFactor, OldFactor
    <3> QED BY <2>1, <3>1 DEF FactorWhole
  <2> QED BY <1>1, <1>2, <2>2, <2>3 DEF FactorInv
<1> QED BY <1>7, <1>8 DEF Init

LEMMA FactorStep == OneStep /\ InputsInv /\ FactorInv /\ [Next]_vars => FactorInv'
<1> SUFFICES ASSUME OneStep, InputsInv, FactorInv, [Next]_vars PROVE FactorInv'
  OBVIOUS
<1>1. CASE Command
  BY <1>1, CommandHolds
<1>2. CASE CollectRange
  BY <1>2, CollectRangeHolds
<1>3. CASE BlendHout
  BY <1>3, BlendHoutHolds
<1>4. CASE FactorDone
  BY <1>4, FactorDoneHolds
<1>5. CASE Step /\ ~CollectRange /\ ~BlendHout /\ ~FactorDone /\ ~MeasureRange
  <2>1. /\ todo # <<>> /\ Onward /\ UNCHANGED hout
        /\ Head(todo).do \notin {"ranges", "blend", "done"}
    BY <1>5 DEF Step, At, factors, MakeEval, MakeDiag, MakeGenerator, MakeCal, NameGenerator,
                DecontaminateSelf, MakeRecall, MakeAnchors, CategoryMeasured, OwnvoicePass, JoinRows
  <2> QED BY <2>1, FactorSkips DEF InputsInv
<1>6. CASE MeasureRange \/ RemoveEval \/ RemoveCal \/ BaselineBuilt \/ UNCHANGED vars
  <2>1. UNCHANGED <<todo, hout>>
    BY <1>6 DEF MeasureRange, RemoveEval, RemoveCal, BaselineBuilt, Between, factors, vars
  <2> QED BY <2>1, FactorStill DEF Pending, FactorInv
<1>7. CASE Exit
  BY <1>7, FactorOver DEF Exit, factors, FactorInv, RangesKept, FactorWhole
<1>8. CASE Stop
  BY <1>8, StopHolds
<1> QED BY <1>1, <1>2, <1>3, <1>4, <1>5, <1>6, <1>7, <1>8 DEF Next

(***************************************************************************)
(* What the factors and the measurement are taken from is whole: a factor   *)
(* directory with its DONE.json holds every layer, whole, and rows are      *)
(* measured once, as long as every `yaqa` collects as many layers at a time *)
(* as the ones before it (do_yaqa, collect_hout, do_measure).               *)
(***************************************************************************)
THEOREM MeasurementAlwaysWhole ==
    ASSUME OneStep
    PROVE  Spec => []MeasurementWhole
<1>1. Init => FactorInv
  BY FactorInit
<1>2. InputsInv /\ FactorInv /\ [Next]_vars => FactorInv'
  BY FactorStep
<1>3. InputsInv /\ FactorInv => MeasurementWhole
  BY PartitionFollows DEF FactorInv, MeasurementWhole
<1> QED BY <1>1, <1>2, <1>3, InputsAlways, PTL DEF Spec

(***************************************************************************)
(* The mirror: its inductive invariant.                                    *)
(***************************************************************************)
Stat == [data : Data, mtime : Nat]
Copying == pc \in {"copy", "restat"}

MirrorTypes ==
    /\ now \in 0 .. MaxTime /\ writes \in 0 .. MaxWrites /\ mishaps \in 0 .. MaxMishaps
    /\ local \in [File -> Stat \cup {Absent}]
    /\ archive \in [File -> Data \cup {Absent}]
    /\ DOMAIN state \subseteq File /\ DOMAIN mem \subseteq File /\ left \subseteq File
    /\ pod \in {"work", "lost", "restore"}
    /\ pc \in {"stopped", "idle", "pass", "copy", "restat"}
    /\ pc # "stopped" => pod = "work"
    /\ got \in Data \cup {Absent}
    /\ Copying => cur \in File

NoFuture == \A f \in Present(local) : local[f].mtime <= now

\* The clock has gone on since a recorded time stamp, or nothing is written any more.
Past(k) == k[2] \in Nat /\ (k[2] < now \/ now = MaxTime)
RecordsPast == \A f \in DOMAIN state : Past(state[f])
KeyPast == Copying => Past(key)

\* A pass works on the record as it is stored.
SameRecord == pc \in {"pass", "copy", "restat"} => mem = state

\* What is being copied was due, and whatever replaces it has another key.
CopyDue == Copying /\ cur \in Present(local) \cap DOMAIN state => state[cur] # Key(local[cur])

\* As long as the file has the key its copy began with, that copy is of it.
CopyOf ==
    Copying /\ cur \in Present(local) /\ Key(local[cur]) = key =>
        local[cur].data = (IF pc = "copy" THEN got ELSE archive[cur])

\* Between the loss of a pod and the end of the restore the tree has restored
\* files only.
RestoredOnly ==
    /\ pod \in {"lost", "restore"} => \A f \in Present(local) : archive[f] = local[f].data
    /\ pod = "lost" => state = <<>>
    /\ pod = "restore" =>
         /\ state = <<>> /\ left \subseteq Present(archive)
         /\ \A f \in DOMAIN mem : mem[f][2] \in 0 .. now

MirrorInv ==
    /\ MirrorTypes /\ NoFuture /\ RecordsPast /\ KeyPast /\ SameRecord
    /\ CopyDue /\ CopyOf /\ RestoredOnly /\ SkippedIsArchived

(***************************************************************************)
(* The mirror: its steps.                                                  *)
(***************************************************************************)
\* In a tree that may still be written, no record has the present time.
LEMMA FreshKey ==
    ASSUME MirrorTypes, Busy, NEW k, Past(k), NEW d
    PROVE  k # Key([data |-> d, mtime |-> now])
BY MirrorAssumption DEF MirrorTypes, Busy, Past, Key

LEMMA MirrorInvInit == MirrorInit => MirrorInv
BY MirrorAssumption DEF MirrorInit, MirrorInv, MirrorTypes, NoFuture, RecordsPast, KeyPast,
    SameRecord, CopyDue, CopyOf, RestoredOnly, SkippedIsArchived, Present, Copying

LEMMA TickKeeps == MirrorInv /\ Tick => MirrorInv'
<1> SUFFICES ASSUME MirrorInv, Tick PROVE MirrorInv'
  OBVIOUS
<1> USE DEF MirrorInv
<1>1. /\ UNCHANGED <<writes, mishaps, local, archive, state, pod, pc, mem, left, cur, key, got>>
      /\ now \in Nat /\ now < MaxTime /\ now' = now + 1 /\ MaxTime \in Nat
  BY MirrorAssumption DEF Tick, trees, pass, copy, MirrorTypes
<1>2. MirrorTypes'
  BY <1>1 DEF MirrorTypes, Copying
<1>3. NoFuture'
  BY <1>1 DEF NoFuture, Present, MirrorTypes, Stat
<1>4. RecordsPast' /\ KeyPast'
  BY <1>1 DEF RecordsPast, KeyPast, Past, Copying
<1>5. SameRecord' /\ CopyDue' /\ CopyOf'
  BY <1>1 DEF SameRecord, CopyDue, CopyOf, Copying, Key, Present
<1>6. RestoredOnly'
  BY <1>1 DEF RestoredOnly, Present
<1>7. SkippedIsArchived'
  BY <1>1 DEF SkippedIsArchived, Present, Key
<1> QED BY <1>2, <1>3, <1>4, <1>5, <1>6, <1>7

LEMMA WriteKeeps ==
    ASSUME NEW f \in File, NEW size \in Size, MirrorInv, Write(f, size)
    PROVE  MirrorInv'
<1> USE DEF MirrorInv
<1> DEFINE new == [id |-> writes + 1, size |-> size]
<1>1. /\ Busy /\ pod = "work" /\ now \in Nat
      /\ local' = [local EXCEPT ![f] = [data |-> new, mtime |-> now]]
      /\ IF pc = "copy" /\ cur = f THEN got' \in {got, Torn, new} ELSE UNCHANGED got
      /\ UNCHANGED <<now, mishaps, archive, state, pod, pc, mem, left, cur, key>>
  BY DEF Write, pass, Busy, MirrorTypes
<1>2. /\ writes' = writes + 1 /\ writes' \in 0 .. MaxWrites
      /\ new \in Data /\ Torn \in Data
  BY MirrorAssumption, <1>1 DEF Busy, MirrorTypes, Data
<1>3. MirrorTypes'
  BY <1>1, <1>2 DEF MirrorTypes, Copying, Stat
<1>4. NoFuture'
  BY <1>1 DEF NoFuture, Present, MirrorTypes
<1>5. /\ f \in DOMAIN state => state[f] # Key(local'[f])
      /\ Copying => key # Key(local'[f])
  BY <1>1, FreshKey DEF RecordsPast, KeyPast, MirrorTypes
<1>6. RecordsPast' /\ KeyPast'
  BY <1>1 DEF RecordsPast, KeyPast, Past, Copying
<1>7. SameRecord' /\ RestoredOnly'
  BY <1>1 DEF SameRecord, RestoredOnly
<1>8. CopyDue' /\ CopyOf'
  BY <1>1, <1>5 DEF CopyDue, CopyOf, Copying, Key, Present, MirrorTypes
<1>9. SkippedIsArchived'
  BY <1>1, <1>5 DEF SkippedIsArchived, Present, Key, MirrorTypes
<1> QED BY <1>3, <1>4, <1>6, <1>7, <1>8, <1>9

LEMMA DeleteKeeps ==
    ASSUME NEW f \in File, MirrorInv, Delete(f)
    PROVE  MirrorInv'
<1> USE DEF MirrorInv
<1>1. /\ Busy /\ pod = "work"
      /\ local' = [local EXCEPT ![f] = Absent]
      /\ IF pc = "copy" /\ cur = f THEN got' \in {got, Absent} ELSE UNCHANGED got
      /\ UNCHANGED <<now, mishaps, archive, state, pod, pc, mem, left, cur, key>>
  BY DEF Delete, pass, Busy
<1>2. MirrorTypes'
  BY MirrorAssumption, <1>1 DEF MirrorTypes, Copying, Stat, Busy
<1>3. \A g \in Present(local)' : g \in Present(local) /\ g # f /\ local'[g] = local[g]
  BY <1>1 DEF Present, MirrorTypes
<1>4. NoFuture' /\ RecordsPast' /\ KeyPast'
  BY <1>1, <1>3 DEF NoFuture, RecordsPast, KeyPast, Past, Copying
<1>5. SameRecord' /\ RestoredOnly'
  BY <1>1 DEF SameRecord, RestoredOnly
<1>6. CopyDue' /\ CopyOf'
  BY <1>1, <1>3 DEF CopyDue, CopyOf, Copying
<1>7. SkippedIsArchived'
  BY <1>1, <1>3 DEF SkippedIsArchived
<1> QED BY <1>2, <1>4, <1>5, <1>6, <1>7

\* A step that leaves the trees, the clock and the copy alone, and the pod at work.
LEMMA TurnKeeps ==
    ASSUME MirrorInv, MirrorTypes',
           UNCHANGED <<now, local, archive, state, pod>>, pod = "work",
           pc' \in {"stopped", "idle", "pass"}, pc' = "pass" => mem' = state
    PROVE  MirrorInv'
<1> USE DEF MirrorInv
<1>1. ~Copying'
  BY DEF Copying
<1>2. NoFuture' /\ RecordsPast' /\ SkippedIsArchived' /\ RestoredOnly'
  BY DEF NoFuture, RecordsPast, Past, SkippedIsArchived, RestoredOnly, Present, Key
<1>3. KeyPast' /\ CopyDue' /\ CopyOf' /\ SameRecord'
  BY <1>1 DEF KeyPast, CopyDue, CopyOf, SameRecord, Copying
<1> QED BY <1>2, <1>3

LEMMA MirrorKeeps == MirrorInv /\ Mirror => MirrorInv'
<1> SUFFICES ASSUME MirrorInv, Mirror PROVE MirrorInv'
  OBVIOUS
<1> USE DEF MirrorInv
<1>1. CASE StartMirror
  BY <1>1, TurnKeeps DEF StartMirror, Goto, bounds, trees, pass, copy, MirrorTypes, Copying
<1>2. CASE PassBegin
  BY <1>2, TurnKeeps DEF PassBegin, Goto, bounds, trees, copy, MirrorTypes, Copying, Present
<1>3. CASE PassEnd
  BY <1>3, TurnKeeps DEF PassEnd, Goto, bounds, trees, pass, copy, MirrorTypes, Copying
<1>4. ASSUME NEW f \in File, Skip(f) PROVE MirrorInv'
  BY <1>4, TurnKeeps DEF Skip, bounds, trees, copy, MirrorTypes, Copying, SameRecord
<1>5. ASSUME NEW f \in File, CopyBegin(f) PROVE MirrorInv'
  <2>1. /\ pc = "pass" /\ pod = "work" /\ pc' = "copy" /\ f \in Present(local)
        /\ f \in DOMAIN mem => mem[f] # Key(local[f])
        /\ now >= local[f].mtime + Settle
        /\ cur' = f /\ key' = Key(local[f]) /\ got' = local[f].data
        /\ left' = left \ {f}
        /\ UNCHANGED <<now, writes, mishaps, local, archive, state, pod, mem>>
    BY <1>5 DEF CopyBegin, Goto, bounds, trees, Due, Settled, Present, MirrorTypes
  <2>2. /\ f \in File /\ local[f] \in Stat
        /\ Copying' /\ cur' = f
    BY <2>1 DEF MirrorTypes, Present, Copying
  <2>3. MirrorTypes'
    BY <2>1, <2>2 DEF MirrorTypes, Stat
  <2>4. Past(key)'
    BY <2>1, <2>2, MirrorAssumption DEF Past, Key, Stat, MirrorTypes
  <2>5. NoFuture' /\ RecordsPast' /\ SkippedIsArchived' /\ RestoredOnly'
    BY <2>1 DEF NoFuture, RecordsPast, Past, SkippedIsArchived, RestoredOnly, Present, Key
  <2>6. SameRecord' /\ KeyPast'
    BY <2>1, <2>2, <2>4 DEF SameRecord, KeyPast
  <2>7. CopyDue' /\ CopyOf'
    BY <2>1, <2>2 DEF CopyDue, CopyOf, SameRecord, Key
  <2> QED BY <2>3, <2>5, <2>6, <2>7
<1>6. CASE CopyLands
  <2>1. /\ pc = "copy" /\ got # Absent /\ pc' = "restat"
        /\ archive' = [archive EXCEPT ![cur] = got]
        /\ UNCHANGED <<now, writes, mishaps, local, state, pod, mem, left, cur, key, got>>
    BY <1>6 DEF CopyLands, Goto, bounds, pass, copy
  <2>2. /\ pod = "work" /\ Copying /\ Copying' /\ cur \in File /\ mem = state
        /\ got \in Data /\ archive'[cur] = got
    BY <2>1 DEF Copying, MirrorTypes, SameRecord
  <2>3. MirrorTypes'
    BY <2>1, <2>2 DEF MirrorTypes
  <2>4. NoFuture' /\ RecordsPast' /\ KeyPast' /\ SameRecord' /\ RestoredOnly'
    BY <2>1, <2>2 DEF NoFuture, RecordsPast, KeyPast, Past, SameRecord, RestoredOnly, Present
  <2>5. CopyDue' /\ CopyOf'
    BY <2>1, <2>2 DEF CopyDue, CopyOf, Present, Key
  <2>6. SkippedIsArchived'
    BY <2>1, <2>2 DEF SkippedIsArchived, CopyDue, Present, Key, MirrorTypes
  <2> QED BY <2>3, <2>4, <2>5, <2>6
<1>7. CASE CopyFails
  BY <1>7, TurnKeeps, MirrorAssumption
     DEF CopyFails, trees, pass, copy, MirrorTypes, Copying, SameRecord
<1>8. CASE Restat
  <2>1. /\ pc = "restat" /\ pod = "work" /\ cur \in Present(local) /\ pc' = "pass" /\ ~Copying'
        /\ mem' = state'
        /\ state' = IF Key(local[cur]) = key THEN Record(mem, cur, key) ELSE state
        /\ UNCHANGED <<now, writes, mishaps, local, archive, pod, left, cur, key, got>>
    BY <1>8 DEF Restat, Unchanged, Goto, bounds, copy, Copying, Present, MirrorTypes, SameRecord
  <2>2. cur \in File /\ Copying /\ mem = state
    BY <2>1 DEF Copying, MirrorTypes, SameRecord
  <2>3. MirrorTypes'
    BY <2>1, <2>2 DEF MirrorTypes, Record, Copying
  <2>4. RecordsPast'
    BY <2>1, <2>2 DEF RecordsPast, KeyPast, Past, Record
  <2>5. SkippedIsArchived'
    BY <2>1, <2>2 DEF SkippedIsArchived, CopyOf, Present, Key, Record
  <2>6. NoFuture' /\ RestoredOnly'
    BY <2>1 DEF NoFuture, RestoredOnly, Present
  <2>7. SameRecord' /\ KeyPast' /\ CopyDue' /\ CopyOf'
    BY <2>1 DEF SameRecord, KeyPast, CopyDue, CopyOf
  <2> QED BY <2>3, <2>4, <2>5, <2>6, <2>7
<1>9. CASE RestatRaises
  BY <1>9, TurnKeeps DEF RestatRaises, Goto, bounds, trees, pass, copy, MirrorTypes, Copying
<1> QED BY <1>1, <1>2, <1>3, <1>4, <1>5, <1>6, <1>7, <1>8, <1>9 DEF Mirror

LEMMA KillKeeps == MirrorInv /\ Kill => MirrorInv'
<1> SUFFICES ASSUME MirrorInv, Kill PROVE MirrorInv'
  OBVIOUS
<1> USE DEF MirrorInv
<1>1. /\ pc' = "stopped" /\ pod' = IF pod = "restore" THEN "lost" ELSE pod
      /\ mishaps' \in 0 .. MaxMishaps
      /\ UNCHANGED <<now, writes, local, archive, state, mem, left, cur, key, got>>
  BY MirrorAssumption DEF Kill, Mishap, trees, pass, copy, MirrorTypes
<1>2. MirrorTypes'
  BY <1>1 DEF MirrorTypes, Copying
<1>3. NoFuture' /\ RecordsPast' /\ SkippedIsArchived' /\ RestoredOnly'
  BY <1>1 DEF NoFuture, RecordsPast, Past, SkippedIsArchived, RestoredOnly, Present, Key
<1> QED BY <1>1, <1>2, <1>3 DEF SameRecord, KeyPast, CopyDue, CopyOf, Copying

LEMMA PodLostKeeps == MirrorInv /\ PodLost => MirrorInv'
<1> SUFFICES ASSUME MirrorInv, PodLost PROVE MirrorInv'
  OBVIOUS
<1> USE DEF MirrorInv
<1>1. /\ pc' = "stopped" /\ pod' = "lost" /\ state' = <<>>
      /\ local' = [f \in File |-> Absent] /\ mishaps' \in 0 .. MaxMishaps
      /\ UNCHANGED <<now, writes, archive, mem, left, cur, key, got>>
  BY MirrorAssumption DEF PodLost, Mishap, pass, copy, MirrorTypes
<1>2. MirrorTypes'
  BY <1>1 DEF MirrorTypes, Copying
<1>3. Present(local)' = {} /\ DOMAIN state' = {}
  BY <1>1 DEF Present
<1>4. NoFuture' /\ RecordsPast' /\ SkippedIsArchived' /\ RestoredOnly'
  BY <1>1, <1>3 DEF NoFuture, RecordsPast, SkippedIsArchived, RestoredOnly
<1> QED BY <1>1, <1>2, <1>4 DEF SameRecord, KeyPast, CopyDue, CopyOf, Copying

LEMMA RestoreKeeps == MirrorInv /\ Restore => MirrorInv'
<1> SUFFICES ASSUME MirrorInv, Restore PROVE MirrorInv'
  OBVIOUS
<1> USE DEF MirrorInv
<1>1. CASE RestoreBegin
  <2>1. /\ pod = "lost" /\ pod' = "restore" /\ mem' = state /\ left' = Present(archive)
        /\ pc = "stopped" /\ state = <<>>
        /\ UNCHANGED <<now, writes, mishaps, local, archive, state, pc, cur, key, got>>
    BY <1>1 DEF RestoreBegin, bounds, trees, copy, MirrorTypes, RestoredOnly
  <2>2. MirrorTypes'
    BY <2>1 DEF MirrorTypes, Copying, Present
  <2>3. NoFuture' /\ RecordsPast' /\ SkippedIsArchived' /\ RestoredOnly'
    BY <2>1 DEF NoFuture, RecordsPast, Past, SkippedIsArchived, RestoredOnly, Present, Key
  <2> QED BY <2>1, <2>2, <2>3 DEF SameRecord, KeyPast, CopyDue, CopyOf, Copying
<1>2. ASSUME NEW f \in File, RestoreFile(f) PROVE MirrorInv'
  <2> DEFINE there == local[f] # Absent /\ local[f].data.size = archive[f].size
             l == IF there THEN local[f] ELSE [data |-> archive[f], mtime |-> now]
  <2>1. /\ pod = "restore" /\ f \in left /\ left' = left \ {f} /\ pc = "stopped"
        /\ local' = [local EXCEPT ![f] = l] /\ mem' = Record(mem, f, Key(l))
        /\ UNCHANGED <<now, writes, mishaps, archive, state, pod, pc, cur, key, got>>
    BY <1>2 DEF RestoreFile, bounds, copy, MirrorTypes
  <2>2. /\ f \in Present(archive) /\ archive[f] \in Data
        /\ now \in 0 .. MaxTime /\ MaxTime \in Nat
    BY <2>1, MirrorAssumption DEF RestoredOnly, Present, MirrorTypes
  <2>3. l \in Stat /\ l.mtime \in 0 .. now /\ l.data = archive[f]
    BY <2>1, <2>2 DEF MirrorTypes, NoFuture, Present, RestoredOnly, Stat
  <2>4. local'[f] = l /\ \A g \in File \ {f} : local'[g] = local[g]
    BY <2>1 DEF MirrorTypes
  <2> HIDE DEF l
  <2>5. MirrorTypes'
    BY <2>1, <2>3 DEF MirrorTypes, Copying, Record
  <2>6. NoFuture' /\ RecordsPast' /\ SkippedIsArchived'
    BY <2>1, <2>2, <2>3, <2>4
       DEF NoFuture, RecordsPast, Past, SkippedIsArchived, Present, RestoredOnly, MirrorTypes
  <2>7. \A g \in DOMAIN mem' : mem'[g][2] \in 0 .. now
    BY <2>1, <2>3 DEF Record, Key, RestoredOnly
  <2>8. RestoredOnly'
    BY <2>1, <2>2, <2>3, <2>4, <2>7 DEF RestoredOnly, Present
  <2> QED BY <2>1, <2>5, <2>6, <2>8 DEF SameRecord, KeyPast, CopyDue, CopyOf, Copying
<1>3. CASE RestoreEnd
  <2>1. /\ pod = "restore" /\ pod' = "work" /\ pc = "stopped" /\ state' = mem
        /\ now' = (IF now < MaxTime THEN now + 1 ELSE now)
        /\ UNCHANGED <<writes, mishaps, local, archive, pc, mem, left, cur, key, got>>
    BY <1>3 DEF RestoreEnd, pass, copy, MirrorTypes
  <2>2. now \in 0 .. MaxTime /\ MaxTime \in Nat
    BY MirrorAssumption DEF MirrorTypes
  <2>3. MirrorTypes'
    BY <2>1, <2>2 DEF MirrorTypes, Copying
  <2>4. NoFuture'
    BY <2>1, <2>2 DEF NoFuture, Present, MirrorTypes, Stat
  <2>5. RecordsPast'
    BY <2>1, <2>2 DEF RecordsPast, Past, RestoredOnly
  <2>6. SkippedIsArchived' /\ RestoredOnly'
    BY <2>1 DEF SkippedIsArchived, RestoredOnly, Present
  <2> QED BY <2>1, <2>3, <2>4, <2>5, <2>6 DEF SameRecord, KeyPast, CopyDue, CopyOf, Copying
<1> QED BY <1>1, <1>2, <1>3 DEF Restore

LEMMA MirrorInvStep == MirrorInv /\ [MirrorNext]_mirrorVars => MirrorInv'
<1> SUFFICES ASSUME MirrorInv, [MirrorNext]_mirrorVars PROVE MirrorInv'
  OBVIOUS
<1>1. CASE UNCHANGED mirrorVars
  BY <1>1 DEF mirrorVars, bounds, trees, pass, copy, MirrorInv, MirrorTypes, NoFuture, RecordsPast,
      KeyPast, Past, SameRecord, CopyDue, CopyOf, RestoredOnly, SkippedIsArchived, Present,
      Copying, Key
<1> QED BY <1>1, TickKeeps, WriteKeeps, DeleteKeeps, MirrorKeeps, KillKeeps, PodLostKeeps,
           RestoreKeeps DEF MirrorNext

(***************************************************************************)
(* The mirror: its theorem.                                                *)
(***************************************************************************)
LEMMA MirrorInvAlways == MirrorSpec => []MirrorInv
BY MirrorInvInit, MirrorInvStep, PTL DEF MirrorSpec

\* sync_pass's test `state.get(rel) == key`: a file it passes over is in the archive
\* as it is in the tree, whatever was written during copies, killed or restored.
THEOREM RecordsAlwaysTrue == MirrorSpec => []RecordsTrue
<1>1. MirrorInv => RecordsTrue
  <2> SUFFICES ASSUME MirrorInv PROVE MirrorTypeOK
    BY DEF RecordsTrue, MirrorInv
  <2>1. \A f \in Present(local) : local[f] \in Stat /\ local[f].mtime <= now
    BY DEF MirrorInv, MirrorTypes, NoFuture, Present
  <2>2. \A f \in Present(archive) : archive[f] \in Data
    BY DEF MirrorInv, MirrorTypes, Present
  <2> QED BY <2>1, <2>2 DEF MirrorInv, MirrorTypes, MirrorTypeOK, Stat, Copying
<1> QED BY <1>1, MirrorInvAlways, PTL
=============================================================================
