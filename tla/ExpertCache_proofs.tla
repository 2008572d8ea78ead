------------------------ MODULE ExpertCache_proofs ------------------------
(***************************************************************************)
(* Proofs about ExpertCache, for every value of its constants.              *)
(***************************************************************************)
EXTENDS ExpertCache, FiniteSetTheorems, SequenceTheorems, TLAPS

\* The record types of the three queues.
MainOp  == [kind : {"write", "ready", "forward", "ring"},
            upd : SUBSET (Hosted \X Addr), id : Nat]
Batch   == [id : Nat, experts : SUBSET Hosted]
Copying == [id : Nat, copies : SUBSET (Hosted \X Addr)]
StepRef == [slot : 0 .. Ring - 1, step : Nat]

(***************************************************************************)
(* _fill's ranks: two experts of a layer never share one.                   *)
(***************************************************************************)
LEMMA RankInjective ==
    ASSUME NEW x \in Hosted, NEW y \in Hosted, x[1] = y[1], Rank(x) = Rank(y)
    PROVE  x = y
<1> DEFINE Below(z) == {w \in HostedIn(z[1]) : w[2] < z[2]}
<1>1. ASSUME NEW u \in Hosted, NEW v \in Hosted, u[1] = v[1], u[2] < v[2]
      PROVE  Rank(u) # Rank(v)
  <2>1. Below(u) \subseteq Below(v) /\ Below(u) # Below(v)
    <3>1. ASSUME NEW w \in Below(u) PROVE w \in Below(v)
      BY <1>1, SizesAssumption DEF HostedIn, Layer, Expert
    <3>2. u \in Below(v) /\ u \notin Below(u)
      BY <1>1, SizesAssumption DEF HostedIn, Layer, Expert
    <3> QED BY <3>1, <3>2
  <2>2. IsFiniteSet(Below(v))
    BY SizesAssumption, FS_Subset DEF HostedIn
  <2>3. Cardinality(Below(u)) \in Nat /\ Cardinality(Below(v)) \in Nat
    BY <2>1, <2>2, FS_Subset, FS_CardinalityType
  <2>4. Cardinality(Below(u)) # Cardinality(Below(v))
    BY <2>1, <2>2, FS_Subset
  <2> QED BY <2>3, <2>4 DEF Rank
<1>2. x[2] = y[2]
  BY <1>1, SizesAssumption DEF Layer, Expert
<1> QED BY <1>2, SizesAssumption DEF Layer, Expert

LEMMA FillSlotType == \A x \in Hosted : FillSlot(x) \in Addr
<1> SUFFICES ASSUME NEW x \in Hosted PROVE FillSlot(x) \in Addr
  OBVIOUS
<1>1. Rank(x) \in Nat
  <2>1. IsFiniteSet({y \in HostedIn(x[1]) : y[2] < x[2]})
    BY SizesAssumption, FS_Subset DEF HostedIn
  <2> QED BY <2>1, FS_CardinalityType DEF Rank
<1>2. Capacity(x[1]) \in Nat /\ Capacity(x[1]) <= Slots
  <2>1. IsFiniteSet(HostedIn(x[1]))
    BY SizesAssumption, FS_Subset DEF HostedIn
  <2>2. Cardinality(HostedIn(x[1])) \in Nat
    BY <2>1, FS_CardinalityType
  <2> QED BY <2>2, SizesAssumption DEF Capacity
<1>3. CASE Rank(x) < Capacity(x[1])
  <2>1. x[1] \in Layer
    BY SizesAssumption DEF Layer, Expert
  <2>2. Rank(x) \in 0 .. Slots - 1
    BY <1>1, <1>2, <1>3, SizesAssumption
  <2>3. <<x[1], Rank(x)>> \in Place
    BY <1>3, <2>1, <2>2 DEF Place
  <2> QED BY <2>3, <1>3 DEF FillSlot, Addr
<1>4. CASE ~(Rank(x) < Capacity(x[1]))
  BY <1>4 DEF FillSlot, Addr
<1> QED BY <1>3, <1>4

\* The warm fill puts an expert in at most one slot, and in each slot one.
LEMMA FillInjective ==
    ASSUME NEW x \in Hosted, NEW y \in Hosted, FillSlot(x) \in Place,
           FillSlot(x) = FillSlot(y)
    PROVE  x = y
<1>1. FillSlot(x) = <<x[1], Rank(x)>> /\ FillSlot(y) = <<y[1], Rank(y)>>
  BY ValuesAssumption DEF FillSlot
<1>2. \A a, b, c, d : <<a, b>> = <<c, d>> => a = c /\ b = d
  OBVIOUS
<1>3. <<x[1], Rank(x)>> = <<y[1], Rank(y)>>
  BY <1>1
<1>4. x[1] = y[1] /\ Rank(x) = Rank(y)
  BY <1>3, <1>2
<1> QED BY <1>4, RankInjective

LEMMA FillOwnerType ==
    ASSUME NEW none, NEW p \in Place
    PROVE  FillOwner(p, none) \in Hosted \cup {none}
BY DEF FillOwner

\* The owner _fill records for an expert's slot is that expert.
LEMMA FillOwnerOf ==
    ASSUME NEW none, NEW x \in Hosted, FillSlot(x) \in Place
    PROVE  FillOwner(FillSlot(x), none) = x
BY FillInjective DEF FillOwner

LEMMA FillSlotOfOwner ==
    ASSUME NEW none, none \notin Hosted, NEW p \in Place, FillOwner(p, none) # none
    PROVE  FillSlot(FillOwner(p, none)) = p
BY DEF FillOwner
(***************************************************************************)
(* Types.                                                                   *)
(***************************************************************************)
LEMMA TypeInit == Init => TypeOK
<1> SUFFICES ASSUME Init PROVE TypeOK
  OBVIOUS
<1>1. /\ \A x \in Hosted : FillSlot(x) \in Addr
      /\ \A p \in Place : FillOwner(p, None) \in Hosted \cup {None}
      /\ \A p \in Place : FillOwner(p, Torn) \in Hosted \cup {Torn}
  BY FillSlotType, FillOwnerType
<1>2. NoRouting \in [Hosted -> Nat]
  BY DEF NoRouting
<1>3. /\ ring \in [0 .. Ring - 1 -> [step : Nat, counts : [Hosted -> Nat]]]
      /\ counts \in [Hosted -> Nat] /\ route \in [Hosted -> Nat]
  BY <1>2 DEF Init
<1>4. /\ pending \in Seq(Batch) /\ steps \in Seq(StepRef)
      /\ mainq \in Seq(MainOp) /\ sideq \in Seq(Copying)
  BY DEF Init
<1>5. /\ owner \in [Place -> Hosted \cup {None}]
      /\ slotOf \in [Hosted -> Addr] /\ table \in [Hosted -> Addr]
      /\ slotData \in [Place -> Hosted \cup {Torn}]
      /\ live \subseteq Hosted /\ lastUse \in [Hosted -> Int]
  BY <1>1 DEF Init
<1> QED BY <1>3, <1>4, <1>5 DEF Init, TypeOK, MainOp, Batch, Copying, StepRef

\* Operations the controller enqueues are well formed.
LEMMA WriteType ==
    ASSUME NEW q \in Seq(MainOp), NEW upd \in SUBSET (Hosted \X Addr)
    PROVE  Write(q, upd) \in Seq(MainOp)
<1>1. Op("write", upd, 0) \in MainOp
  BY DEF Op, MainOp
<1> QED BY <1>1 DEF Write

LEMMA ScatterType ==
    ASSUME NEW t \in [Hosted -> Addr], NEW upd \in SUBSET (Hosted \X Addr)
    PROVE  Scatter(t, upd) \in [Hosted -> Addr]
BY DEF Scatter

LEMMA RingSlotType == \A n \in Nat : RingSlot(n) \in 0 .. Ring - 1
BY SizesAssumption DEF RingSlot

LEMMA TypeNext == TypeOK /\ [Next]_vars => TypeOK'
<1> SUFFICES ASSUME TypeOK, [Next]_vars PROVE TypeOK'
  OBVIOUS
<1>q. /\ pending \in Seq(Batch) /\ steps \in Seq(StepRef)
      /\ mainq \in Seq(MainOp) /\ sideq \in Seq(Copying)
  BY DEF TypeOK, MainOp, Batch, Copying, StepRef
<1> DEFINE Q == /\ pending' \in Seq(Batch) /\ steps' \in Seq(StepRef)
                /\ mainq' \in Seq(MainOp) /\ sideq' \in Seq(Copying)
<1>1. CASE StepBegin
  BY <1>1 DEF TypeOK, StepBegin, hostVars, ringVars, localVars, devVars
<1>2. CASE Flip
  <2>1. Head(pending) \in Batch /\ pending' \in Seq(Batch)
    BY <1>2, <1>q DEF Flip, NextLanded
  <2>2. live' \subseteq Hosted /\ flips' \subseteq Hosted \X Addr
    BY <1>2, <2>1 DEF Flip, TypeOK, Batch
  <2> QED BY <1>2, <2>1, <2>2 DEF TypeOK, Flip, Batch, ringVars, localVars, devVars
<1>3. CASE FlipDone
  <2>1. mainq' \in Seq(MainOp)
    BY <1>3, <1>q, WriteType DEF FlipDone, TypeOK
  <2> QED BY <1>3, <2>1 DEF TypeOK, FlipDone, MainOp, hostVars, ringVars, localVars, devVars
<1>4. CASE ReadRouting
  <2>1. Head(steps) \in StepRef /\ steps' \in Seq(StepRef)
    BY <1>4, <1>q DEF ReadRouting, NextCopied
  <2> QED BY <1>4, <2>1 DEF TypeOK, ReadRouting, StepRef, hostVars, localVars, devVars
<1>5. CASE ReadNothing
  BY <1>5 DEF TypeOK, ReadNothing, hostVars, ringVars, localVars, devVars
<1>6. CASE PlanBegin
  <2>1. routed \in StepRef
    BY <1>6 DEF PlanBegin, TypeOK, StepRef
  <2>2. ring[routed.slot].counts \in [Hosted -> Nat]
    BY <2>1 DEF TypeOK, StepRef
  <2>3. counts' \in [Hosted -> Nat] /\ todo' \subseteq Hosted
    BY <1>6, <2>2 DEF PlanBegin
  <2>4. clock' \in Nat /\ lastUse' \in [Hosted -> Int]
    BY <1>6 DEF PlanBegin, TypeOK
  <2> QED BY <1>6, <2>3, <2>4 DEF TypeOK, PlanBegin, ringVars, localVars, devVars
<1>7. ASSUME NEW x \in todo, Skip(x) PROVE TypeOK'
  BY <1>7 DEF TypeOK, Skip, hostVars, ringVars, localVars, devVars
<1>8. ASSUME NEW x \in todo, NEW p \in Place, Take(x, p) PROVE TypeOK'
  <2>1. x \in Hosted /\ p \in Addr /\ Host \in Addr
    BY DEF TypeOK, Addr
  <2>2. owner' \in [Place -> Hosted \cup {None}]
    BY <1>8, <2>1 DEF Take, TypeOK
  <2>3. Displace(p) \in [Hosted -> Addr]
    BY <2>1 DEF Displace, TypeOK
  <2>4. slotOf' \in [Hosted -> Addr]
    BY <1>8, <2>1, <2>3 DEF Take
  <2>5. BackToHost(p) \subseteq Hosted \X Addr
    BY <2>1 DEF BackToHost, TypeOK
  <2>6. updates' \subseteq Hosted \X Addr /\ live' \subseteq Hosted
        /\ issued' \subseteq Hosted /\ todo' \subseteq Hosted
    BY <1>8, <2>1, <2>5 DEF Take, TypeOK
  <2> QED BY <1>8, <2>2, <2>4, <2>6 DEF TypeOK, Take, ringVars, localVars, devVars
<1>9. CASE Promote
  <2>1. promotions' \in Nat
    BY <1>9 DEF Promote, TypeOK
  <2>2. Op("ready", {}, promotions') \in MainOp
    BY <2>1 DEF Op, MainOp
  <2>3. mainq' \in Seq(MainOp)
    BY <1>9, <1>q, <2>2, WriteType DEF Promote, TypeOK
  <2>4. [id |-> promotions', experts |-> issued] \in Batch
    BY <2>1 DEF Batch, TypeOK
  <2>5. [id |-> promotions', copies |-> {<<x, slotOf[x]>> : x \in issued}] \in Copying
    BY <2>1 DEF Copying, TypeOK
  <2>6. pending' \in Seq(Batch) /\ sideq' \in Seq(Copying)
    BY <1>9, <1>q, <2>4, <2>5 DEF Promote
  <2>7. counts' \in [Hosted -> Nat]
    BY <1>9 DEF Promote, PlanReturns, NoRouting
  <2> QED BY <1>9, <2>1, <2>3, <2>6, <2>7
          DEF TypeOK, Promote, PlanReturns, MainOp, Batch, Copying, ringVars, localVars, devVars
<1>10. CASE PlanNothing
  <2>1. counts' \in [Hosted -> Nat]
    BY <1>10 DEF PlanNothing, PlanReturns, NoRouting
  <2> QED BY <1>10, <2>1 DEF TypeOK, PlanNothing, PlanReturns, hostVars, ringVars, devVars
<1>11. CASE Launch
  <2>1. Op("forward", {}, 0) \in MainOp
    BY DEF Op, MainOp
  <2>2. mainq' \in Seq(MainOp)
    BY <1>11, <1>q, <2>1 DEF Launch
  <2> QED BY <1>11, <2>2 DEF TypeOK, Launch, MainOp, hostVars, ringVars, devVars
<1>12. CASE StepEndDecodes
  <2>1. step' \in Nat
    BY <1>12 DEF StepEndDecodes, TypeOK
  <2>2. Op("ring", {}, step') \in MainOp
    BY <2>1 DEF Op, MainOp
  <2>3. mainq' \in Seq(MainOp)
    BY <1>12, <1>q, <2>2 DEF StepEndDecodes
  <2>4. [slot |-> RingSlot(step'), step |-> step'] \in StepRef
    BY <2>1, RingSlotType DEF StepRef
  <2>5. (IF Len(steps) >= Ring - 1 THEN Tail(steps) ELSE steps) \in Seq(StepRef)
    BY <1>q, SizesAssumption
  <2>6. steps' \in Seq(StepRef)
    BY <1>12, <2>4, <2>5 DEF StepEndDecodes
  <2> QED BY <1>12, <2>1, <2>3, <2>6
          DEF TypeOK, StepEndDecodes, MainOp, StepRef, hostVars, localVars, devVars
<1>13. CASE StepEndPrefill
  <2>1. step' \in Nat
    BY <1>13 DEF StepEndPrefill, TypeOK
  <2> QED BY <1>13, <2>1 DEF TypeOK, StepEndPrefill, hostVars, localVars, devVars
<1>h. ASSUME NEW k, MainHead(k)
      PROVE  Head(mainq) \in MainOp /\ Tail(mainq) \in Seq(MainOp)
  BY <1>h, <1>q DEF MainHead
<1>14. CASE MainWrite
  <2>1. Head(mainq) \in MainOp /\ mainq' \in Seq(MainOp)
    BY <1>14, <1>h DEF MainWrite
  <2>2. table' \in [Hosted -> Addr]
    BY <1>14, <2>1, ScatterType DEF MainWrite, TypeOK, MainOp
  <2> QED BY <1>14, <2>1, <2>2
          DEF TypeOK, MainWrite, MainFrame, MainOp, hostVars, ringVars, localVars
<1>15. CASE MainReady
  <2>1. Head(mainq) \in MainOp /\ mainq' \in Seq(MainOp)
    BY <1>15, <1>h DEF MainReady
  <2>2. fired' \subseteq {"ready", "done", "ring"} \X Nat
    BY <1>15, <2>1 DEF MainReady, TypeOK, MainOp
  <2> QED BY <1>15, <2>1, <2>2
          DEF TypeOK, MainReady, MainFrame, MainOp, hostVars, ringVars, localVars
<1>16. CASE MainForward
  <2>1. mainq' \in Seq(MainOp)
    BY <1>16, <1>h DEF MainForward
  <2>2. route' \in [Hosted -> Nat]
    BY <1>16, ValuesAssumption DEF MainForward
  <2> QED BY <1>16, <2>1, <2>2
          DEF TypeOK, MainForward, MainFrame, MainOp, hostVars, ringVars, localVars
<1>17. CASE MainRing
  <2>1. Head(mainq) \in MainOp /\ mainq' \in Seq(MainOp)
    BY <1>17, <1>h DEF MainRing
  <2>2. Head(mainq).id \in Nat
    BY <2>1 DEF MainOp
  <2>3. fired' \subseteq {"ready", "done", "ring"} \X Nat
    BY <1>17, <2>2 DEF MainRing, TypeOK
  <2>4. ring' \in [0 .. Ring - 1 -> [step : Nat, counts : [Hosted -> Nat]]]
    BY <1>17, <2>2 DEF MainRing, TypeOK
  <2> QED BY <1>17, <2>1, <2>3, <2>4
          DEF TypeOK, MainRing, MainFrame, MainOp, hostVars, ringVars, localVars
<1>18. ASSUME NEW c \in Hosted \X Place, CopyBegin(c) PROVE TypeOK'
  <2>1. c \in Hosted \X Addr /\ c[2] \in Place
    BY DEF Addr
  <2>2. slotData' \in [Place -> Hosted \cup {Torn}]
    BY <1>18, <2>1 DEF CopyBegin, TypeOK
  <2> QED BY <1>18, <2>1, <2>2
          DEF TypeOK, CopyBegin, SideFrame, hostVars, ringVars, localVars
<1>19. CASE CopyEnd
  <2>1. copying \in Hosted \X Addr
    BY <1>19 DEF CopyEnd, TypeOK
  <2>2. slotData' \in [Place -> Hosted \cup {Torn}]
    BY <1>19, <2>1 DEF CopyEnd, TypeOK
  <2>3. sideq' \in Seq(Copying)
    <3>1. sideq \in [1 .. Len(sideq) -> Copying] /\ Len(sideq) \in Nat
      BY <1>q
    <3>2. sideq' = [sideq EXCEPT ![1] =
                      [sideq[1] EXCEPT !.copies = sideq[1].copies \ {copying}]]
      BY <1>19 DEF CopyEnd
    <3>3. 1 \in 1 .. Len(sideq) =>
             [sideq[1] EXCEPT !.copies = sideq[1].copies \ {copying}] \in Copying
      BY <3>1 DEF Copying
    <3>4. sideq' \in [1 .. Len(sideq) -> Copying]
      BY <3>1, <3>2, <3>3
    <3> QED BY <3>1, <3>4
  <2> QED BY <1>19, <2>2, <2>3
          DEF TypeOK, CopyEnd, SideFrame, Copying, hostVars, ringVars, localVars
<1>20. CASE BatchDone
  <2>1. Head(sideq) \in Copying /\ sideq' \in Seq(Copying)
    BY <1>20, <1>q DEF BatchDone
  <2>2. fired' \subseteq {"ready", "done", "ring"} \X Nat
    BY <1>20, <2>1 DEF BatchDone, TypeOK, Copying
  <2> QED BY <1>20, <2>1, <2>2
          DEF TypeOK, BatchDone, SideFrame, Copying, hostVars, ringVars, localVars
<1>21. CASE UNCHANGED vars
  BY <1>21 DEF TypeOK, vars, hostVars, ringVars, localVars, devVars
<1> QED
  BY <1>1, <1>2, <1>3, <1>4, <1>5, <1>6, <1>7, <1>8, <1>9, <1>10, <1>11, <1>12, <1>13,
     <1>14, <1>15, <1>16, <1>17, <1>18, <1>19, <1>20, <1>21
  DEF Next, Controller, MainStream, SideStream

(* Every variable keeps its type, whatever the constants: no ring or slot   *)
(* number leaves what was allocated.                                        *)
THEOREM TypeCorrect == Spec => []TypeOK
BY TypeInit, TypeNext, PTL DEF Spec
(***************************************************************************)
(* The host's bookkeeping: slots, promotions and the controller's locals.   *)
(***************************************************************************)
HostOK == OneOwner /\ NoSlotLost /\ LocalsOK

LEMMA HostInit == Init => HostOK
<1> SUFFICES ASSUME Init PROVE HostOK
  OBVIOUS
<1>1. ASSUME NEW p \in Place, owner[p] # None PROVE slotOf[owner[p]] = p
  <2>1. owner[p] = FillOwner(p, None)
    BY DEF Init
  <2>2. owner[p] \in Hosted
    BY <1>1, <2>1, FillOwnerType
  <2> QED BY <1>1, <2>1, <2>2, ValuesAssumption, FillSlotOfOwner DEF Init
<1>2. ASSUME NEW x \in Hosted, slotOf[x] # Host PROVE owner[slotOf[x]] = x
  <2>1. slotOf[x] = FillSlot(x) /\ FillSlot(x) \in Place
    BY <1>2, FillSlotType DEF Init, Addr
  <2> QED BY <2>1, FillOwnerOf DEF Init
<1>3. OneOwner
  BY <1>1, <1>2 DEF OneOwner, Init
<1>4. NoSlotLost /\ LocalsOK
  BY DEF NoSlotLost, LocalsOK, InFlight, Init
<1> QED BY <1>3, <1>4 DEF HostOK

LEMMA HostFrame ==
    ASSUME HostOK, UNCHANGED hostVars, UNCHANGED localVars
    PROVE  HostOK'
BY DEF HostOK, OneOwner, NoSlotLost, LocalsOK, InFlight, hostVars, localVars

\* A promotion popped from the front of the list shifts the others down.
LEMMA TailShift ==
    ASSUME NEW S, NEW q \in Seq(S), q # <<>>
    PROVE  /\ Len(Tail(q)) = Len(q) - 1
           /\ \A i \in 1 .. Len(Tail(q)) : Tail(q)[i] = q[i + 1] /\ i + 1 \in 1 .. Len(q)
           /\ Head(q) = q[1] /\ 1 \in 1 .. Len(q)
OBVIOUS

LEMMA AppendEnd ==
    ASSUME NEW S, NEW q \in Seq(S), NEW e \in S
    PROVE  /\ Len(Append(q, e)) = Len(q) + 1
           /\ \A i \in 1 .. Len(q) : Append(q, e)[i] = q[i]
           /\ Append(q, e)[Len(q) + 1] = e
OBVIOUS

LEMMA FlipHost ==
    ASSUME TypeOK, HostOK, Flip
    PROVE  HostOK'
<1> DEFINE H == Head(pending).experts
<1>1. pending \in Seq(Batch) /\ pending # <<>>
  BY DEF Flip, NextLanded, TypeOK, Batch
<1>2. /\ Len(pending') = Len(pending) - 1
      /\ \A i \in 1 .. Len(pending') : pending'[i] = pending[i + 1] /\ i + 1 \in 1 .. Len(pending)
      /\ Head(pending) = pending[1] /\ 1 \in 1 .. Len(pending) /\ Len(pending) \in Nat
  BY <1>1, TailShift DEF Flip
<1>3. \A x \in H : x \in Hosted /\ slotOf[x] # Host /\ x \notin live
  <2>1. pending[1] \in Batch
    BY <1>1, <1>2
  <2>2. H = pending[1].experts /\ H \subseteq Hosted
    BY <2>1, <1>2 DEF Batch
  <2> QED BY <2>2, <1>2 DEF HostOK, NoSlotLost, InFlight
<1>4. UNCHANGED <<owner, slotOf, issued, todo, updates, pc>> /\ pc = "flip" /\ live' = live \cup H
  BY DEF Flip
<1>5. OneOwner'
  BY <1>3, <1>4 DEF HostOK, OneOwner
<1>6. NoSlotLost'
  <2> SUFFICES ASSUME NEW x \in Hosted
      PROVE  /\ InFlight(x)' => \/ x \in issued'
                                \/ \E i \in 1 .. Len(pending') : x \in pending'[i].experts
             /\ x \in issued' => InFlight(x)'
             /\ \A i \in 1 .. Len(pending') : x \in pending'[i].experts =>
                  /\ InFlight(x)' /\ x \notin issued'
                  /\ \A j \in 1 .. Len(pending') : x \in pending'[j].experts => i = j
    BY DEF NoSlotLost
  <2>1. issued = {}
    BY <1>4 DEF HostOK, LocalsOK
  <2>2. ASSUME InFlight(x)'
        PROVE  \E i \in 1 .. Len(pending') : x \in pending'[i].experts
    <3>1. InFlight(x) /\ x \notin H
      BY <2>2, <1>4 DEF InFlight
    <3>2. PICK i \in 1 .. Len(pending) : x \in pending[i].experts
      BY <3>1, <2>1 DEF HostOK, NoSlotLost
    <3>3. i # 1
      BY <3>1, <3>2, <1>2
    <3>4. i - 1 \in 1 .. Len(pending')
      BY <3>3, <1>2
    <3>5. pending'[i - 1] = pending[i]
      BY <3>4, <1>2
    <3> QED BY <3>2, <3>4, <3>5
  <2>3. ASSUME NEW i \in 1 .. Len(pending'), x \in pending'[i].experts
        PROVE  /\ InFlight(x)'
               /\ \A j \in 1 .. Len(pending') : x \in pending'[j].experts => i = j
    <3>1. x \in pending[i + 1].experts /\ i + 1 \in 1 .. Len(pending)
      BY <2>3, <1>2
    <3>2. InFlight(x) /\ \A j \in 1 .. Len(pending) : x \in pending[j].experts => i + 1 = j
      BY <3>1 DEF HostOK, NoSlotLost
    <3>3. x \notin H
      BY <3>2, <1>2, <2>3
    <3>4. InFlight(x)'
      BY <3>2, <3>3, <1>4 DEF InFlight
    <3>5. \A j \in 1 .. Len(pending') : x \in pending'[j].experts => i + 1 = j + 1
      BY <3>2, <1>2
    <3> QED BY <3>4, <3>5, <1>2
  <2> QED BY <2>1, <2>2, <2>3, <1>4
<1>7. LocalsOK'
  <2>1. flips' = flips \cup {<<x, slotOf[x]>> : x \in H}
    BY DEF Flip
  <2> QED BY <2>1, <1>4 DEF HostOK, LocalsOK
<1> QED BY <1>5, <1>6, <1>7 DEF HostOK

LEMMA TakeHost ==
    ASSUME TypeOK, HostOK, NEW x \in todo, NEW p \in Place, Take(x, p)
    PROVE  HostOK'
<1> DEFINE old == owner[p]
<1>1. /\ x \in Hosted /\ slotOf[x] = Host /\ pc = "plan" /\ flips = {}
      /\ UNCHANGED <<pending, pc, flips>>
  BY DEF TypeOK, HostOK, LocalsOK, Take
<1>2. old \in Hosted \cup {None} /\ (old # None => slotOf[old] = p) /\ old # x
  BY <1>1, ValuesAssumption DEF TypeOK, HostOK, OneOwner, Addr
<1>3. old # None => old \in live
  BY DEF Take, Victims, Free, Evictable
<1>4. owner' = [owner EXCEPT ![p] = x] /\ live' = live \ {old}
      /\ issued' = issued \cup {x} /\ todo' = todo \ {x}
  BY DEF Take
<1>5. \A y \in Hosted : slotOf'[y] = IF y = x THEN p ELSE IF y = old THEN Host ELSE slotOf[y]
  BY <1>1, <1>2, ValuesAssumption DEF Take, Displace, TypeOK
<1>6. p # Host /\ \A q \in Place : q # Host
  BY ValuesAssumption
<1>7. x \notin live /\ \A y \in Hosted : y # x /\ y # old => slotOf[y] # p
  BY <1>1, <1>2, <1>6 DEF HostOK, OneOwner, TypeOK
<1>8. OneOwner'
  <2>1. ASSUME NEW q \in Place, owner'[q] # None PROVE slotOf'[owner'[q]] = q
    <3>1. CASE q = p
      BY <3>1, <1>1, <1>4, <1>5 DEF TypeOK
    <3>2. CASE q # p
      <4>1. owner'[q] = owner[q] /\ owner[q] \in Hosted /\ slotOf[owner[q]] = q
        BY <2>1, <3>2, <1>4 DEF TypeOK, HostOK, OneOwner
      <4>2. owner[q] # x /\ owner[q] # old
        BY <4>1, <3>2, <1>1, <1>2, <1>6, ValuesAssumption
      <4> QED BY <4>1, <4>2, <1>5
    <3> QED BY <3>1, <3>2
  <2>2. ASSUME NEW y \in Hosted, slotOf'[y] # Host PROVE owner'[slotOf'[y]] = y
    <3>1. CASE y = x
      BY <3>1, <1>4, <1>5 DEF TypeOK
    <3>2. CASE y # x
      <4>1. y # old /\ slotOf'[y] = slotOf[y]
        BY <3>2, <2>2, <1>5
      <4>2. owner[slotOf[y]] = y /\ slotOf[y] # p /\ slotOf[y] \in Place
        BY <4>1, <2>2, <3>2, <1>7 DEF HostOK, OneOwner, TypeOK, Addr
      <4> QED BY <4>1, <4>2, <1>4 DEF TypeOK
    <3> QED BY <3>1, <3>2
  <2>3. ASSUME NEW y \in live' PROVE slotOf'[y] # Host
    BY <2>3, <1>4, <1>5, <1>6, <1>7 DEF HostOK, OneOwner, TypeOK
  <2> QED BY <2>1, <2>2, <2>3 DEF OneOwner
<1>9. NoSlotLost'
  <2>1. InFlight(x)' /\ x \in issued' /\ ~InFlight(x)
    BY <1>1, <1>4, <1>5, <1>6, <1>7 DEF InFlight
  <2>2. ASSUME NEW y \in Hosted, y # x
        PROVE (InFlight(y)' <=> InFlight(y)) /\ (y \in issued' <=> y \in issued)
    <3>1. CASE y = old
      <4>1. ~InFlight(y) /\ ~InFlight(y)'
        BY <3>1, <2>2, <1>2, <1>3, <1>5, ValuesAssumption DEF InFlight
      <4> QED BY <4>1, <2>2, <1>4
    <3>2. CASE y # old
      <4>1. slotOf'[y] = slotOf[y] /\ (y \in live' <=> y \in live)
        BY <3>2, <2>2, <1>4, <1>5
      <4> QED BY <4>1, <2>2, <1>4 DEF InFlight
    <3> QED BY <3>1, <3>2
  <2> QED BY <2>1, <2>2, <1>1 DEF HostOK, NoSlotLost
<1>10. LocalsOK'
  <2>1. updates' = updates \cup BackToHost(p)
    BY DEF Take
  <2>2. \A u \in updates' : u[2] = Host
    BY <2>1 DEF BackToHost, HostOK, LocalsOK
  <2>3. \A y \in todo' : slotOf'[y] = Host
    BY <1>4, <1>5 DEF HostOK, LocalsOK, TypeOK
  <2>4. issued' # {}
    BY <1>4
  <2> QED BY <2>2, <2>3, <2>4, <1>1 DEF LocalsOK
<1> QED BY <1>8, <1>9, <1>10 DEF HostOK

LEMMA PromoteHost ==
    ASSUME TypeOK, HostOK, Promote
    PROVE  HostOK'
<1> DEFINE b == [id |-> promotions', experts |-> issued]
<1>1. pending \in Seq(Batch) /\ b \in Batch
  BY DEF Promote, TypeOK, Batch
<1>2. /\ Len(pending') = Len(pending) + 1 /\ Len(pending) \in Nat
      /\ \A i \in 1 .. Len(pending) : pending'[i] = pending[i]
      /\ pending'[Len(pending) + 1] = b
  BY <1>1, AppendEnd DEF Promote
<1>3. UNCHANGED <<owner, slotOf, live, flips>> /\ issued' = {} /\ todo' = {}
      /\ updates' = {} /\ pc = "plan" /\ pc' = "launch"
  BY DEF Promote, PlanReturns
<1>4. OneOwner' /\ LocalsOK'
  BY <1>3 DEF HostOK, OneOwner, LocalsOK
<1>5. ASSUME NEW x \in Hosted
      PROVE  /\ InFlight(x)' => \E i \in 1 .. Len(pending') : x \in pending'[i].experts
             /\ \A i \in 1 .. Len(pending') : x \in pending'[i].experts =>
                  /\ InFlight(x)'
                  /\ \A j \in 1 .. Len(pending') : x \in pending'[j].experts => i = j
  <2>1. InFlight(x)' <=> InFlight(x)
    BY <1>3 DEF InFlight
  <2>2. ASSUME InFlight(x)
        PROVE \E i \in 1 .. Len(pending') : x \in pending'[i].experts
    <3>1. CASE x \in issued
      BY <3>1, <1>2
    <3>2. CASE x \notin issued
      BY <3>2, <2>2, <1>2 DEF HostOK, NoSlotLost
    <3> QED BY <3>1, <3>2
  <2>3. ASSUME NEW i \in 1 .. Len(pending'), x \in pending'[i].experts
        PROVE /\ InFlight(x)
              /\ \A j \in 1 .. Len(pending') : x \in pending'[j].experts => i = j
    <3>1. CASE i = Len(pending) + 1
      <4>1. x \in issued
        BY <3>1, <2>3, <1>2
      <4>2. \A j \in 1 .. Len(pending) : x \notin pending'[j].experts
        BY <4>1, <1>2 DEF HostOK, NoSlotLost
      <4> QED BY <4>1, <4>2, <3>1, <1>2 DEF HostOK, NoSlotLost
    <3>2. CASE i # Len(pending) + 1
      <4>1. i \in 1 .. Len(pending) /\ x \in pending[i].experts
        BY <3>2, <2>3, <1>2
      <4>2. x \notin issued /\ InFlight(x)
        BY <4>1 DEF HostOK, NoSlotLost
      <4>3. \A j \in 1 .. Len(pending) : x \in pending'[j].experts => i = j
        BY <4>1, <1>2 DEF HostOK, NoSlotLost
      <4> QED BY <4>2, <4>3, <1>2
    <3> QED BY <3>1, <3>2
  <2> QED BY <2>1, <2>2, <2>3
<1>6. NoSlotLost'
  BY <1>3, <1>5 DEF NoSlotLost
<1> QED BY <1>4, <1>6 DEF HostOK

LEMMA HostNext == TypeOK /\ HostOK /\ [Next]_vars => HostOK'
<1> SUFFICES ASSUME TypeOK, HostOK, [Next]_vars PROVE HostOK'
  OBVIOUS
<1>1. CASE Flip
  BY <1>1, FlipHost
<1>2. ASSUME NEW x \in todo, NEW p \in Place, Take(x, p) PROVE HostOK'
  BY <1>2, TakeHost
<1>3. CASE Promote
  BY <1>3, PromoteHost
<1>4. CASE StepBegin \/ FlipDone \/ ReadRouting \/ ReadNothing \/ Launch
           \/ StepEndDecodes \/ StepEndPrefill
  BY <1>4 DEF StepBegin, FlipDone, ReadRouting, ReadNothing, Launch, StepEndDecodes,
     StepEndPrefill, HostOK, OneOwner, NoSlotLost, LocalsOK, InFlight, hostVars
<1>5. CASE PlanBegin
  <2>1. /\ UNCHANGED <<owner, slotOf, live, pending, flips>>
        /\ pc = "read" /\ pc' = "plan" /\ updates' = {} /\ issued' = {}
        /\ \A x \in todo' : slotOf[x] = Host
    BY <1>5 DEF PlanBegin
  <2>2. issued = {} /\ flips = {}
    BY <2>1 DEF HostOK, LocalsOK
  <2> QED BY <2>1, <2>2 DEF HostOK, OneOwner, NoSlotLost, LocalsOK, InFlight
<1>10. CASE PlanNothing
  BY <1>10 DEF PlanNothing, PlanReturns, HostOK, OneOwner, NoSlotLost, LocalsOK,
     InFlight, hostVars
<1>6. ASSUME NEW x \in todo, Skip(x) PROVE HostOK'
  BY <1>6 DEF Skip, HostOK, OneOwner, NoSlotLost, LocalsOK, InFlight, hostVars
<1>7. CASE MainStream
  BY <1>7, HostFrame DEF MainStream, MainWrite, MainReady, MainForward, MainRing, MainFrame
<1>8. CASE SideStream
  BY <1>8, HostFrame DEF SideStream, CopyBegin, CopyEnd, BatchDone, SideFrame
<1>9. CASE UNCHANGED vars
  BY <1>9, HostFrame DEF vars
<1> QED
  BY <1>1, <1>2, <1>3, <1>4, <1>5, <1>6, <1>7, <1>8, <1>9, <1>10
  DEF Next, Controller

(* slot_of and owner stay inverse, and no slot is ever lost: whatever is in *)
(* a slot but not live is in exactly one promotion that is still listed.    *)
THEOREM SlotsKept == Spec => [](OneOwner /\ NoSlotLost)
<1>1. Init => TypeOK /\ HostOK
  BY TypeInit, HostInit
<1>2. TypeOK /\ HostOK /\ [Next]_vars => (TypeOK /\ HostOK)'
  BY TypeNext, HostNext
<1>3. TypeOK /\ HostOK => OneOwner /\ NoSlotLost
  BY DEF HostOK
<1> QED BY <1>1, <1>2, <1>3, PTL DEF Spec

(***************************************************************************)
(* The routing ring. RingSafe is inductive only beside what paces the       *)
(* controller: the forwards enqueued behind an outstanding copy are as many *)
(* as the steps ended since, and vLLM lets fewer than Ring of them wait.    *)
(***************************************************************************)
IsRing(i) == mainq[i].kind = "ring"
After(i) == {j \in Forwards : j > i}
Launched == IF pc = "end" THEN 1 ELSE 0
Begun == IF pc \in {"flip", "read", "plan", "launch"} THEN 1 ELSE 0

Numbered ==
    /\ \A e \in Unread : e.slot = RingSlot(e.step) /\ e.step <= step
    /\ \A i, j \in 1 .. Len(steps) : i < j => steps[i].step < steps[j].step
    /\ \A i \in 1 .. Len(mainq) : IsRing(i) => mainq[i].id <= step
    /\ \A n \in Nat : <<"ring", n>> \in fired => n <= step
    /\ routed # None => pc \in {"read", "plan"}

\* A routing that is not read and not copied has its copy on the main stream.
Awaited ==
    \A i \in 1 .. Len(steps) :
        \/ Copied(steps[i])
        \/ \E k \in 1 .. Len(mainq) : IsRing(k) /\ mainq[k].id = steps[i].step

\* Each step ended since left its forward behind the outstanding copy.
Behind ==
    \A i \in 1 .. Len(mainq) :
        IsRing(i) => step + Launched <= mainq[i].id + Cardinality(After(i))

FewAhead == Cardinality(Forwards) + Begun <= Ahead

\* Once the copied routings are read, what is left unread is a few steps old.
Recent ==
    pc \in {"plan", "launch", "end"} =>
        \A i \in 1 .. Len(steps) : step + 1 <= steps[i].step + Ahead

RingInv == Numbered /\ Awaited /\ Behind /\ FewAhead /\ Recent /\ RingSafe

LEMMA RingTypes ==
    ASSUME TypeOK
    PROVE  /\ mainq \in Seq(MainOp) /\ Len(mainq) \in Nat
           /\ \A i \in 1 .. Len(mainq) : mainq[i] \in MainOp /\ mainq[i].id \in Nat
           /\ steps \in Seq(StepRef) /\ Len(steps) \in Nat
           /\ \A i \in 1 .. Len(steps) : steps[i] \in StepRef /\ steps[i].step \in Nat
           /\ \A e \in Unread : e \in StepRef /\ e.step \in Nat
           /\ step \in Nat /\ Ahead \in Nat
PROOF
<1>1. /\ mainq \in Seq(MainOp) /\ steps \in Seq(StepRef)
      /\ routed \in StepRef \cup {None} /\ step \in Nat
  BY DEF TypeOK, MainOp, StepRef
<1>m. \A i \in 1 .. Len(mainq) : mainq[i] \in MainOp
  BY <1>1
<1>s. \A i \in 1 .. Len(steps) : steps[i] \in StepRef
  BY <1>1
<1>2. \A i \in 1 .. Len(mainq) : mainq[i] \in MainOp /\ mainq[i].id \in Nat
  BY <1>m DEF MainOp
<1>3. \A i \in 1 .. Len(steps) : steps[i] \in StepRef /\ steps[i].step \in Nat
  BY <1>s DEF StepRef
<1>4. \A e \in Unread : e \in StepRef /\ e.step \in Nat
  BY <1>1, <1>3 DEF Unread, StepRef
<1> QED BY <1>1, <1>2, <1>3, <1>4, SizesAssumption

\* Counting forwards.
LEMMA AfterFinite ==
    ASSUME TypeOK
    PROVE  /\ IsFiniteSet(Forwards) /\ Cardinality(Forwards) \in Nat
           /\ \A i \in Nat : /\ IsFiniteSet(After(i)) /\ Cardinality(After(i)) \in Nat
                             /\ Cardinality(After(i)) <= Cardinality(Forwards)
PROOF
<1>1. IsFiniteSet(1 .. Len(mainq))
  <2>1. 1 \in Int /\ Len(mainq) \in Int
    BY RingTypes
  <2> QED BY <2>1, FS_Interval
<1>2. IsFiniteSet(Forwards)
  BY <1>1, FS_Subset DEF Forwards
<1>3. \A i \in Nat : After(i) \subseteq Forwards
  BY DEF After
<1>4. \A i \in Nat : IsFiniteSet(After(i)) /\ Cardinality(After(i)) <= Cardinality(Forwards)
  BY <1>2, <1>3, FS_Subset
<1> QED BY <1>2, <1>4, FS_CardinalityType

Countable == \A i \in Nat : Cardinality(After(i)) \in Nat

LEMMA AfterNat == TypeOK => Countable
  BY AfterFinite DEF Countable

LEMMA ShiftDown ==
    ASSUME NEW S \in SUBSET Int, IsFiniteSet(S), NEW T, T = {j - 1 : j \in S}
    PROVE  IsFiniteSet(T) /\ Cardinality(T) = Cardinality(S)
PROOF
<1> DEFINE f == [j \in S |-> j - 1]
<1>1. f \in [S -> T] /\ \A a, b \in S : f[a] = f[b] => a = b
  OBVIOUS
<1>2. \A t \in T : \E j \in S : f[j] = t
  OBVIOUS
<1>3. f \in Bijection(S, T)
  BY <1>1, <1>2 DEF Bijection, Injection, Surjection, IsInjective
<1> QED BY <1>3, FS_Bijection DEF ExistsBijection

\* The head of the main stream is executed: the forwards behind the others stay.
LEMMA PopAfter ==
    ASSUME TypeOK, TypeOK', mainq # <<>>, mainq' = Tail(mainq), NEW i \in 0 .. Len(mainq')
    PROVE  Cardinality(After(i))' = Cardinality(After(i + 1))
PROOF
<1>1. /\ mainq \in Seq(MainOp) /\ Len(mainq) \in Nat
      /\ Len(mainq') = Len(mainq) - 1
      /\ \A k \in 1 .. Len(mainq') : mainq'[k] = mainq[k + 1]
  BY RingTypes, TailShift
<1>2. After(i)' = {j - 1 : j \in After(i + 1)}
  <2>1. ASSUME NEW j \in After(i)'
        PROVE  j + 1 \in After(i + 1) /\ j = (j + 1) - 1
    BY <1>1, <2>1 DEF After, Forwards
  <2>2. ASSUME NEW j \in After(i + 1)
        PROVE  j - 1 \in After(i)'
    BY <1>1, <2>2 DEF After, Forwards
  <2> QED BY <2>1, <2>2
<1>3. After(i + 1) \in SUBSET Int /\ IsFiniteSet(After(i + 1))
  <2>1. i + 1 \in Nat
    BY <1>1
  <2>2. IsFiniteSet(After(i + 1))
    BY <2>1, AfterFinite
  <2>3. After(i + 1) \in SUBSET Int
    BY <1>1 DEF After, Forwards
  <2> QED BY <2>2, <2>3
<1>4. Cardinality(After(i)') = Cardinality(After(i + 1))
  BY <1>2, <1>3, ShiftDown
<1> QED BY <1>4

\* Something is enqueued.
LEMMA PushAfter ==
    ASSUME TypeOK, NEW o \in MainOp, mainq' = Append(mainq, o), NEW i \in 0 .. Len(mainq)
    PROVE  Cardinality(After(i))' =
             Cardinality(After(i)) + (IF o.kind = "forward" THEN 1 ELSE 0)
PROOF
<1>1. /\ mainq \in Seq(MainOp) /\ Len(mainq) \in Nat
      /\ Len(mainq') = Len(mainq) + 1
      /\ \A k \in 1 .. Len(mainq) : mainq'[k] = mainq[k]
      /\ mainq'[Len(mainq) + 1] = o
  BY RingTypes, AppendEnd
<1> DEFINE last == Len(mainq) + 1
<1>2. After(i)' = After(i) \cup (IF o.kind = "forward" THEN {last} ELSE {})
  BY <1>1 DEF After, Forwards
<1>3. IsFiniteSet(After(i)) /\ last \notin After(i) /\ Cardinality(After(i)) \in Nat
  <2>1. i \in Nat
    BY <1>1
  <2>2. IsFiniteSet(After(i)) /\ Cardinality(After(i)) \in Nat
    BY <2>1, AfterFinite
  <2>3. last \notin After(i)
    BY <1>1 DEF After, Forwards
  <2> QED BY <2>2, <2>3
<1> HIDE DEF last
<1>4. Cardinality(After(i)') = Cardinality(After(i)) + (IF o.kind = "forward" THEN 1 ELSE 0)
  <2>1. CASE o.kind = "forward"
    BY <1>2, <1>3, <2>1, FS_AddElement
  <2>2. CASE o.kind # "forward"
    BY <1>2, <1>3, <2>2
  <2> QED BY <2>1, <2>2
<1> QED BY <1>4

LEMMA AllForwards == After(0) = Forwards /\ After(0)' = Forwards'
  BY DEF After, Forwards

\* The main stream gains at most writes and promotions' events.
Quiet ==
    /\ \A i \in 1 .. Len(mainq) : i \in 1 .. Len(mainq') /\ mainq'[i] = mainq[i]
    /\ \A i \in 1 .. Len(mainq') :
          i \in 1 .. Len(mainq) \/ mainq'[i].kind \in {"write", "ready"}

LEMMA QuietFacts ==
    ASSUME TypeOK, TypeOK', Quiet
    PROVE  /\ Forwards' = Forwards
           /\ \A i \in 1 .. Len(mainq) : After(i)' = After(i)
           /\ \A i \in 1 .. Len(mainq') : IsRing(i)' =>
                i \in 1 .. Len(mainq) /\ mainq'[i] = mainq[i] /\ IsRing(i)
PROOF
<1>1. Forwards' = Forwards
  BY DEF Quiet, Forwards
<1>2. \A i \in 1 .. Len(mainq) : After(i)' = After(i)
  BY <1>1 DEF After
<1> QED BY <1>1, <1>2 DEF Quiet, IsRing

\* A routing that can be read next and is not copied is as young as the forwards
\* behind its copy are few; so are all that follow it.
LEMMA ReadIsRecent ==
    ASSUME TypeOK, RingInv, pc = "read", ~NextCopied
    PROVE  \A i \in 1 .. Len(steps) : step + 1 <= steps[i].step + Ahead
PROOF
<1> SUFFICES ASSUME NEW i \in 1 .. Len(steps)
             PROVE  step + 1 <= steps[i].step + Ahead
  OBVIOUS
<1>1. steps # <<>> /\ Head(steps) = steps[1] /\ 1 \in 1 .. Len(steps)
  BY RingTypes
<1>2. ~Copied(steps[1])
  BY <1>1 DEF NextCopied
<1>3. PICK k \in 1 .. Len(mainq) : IsRing(k) /\ mainq[k].id = steps[1].step
  BY <1>1, <1>2 DEF RingInv, Awaited
<1>4. /\ step + Launched <= mainq[k].id + Cardinality(After(k))
      /\ Cardinality(Forwards) + 1 <= Ahead /\ Launched = 0
  BY <1>3 DEF RingInv, Behind, FewAhead, Begun, Launched
<1>5. Cardinality(After(k)) <= Cardinality(Forwards) /\ Cardinality(After(k)) \in Nat
      /\ Cardinality(Forwards) \in Nat
  BY AfterFinite
<1>6. step \in Nat /\ Ahead \in Nat /\ steps[1].step \in Nat /\ steps[i].step \in Nat
  BY <1>1, RingTypes
<1>7. steps[1].step <= steps[i].step
  <2>1. CASE i = 1
    BY <1>6, <2>1
  <2>2. CASE i # 1
    <3>1. 1 < i
      BY <2>2
    <3>2. steps[1].step < steps[i].step
      BY <1>1, <3>1 DEF RingInv, Numbered
    <3> QED BY <1>6, <3>2
  <2> QED BY <2>1, <2>2
<1>8. step <= steps[1].step + Cardinality(After(k))
  BY <1>3, <1>4, <1>6
<1>9. Cardinality(After(k)) + 1 <= Ahead
  BY <1>4, <1>5, <1>6
<1> DEFINE a == Cardinality(After(k))
<1>10. a \in Nat /\ a + 1 <= Ahead /\ step <= steps[1].step + a
  BY <1>5, <1>8, <1>9
<1> HIDE DEF a
<1> QED BY <1>6, <1>7, <1>10

\* Steps that leave the ring, its copies and the forwards alone.
LEMMA Undisturbed ==
    ASSUME TypeOK, TypeOK', RingInv, Quiet,
           step <= step', step' + Launched' <= step + Launched, ring' = ring,
           \A n \in Nat : <<"ring", n>> \in fired' <=> <<"ring", n>> \in fired,
           Unread' \subseteq Unread,
           steps' = steps \/ (steps # <<>> /\ steps' = Tail(steps)),
           routed' # None => pc' \in {"read", "plan"},
           FewAhead', Recent'
    PROVE  RingInv'
PROOF
<1>1. /\ \A i \in 1 .. Len(mainq) : After(i)' = After(i)
      /\ \A i \in 1 .. Len(mainq') : IsRing(i)' =>
           i \in 1 .. Len(mainq) /\ mainq'[i] = mainq[i] /\ IsRing(i)
  BY QuietFacts
<1>2. \A e \in StepRef : Copied(e)' <=> Copied(e)
  BY DEF Copied, StepRef
<1>3. \A i \in 1 .. Len(steps') : \E k \in 1 .. Len(steps) :
         steps'[i] = steps[k] /\ (steps' = steps => k = i) /\ (steps' # steps => k = i + 1)
  BY RingTypes, TailShift
<1>4. Numbered'
  <2>1. \A e \in Unread' : e.slot = RingSlot(e.step) /\ e.step <= step'
    <3> SUFFICES ASSUME NEW e \in Unread'
                 PROVE  e.slot = RingSlot(e.step) /\ e.step <= step'
      OBVIOUS
    <3>1. e \in Unread /\ e.step \in Nat /\ step \in Nat /\ step' \in Nat
      BY RingTypes DEF TypeOK
    <3> QED BY <3>1 DEF RingInv, Numbered
  <2>2. ASSUME NEW i \in 1 .. Len(steps'), NEW j \in 1 .. Len(steps'), i < j
        PROVE  steps'[i].step < steps'[j].step
    <3>1. PICK k \in 1 .. Len(steps) :
             steps'[i] = steps[k] /\ (steps' = steps => k = i) /\ (steps' # steps => k = i + 1)
      BY <1>3
    <3>2. PICK l \in 1 .. Len(steps) :
             steps'[j] = steps[l] /\ (steps' = steps => l = j) /\ (steps' # steps => l = j + 1)
      BY <1>3
    <3>3. k < l
      BY <2>2, <3>1, <3>2
    <3> QED BY <3>1, <3>2, <3>3 DEF RingInv, Numbered
  <2>3. ASSUME NEW i \in 1 .. Len(mainq'), IsRing(i)'
        PROVE  mainq'[i].id <= step'
    <3>1. i \in 1 .. Len(mainq) /\ mainq'[i] = mainq[i] /\ IsRing(i)
      BY <1>1, <2>3
    <3>2. mainq[i].id <= step /\ mainq[i].id \in Nat
      BY <3>1, RingTypes DEF RingInv, Numbered
    <3>3. step \in Nat /\ step' \in Nat
      BY DEF TypeOK
    <3> QED BY <3>1, <3>2, <3>3
  <2>4. ASSUME NEW n \in Nat, <<"ring", n>> \in fired'
        PROVE  n <= step'
    BY <2>4, RingTypes DEF RingInv, Numbered, TypeOK
  <2> QED BY <2>1, <2>2, <2>3, <2>4 DEF Numbered
<1>5. Awaited'
  <2> SUFFICES ASSUME NEW i \in 1 .. Len(steps'), ~Copied(steps[i])'
               PROVE  \E k \in 1 .. Len(mainq') : IsRing(k)' /\ mainq'[k].id = steps'[i].step
    BY DEF Awaited
  <2>1. PICK l \in 1 .. Len(steps) : steps'[i] = steps[l]
    BY <1>3
  <2>2. ~Copied(steps[l])
    <3>1. steps[l] \in StepRef
      BY RingTypes
    <3> QED BY <1>2, <2>1, <3>1 DEF Copied
  <2>3. PICK k \in 1 .. Len(mainq) : IsRing(k) /\ mainq[k].id = steps[l].step
    BY <2>2 DEF RingInv, Awaited
  <2> QED BY <2>1, <2>3 DEF Quiet, IsRing
<1>6. Behind'
  <2> SUFFICES ASSUME NEW i \in 1 .. Len(mainq'), IsRing(i)'
               PROVE  step' + Launched' <= mainq'[i].id + Cardinality(After(i)')
    BY DEF Behind
  <2>1. i \in 1 .. Len(mainq) /\ mainq'[i] = mainq[i] /\ IsRing(i) /\ After(i)' = After(i)
    BY <1>1
  <2>2. step + Launched <= mainq[i].id + Cardinality(After(i))
    BY <2>1 DEF RingInv, Behind
  <2>3. Cardinality(After(i)) \in Nat /\ mainq[i].id \in Nat
    <3>1. i \in Nat
      BY <2>1
    <3> QED BY <2>1, <3>1, AfterFinite, RingTypes
  <2>4. {step, step', Launched, Launched'} \subseteq Nat
    BY RingTypes DEF Launched, TypeOK
  <2>5. step' + Launched' <= step + Launched
    BY <2>4
  <2> DEFINE a == Cardinality(After(i))
  <2>6. /\ a \in Nat /\ step + Launched <= mainq[i].id + a
        /\ Cardinality(After(i)') = a /\ mainq'[i].id = mainq[i].id
    BY <2>1, <2>2, <2>3
  <2> HIDE DEF a
  <2> QED BY <2>3, <2>4, <2>5, <2>6
<1>7. RingSafe'
  <2> SUFFICES ASSUME NEW e \in Unread'
               PROVE  /\ \A i \in 1 .. Len(mainq') :
                            IsRing(i)' /\ RingSlot(mainq'[i].id) = e.slot => mainq'[i].id = e.step
                      /\ Copied(e)' => ring'[e.slot].step = e.step
    BY DEF RingSafe, IsRing, RingSlot
  <2>1. e \in Unread /\ e \in StepRef
    BY RingTypes
  <2> QED BY <1>1, <1>2, <2>1 DEF RingInv, RingSafe, IsRing
<1> QED BY <1>4, <1>5, <1>6, <1>7 DEF RingInv

\* Steps less than Ring apart have slots of their own.
LEMMA SlotsApart ==
    ASSUME NEW a \in Nat, NEW b \in Nat, a < b, b < a + Ring
    PROVE  RingSlot(a) # RingSlot(b)
PROOF
<1> SUFFICES ASSUME RingSlot(a) = RingSlot(b) PROVE FALSE
  OBVIOUS
<1>1. Ring \in Nat /\ Ring > 0
  BY SizesAssumption
<1>2. a = Ring * (a \div Ring) + (a % Ring) /\ a \div Ring \in Int /\ a % Ring \in Int
  BY <1>1
<1>3. b = Ring * (b \div Ring) + (b % Ring) /\ b \div Ring \in Int /\ b % Ring \in Int
  BY <1>1
<1> DEFINE d == (b \div Ring) - (a \div Ring)
<1>4. d \in Int /\ b - a = Ring * d
  BY <1>1, <1>2, <1>3 DEF RingSlot
<1> HIDE DEF d
<1>5. CASE d <= 0
  <2>1. Ring * d <= 0
    BY <1>1, <1>4, <1>5
  <2> QED BY <1>4, <2>1
<1>6. CASE d >= 1
  <2>1. Ring * d >= Ring
    BY <1>1, <1>4, <1>6
  <2> QED BY <1>1, <1>4, <2>1
<1> QED BY <1>4, <1>5, <1>6

\* The main stream executes its head, which may be a routing copy.
RingCopied ==
    /\ IsRing(1)
    /\ ring' = [ring EXCEPT ![RingSlot(mainq[1].id)] = [step |-> mainq[1].id, counts |-> route]]
    /\ fired' = fired \cup {<<"ring", mainq[1].id>>}

NoneCopied ==
    /\ ~IsRing(1)
    /\ ring' = ring
    /\ \A n \in Nat : <<"ring", n>> \in fired' <=> <<"ring", n>> \in fired

LEMMA PopRing ==
    ASSUME TypeOK, TypeOK', RingInv, mainq # <<>>, mainq' = Tail(mainq),
           UNCHANGED <<step, steps, routed, pc>>, RingCopied \/ NoneCopied
    PROVE  RingInv'
PROOF
<1>1. /\ Len(mainq) \in Nat /\ Len(mainq') = Len(mainq) - 1
      /\ \A i \in 1 .. Len(mainq') : mainq'[i] = mainq[i + 1] /\ i + 1 \in 1 .. Len(mainq)
      /\ 1 \in 1 .. Len(mainq) /\ mainq[1].id \in Nat
  BY RingTypes, TailShift
<1>2. \A i \in 1 .. Len(mainq') : IsRing(i)' <=> IsRing(i + 1)
  BY <1>1 DEF IsRing
<1>3. Unread' = Unread /\ Launched' = Launched /\ Begun' = Begun
  BY DEF Unread, Launched, Begun
<1>4. \A n \in Nat : <<"ring", n>> \in fired' <=>
                       <<"ring", n>> \in fired \/ (IsRing(1) /\ n = mainq[1].id)
  <2>1. CASE RingCopied
    BY <2>1 DEF RingCopied
  <2>2. CASE NoneCopied
    BY <2>2 DEF NoneCopied
  <2> QED BY <2>1, <2>2
<1>5. Numbered'
  <2>1. \A n \in Nat : <<"ring", n>> \in fired' => n <= step
    BY <1>1, <1>4 DEF RingInv, Numbered
  <2> QED BY <1>1, <1>2, <1>3, <2>1 DEF RingInv, Numbered
<1>6. Awaited'
  <2> SUFFICES ASSUME NEW i \in 1 .. Len(steps), <<"ring", steps[i].step>> \notin fired'
               PROVE  \E k \in 1 .. Len(mainq') : IsRing(k)' /\ mainq'[k].id = steps[i].step
    BY DEF Awaited, Copied
  <2>1. steps[i].step \in Nat
    BY RingTypes
  <2>2. ~Copied(steps[i])
    BY <1>4, <2>1 DEF Copied
  <2>3. PICK k \in 1 .. Len(mainq) : IsRing(k) /\ mainq[k].id = steps[i].step
    BY <2>2 DEF RingInv, Awaited
  <2>4. k # 1
    BY <1>4, <2>1, <2>3
  <2>5. k - 1 \in 1 .. Len(mainq') /\ (k - 1) + 1 = k
    BY <1>1, <2>4
  <2>6. IsRing(k - 1)' /\ mainq'[k - 1] = mainq[k]
    BY <1>1, <1>2, <2>3, <2>5
  <2> QED BY <2>3, <2>5, <2>6
<1>7. Behind'
  <2> SUFFICES ASSUME NEW i \in 1 .. Len(mainq'), IsRing(i)'
               PROVE  step + Launched <= mainq'[i].id + Cardinality(After(i))'
    BY <1>3 DEF Behind
  <2>1. Cardinality(After(i))' = Cardinality(After(i + 1))
    BY PopAfter
  <2>2. IsRing(i + 1) /\ i + 1 \in 1 .. Len(mainq) /\ mainq'[i] = mainq[i + 1]
    BY <1>1, <1>2
  <2> QED BY <2>1, <2>2 DEF RingInv, Behind
<1>8. FewAhead'
  <2>1. Cardinality(After(0))' = Cardinality(After(1))
    BY <1>1, PopAfter
  <2>2. After(0)' = Forwards'
    BY AllForwards
  <2>3. /\ Cardinality(After(1)) <= Cardinality(Forwards)
        /\ Cardinality(After(1)) \in Nat /\ Cardinality(Forwards) \in Nat
    BY AfterFinite
  <2>4. Cardinality(Forwards)' <= Cardinality(Forwards) /\ Cardinality(Forwards)' \in Nat
    BY <2>1, <2>2, <2>3
  <2>5. Begun \in Nat /\ Ahead \in Nat
    BY RingTypes DEF Begun
  <2> QED BY <1>3, <2>3, <2>4, <2>5 DEF RingInv, FewAhead
<1>9. Recent'
  BY DEF RingInv, Recent
<1>10. RingSafe'
  <2> SUFFICES ASSUME NEW e \in Unread
               PROVE  /\ \A i \in 1 .. Len(mainq') :
                            IsRing(i)' /\ RingSlot(mainq'[i].id) = e.slot => mainq'[i].id = e.step
                      /\ <<"ring", e.step>> \in fired' => ring'[e.slot].step = e.step
    BY <1>3 DEF RingSafe, IsRing, RingSlot, Copied
  <2>1. /\ e \in StepRef /\ e.step \in Nat /\ e.slot = RingSlot(e.step)
        /\ e.slot \in 0 .. Ring - 1
    BY RingTypes DEF RingInv, Numbered, StepRef
  <2>2. \A i \in 1 .. Len(mainq) :
           IsRing(i) /\ RingSlot(mainq[i].id) = e.slot => mainq[i].id = e.step
    BY DEF RingInv, RingSafe, IsRing
  <2>3. <<"ring", e.step>> \in fired => ring[e.slot].step = e.step
    BY DEF RingInv, RingSafe, Copied
  <2>4. ASSUME <<"ring", e.step>> \in fired'
        PROVE  ring'[e.slot].step = e.step
    <3>1. CASE RingCopied
      <4>1. DOMAIN ring = 0 .. Ring - 1
        BY DEF TypeOK
      <4>2. CASE RingSlot(mainq[1].id) = e.slot
        BY <1>1, <2>1, <2>2, <3>1, <4>1, <4>2 DEF RingCopied
      <4>3. CASE RingSlot(mainq[1].id) # e.slot
        <5>1. mainq[1].id # e.step
          BY <2>1, <4>3
        <5>2. <<"ring", e.step>> \in fired
          BY <1>4, <2>1, <2>4, <5>1
        <5> QED BY <2>3, <3>1, <4>1, <4>3, <5>2 DEF RingCopied
      <4> QED BY <4>2, <4>3
    <3>2. CASE NoneCopied
      BY <2>1, <2>3, <2>4, <3>2 DEF NoneCopied
    <3> QED BY <3>1, <3>2
  <2> QED BY <1>1, <1>2, <2>2, <2>4
<1> QED BY <1>5, <1>6, <1>7, <1>8, <1>9, <1>10 DEF RingInv

LEMMA LaunchRing ==
    ASSUME TypeOK, TypeOK', RingInv, Launch
    PROVE  RingInv'
PROOF
<1> DEFINE o == Op("forward", {}, 0)
<1>1. /\ pc = "launch" /\ pc' = "end" /\ mainq' = Append(mainq, o)
      /\ UNCHANGED <<step, steps, routed, ring, fired>>
  BY DEF Launch, ringVars, devVars
<1>2. o \in MainOp /\ o.kind = "forward"
  BY DEF Op, MainOp
<1>3. /\ Len(mainq) \in Nat /\ Len(mainq') = Len(mainq) + 1
      /\ \A i \in 1 .. Len(mainq) : mainq'[i] = mainq[i] /\ i \in 1 .. Len(mainq')
      /\ mainq'[Len(mainq) + 1] = o
  BY <1>1, <1>2, RingTypes, AppendEnd
<1> HIDE DEF o
<1>4. \A i \in 0 .. Len(mainq) : Cardinality(After(i))' = Cardinality(After(i)) + 1
  BY <1>1, <1>2, PushAfter
<1>5. \A i \in 1 .. Len(mainq') : IsRing(i)' => i \in 1 .. Len(mainq) /\ IsRing(i)
  BY <1>2, <1>3 DEF IsRing
<1>6. Unread' = Unread /\ Launched = 0 /\ Launched' = 1 /\ Begun = 1 /\ Begun' = 0
  BY <1>1 DEF Unread, Launched, Begun
<1>7. Numbered'
  <2>1. routed' = None
    BY <1>1 DEF RingInv, Numbered
  <2> QED BY <1>1, <1>3, <1>5, <1>6, <2>1 DEF RingInv, Numbered
<1>8. Awaited'
  BY <1>1, <1>3 DEF RingInv, Awaited, IsRing, Copied
<1>9. Behind'
  <2> SUFFICES ASSUME NEW i \in 1 .. Len(mainq'), IsRing(i)'
               PROVE  step + 1 <= mainq'[i].id + Cardinality(After(i))'
    BY <1>1, <1>6 DEF Behind
  <2>1. i \in 1 .. Len(mainq) /\ IsRing(i) /\ mainq'[i] = mainq[i]
    BY <1>3, <1>5
  <2>2. step + 0 <= mainq[i].id + Cardinality(After(i))
    BY <1>6, <2>1 DEF RingInv, Behind
  <2>3. /\ step \in Nat /\ mainq[i].id \in Nat /\ Cardinality(After(i)) \in Nat
    <3>1. i \in Nat
      BY <2>1
    <3> QED BY <2>1, <3>1, RingTypes, AfterFinite
  <2>4. Cardinality(After(i))' = Cardinality(After(i)) + 1
    BY <1>4, <2>1
  <2> QED BY <2>1, <2>2, <2>3, <2>4
<1>10. FewAhead'
  <2>1. After(0) = Forwards /\ Cardinality(Forwards) \in Nat
    BY AllForwards, AfterFinite
  <2>2. After(0)' = Forwards'
    BY AllForwards
  <2>3. Cardinality(Forwards)' = Cardinality(Forwards) + 1
    BY <1>3, <1>4, <2>1, <2>2
  <2>4. Cardinality(Forwards) + 1 <= Ahead /\ Ahead \in Nat
    BY <1>6, RingTypes DEF RingInv, FewAhead
  <2>5. Cardinality(Forwards)' + Begun' <= Ahead
    BY <1>6, <2>1, <2>3, <2>4
  <2> QED BY <2>5 DEF FewAhead
<1>11. Recent'
  BY <1>1 DEF RingInv, Recent
<1>12. RingSafe'
  <2>1. \A i \in 1 .. Len(mainq') : IsRing(i)' =>
           i \in 1 .. Len(mainq) /\ IsRing(i) /\ mainq'[i].id = mainq[i].id
    BY <1>3, <1>5
  <2> SUFFICES ASSUME NEW e \in Unread
               PROVE  /\ \A i \in 1 .. Len(mainq') :
                            IsRing(i)' /\ RingSlot(mainq'[i].id) = e.slot => mainq'[i].id = e.step
                      /\ Copied(e)' => ring'[e.slot].step = e.step
    BY <1>6 DEF RingSafe, IsRing
  <2>2. Copied(e)' => ring'[e.slot].step = e.step
    BY <1>1 DEF RingInv, RingSafe, Copied
  <2> QED BY <2>1, <2>2 DEF RingInv, RingSafe, IsRing
<1> QED BY <1>7, <1>8, <1>9, <1>10, <1>11, <1>12 DEF RingInv

LEMMA DecodesRing ==
    ASSUME Ahead < Ring, TypeOK, TypeOK', RingInv, StepEndDecodes
    PROVE  RingInv'
PROOF
<1> DEFINE o == Op("ring", {}, step')
           e == [slot |-> RingSlot(step'), step |-> step']
           kept == IF Len(steps) >= Ring - 1 THEN Tail(steps) ELSE steps
<1>1. /\ pc = "end" /\ pc' = "idle" /\ step' = step + 1
      /\ mainq' = Append(mainq, o) /\ steps' = Append(kept, e)
      /\ UNCHANGED <<routed, ring, fired>>
  BY DEF StepEndDecodes, localVars, devVars
<1>2. step \in Nat /\ step' \in Nat /\ Ahead \in Nat /\ Ring \in Nat
  BY <1>1, RingTypes, SizesAssumption
<1>3. o \in MainOp /\ o.kind = "ring" /\ o.id = step' /\ e \in StepRef
  BY <1>2, RingSlotType DEF Op, MainOp, StepRef
<1>4. /\ Len(mainq) \in Nat /\ Len(mainq') = Len(mainq) + 1
      /\ \A i \in 1 .. Len(mainq) : mainq'[i] = mainq[i] /\ i \in 1 .. Len(mainq')
      /\ mainq'[Len(mainq) + 1] = o
  BY <1>1, <1>3, RingTypes, AppendEnd
<1> HIDE DEF o
<1>5. \A i \in 0 .. Len(mainq) : Cardinality(After(i))' = Cardinality(After(i))
  <2> SUFFICES ASSUME NEW i \in 0 .. Len(mainq)
               PROVE  Cardinality(After(i))' = Cardinality(After(i))
    OBVIOUS
  <2>1. Cardinality(After(i))' = Cardinality(After(i)) + (IF o.kind = "forward" THEN 1 ELSE 0)
    BY <1>1, <1>3, PushAfter
  <2>2. Cardinality(After(i)) \in Nat
    BY AfterFinite
  <2> QED BY <1>3, <2>1, <2>2
\* What is left of the list: the same routings, perhaps without the oldest.
<1>6. /\ kept \in Seq(StepRef) /\ Len(kept) \in Nat
      /\ \A i \in 1 .. Len(kept) : \E k \in 1 .. Len(steps) :
            kept[i] = steps[k] /\ (kept = steps => k = i) /\ (kept # steps => k = i + 1)
  <2>1. CASE Len(steps) >= Ring - 1
    <3>1. steps # <<>> /\ kept = Tail(steps)
      BY <2>1, RingTypes, SizesAssumption
    <3>2. kept # steps
      BY <3>1, RingTypes, TailShift
    <3> QED BY <3>1, <3>2, RingTypes, TailShift
  <2>2. CASE ~(Len(steps) >= Ring - 1)
    BY <2>2, RingTypes
  <2> QED BY <2>1, <2>2
<1>7. /\ Len(steps') = Len(kept) + 1
      /\ \A i \in 1 .. Len(kept) : steps'[i] = kept[i]
      /\ steps'[Len(kept) + 1] = e
  <2>1. steps' = Append(kept, e) /\ kept \in Seq(StepRef) /\ e \in StepRef
    BY <1>1, <1>3, <1>6
  <2> HIDE DEF kept, e
  <2> QED BY <2>1, AppendEnd
<1> HIDE DEF kept
<1>8. routed = None
  BY <1>1 DEF RingInv, Numbered
<1>9. \A u \in Unread' : u = e \/ \E k \in 1 .. Len(steps) : u = steps[k]
  BY <1>1, <1>6, <1>7, <1>8 DEF Unread
\* The routings unread are less than Ring steps old, and so are the copies due.
<1>10. ASSUME NEW k \in 1 .. Len(steps)
       PROVE  /\ steps[k].step < step' /\ steps[k] \in Unread
              /\ steps[k].slot = RingSlot(steps[k].step) /\ steps[k].slot # RingSlot(step')
  <2>1. steps[k] \in Unread /\ steps[k].step \in Nat
    BY RingTypes DEF Unread
  <2>2. steps[k].step <= step /\ steps[k].slot = RingSlot(steps[k].step)
        /\ step + 1 <= steps[k].step + Ahead
    BY <1>1, <2>1 DEF RingInv, Numbered, Recent
  <2>3. steps[k].step < step' /\ step' < steps[k].step + Ring
    BY <1>1, <1>2, <2>1, <2>2
  <2> QED BY <1>2, <2>1, <2>2, <2>3, SlotsApart
<1>11. ASSUME NEW i \in 1 .. Len(mainq), IsRing(i)
       PROVE  mainq[i].id <= step /\ RingSlot(mainq[i].id) # RingSlot(step')
  <2>1. /\ mainq[i].id \in Nat /\ Cardinality(After(i)) \in Nat
        /\ Cardinality(Forwards) \in Nat /\ Cardinality(After(i)) <= Cardinality(Forwards)
    <3>1. i \in Nat
      OBVIOUS
    <3> QED BY <3>1, RingTypes, AfterFinite
  <2>2. mainq[i].id <= step /\ step + 1 <= mainq[i].id + Cardinality(After(i))
    BY <1>1, <1>11 DEF RingInv, Numbered, Behind, Launched
  <2>3. Cardinality(Forwards) <= Ahead
    BY <1>1, <1>2, <2>1 DEF RingInv, FewAhead, Begun
  <2>4. mainq[i].id < step' /\ step' < mainq[i].id + Ring
    BY <1>1, <1>2, <2>1, <2>2, <2>3
  <2> QED BY <1>2, <2>1, <2>2, <2>4, SlotsApart
<1>12. \A i \in 1 .. Len(mainq') : IsRing(i)' =>
          \/ i \in 1 .. Len(mainq) /\ IsRing(i) /\ mainq'[i] = mainq[i]
          \/ i = Len(mainq) + 1 /\ mainq'[i] = o
  BY <1>4 DEF IsRing
<1>13. Numbered'
  <2>1. \A u \in Unread' : u.slot = RingSlot(u.step) /\ u.step <= step'
    BY <1>2, <1>9, <1>10, RingTypes
  <2>2. ASSUME NEW i \in 1 .. Len(steps'), NEW j \in 1 .. Len(steps'), i < j
        PROVE  steps'[i].step < steps'[j].step
    <3>1. i \in 1 .. Len(kept)
      BY <1>6, <1>7, <2>2
    <3>2. PICK k \in 1 .. Len(steps) :
             kept[i] = steps[k] /\ (kept = steps => k = i) /\ (kept # steps => k = i + 1)
      BY <1>6, <3>1
    <3>3. CASE j = Len(kept) + 1
      BY <1>7, <1>10, <3>1, <3>2, <3>3
    <3>4. CASE j \in 1 .. Len(kept)
      <4>1. PICK l \in 1 .. Len(steps) :
               kept[j] = steps[l] /\ (kept = steps => l = j) /\ (kept # steps => l = j + 1)
        BY <1>6, <3>4
      <4>2. k < l
        BY <2>2, <3>2, <4>1
      <4> QED BY <1>7, <3>1, <3>2, <3>4, <4>1, <4>2 DEF RingInv, Numbered
    <3> QED BY <1>6, <1>7, <3>3, <3>4
  <2>3. \A i \in 1 .. Len(mainq') : IsRing(i)' => mainq'[i].id <= step'
    <3> SUFFICES ASSUME NEW i \in 1 .. Len(mainq'), IsRing(i)'
                 PROVE  mainq'[i].id <= step'
      OBVIOUS
    <3>1. CASE i \in 1 .. Len(mainq) /\ IsRing(i) /\ mainq'[i] = mainq[i]
      BY <1>1, <1>2, <1>11, <3>1, RingTypes
    <3>2. CASE mainq'[i] = o
      BY <1>2, <1>3, <3>2
    <3> QED BY <1>12, <3>1, <3>2
  <2>4. ASSUME NEW n \in Nat, <<"ring", n>> \in fired'
        PROVE  n <= step'
    <3>1. n <= step
      BY <1>1, <2>4 DEF RingInv, Numbered
    <3> QED BY <1>1, <1>2, <3>1
  <2> QED BY <1>1, <1>8, <2>1, <2>2, <2>3, <2>4 DEF Numbered
<1>14. Awaited'
  <2> SUFFICES ASSUME NEW i \in 1 .. Len(steps'), <<"ring", steps'[i].step>> \notin fired
               PROVE  \E k \in 1 .. Len(mainq') : IsRing(k)' /\ mainq'[k].id = steps'[i].step
    BY <1>1 DEF Awaited, Copied
  <2>1. CASE i = Len(kept) + 1
    <3>1. steps'[i].step = step'
      BY <1>7, <2>1
    <3>2. PICK k \in 1 .. Len(mainq') : k = Len(mainq) + 1
      BY <1>4
    <3>3. IsRing(k)' /\ mainq'[k].id = step'
      BY <1>3, <1>4, <3>2 DEF IsRing
    <3> QED BY <3>1, <3>3
  <2>2. CASE i \in 1 .. Len(kept)
    <3>1. PICK k \in 1 .. Len(steps) : steps'[i] = steps[k]
      BY <1>6, <1>7, <2>2
    <3>2. PICK l \in 1 .. Len(mainq) : IsRing(l) /\ mainq[l].id = steps[k].step
      BY <3>1 DEF RingInv, Awaited, Copied
    <3> QED BY <1>4, <3>1, <3>2 DEF IsRing
  <2> QED BY <1>6, <1>7, <2>1, <2>2
<1>15. Behind'
  <2> SUFFICES ASSUME NEW i \in 1 .. Len(mainq'), IsRing(i)'
               PROVE  step' <= mainq'[i].id + Cardinality(After(i))'
    BY <1>1, <1>2 DEF Behind, Launched
  <2>1. CASE i \in 1 .. Len(mainq) /\ IsRing(i) /\ mainq'[i] = mainq[i]
    <3>1. step + 1 <= mainq[i].id + Cardinality(After(i))
      BY <1>1, <2>1 DEF RingInv, Behind, Launched
    <3> QED BY <1>1, <1>5, <2>1, <3>1
  <2>2. CASE i = Len(mainq) + 1 /\ mainq'[i] = o
    <3>1. Cardinality(After(i))' \in Nat
      <4>1. Countable'
        BY AfterNat, PTL
      <4>2. i \in Nat
        OBVIOUS
      <4> QED BY <4>1, <4>2 DEF Countable
    <3> QED BY <1>2, <1>3, <2>2, <3>1
  <2> QED BY <1>12, <2>1, <2>2
<1>16. FewAhead'
  <2>1. Cardinality(Forwards)' = Cardinality(Forwards)
    BY <1>4, <1>5, AllForwards
  <2> QED BY <1>1, <2>1 DEF RingInv, FewAhead, Begun
<1>17. Recent'
  BY <1>1 DEF Recent
<1>18. RingSafe'
  <2> SUFFICES ASSUME NEW u \in Unread'
               PROVE  /\ \A i \in 1 .. Len(mainq') :
                            IsRing(i)' /\ RingSlot(mainq'[i].id) = u.slot => mainq'[i].id = u.step
                      /\ <<"ring", u.step>> \in fired => ring[u.slot].step = u.step
    BY <1>1 DEF RingSafe, IsRing, RingSlot, Copied
  <2>1. CASE u = e
    <3>1. <<"ring", step'>> \notin fired
      BY <1>1, <1>2 DEF RingInv, Numbered
    <3> QED BY <1>3, <1>11, <1>12, <2>1, <3>1
  <2>2. CASE \E k \in 1 .. Len(steps) : u = steps[k]
    <3>1. u \in Unread /\ u.slot # RingSlot(step')
      BY <1>10, <2>2
    <3> QED BY <1>3, <1>12, <3>1 DEF RingInv, RingSafe, IsRing, Copied
  <2> QED BY <1>9, <2>1, <2>2
<1> QED BY <1>13, <1>14, <1>15, <1>16, <1>17, <1>18 DEF RingInv

LEMMA RingInit == Init => RingInv
PROOF
<1> SUFFICES ASSUME Init PROVE RingInv
  OBVIOUS
<1>1. /\ mainq = <<>> /\ steps = <<>> /\ routed = None /\ fired = {} /\ pc = "idle"
  BY DEF Init
<1>2. Forwards = {} /\ Unread = {}
  BY <1>1 DEF Forwards, Unread
<1>3. FewAhead
  BY <1>1, <1>2, FS_EmptySet, SizesAssumption DEF FewAhead, Begun
<1> QED BY <1>1, <1>2, <1>3 DEF RingInv, Numbered, Awaited, Behind, Recent, RingSafe

LEMMA RingNext ==
    ASSUME Ahead < Ring
    PROVE  TypeOK /\ TypeOK' /\ RingInv /\ [Next]_vars => RingInv'
PROOF
<1> SUFFICES ASSUME TypeOK, TypeOK', RingInv, [Next]_vars PROVE RingInv'
  OBVIOUS
<1>n. step \in Nat /\ step' \in Nat /\ Ahead \in Nat /\ Cardinality(Forwards) \in Nat
  BY RingTypes, AfterFinite DEF TypeOK
<1>i. pc \notin {"read", "plan"} => routed = None
  BY DEF RingInv, Numbered
\* The controller enqueues nothing.
<1>u. ASSUME mainq' = mainq PROVE Quiet /\ Forwards' = Forwards
  BY <1>u DEF Quiet, Forwards
<1>1. CASE StepBegin
  <2>1. /\ mainq' = mainq /\ pc = "idle" /\ pc' = "flip" /\ Cardinality(Forwards) < Ahead
        /\ UNCHANGED <<step, steps, routed, ring, fired>>
    BY <1>1 DEF StepBegin, ringVars, devVars
  <2>2. FewAhead' /\ Recent'
    BY <1>n, <1>u, <2>1 DEF FewAhead, Begun, Recent
  <2> QED BY <1>n, <1>i, <1>u, <2>1, <2>2, Undisturbed DEF Unread, Launched
<1>2. CASE Flip
  <2>1. /\ mainq' = mainq /\ pc = "flip" /\ pc' = "flip"
        /\ UNCHANGED <<step, steps, routed, ring, fired>>
    BY <1>2 DEF Flip, ringVars, devVars
  <2>2. FewAhead' /\ Recent'
    BY <1>u, <2>1 DEF RingInv, FewAhead, Begun, Recent
  <2> QED BY <1>n, <1>i, <1>u, <2>1, <2>2, Undisturbed DEF Unread, Launched
<1>w. ASSUME NEW upd \in SUBSET (Hosted \X Addr), NEW q, q = Write(mainq, upd)
      PROVE  /\ q \in Seq(MainOp)
             /\ \A i \in 1 .. Len(mainq) : i \in 1 .. Len(q) /\ q[i] = mainq[i]
             /\ \A i \in 1 .. Len(q) : i \in 1 .. Len(mainq) \/ q[i].kind = "write"
  <2>1. Op("write", upd, 0) \in MainOp /\ Op("write", upd, 0).kind = "write"
    BY DEF Op, MainOp
  <2> DEFINE o == Op("write", upd, 0)
  <2> HIDE DEF o
  <2>2. CASE upd = {}
    BY <1>w, <2>2, RingTypes DEF Write
  <2>3. CASE upd # {}
    BY <1>w, <2>1, <2>3, RingTypes, AppendEnd DEF Write, o
  <2> QED BY <2>2, <2>3
<1>3. CASE FlipDone
  <2>1. /\ mainq' = Write(mainq, flips) /\ pc = "flip" /\ pc' = "read" /\ routed' = None
        /\ UNCHANGED <<step, steps, ring, fired>>
    BY <1>3 DEF FlipDone, ringVars, devVars
  <2>2. flips \in SUBSET (Hosted \X Addr)
    BY DEF TypeOK
  <2>3. Quiet
    BY <1>w, <2>1, <2>2 DEF Quiet
  <2>4. FewAhead' /\ Recent'
    BY <2>1, <2>3, QuietFacts DEF RingInv, FewAhead, Begun, Recent
  <2> QED BY <1>n, <2>1, <2>3, <2>4, Undisturbed DEF Unread, Launched
<1>4. CASE ReadRouting
  <2>1. /\ mainq' = mainq /\ pc = "read" /\ pc' = "read" /\ steps # <<>>
        /\ steps' = Tail(steps) /\ routed' = Head(steps)
        /\ UNCHANGED <<step, ring, fired>>
    BY <1>4 DEF ReadRouting, NextCopied, devVars
  <2>2. FewAhead' /\ Recent'
    BY <1>u, <2>1 DEF RingInv, FewAhead, Begun, Recent
  <2>3. Unread' \subseteq Unread
    BY <2>1, RingTypes, TailShift DEF Unread
  <2> QED BY <1>n, <1>u, <2>1, <2>2, <2>3, Undisturbed DEF Launched
<1>5. CASE ReadNothing \/ PlanBegin
  <2>1. /\ mainq' = mainq /\ pc = "read" /\ ~NextCopied
        /\ UNCHANGED <<step, steps, ring, fired, routed>>
        /\ pc' = "plan" \/ (pc' = "launch" /\ routed' = None)
    BY <1>5 DEF ReadNothing, PlanBegin, ringVars, devVars
  <2>2. FewAhead' /\ Recent'
    BY <1>u, <2>1, ReadIsRecent DEF RingInv, FewAhead, Begun, Recent
  <2> QED BY <1>n, <1>u, <2>1, <2>2, Undisturbed DEF Unread, Launched
<1>6. CASE \E x \in todo : Skip(x) \/ \E p \in Place : Take(x, p)
  <2>1. /\ mainq' = mainq /\ pc = "plan" /\ pc' = "plan"
        /\ UNCHANGED <<step, steps, ring, fired, routed>>
    BY <1>6 DEF Skip, Take, ringVars, devVars
  <2>2. FewAhead' /\ Recent'
    BY <1>u, <2>1 DEF RingInv, FewAhead, Begun, Recent
  <2> QED BY <1>n, <1>u, <2>1, <2>2, Undisturbed DEF Unread, Launched
<1>7. CASE Promote
  <2>1. /\ mainq' = Append(Write(mainq, updates), Op("ready", {}, promotions'))
        /\ pc = "plan" /\ pc' = "launch" /\ routed' = None
        /\ UNCHANGED <<step, steps, ring, fired>> /\ promotions' \in Nat
    BY <1>7 DEF Promote, PlanReturns, ringVars, devVars, TypeOK
  <2>2. updates \in SUBSET (Hosted \X Addr)
    BY DEF TypeOK
  <2>3. Op("ready", {}, promotions') \in MainOp /\ Op("ready", {}, promotions').kind = "ready"
    BY <2>1 DEF Op, MainOp
  <2> DEFINE q == Write(mainq, updates)
             o == Op("ready", {}, promotions')
  <2>4. /\ q \in Seq(MainOp)
        /\ \A i \in 1 .. Len(mainq) : i \in 1 .. Len(q) /\ q[i] = mainq[i]
        /\ \A i \in 1 .. Len(q) : i \in 1 .. Len(mainq) \/ q[i].kind = "write"
    BY <1>w, <2>2
  <2>5. mainq' = Append(q, o) /\ o \in MainOp /\ o.kind = "ready"
    BY <2>1, <2>3
  <2> HIDE DEF q, o
  <2>6. /\ Len(q) \in Nat /\ Len(mainq') = Len(q) + 1 /\ mainq'[Len(q) + 1] = o
        /\ \A i \in 1 .. Len(q) : mainq'[i] = q[i]
    BY <2>4, <2>5, AppendEnd
  <2>7. Quiet
    BY <2>4, <2>5, <2>6 DEF Quiet
  <2>8. FewAhead' /\ Recent'
    BY <2>1, <2>7, QuietFacts DEF RingInv, FewAhead, Begun, Recent
  <2> QED BY <1>n, <2>1, <2>7, <2>8, Undisturbed DEF Unread, Launched
<1>8. CASE PlanNothing
  <2>1. /\ mainq' = mainq /\ pc = "plan" /\ pc' = "launch" /\ routed' = None
        /\ UNCHANGED <<step, steps, ring, fired>>
    BY <1>8 DEF PlanNothing, PlanReturns, ringVars, devVars
  <2>2. FewAhead' /\ Recent'
    BY <1>u, <2>1 DEF RingInv, FewAhead, Begun, Recent
  <2> QED BY <1>n, <1>u, <2>1, <2>2, Undisturbed DEF Unread, Launched
<1>9. CASE Launch
  BY <1>9, LaunchRing
<1>10. CASE StepEndDecodes
  BY <1>10, DecodesRing
<1>11. CASE StepEndPrefill
  <2>1. /\ mainq' = mainq /\ pc = "end" /\ pc' = "idle" /\ step' \in {step, step + 1}
        /\ UNCHANGED <<steps, ring, fired, routed>>
    BY <1>11 DEF StepEndPrefill, localVars, devVars
  <2>2. FewAhead' /\ Recent'
    BY <1>u, <2>1 DEF RingInv, FewAhead, Begun, Recent
  <2>3. step <= step' /\ step' + Launched' <= step + Launched
    <3>1. Launched = 1 /\ Launched' = 0
      BY <2>1 DEF Launched
    <3>2. step' = step \/ step' = step + 1
      BY <2>1
    <3>3. step <= step' /\ step' + 0 <= step + 1
      <4>1. step \in Nat
        BY <1>n
      <4> QED BY <3>2, <4>1
    <3> QED BY <3>1, <3>3
  <2> QED BY <1>i, <1>u, <2>1, <2>2, <2>3, Undisturbed DEF Unread
<1>12. CASE MainStream
  <2>1. mainq # <<>> /\ mainq' = Tail(mainq) /\ UNCHANGED <<step, steps, routed, pc>>
    BY <1>12 DEF MainStream, MainWrite, MainReady, MainForward, MainRing, MainHead,
       MainFrame, ringVars, localVars
  <2>2. Head(mainq) = mainq[1]
    BY <2>1, RingTypes
  <2>3. ASSUME MainWrite \/ MainForward
        PROVE  RingCopied \/ NoneCopied
    <3>1. mainq[1].kind # "ring" /\ ring' = ring /\ fired' = fired
      BY <2>2, <2>3 DEF MainWrite, MainForward, MainHead
    <3> QED BY <3>1 DEF NoneCopied, IsRing
  <2>4. ASSUME MainReady
        PROVE  RingCopied \/ NoneCopied
    <3>1. /\ mainq[1].kind # "ring" /\ ring' = ring
          /\ fired' = fired \cup {<<"ready", mainq[1].id>>}
      BY <2>2, <2>4 DEF MainReady, MainHead
    <3> QED BY <3>1 DEF NoneCopied, IsRing
  <2>5. ASSUME MainRing
        PROVE  RingCopied \/ NoneCopied
    <3>1. /\ mainq[1].kind = "ring"
          /\ ring' = [ring EXCEPT ![RingSlot(mainq[1].id)] =
                        [step |-> mainq[1].id, counts |-> route]]
          /\ fired' = fired \cup {<<"ring", mainq[1].id>>}
      BY <2>2, <2>5 DEF MainRing, MainHead
    <3> QED BY <3>1 DEF RingCopied, IsRing
  <2>6. RingCopied \/ NoneCopied
    BY <1>12, <2>3, <2>4, <2>5 DEF MainStream
  <2> QED BY <2>1, <2>6, PopRing
<1>13. CASE SideStream
  <2>1. /\ mainq' = mainq /\ UNCHANGED <<step, steps, routed, pc, ring>>
        /\ \A n \in Nat : <<"ring", n>> \in fired' <=> <<"ring", n>> \in fired
    <3>1. /\ mainq' = mainq /\ UNCHANGED <<step, steps, routed, pc, ring>>
      BY <1>13 DEF SideStream, CopyBegin, CopyEnd, BatchDone, SideFrame, ringVars, localVars
    <3>2. fired' = fired \/ fired' = fired \cup {<<"done", Head(sideq).id>>}
      BY <1>13 DEF SideStream, CopyBegin, CopyEnd, BatchDone
    <3> QED BY <3>1, <3>2
  <2>2. FewAhead' /\ Recent' /\ (routed' # None => pc' \in {"read", "plan"})
    BY <1>i, <1>u, <2>1 DEF RingInv, FewAhead, Begun, Recent
  <2> QED BY <1>n, <1>u, <2>1, <2>2, Undisturbed DEF Unread, Launched
<1>14. CASE UNCHANGED vars
  <2>1. mainq' = mainq /\ UNCHANGED <<step, steps, routed, pc, ring, fired>>
    BY <1>14 DEF vars, ringVars, localVars, devVars
  <2>2. FewAhead' /\ Recent' /\ (routed' # None => pc' \in {"read", "plan"})
    BY <1>i, <1>u, <2>1 DEF RingInv, FewAhead, Begun, Recent
  <2> QED BY <1>n, <1>u, <2>1, <2>2, Undisturbed DEF Unread, Launched
<1> QED
  BY <1>1, <1>2, <1>3, <1>4, <1>5, <1>6, <1>7, <1>8, <1>9, <1>10, <1>11, <1>12, <1>13, <1>14
  DEF Next, Controller

(* A ring slot is not overwritten while its routing is queued or being read, *)
(* whatever mixture of decodes and prefill runs, as long as vLLM lets fewer  *)
(* forwards wait than the ring has entries.                                  *)
THEOREM RingAlwaysSafe ==
    ASSUME Ahead < Ring
    PROVE  Spec => []RingSafe
PROOF
<1>1. RingInv => RingSafe
  BY DEF RingInv
<1>2. RingInv /\ TypeOK /\ TypeOK' /\ [Next]_vars => RingInv'
  BY RingNext
<1> QED BY <1>1, <1>2, RingInit, TypeCorrect, PTL DEF Spec

(***************************************************************************)
(* Victims.                                                                 *)
(***************************************************************************)
\* An expert the planned step routed was seen at this clock.
Seen == pc = "plan" => \A x \in Hosted : counts[x] > 0 => lastUse[x] = clock

LEMMA SeenInit == Init => Seen
BY DEF Init, Seen

LEMMA SeenNext == TypeOK /\ Seen /\ [Next]_vars => Seen'
PROOF
<1> SUFFICES ASSUME TypeOK, Seen, [Next]_vars PROVE Seen'
  OBVIOUS
<1>1. CASE PlanBegin
  <2>1. /\ clock' = clock + 1
        /\ lastUse' = [x \in Hosted |-> IF counts'[x] > 0 THEN clock + 1 ELSE lastUse[x]]
    BY <1>1 DEF PlanBegin
  <2> QED BY <2>1 DEF Seen
<1>2. CASE \E x \in todo : Skip(x) \/ \E p \in Place : Take(x, p)
  <2>1. UNCHANGED <<pc, counts, lastUse, clock>>
    BY <1>2 DEF Skip, Take, hostVars
  <2> QED BY <2>1 DEF Seen
<1>3. CASE StepBegin \/ Flip \/ FlipDone \/ ReadRouting \/ ReadNothing \/ Promote
           \/ PlanNothing \/ Launch \/ StepEndDecodes \/ StepEndPrefill
  <2>1. pc' # "plan"
    BY <1>3 DEF StepBegin, Flip, FlipDone, ReadRouting, ReadNothing, Promote, PlanNothing,
       PlanReturns, Launch, StepEndDecodes, StepEndPrefill
  <2> QED BY <2>1 DEF Seen
<1>4. CASE MainStream \/ SideStream \/ UNCHANGED vars
  <2>1. UNCHANGED <<hostVars, localVars>>
    BY <1>4 DEF MainStream, MainWrite, MainReady, MainForward, MainRing, MainFrame,
       SideStream, CopyBegin, CopyEnd, BatchDone, SideFrame, vars
  <2> QED BY <2>1 DEF Seen, hostVars, localVars
<1> QED BY <1>1, <1>2, <1>3, <1>4 DEF Next, Controller

(* Only an expert whose copy has landed and which the step planned from did *)
(* not route loses its slot.                                                *)
THEOREM VictimAlwaysCold == Spec => VictimCold
PROOF
<1>1. ASSUME TypeOK, HostOK, Seen, [Next]_vars
      PROVE  [\A x \in Hosted : slotOf[x] # Host /\ slotOf'[x] # slotOf[x] =>
                x \in live /\ counts[x] = 0]_vars
  <2> SUFFICES ASSUME NEW y \in Hosted, slotOf[y] # Host, slotOf'[y] # slotOf[y]
               PROVE  y \in live /\ counts[y] = 0
    OBVIOUS
  <2>1. PICK x \in todo, p \in Place : Take(x, p)
    <3>1. ~\E x \in todo : Skip(x)
      BY DEF Skip, hostVars
    <3>2. ~MainStream /\ ~SideStream /\ ~UNCHANGED vars
      BY DEF MainStream, MainWrite, MainReady, MainForward, MainRing, MainFrame,
         SideStream, CopyBegin, CopyEnd, BatchDone, SideFrame, hostVars, vars
    <3>3. ~(StepBegin \/ Flip \/ FlipDone \/ ReadRouting \/ ReadNothing \/ PlanBegin
            \/ Promote \/ PlanNothing \/ Launch \/ StepEndDecodes \/ StepEndPrefill)
      BY DEF StepBegin, Flip, FlipDone, ReadRouting, ReadNothing, PlanBegin, Promote,
         PlanNothing, Launch, StepEndDecodes, StepEndPrefill, hostVars
    <3> QED BY <1>1, <3>1, <3>2, <3>3 DEF Next, Controller
  <2>2. /\ pc = "plan" /\ p \in Victims(x[1])
        /\ slotOf' = [Displace(p) EXCEPT ![x] = p]
    BY <2>1 DEF Take
  <2>3. slotOf[x] = Host /\ x \in Hosted
    BY <1>1 DEF HostOK, LocalsOK, TypeOK
  <2>4. owner[p] # None /\ y = owner[p]
    <3>1. slotOf \in [Hosted -> Addr]
      BY <1>1 DEF TypeOK
    <3> QED BY <2>2, <2>3, <3>1 DEF Displace
  <2>5. y \in live /\ lastUse[y] < clock
    BY <2>2, <2>4 DEF Victims, Free, Evictable
  <2>6. counts[y] \in Nat /\ clock \in Nat /\ lastUse[y] \in Int
    BY <1>1 DEF TypeOK
  <2> QED BY <1>1, <2>2, <2>5, <2>6 DEF Seen
<1>2. Spec => [](TypeOK /\ HostOK /\ Seen)
  <2>1. Init => TypeOK /\ HostOK /\ Seen
    BY TypeInit, HostInit, SeenInit
  <2>2. TypeOK /\ HostOK /\ Seen /\ [Next]_vars => (TypeOK /\ HostOK /\ Seen)'
    BY TypeNext, HostNext, SeenNext
  <2> QED BY <2>1, <2>2, PTL DEF Spec
<1> QED BY <1>1, <1>2, PTL DEF Spec, VictimCold

-----------------------------------------------------------------------------
(***************************************************************************)
(* The expert cache keeps its promise to the kernel: IInv is inductive, so  *)
(* TableSound holds in every reachable state and the device implements      *)
(* SlotMemory.                                                              *)
(***************************************************************************)

(***************************************************************************)
(* How a step of the main stream, an operation the controller enqueues and  *)
(* a promotion move the claims on slots.                                    *)
(***************************************************************************)
LEMMA QueueTypes ==
    ASSUME TypeOK
    PROVE  /\ pending \in Seq(Batch) /\ Len(pending) \in Nat
           /\ mainq \in Seq(MainOp) /\ Len(mainq) \in Nat
           /\ sideq \in Seq(Copying) /\ Len(sideq) \in Nat
BY DEF TypeOK, Batch, MainOp, Copying

LEMMA PlaceNotHost == Host \in Addr /\ \A p \in Place : p \in Addr /\ p # Host
BY ValuesAssumption DEF Addr

LEMMA CopyPlace ==
    ASSUME TypeOK, CopiesOK, NEW n \in 1 .. Len(sideq), NEW c \in sideq[n].copies
    PROVE  /\ c[1] \in Hosted /\ c[2] \in Place
           /\ c = <<c[1], c[2]>> /\ c[2] = slotOf[c[1]]
<1>1. sideq[n] \in Copying
  BY QueueTypes
<1>2. c \in Hosted \X Addr
  BY <1>1 DEF Copying
<1>3. c[2] # Host /\ c[2] = slotOf[c[1]]
  BY DEF CopiesOK
<1> QED BY <1>2, <1>3 DEF Addr

(***************************************************************************)
(* Claims when the main stream executes its head: each comes from an        *)
(* earlier claim, and the revocations that followed it still follow.        *)
(***************************************************************************)
Pop == /\ mainq # <<>>
       /\ mainq' = Tail(mainq)
       /\ table' = Scatter(table, mainq[1].upd)

LEMMA PopFacts ==
    ASSUME TypeOK, Pop
    PROVE  /\ Len(mainq') = Len(mainq) - 1 /\ Len(mainq) \in Nat
           /\ \A i \in 1 .. Len(mainq') : mainq'[i] = mainq[i + 1] /\ i + 1 \in 1 .. Len(mainq)
           /\ 1 \in 1 .. Len(mainq) /\ mainq[1] \in MainOp
<1>1. mainq \in Seq(MainOp) /\ mainq # <<>>
  BY QueueTypes DEF Pop
<1> QED BY <1>1, TailShift DEF Pop

LEMMA ScatterClaims ==
    ASSUME NEW t, NEW upd, NEW x \in Hosted, NEW p \in Place, Scatter(t, upd)[x] = p
    PROVE  <<x, p>> \in upd \/ (t[x] = p /\ \A a \in Addr : <<x, a>> \notin upd)
BY DEF Scatter

LEMMA PopClaim ==
    ASSUME TypeOK, WritesOK, Pop,
           NEW i \in 0 .. Len(mainq'), NEW x \in Hosted, NEW p \in Place,
           Claims(i, x, p)'
    PROVE  \E k \in 0 .. Len(mainq) :
              /\ Claims(k, x, p)
              /\ \A j \in k + 1 .. Len(mainq) : Revokes(j, x) =>
                    j - 1 \in i + 1 .. Len(mainq') /\ Revokes(j - 1, x)'
<1>1. ASSUME NEW j \in 2 .. Len(mainq)
      PROVE  j - 1 \in 1 .. Len(mainq') /\ (Revokes(j, x) => Revokes(j - 1, x)')
  <2>1. j - 1 \in 1 .. Len(mainq') /\ mainq'[j - 1] = mainq[j]
    BY PopFacts
  <2> QED BY <2>1 DEF Revokes
<1>2. CASE i # 0
  <2>1. i \in 1 .. Len(mainq') /\ i + 1 \in 1 .. Len(mainq) /\ mainq'[i] = mainq[i + 1]
    BY <1>2, PopFacts
  <2>2. Claims(i + 1, x, p)
    BY <2>1, <1>2 DEF Claims
  <2>3. \A j \in (i + 1) + 1 .. Len(mainq) : Revokes(j, x) =>
            j - 1 \in i + 1 .. Len(mainq') /\ Revokes(j - 1, x)'
    BY <1>1, <2>1, PopFacts
  <2> QED BY <2>1, <2>2, <2>3
<1>3. CASE i = 0
  <2>1. table'[x] = p
    BY <1>3 DEF Claims
  <2>2. <<x, p>> \in mainq[1].upd
           \/ (table[x] = p /\ \A a \in Addr : <<x, a>> \notin mainq[1].upd)
    BY <2>1, ScatterClaims DEF Pop
  <2>3. CASE <<x, p>> \in mainq[1].upd
    <3>1. Claims(1, x, p) /\ 1 \in 0 .. Len(mainq)
      BY <2>3, PopFacts DEF Claims
    <3>2. \A j \in 1 + 1 .. Len(mainq) : Revokes(j, x) =>
            j - 1 \in i + 1 .. Len(mainq') /\ Revokes(j - 1, x)'
      BY <1>1, <1>3, PopFacts
    <3> QED BY <3>1, <3>2
  <2>4. CASE table[x] = p /\ \A a \in Addr : <<x, a>> \notin mainq[1].upd
    <3>1. Claims(0, x, p) /\ 0 \in 0 .. Len(mainq)
      BY <2>4, PopFacts DEF Claims
    <3>2. ~Revokes(1, x)
      BY <2>4, PlaceNotHost DEF Revokes
    <3>3. \A j \in 0 + 1 .. Len(mainq) : Revokes(j, x) =>
            j - 1 \in i + 1 .. Len(mainq') /\ Revokes(j - 1, x)'
      BY <1>1, <1>3, <3>2, PopFacts
    <3> QED BY <3>1, <3>3
  <2> QED BY <2>2, <2>3, <2>4
<1> QED BY <1>2, <1>3

\* What executing the head does to the claims' invariants, given what it fires.
LEMMA PopOK ==
    ASSUME TypeOK, CopiesOK, WritesOK, ClaimsHold, StaleRevoked, CopiesWait, Pop,
           UNCHANGED <<slotData, live, slotOf, updates, sideq>>,
           \A e : <<"ready", e>> \in fired' =>
               <<"ready", e>> \in fired \/ (mainq[1].kind = "ready" /\ e = mainq[1].id)
    PROVE  WritesOK' /\ ClaimsHold' /\ StaleRevoked' /\ CopiesWait'
<1>1. WritesOK'
  BY PopFacts DEF WritesOK
<1>2. ClaimsHold'
  <2> SUFFICES ASSUME NEW i \in 0 .. Len(mainq'), NEW x \in Hosted, NEW p \in Place,
                      Claims(i, x, p)'
               PROVE  slotData[p] = x
    BY DEF ClaimsHold
  <2> QED BY PopClaim DEF ClaimsHold
<1>3. StaleRevoked'
  <2> SUFFICES ASSUME NEW i \in 0 .. Len(mainq'), NEW x \in Hosted, NEW p \in Place,
                      Claims(i, x, p)', ~(x \in live /\ slotOf[x] = p),
                      <<x, Host>> \notin updates
               PROVE  \E j \in i + 1 .. Len(mainq') : Revokes(j, x)'
    BY DEF StaleRevoked
  <2>1. PICK k \in 0 .. Len(mainq) :
              /\ Claims(k, x, p)
              /\ \A j \in k + 1 .. Len(mainq) : Revokes(j, x) =>
                    j - 1 \in i + 1 .. Len(mainq') /\ Revokes(j - 1, x)'
    BY PopClaim
  <2>2. PICK j \in k + 1 .. Len(mainq) : Revokes(j, x)
    BY <2>1 DEF StaleRevoked
  <2> QED BY <2>1, <2>2
<1>4. CopiesWait'
  <2> SUFFICES ASSUME NEW n \in 1 .. Len(sideq), NEW c \in sideq[n].copies,
                      NEW i \in 0 .. Len(mainq'), NEW y \in Hosted, Claims(i, y, c[2])'
               PROVE  /\ <<"ready", sideq[n].id>> \notin fired'
                      /\ \A m \in 1 .. Len(mainq') :
                            mainq'[m].kind = "ready" /\ mainq'[m].id = sideq[n].id =>
                              \E j \in i + 1 .. m - 1 : Revokes(j, y)'
    BY DEF CopiesWait, Ready
  <2>0. c[2] \in Place
    BY CopyPlace
  <2>1. PICK k \in 0 .. Len(mainq) :
              /\ Claims(k, y, c[2])
              /\ \A j \in k + 1 .. Len(mainq) : Revokes(j, y) =>
                    j - 1 \in i + 1 .. Len(mainq') /\ Revokes(j - 1, y)'
    BY <2>0, PopClaim
  <2>2. /\ <<"ready", sideq[n].id>> \notin fired
        /\ \A m \in 1 .. Len(mainq) :
              mainq[m].kind = "ready" /\ mainq[m].id = sideq[n].id =>
                \E j \in k + 1 .. m - 1 : Revokes(j, y)
    BY <2>1 DEF CopiesWait, Ready
  <2>3. ~(mainq[1].kind = "ready" /\ mainq[1].id = sideq[n].id)
    BY <2>2, PopFacts
  <2>4. ASSUME NEW m \in 1 .. Len(mainq'), mainq'[m].kind = "ready",
               mainq'[m].id = sideq[n].id
        PROVE  \E j \in i + 1 .. m - 1 : Revokes(j, y)'
    <3>1. m + 1 \in 1 .. Len(mainq) /\ mainq'[m] = mainq[m + 1]
      BY PopFacts
    <3>2. PICK j \in k + 1 .. (m + 1) - 1 : Revokes(j, y)
      BY <2>2, <2>4, <3>1
    <3>3. j \in k + 1 .. Len(mainq)
      BY <3>1, PopFacts
    <3>4. j - 1 \in i + 1 .. Len(mainq') /\ Revokes(j - 1, y)'
      BY <2>1, <3>2, <3>3
    <3>5. j - 1 \in i + 1 .. m - 1
      <4>1. j \in Int /\ j <= (m + 1) - 1 /\ m \in Int /\ i \in Int
        BY <3>2
      <4>2. i + 1 <= j - 1
        BY <3>4
      <4> QED BY <4>1, <4>2
    <3> QED BY <3>4, <3>5
  <2> QED BY <2>2, <2>3, <2>4
<1> QED BY <1>1, <1>2, <1>3, <1>4
(***************************************************************************)
(* Claims when the controller enqueues an operation that is no event: its   *)
(* slot addresses must be those of live experts.                            *)
(***************************************************************************)
Push(op) == mainq' = Append(mainq, op) /\ table' = table

LEMMA PushFacts ==
    ASSUME TypeOK, NEW op \in MainOp, Push(op)
    PROVE  /\ Len(mainq') = Len(mainq) + 1 /\ Len(mainq) \in Nat
           /\ \A i \in 1 .. Len(mainq) : mainq'[i] = mainq[i]
           /\ mainq'[Len(mainq) + 1] = op
           /\ \A i \in 1 .. Len(mainq), x \in Hosted : Revokes(i, x)' <=> Revokes(i, x)
           /\ \A i \in 0 .. Len(mainq), x \in Hosted, p \in Place :
                 Claims(i, x, p)' <=> Claims(i, x, p)
<1>1. /\ Len(mainq') = Len(mainq) + 1 /\ Len(mainq) \in Nat
      /\ \A i \in 1 .. Len(mainq) : mainq'[i] = mainq[i]
      /\ mainq'[Len(mainq) + 1] = op
  BY QueueTypes, AppendEnd DEF Push
<1>2. \A i \in 1 .. Len(mainq), x \in Hosted : Revokes(i, x)' <=> Revokes(i, x)
  BY <1>1 DEF Revokes
<1>3. \A i \in 0 .. Len(mainq), x \in Hosted, p \in Place :
                 Claims(i, x, p)' <=> Claims(i, x, p)
  BY <1>1 DEF Claims, Push
<1> QED BY <1>1, <1>2, <1>3

LEMMA PushOK ==
    ASSUME TypeOK, OneOwner, CopiesOK, WritesOK, ClaimsHold, StaleRevoked, CopiesWait,
           NEW op \in MainOp, Push(op), op.kind # "ready",
           op.kind # "write" => op.upd = {},
           \A u \in op.upd : u[1] \in live /\ u[2] = slotOf[u[1]] /\ slotData[u[2]] = u[1],
           UNCHANGED <<slotData, live, slotOf, updates, sideq, fired>>
    PROVE  WritesOK' /\ ClaimsHold' /\ StaleRevoked' /\ CopiesWait'
<1> DEFINE N == Len(mainq) + 1
<1>0. Len(mainq) \in Nat /\ Len(mainq') = N /\ mainq'[N] = op
  BY PushFacts
<1>1. ASSUME NEW x \in Hosted, NEW a \in Addr, <<x, a>> \in op.upd
      PROVE  x \in live /\ slotOf[x] = a /\ slotData[a] = x
  BY <1>1
<1>2. WritesOK'
  <2> SUFFICES ASSUME NEW i \in 1 .. Len(mainq')
      PROVE  /\ mainq'[i].kind # "write" => mainq'[i].upd = {}
             /\ \A x \in Hosted : \A a, b \in Addr :
                   <<x, a>> \in mainq'[i].upd /\ <<x, b>> \in mainq'[i].upd => a = b
    BY DEF WritesOK
  <2>1. CASE i = N
    BY <2>1, <1>0, <1>1
  <2>2. CASE i # N
    BY <2>2, PushFacts DEF WritesOK
  <2> QED BY <2>1, <2>2
<1>3. ASSUME NEW i \in 0 .. Len(mainq'), NEW x \in Hosted, NEW p \in Place, Claims(i, x, p)'
      PROVE  \/ i \in 0 .. Len(mainq) /\ Claims(i, x, p)
             \/ x \in live /\ slotOf[x] = p /\ slotData[p] = x
  <2>1. CASE i = N
    <3>1. <<x, p>> \in op.upd
      BY <2>1, <1>3, <1>0 DEF Claims
    <3> QED BY <3>1, <1>1, PlaceNotHost
  <2>2. CASE i # N
    BY <2>2, <1>3, PushFacts
  <2> QED BY <2>1, <2>2
<1>4. ClaimsHold'
  BY <1>3 DEF ClaimsHold
<1>5. StaleRevoked'
  <2> SUFFICES ASSUME NEW i \in 0 .. Len(mainq'), NEW x \in Hosted, NEW p \in Place,
                      Claims(i, x, p)', ~(x \in live /\ slotOf[x] = p),
                      <<x, Host>> \notin updates
               PROVE  \E j \in i + 1 .. Len(mainq') : Revokes(j, x)'
    BY DEF StaleRevoked
  <2>1. i \in 0 .. Len(mainq) /\ Claims(i, x, p)
    BY <1>3
  <2>2. PICK j \in i + 1 .. Len(mainq) : Revokes(j, x)
    BY <2>1 DEF StaleRevoked
  <2> QED BY <2>1, <2>2, PushFacts
<1>6. CopiesWait'
  <2> SUFFICES ASSUME NEW n \in 1 .. Len(sideq), NEW c \in sideq[n].copies,
                      NEW i \in 0 .. Len(mainq'), NEW y \in Hosted, Claims(i, y, c[2])'
               PROVE  /\ <<"ready", sideq[n].id>> \notin fired
                      /\ \A m \in 1 .. Len(mainq') :
                            mainq'[m].kind = "ready" /\ mainq'[m].id = sideq[n].id =>
                              \E j \in i + 1 .. m - 1 : Revokes(j, y)'
    BY DEF CopiesWait, Ready
  <2>1. c[1] \in Hosted /\ c[2] \in Place /\ c[2] = slotOf[c[1]] /\ c[1] \notin live
    BY CopyPlace DEF CopiesOK
  <2>2. ~(y \in live /\ slotOf[y] = c[2])
    BY <2>1, PlaceNotHost DEF OneOwner
  <2>3. i \in 0 .. Len(mainq) /\ Claims(i, y, c[2])
    BY <1>3, <2>1, <2>2
  <2>4. /\ <<"ready", sideq[n].id>> \notin fired
        /\ \A m \in 1 .. Len(mainq) :
              mainq[m].kind = "ready" /\ mainq[m].id = sideq[n].id =>
                \E j \in i + 1 .. m - 1 : Revokes(j, y)
    BY <2>3 DEF CopiesWait, Ready
  <2>5. ASSUME NEW m \in 1 .. Len(mainq'), mainq'[m].kind = "ready",
               mainq'[m].id = sideq[n].id
        PROVE  \E j \in i + 1 .. m - 1 : Revokes(j, y)'
    <3>1. m \in 1 .. Len(mainq) /\ mainq'[m] = mainq[m]
      BY <2>5, <1>0, PushFacts
    <3>2. PICK j \in i + 1 .. m - 1 : Revokes(j, y)
      BY <2>4, <2>5, <3>1
    <3>3. j \in 1 .. Len(mainq)
      BY <2>3, <3>1, <3>2
    <3> QED BY <3>2, <3>3, PushFacts
  <2> QED BY <2>4, <2>5
<1> QED BY <1>2, <1>4, <1>5, <1>6

(***************************************************************************)
(* A promotion: the revocations are queued before the event, the event      *)
(* before the copies.                                                       *)
(***************************************************************************)
LEMMA PromoteQueue ==
    ASSUME TypeOK, LocalsOK, Promote
    PROVE  /\ table' = table
           /\ Len(mainq) \in Nat /\ Len(mainq') \in Nat /\ Len(mainq') > Len(mainq)
           /\ \A i \in 1 .. Len(mainq) : mainq'[i] = mainq[i]
           /\ mainq'[Len(mainq')].kind = "ready"
           /\ mainq'[Len(mainq')].id = promotions'
           /\ mainq'[Len(mainq')].upd = {}
           /\ \A i \in Len(mainq) + 1 .. Len(mainq') - 1 :
                 i = Len(mainq) + 1 /\ mainq'[i].kind = "write" /\ mainq'[i].upd = updates
           /\ updates # {} => Len(mainq) + 1 \in 1 .. Len(mainq') - 1
<1> DEFINE r == Op("ready", {}, promotions')
           w == Op("write", updates, 0)
<1>1. mainq \in Seq(MainOp) /\ Len(mainq) \in Nat
  BY QueueTypes
<1>2. promotions' \in Nat /\ updates \subseteq Hosted \X Addr
  BY DEF Promote, TypeOK
<1>3. r \in MainOp /\ w \in MainOp
  BY <1>2 DEF Op, MainOp
<1>4. r.kind = "ready" /\ r.id = promotions' /\ r.upd = {}
      /\ w.kind = "write" /\ w.upd = updates
  BY DEF Op
<1>5. mainq' = Append(Write(mainq, updates), r) /\ table' = table
  BY DEF Promote, devVars
<1>6. CASE updates = {}
  <2>1. mainq' = Append(mainq, r)
    BY <1>5, <1>6 DEF Write
  <2>2. /\ Len(mainq') = Len(mainq) + 1 /\ mainq'[Len(mainq) + 1] = r
        /\ \A i \in 1 .. Len(mainq) : mainq'[i] = mainq[i]
    BY <2>1, <1>1, <1>3, AppendEnd
  <2> HIDE DEF r, w
  <2> QED BY <2>2, <1>1, <1>4, <1>5, <1>6
<1>7. CASE updates # {}
  <2> DEFINE q == Append(mainq, w)
  <2>1. mainq' = Append(q, r)
    BY <1>5, <1>7 DEF Write
  <2>2. /\ Len(q) = Len(mainq) + 1 /\ q[Len(mainq) + 1] = w /\ q \in Seq(MainOp)
        /\ \A i \in 1 .. Len(mainq) : q[i] = mainq[i]
    BY <1>1, <1>3, AppendEnd
  <2> HIDE DEF r, w, q
  <2>3. /\ Len(mainq') = Len(q) + 1 /\ mainq'[Len(q) + 1] = r
        /\ \A i \in 1 .. Len(q) : mainq'[i] = q[i]
    BY <2>1, <2>2, <1>3, AppendEnd
  <2>4. mainq'[Len(mainq) + 1] = w
    BY <2>2, <2>3, <1>1
  <2>5. \A i \in 1 .. Len(mainq) : mainq'[i] = mainq[i]
    BY <2>2, <2>3, <1>1
  <2> QED BY <2>2, <2>3, <2>4, <2>5, <1>1, <1>4, <1>5
<1> QED BY <1>6, <1>7

LEMMA PromoteSide ==
    ASSUME TypeOK, Promote
    PROVE  /\ Len(sideq) \in Nat /\ Len(sideq') = Len(sideq) + 1
           /\ \A n \in 1 .. Len(sideq) : sideq'[n] = sideq[n]
           /\ sideq'[Len(sideq) + 1].id = promotions'
           /\ sideq'[Len(sideq) + 1].copies = {<<x, slotOf[x]>> : x \in issued}
           /\ Len(pending) \in Nat /\ Len(pending') = Len(pending) + 1
           /\ \A n \in 1 .. Len(pending) : pending'[n] = pending[n]
           /\ pending'[Len(pending) + 1].id = promotions'
           /\ pending'[Len(pending) + 1].experts = issued
           /\ promotions' = promotions + 1 /\ promotions \in Nat
           /\ UNCHANGED <<slotData, live, slotOf, fired, copying, table>>
<1> DEFINE b == [id |-> promotions', copies |-> {<<x, slotOf[x]>> : x \in issued}]
           e == [id |-> promotions', experts |-> issued]
<1>1. b \in Copying /\ e \in Batch
  BY DEF Promote, TypeOK, Copying, Batch
<1>2. sideq' = Append(sideq, b) /\ pending' = Append(pending, e)
  BY DEF Promote
<1>3. /\ Len(sideq') = Len(sideq) + 1 /\ sideq'[Len(sideq) + 1] = b
      /\ \A n \in 1 .. Len(sideq) : sideq'[n] = sideq[n]
  BY <1>1, <1>2, QueueTypes, AppendEnd
<1>4. /\ Len(pending') = Len(pending) + 1 /\ pending'[Len(pending) + 1] = e
      /\ \A n \in 1 .. Len(pending) : pending'[n] = pending[n]
  BY <1>1, <1>2, QueueTypes, AppendEnd
<1>5. promotions' = promotions + 1 /\ promotions \in Nat
      /\ UNCHANGED <<slotData, live, slotOf, fired, copying, table>>
  BY DEF Promote, TypeOK, devVars
<1> QED BY <1>3, <1>4, <1>5, QueueTypes

LEMMA PromoteClaims ==
    ASSUME IInv, Promote
    PROVE  WritesOK' /\ ClaimsHold' /\ StaleRevoked' /\ CopiesWait'
<1> USE DEF IInv
<1> DEFINE N == Len(mainq)
<1>0. N \in Nat /\ Len(mainq') \in Nat /\ Len(mainq') > N
  BY PromoteQueue
<1>u. updates' = {} /\ \A u \in updates : u[2] = Host
  BY DEF Promote, LocalsOK
<1>1. ASSUME NEW i \in 0 .. Len(mainq'), NEW x \in Hosted, NEW p \in Place, Claims(i, x, p)'
      PROVE  i \in 0 .. N /\ Claims(i, x, p)
  <2>1. CASE i \in 0 .. N
    BY <2>1, <1>1, PromoteQueue DEF Claims
  <2>2. CASE i \in N + 1 .. Len(mainq') - 1
    <3>1. <<x, p>> \in updates
      BY <2>2, <1>1, <1>0, PromoteQueue DEF Claims
    <3> QED BY <3>1, <1>u, PlaceNotHost
  <2>3. CASE i = Len(mainq')
    BY <2>3, <1>1, <1>0, PromoteQueue DEF Claims
  <2> QED BY <2>1, <2>2, <2>3, <1>0
<1>2. ASSUME NEW j \in 1 .. N, NEW x \in Hosted PROVE Revokes(j, x)' <=> Revokes(j, x)
  BY PromoteQueue DEF Revokes
<1>3. ASSUME NEW x \in Hosted, <<x, Host>> \in updates
      PROVE  \E j \in 1 .. Len(mainq') - 1 : j = N + 1 /\ Revokes(j, x)'
  <2>1. N + 1 \in 1 .. Len(mainq') - 1
    BY <1>3, PromoteQueue
  <2>2. mainq'[N + 1].upd = updates
    BY <2>1, <1>0, PromoteQueue
  <2> QED BY <2>1, <2>2, <1>3 DEF Revokes
<1>4. WritesOK'
  <2> SUFFICES ASSUME NEW i \in 1 .. Len(mainq')
      PROVE  /\ mainq'[i].kind # "write" => mainq'[i].upd = {}
             /\ \A x \in Hosted : \A a, b \in Addr :
                   <<x, a>> \in mainq'[i].upd /\ <<x, b>> \in mainq'[i].upd => a = b
    BY DEF WritesOK
  <2>1. CASE i \in 1 .. N
    BY <2>1, PromoteQueue DEF WritesOK
  <2>2. CASE i \in N + 1 .. Len(mainq') - 1
    <3>1. mainq'[i].kind = "write" /\ mainq'[i].upd = updates
      BY <2>2, PromoteQueue
    <3>2. \A x \in Hosted : \A a \in Addr : <<x, a>> \in updates => a = Host
      BY <1>u
    <3> QED BY <3>1, <3>2
  <2>3. CASE i = Len(mainq')
    BY <2>3, PromoteQueue
  <2> QED BY <2>1, <2>2, <2>3, <1>0
<1>5. ClaimsHold'
  BY <1>1, PromoteSide DEF ClaimsHold
<1>6. StaleRevoked'
  <2> SUFFICES ASSUME NEW i \in 0 .. Len(mainq'), NEW x \in Hosted, NEW p \in Place,
                      Claims(i, x, p)', ~(x \in live /\ slotOf[x] = p)
               PROVE  \E j \in i + 1 .. Len(mainq') : Revokes(j, x)'
    BY PromoteSide DEF StaleRevoked
  <2>1. i \in 0 .. N /\ Claims(i, x, p)
    BY <1>1
  <2>2. CASE <<x, Host>> \in updates
    BY <2>1, <2>2, <1>0, <1>3
  <2>3. CASE <<x, Host>> \notin updates
    <3>1. PICK j \in i + 1 .. N : Revokes(j, x)
      BY <2>1, <2>3 DEF StaleRevoked
    <3> QED BY <2>1, <3>1, <1>0, <1>2
  <2> QED BY <2>2, <2>3
<1>7. CopiesWait'
  <2> SUFFICES ASSUME NEW n \in 1 .. Len(sideq'), NEW c \in sideq'[n].copies,
                      NEW i \in 0 .. Len(mainq'), NEW y \in Hosted, Claims(i, y, c[2])'
               PROVE  /\ <<"ready", sideq'[n].id>> \notin fired
                      /\ \A m \in 1 .. Len(mainq') :
                            mainq'[m].kind = "ready" /\ mainq'[m].id = sideq'[n].id =>
                              \E j \in i + 1 .. m - 1 : Revokes(j, y)'
    BY PromoteSide DEF CopiesWait, Ready
  <2>1. CASE n \in 1 .. Len(sideq)
    <3>1. sideq'[n] = sideq[n] /\ c \in sideq[n].copies
      BY <2>1, PromoteSide
    <3>2. c[2] \in Place
      BY <2>1, <3>1, CopyPlace
    <3>3. i \in 0 .. N /\ Claims(i, y, c[2])
      BY <1>1, <3>2
    <3>4. /\ <<"ready", sideq[n].id>> \notin fired
          /\ \A m \in 1 .. N : mainq[m].kind = "ready" /\ mainq[m].id = sideq[n].id =>
                \E j \in i + 1 .. m - 1 : Revokes(j, y)
      BY <2>1, <3>1, <3>3 DEF CopiesWait, Ready
    <3>5. sideq[n].id # promotions'
      <4>1. sideq[n].id <= promotions /\ sideq[n] \in Copying
        BY <2>1, QueueTypes DEF NumbersOK
      <4> QED BY <4>1, PromoteSide DEF Copying
    <3>6. ASSUME NEW m \in 1 .. Len(mainq'), mainq'[m].kind = "ready",
                 mainq'[m].id = sideq[n].id
          PROVE  \E j \in i + 1 .. m - 1 : Revokes(j, y)'
      <4>1. m \in 1 .. N
        <5>1. m # Len(mainq')
          BY <3>5, <3>6, PromoteQueue
        <5>2. m \notin N + 1 .. Len(mainq') - 1
          BY <3>6, PromoteQueue
        <5> QED BY <5>1, <5>2, <1>0
      <4>2. PICK j \in i + 1 .. m - 1 : Revokes(j, y)
        BY <3>4, <3>6, <4>1, PromoteQueue
      <4>3. j \in 1 .. N
        BY <3>3, <4>1, <4>2
      <4> QED BY <4>2, <4>3, <1>2
    <3> QED BY <3>1, <3>4, <3>6
  <2>2. CASE n = Len(sideq) + 1
    <3>1. PICK x \in issued : c = <<x, slotOf[x]>>
      BY <2>2, PromoteSide
    <3>2. x \in Hosted /\ slotOf[x] # Host /\ x \notin live /\ c[2] = slotOf[x]
      BY <3>1 DEF TypeOK, NoSlotLost, InFlight
    <3>3. c[2] \in Place
      BY <3>2 DEF TypeOK, Addr
    <3>4. i \in 0 .. N /\ Claims(i, y, c[2])
      BY <1>1, <3>3
    <3>5. ~(y \in live /\ slotOf[y] = c[2])
      BY <3>2, <3>3, PlaceNotHost DEF OneOwner
    <3>6. \E j \in i + 1 .. Len(mainq') - 1 : Revokes(j, y)'
      <4>1. CASE <<y, Host>> \in updates
        BY <3>4, <4>1, <1>0, <1>3
      <4>2. CASE <<y, Host>> \notin updates
        <5>1. PICK j \in i + 1 .. N : Revokes(j, y)
          BY <3>3, <3>4, <3>5, <4>2 DEF StaleRevoked
        <5> QED BY <3>4, <5>1, <1>0, <1>2
      <4> QED BY <4>1, <4>2
    <3>7. sideq'[n].id = promotions' /\ promotions' \in Nat /\ promotions' > promotions
          /\ promotions \in Nat
      BY <2>2, PromoteSide
    <3>8. <<"ready", sideq'[n].id>> \notin fired
      BY <3>7 DEF NumbersOK
    <3>9. ASSUME NEW m \in 1 .. Len(mainq'), mainq'[m].kind = "ready",
                 mainq'[m].id = promotions'
          PROVE  m = Len(mainq')
      <4>1. m \notin N + 1 .. Len(mainq') - 1
        BY <3>9, PromoteQueue
      <4>2. ASSUME m \in 1 .. N PROVE FALSE
        <5>1. mainq[m].kind = "ready" /\ mainq[m].id = promotions'
          BY <3>9, <4>2, PromoteQueue
        <5> QED BY <5>1, <4>2, <3>7 DEF NumbersOK
      <4> QED BY <4>1, <4>2, <1>0
    <3> QED BY <3>6, <3>7, <3>8, <3>9
  <2>3. n \in 1 .. Len(sideq) \/ n = Len(sideq) + 1
    BY PromoteSide
  <2> QED BY <2>1, <2>2, <2>3
<1> QED BY <1>4, <1>5, <1>6, <1>7

ClaimsOK == WritesOK /\ ClaimsHold /\ StaleRevoked /\ CopiesWait

LEMMA CopiesWaitFrame ==
    ASSUME CopiesWait, UNCHANGED <<mainq, table, sideq, fired>>
    PROVE  CopiesWait'
<1> SUFFICES ASSUME NEW n \in 1 .. Len(sideq), NEW c \in sideq[n].copies,
                    NEW i \in 0 .. Len(mainq), NEW y \in Hosted, Claims(i, y, c[2])
             PROVE  /\ ~Ready(sideq[n])
                    /\ \A k \in 1 .. Len(mainq) :
                          mainq[k].kind = "ready" /\ mainq[k].id = sideq[n].id =>
                            \E j \in i + 1 .. k - 1 : Revokes(j, y)
  BY DEF CopiesWait, Claims, Revokes, Ready
<1> QED BY DEF CopiesWait

(***************************************************************************)
(* A promotion that has landed: none of its copies is still to be made, so  *)
(* the experts that go live are in their slots.                             *)
(***************************************************************************)
LEMMA FlipFacts ==
    ASSUME IInv, Flip
    PROVE  /\ pending # <<>> /\ pending[1] \in Batch /\ 1 \in 1 .. Len(pending)
           /\ Len(pending') = Len(pending) - 1 /\ Len(pending) \in Nat
           /\ \A i \in 1 .. Len(pending') :
                 pending'[i] = pending[i + 1] /\ i + 1 \in 1 .. Len(pending)
           /\ live' = live \cup pending[1].experts
           /\ flips' = flips \cup {<<x, slotOf[x]>> : x \in pending[1].experts}
           /\ \A i \in 1 .. Len(sideq) : sideq[i].id # pending[1].id
           /\ \A x \in pending[1].experts :
                 /\ x \in Hosted /\ slotOf[x] # Host /\ slotData[slotOf[x]] = x
                 /\ \A j \in 2 .. Len(pending) : x \notin pending[j].experts
           /\ UNCHANGED <<slotOf, updates, sideq, fired, mainq, table, slotData,
                          copying, promotions>>
<1> USE DEF IInv
<1>1. pending \in Seq(Batch) /\ pending # <<>> /\ <<"done", Head(pending).id>> \in fired
  BY QueueTypes DEF Flip, NextLanded
<1>2. /\ Len(pending') = Len(pending) - 1 /\ Len(pending) \in Nat
      /\ \A i \in 1 .. Len(pending') :
            pending'[i] = pending[i + 1] /\ i + 1 \in 1 .. Len(pending)
      /\ Head(pending) = pending[1] /\ 1 \in 1 .. Len(pending) /\ pending[1] \in Batch
  BY <1>1, TailShift DEF Flip
<1>3. /\ live' = live \cup pending[1].experts
      /\ flips' = flips \cup {<<x, slotOf[x]>> : x \in pending[1].experts}
      /\ UNCHANGED <<slotOf, updates, sideq, fired, mainq, table, slotData,
                     copying, promotions>>
  BY <1>2 DEF Flip, devVars
<1>4. \A i \in 1 .. Len(sideq) : sideq[i].id # pending[1].id
  BY <1>1, <1>2 DEF NumbersOK
<1>5. ASSUME NEW x \in pending[1].experts
      PROVE  /\ x \in Hosted /\ slotOf[x] # Host /\ slotData[slotOf[x]] = x
             /\ \A j \in 2 .. Len(pending) : x \notin pending[j].experts
  <2>1. x \in Hosted
    BY <1>2 DEF Batch
  <2>2. slotOf[x] # Host /\ \A j \in 1 .. Len(pending) : x \in pending[j].experts => 1 = j
    BY <2>1, <1>2 DEF NoSlotLost, InFlight
  <2>3. slotData[slotOf[x]] = x
    BY <1>2, <1>4 DEF CopiesOK
  <2> QED BY <2>1, <2>2, <2>3, <1>2
<1> QED BY <1>1, <1>2, <1>3, <1>4, <1>5

LEMMA FlipClaims ==
    ASSUME IInv, Flip
    PROVE  ClaimsOK'
<1> USE DEF IInv, ClaimsOK
<1>1. UNCHANGED <<mainq, table, slotData, slotOf, updates, sideq, fired>>
      /\ live \subseteq live'
  BY FlipFacts
<1>2. WritesOK' /\ ClaimsHold'
  BY <1>1 DEF WritesOK, ClaimsHold, Claims
<1>3. StaleRevoked'
  BY <1>1 DEF StaleRevoked, Claims, Revokes
<1>4. CopiesWait'
  BY <1>1, CopiesWaitFrame
<1> QED BY <1>2, <1>3, <1>4

\* What a plan does to the slots when one changes hands.
LEMMA TakeFacts ==
    ASSUME IInv, NEW x \in todo, NEW p \in Place, Take(x, p)
    PROVE  /\ x \in Hosted /\ slotOf[x] = Host
           /\ owner[p] # None => owner[p] \in live /\ <<owner[p], Host>> \in updates'
           /\ live' = live \ {owner[p]} /\ updates \subseteq updates'
           /\ \A y \in Hosted : y # x /\ y # owner[p] => slotOf'[y] = slotOf[y]
           /\ \A y \in Hosted : InFlight(y) => y # x /\ y # owner[p]
           /\ flips = {}
           /\ UNCHANGED <<mainq, table, slotData, sideq, fired, pending, copying,
                          promotions, flips>>
<1> USE DEF IInv
<1>1. x \in Hosted /\ slotOf[x] = Host /\ flips = {}
  BY DEF TypeOK, LocalsOK, Take
<1>2. owner[p] \in Hosted \cup {None}
  BY DEF TypeOK
<1>3. owner[p] # None => owner[p] \in live /\ <<owner[p], Host>> \in updates'
  BY DEF Take, Victims, Free, Evictable, BackToHost
<1>4. live' = live \ {owner[p]} /\ updates \subseteq updates'
  BY DEF Take
<1>5. \A y \in Hosted : y # x /\ y # owner[p] => slotOf'[y] = slotOf[y]
  BY <1>1, <1>2 DEF Take, Displace, TypeOK
<1>6. \A y \in Hosted : InFlight(y) => y # x /\ y # owner[p]
  BY <1>1, <1>3, ValuesAssumption DEF InFlight
<1>7. UNCHANGED <<mainq, table, slotData, sideq, fired, pending, copying,
                  promotions, flips>>
  BY DEF Take, devVars
<1> QED BY <1>1, <1>3, <1>4, <1>5, <1>6, <1>7

LEMMA TakeClaims ==
    ASSUME IInv, NEW x \in todo, NEW p \in Place, Take(x, p)
    PROVE  ClaimsOK'
<1>0. /\ updates \subseteq updates' /\ live' = live \ {owner[p]}
      /\ \A z \in Hosted : z # x /\ z # owner[p] => slotOf'[z] = slotOf[z]
      /\ UNCHANGED <<mainq, table, slotData, sideq, fired>>
  BY TakeFacts
<1> USE DEF IInv, ClaimsOK
<1>1. UNCHANGED <<mainq, table, slotData, sideq, fired>>
  BY <1>0
<1>2. WritesOK' /\ ClaimsHold'
  BY <1>1 DEF WritesOK, ClaimsHold, Claims
<1>3. StaleRevoked'
  <2> SUFFICES ASSUME NEW i \in 0 .. Len(mainq), NEW y \in Hosted, NEW q \in Place,
                      Claims(i, y, q), ~(y \in live' /\ slotOf'[y] = q)
               PROVE  \/ <<y, Host>> \in updates'
                      \/ \E j \in i + 1 .. Len(mainq) : Revokes(j, y)
    BY <1>1 DEF StaleRevoked, Claims, Revokes
  <2>0. /\ updates \subseteq updates' /\ live' = live \ {owner[p]}
        /\ \A z \in Hosted : z # x /\ z # owner[p] => slotOf'[z] = slotOf[z]
    BY <1>0
  <2>1. CASE y = owner[p]
    <3>1. y # None
      BY ValuesAssumption
    <3> QED BY <2>1, <3>1, TakeFacts
  <2>2. CASE y = x
    <3>1. slotOf[y] # q
      BY <2>2, TakeFacts, PlaceNotHost
    <3> QED BY <3>1, <2>0 DEF StaleRevoked
  <2>3. CASE y # owner[p] /\ y # x
    <3>1. ~(y \in live /\ slotOf[y] = q)
      <4>1. slotOf'[y] = slotOf[y]
        BY <2>0, <2>3
      <4> QED BY <4>1, <2>0, <2>3
    <3> QED BY <3>1, <2>0 DEF StaleRevoked
  <2> QED BY <2>1, <2>2, <2>3
<1>4. CopiesWait'
  BY <1>1, CopiesWaitFrame
<1> QED BY <1>2, <1>3, <1>4

(***************************************************************************)
(* The side stream.  A copy under way, or about to be, has no claim on its  *)
(* slot.                                                                    *)
(***************************************************************************)
LEMMA NoClaimOnCopy ==
    ASSUME IInv, sideq # <<>>, Ready(sideq[1]), NEW c \in sideq[1].copies,
           NEW i \in 0 .. Len(mainq), NEW y \in Hosted
    PROVE  ~Claims(i, y, c[2])
<1>1. 1 \in 1 .. Len(sideq)
  BY QueueTypes DEF IInv
<1> QED BY <1>1 DEF IInv, CopiesWait

LEMMA CopyBeginClaims ==
    ASSUME IInv, NEW c \in Hosted \X Place, CopyBegin(c)
    PROVE  ClaimsOK'
<1> USE DEF IInv, ClaimsOK
<1>1. /\ sideq # <<>> /\ Head(sideq) = sideq[1] /\ c \in sideq[1].copies /\ Ready(sideq[1])
      /\ slotData' = [slotData EXCEPT ![c[2]] = Torn]
      /\ UNCHANGED <<mainq, table, slotOf, live, updates, sideq, fired>>
  <2>1. sideq # <<>> /\ Head(sideq) = sideq[1]
    BY QueueTypes DEF CopyBegin
  <2> QED BY <2>1 DEF CopyBegin, SideFrame, hostVars, localVars
<1>2. ClaimsHold'
  <2> SUFFICES ASSUME NEW i \in 0 .. Len(mainq), NEW x \in Hosted, NEW p \in Place,
                      Claims(i, x, p)
               PROVE  slotData'[p] = x
    BY <1>1 DEF ClaimsHold, Claims
  <2>1. p # c[2] /\ slotData[p] = x
    <3>1. p # c[2]
      BY <1>1, NoClaimOnCopy
    <3> QED BY <3>1 DEF ClaimsHold
  <2> QED BY <2>1, <1>1 DEF TypeOK
<1>3. WritesOK' /\ StaleRevoked'
  BY <1>1 DEF WritesOK, StaleRevoked, Claims, Revokes
<1>4. CopiesWait'
  BY <1>1, CopiesWaitFrame
<1> QED BY <1>2, <1>3, <1>4

\* The copy that ends belongs to the head of the side stream.
LEMMA CopyEndFacts ==
    ASSUME IInv, CopyEnd
    PROVE  /\ sideq # <<>> /\ copying \in sideq[1].copies /\ Ready(sideq[1])
           /\ 1 \in 1 .. Len(sideq) /\ Len(sideq) \in Nat
           /\ copying[1] \in Hosted /\ copying[2] \in Place
           /\ copying = <<copying[1], copying[2]>> /\ copying[2] = slotOf[copying[1]]
           /\ slotData[copying[2]] = Torn
           /\ slotData' = [slotData EXCEPT ![copying[2]] = copying[1]]
           /\ Len(sideq') = Len(sideq)
           /\ \A n \in 1 .. Len(sideq) : sideq'[n].id = sideq[n].id
           /\ \A n \in 2 .. Len(sideq) : sideq'[n].copies = sideq[n].copies
           /\ sideq'[1].copies = sideq[1].copies \ {copying}
           /\ UNCHANGED <<mainq, table, slotOf, live, updates, fired, pending,
                          promotions, flips>>
<1> USE DEF IInv
<1>1. /\ sideq # <<>> /\ copying \in sideq[1].copies /\ Ready(sideq[1])
      /\ slotData[copying[2]] = Torn
  BY DEF CopyEnd, CopiesOK
<1>2. 1 \in 1 .. Len(sideq) /\ Len(sideq) \in Nat /\ sideq \in Seq(Copying)
  BY <1>1, QueueTypes
<1>3. /\ copying[1] \in Hosted /\ copying[2] \in Place
      /\ copying = <<copying[1], copying[2]>> /\ copying[2] = slotOf[copying[1]]
  BY <1>1, <1>2, CopyPlace
<1>4. /\ slotData' = [slotData EXCEPT ![copying[2]] = copying[1]]
      /\ UNCHANGED <<mainq, table, slotOf, live, updates, fired, pending, promotions, flips>>
  BY DEF CopyEnd, SideFrame, hostVars, localVars
<1>5. /\ Len(sideq') = Len(sideq)
      /\ \A n \in 1 .. Len(sideq) : sideq'[n].id = sideq[n].id
      /\ \A n \in 2 .. Len(sideq) : sideq'[n].copies = sideq[n].copies
      /\ sideq'[1].copies = sideq[1].copies \ {copying}
  <2> DEFINE e == [sideq[1] EXCEPT !.copies = sideq[1].copies \ {copying}]
  <2>1. sideq' = [sideq EXCEPT ![1] = e]
    BY DEF CopyEnd
  <2>2. sideq[1] \in Copying
    BY <1>2
  <2>3. e \in Copying /\ e.id = sideq[1].id /\ e.copies = sideq[1].copies \ {copying}
    BY <2>2 DEF Copying
  <2> HIDE DEF e
  <2>4. /\ Len(sideq') = Len(sideq)
        /\ \A n \in 1 .. Len(sideq) : sideq'[n] = IF n = 1 THEN e ELSE sideq[n]
    BY <2>1, <2>3, <1>2, ExceptSeq
  <2> QED BY <2>3, <2>4, <1>2
<1> QED BY <1>1, <1>2, <1>3, <1>4, <1>5

LEMMA CopyEndClaims ==
    ASSUME IInv, CopyEnd
    PROVE  ClaimsOK'
<1> USE DEF IInv, ClaimsOK
<1>1. UNCHANGED <<mainq, table, slotOf, live, updates, fired>>
  BY CopyEndFacts
<1>2. ClaimsHold'
  <2> SUFFICES ASSUME NEW i \in 0 .. Len(mainq), NEW x \in Hosted, NEW p \in Place,
                      Claims(i, x, p)
               PROVE  slotData'[p] = x
    BY <1>1 DEF ClaimsHold, Claims
  <2>1. slotData' = [slotData EXCEPT ![copying[2]] = copying[1]]
    BY CopyEndFacts
  <2>2. p # copying[2]
    BY CopyEndFacts, NoClaimOnCopy
  <2>3. slotData[p] = x
    BY DEF ClaimsHold
  <2> QED BY <2>1, <2>2, <2>3 DEF TypeOK
<1>3. WritesOK' /\ StaleRevoked'
  BY <1>1 DEF WritesOK, StaleRevoked, Claims, Revokes
<1>4. CopiesWait'
  <2>1. /\ Len(sideq') = Len(sideq)
        /\ \A n \in 1 .. Len(sideq) :
              sideq'[n].id = sideq[n].id /\ sideq'[n].copies \subseteq sideq[n].copies
    <3>1. \A n \in 1 .. Len(sideq) : n = 1 \/ n \in 2 .. Len(sideq)
      BY CopyEndFacts
    <3> QED BY <3>1, CopyEndFacts
  <2> QED BY <2>1, <1>1 DEF CopiesWait, Claims, Revokes, Ready
<1> QED BY <1>2, <1>3, <1>4

LEMMA BatchDoneFacts ==
    ASSUME IInv, BatchDone
    PROVE  /\ 1 \in 1 .. Len(sideq) /\ sideq[1] \in Copying /\ sideq[1].copies = {}
           /\ copying = None
           /\ Len(sideq') = Len(sideq) - 1 /\ Len(sideq) \in Nat
           /\ \A n \in 1 .. Len(sideq') : sideq'[n] = sideq[n + 1] /\ n + 1 \in 1 .. Len(sideq)
           /\ fired' = fired \cup {<<"done", sideq[1].id>>}
           /\ UNCHANGED <<mainq, table, slotOf, slotData, live, updates, pending,
                          promotions, flips, copying>>
<1> USE DEF IInv
<1>1. sideq \in Seq(Copying) /\ sideq # <<>> /\ sideq' = Tail(sideq)
  BY QueueTypes DEF BatchDone
<1>2. /\ 1 \in 1 .. Len(sideq) /\ Head(sideq) = sideq[1] /\ sideq[1] \in Copying
      /\ Len(sideq') = Len(sideq) - 1 /\ Len(sideq) \in Nat
      /\ \A n \in 1 .. Len(sideq') : sideq'[n] = sideq[n + 1] /\ n + 1 \in 1 .. Len(sideq)
  BY <1>1, TailShift
<1>3. sideq[1].copies = {} /\ fired' = fired \cup {<<"done", sideq[1].id>>}
  BY <1>2 DEF BatchDone
<1>4. copying = None
  BY <1>3 DEF CopiesOK
<1>5. UNCHANGED <<mainq, table, slotOf, slotData, live, updates, pending,
                  promotions, flips, copying>>
  BY DEF BatchDone, SideFrame, hostVars, localVars
<1> QED BY <1>2, <1>3, <1>4, <1>5

LEMMA BatchDoneClaims ==
    ASSUME IInv, BatchDone
    PROVE  ClaimsOK'
<1> USE DEF IInv, ClaimsOK
<1>1. UNCHANGED <<mainq, table, slotOf, slotData, live, updates>>
  BY BatchDoneFacts
<1>2. WritesOK' /\ ClaimsHold' /\ StaleRevoked'
  BY <1>1 DEF WritesOK, ClaimsHold, StaleRevoked, Claims, Revokes
<1>3. \A n : <<"ready", n>> \in fired' => <<"ready", n>> \in fired
  BY BatchDoneFacts
<1>4. \A n \in 1 .. Len(sideq') : sideq'[n] = sideq[n + 1] /\ n + 1 \in 1 .. Len(sideq)
  BY BatchDoneFacts
<1>5. CopiesWait'
  <2> SUFFICES ASSUME NEW n \in 1 .. Len(sideq'), NEW c \in sideq'[n].copies,
                      NEW i \in 0 .. Len(mainq), NEW y \in Hosted, Claims(i, y, c[2])
               PROVE  /\ <<"ready", sideq'[n].id>> \notin fired'
                      /\ \A m \in 1 .. Len(mainq) :
                            mainq[m].kind = "ready" /\ mainq[m].id = sideq'[n].id =>
                              \E j \in i + 1 .. m - 1 : Revokes(j, y)
    BY <1>1 DEF CopiesWait, Claims, Revokes, Ready
  <2>1. n + 1 \in 1 .. Len(sideq) /\ sideq'[n] = sideq[n + 1]
    BY <1>4
  <2>2. /\ <<"ready", sideq[n + 1].id>> \notin fired
        /\ \A m \in 1 .. Len(mainq) :
              mainq[m].kind = "ready" /\ mainq[m].id = sideq[n + 1].id =>
                \E j \in i + 1 .. m - 1 : Revokes(j, y)
    BY <2>1 DEF CopiesWait, Ready
  <2> QED BY <2>1, <2>2, <1>3
<1> QED BY <1>2, <1>5

\* Steps that move nothing the claims depend on.
LEMMA QuietClaims ==
    ASSUME ClaimsOK,
           UNCHANGED <<mainq, table, slotOf, slotData, live, updates, sideq, fired>>
    PROVE  ClaimsOK'
BY DEF ClaimsOK, WritesOK, ClaimsHold, StaleRevoked, CopiesWait, Claims, Revokes, Ready

LEMMA FlipDoneClaims ==
    ASSUME IInv, FlipDone
    PROVE  ClaimsOK'
<1> USE DEF IInv
<1>1. UNCHANGED <<table, slotOf, slotData, live, updates, sideq, fired>>
      /\ mainq' = Write(mainq, flips)
  BY DEF FlipDone, hostVars, devVars
<1>2. CASE flips = {}
  BY <1>1, <1>2, QuietClaims DEF ClaimsOK, Write
<1>3. CASE flips # {}
  <2> DEFINE w == Op("write", flips, 0)
  <2>1. w \in MainOp /\ w.kind = "write" /\ w.upd = flips
    BY DEF Op, MainOp, TypeOK
  <2>2. Push(w)
    BY <1>1, <1>3 DEF Write, Push
  <2>3. \A u \in w.upd : u[1] \in live /\ u[2] = slotOf[u[1]] /\ slotData[u[2]] = u[1]
    BY <2>1 DEF LocalsOK, FlipsHold
  <2> HIDE DEF w
  <2> QED BY <2>1, <2>2, <2>3, <1>1, PushOK DEF ClaimsOK
<1> QED BY <1>2, <1>3

\* Launch and step_end enqueue operations that name no address.
LEMMA EnqueueClaims ==
    ASSUME IInv, NEW kind \in {"forward", "ring"}, NEW n \in Nat,
           mainq' = Append(mainq, Op(kind, {}, n)),
           UNCHANGED <<table, slotOf, slotData, live, updates, sideq, fired>>
    PROVE  ClaimsOK'
<1> USE DEF IInv
<1> DEFINE w == Op(kind, {}, n)
<1>1. w \in MainOp /\ w.kind \notin {"write", "ready"} /\ w.upd = {}
  BY DEF Op, MainOp
<1>2. Push(w)
  BY DEF Push
<1> HIDE DEF w
<1> QED BY <1>1, <1>2, PushOK DEF ClaimsOK

\* Executing anything but a write leaves the table as a scatter of nothing does.
LEMMA MainClaims ==
    ASSUME IInv, MainStream
    PROVE  ClaimsOK'
<1> USE DEF IInv
<1>1. mainq # <<>> /\ mainq' = Tail(mainq) /\ Head(mainq) = mainq[1]
      /\ 1 \in 1 .. Len(mainq) /\ mainq[1] \in MainOp
      /\ UNCHANGED <<slotOf, slotData, live, updates, sideq>>
  <2>1. mainq # <<>> /\ mainq' = Tail(mainq)
    BY DEF MainStream, MainWrite, MainReady, MainForward, MainRing, MainHead
  <2>2. UNCHANGED <<slotOf, slotData, live, updates, sideq>>
    BY DEF MainStream, MainWrite, MainReady, MainForward, MainRing, MainFrame,
       hostVars, localVars
  <2> QED BY <2>1, <2>2, QueueTypes, TailShift
<1>2. table' = Scatter(table, mainq[1].upd)
  <2>1. CASE MainWrite
    BY <2>1, <1>1 DEF MainWrite
  <2>2. CASE ~MainWrite
    <3>1. mainq[1].kind # "write" /\ table' = table
      BY <2>2, <1>1 DEF MainStream, MainReady, MainForward, MainRing, MainHead
    <3>2. mainq[1].upd = {}
      BY <3>1, <1>1 DEF WritesOK
    <3> QED BY <3>1, <3>2 DEF Scatter, TypeOK
  <2> QED BY <2>1, <2>2
<1>3. \A e : <<"ready", e>> \in fired' =>
         <<"ready", e>> \in fired \/ (mainq[1].kind = "ready" /\ e = mainq[1].id)
  <2>1. CASE MainReady
    BY <2>1, <1>1 DEF MainReady, MainHead
  <2>2. CASE MainRing
    BY <2>2 DEF MainRing
  <2>3. CASE MainWrite \/ MainForward
    BY <2>3 DEF MainWrite, MainForward
  <2> QED BY <2>1, <2>2, <2>3 DEF MainStream
<1> QED BY <1>1, <1>2, <1>3, PopOK DEF Pop, ClaimsOK

LEMMA ClaimsNext == IInv /\ [Next]_vars => ClaimsOK'
<1> SUFFICES ASSUME IInv, [Next]_vars PROVE ClaimsOK'
  OBVIOUS
<1>0. ClaimsOK
  BY DEF IInv, ClaimsOK
<1>1. CASE Flip
  BY <1>1, FlipClaims
<1>2. CASE FlipDone
  BY <1>2, FlipDoneClaims
<1>3. ASSUME NEW x \in todo, NEW p \in Place, Take(x, p) PROVE ClaimsOK'
  BY <1>3, TakeClaims
<1>4. CASE Promote
  BY <1>4, PromoteClaims DEF ClaimsOK
<1>5. CASE Launch
  BY <1>5, EnqueueClaims DEF Launch, hostVars, devVars
<1>6. CASE StepEndDecodes
  <2>1. step' \in Nat
    BY <1>6 DEF StepEndDecodes, IInv, TypeOK
  <2> QED BY <1>6, <2>1, EnqueueClaims DEF StepEndDecodes, hostVars, devVars
<1>7. CASE MainStream
  BY <1>7, MainClaims
<1>8. ASSUME NEW c \in Hosted \X Place, CopyBegin(c) PROVE ClaimsOK'
  BY <1>8, CopyBeginClaims
<1>9. CASE CopyEnd
  BY <1>9, CopyEndClaims
<1>10. CASE BatchDone
  BY <1>10, BatchDoneClaims
<1>11. CASE StepBegin \/ ReadRouting \/ ReadNothing \/ PlanNothing \/ StepEndPrefill
  BY <1>0, <1>11, QuietClaims DEF StepBegin, ReadRouting, ReadNothing, PlanNothing,
     StepEndPrefill, hostVars, devVars
<1>12. CASE PlanBegin
  <2>1. updates = {}
    BY <1>12 DEF PlanBegin, IInv, LocalsOK
  <2> QED BY <1>0, <1>12, <2>1, QuietClaims DEF PlanBegin, devVars
<1>13. ASSUME NEW x \in todo, Skip(x) PROVE ClaimsOK'
  BY <1>0, <1>13, QuietClaims DEF Skip, hostVars, devVars
<1>14. CASE UNCHANGED vars
  BY <1>0, <1>14, QuietClaims DEF vars, hostVars, localVars, devVars
<1> QED
  BY <1>1, <1>2, <1>3, <1>4, <1>5, <1>6, <1>7, <1>8, <1>9, <1>10, <1>11, <1>12, <1>13,
     <1>14
  DEF Next, Controller, SideStream

(***************************************************************************)
(* The promotions on the two streams and in the host's list.                *)
(***************************************************************************)
LEMMA QuietNumbers ==
    ASSUME NumbersOK,
           UNCHANGED <<pending, promotions, sideq>>,
           \A e \in fired' : e \in fired \/ e[1] = "ring",
           \A i \in 1 .. Len(mainq') : mainq'[i].kind = "ready" =>
               \E j \in 1 .. Len(mainq) : mainq[j].kind = "ready" /\ mainq[j].id = mainq'[i].id
    PROVE  NumbersOK'
<1>1. \A e \in fired' : e[1] \in {"ready", "done"} => e \in fired
  OBVIOUS
<1>2. \A n : <<"done", n>> \in fired' => <<"done", n>> \in fired
  OBVIOUS
<1> QED BY <1>1, <1>2 DEF NumbersOK

LEMMA PromoteNumbers ==
    ASSUME IInv, Promote
    PROVE  NumbersOK'
<1> USE DEF IInv
<1> DEFINE n == Len(sideq) + 1
<1>1. promotions' = promotions + 1 /\ promotions \in Nat /\ fired' = fired
  BY PromoteSide
<1>2. \A i \in 1 .. Len(pending') : pending'[i].id <= promotions'
  <2> SUFFICES ASSUME NEW i \in 1 .. Len(pending') PROVE pending'[i].id <= promotions'
    OBVIOUS
  <2>1. CASE i \in 1 .. Len(pending)
    <3>1. pending'[i] = pending[i] /\ pending[i].id <= promotions /\ pending[i] \in Batch
      BY <2>1, PromoteSide, QueueTypes DEF NumbersOK
    <3> QED BY <3>1, <1>1 DEF Batch
  <2>2. CASE i = Len(pending) + 1
    BY <2>2, <1>1, PromoteSide
  <2> QED BY <2>1, <2>2, PromoteSide
<1>3. ASSUME NEW i \in 1 .. Len(sideq)
      PROVE  /\ sideq'[i].id = sideq[i].id /\ sideq[i].id \in Nat
             /\ sideq[i].id <= promotions
  <2>1. sideq[i] \in Copying /\ sideq'[i] = sideq[i]
    BY PromoteSide, QueueTypes
  <2>2. sideq[i].id <= promotions
    BY DEF NumbersOK
  <2> QED BY <2>1, <2>2 DEF Copying
<1>4. sideq'[n].id = promotions' /\ \A i \in 1 .. Len(sideq') : i \in 1 .. Len(sideq) \/ i = n
  BY PromoteSide
<1>5. \A i \in 1 .. Len(sideq') : sideq'[i].id <= promotions'
  BY <1>1, <1>3, <1>4
<1>6. ASSUME NEW i \in 1 .. Len(sideq'), NEW j \in 1 .. Len(sideq'),
             sideq'[i].id = sideq'[j].id
      PROVE  i = j
  <2>1. CASE i = n \/ j = n
    BY <2>1, <1>6, <1>1, <1>3, <1>4
  <2>2. CASE i \in 1 .. Len(sideq) /\ j \in 1 .. Len(sideq)
    BY <2>2, <1>6, <1>3 DEF NumbersOK
  <2> QED BY <2>1, <2>2, <1>4
<1>7. \A i \in 1 .. Len(sideq') : <<"done", sideq'[i].id>> \notin fired'
  <2>1. <<"done", promotions'>> \notin fired
    BY <1>1 DEF NumbersOK
  <2> QED BY <2>1, <1>1, <1>3, <1>4 DEF NumbersOK
<1>8. \A e \in fired' : e[1] \in {"ready", "done"} => e[2] <= promotions'
  BY <1>1 DEF NumbersOK, TypeOK
<1>9. ASSUME NEW i \in 1 .. Len(mainq'), mainq'[i].kind = "ready"
      PROVE  mainq'[i].id <= promotions'
  <2>1. CASE i \in 1 .. Len(mainq)
    <3>1. mainq'[i] = mainq[i] /\ mainq[i].id <= promotions /\ mainq[i] \in MainOp
      BY <1>9, <2>1, PromoteQueue, QueueTypes DEF NumbersOK
    <3> QED BY <3>1, <1>1 DEF MainOp
  <2>2. CASE i \notin 1 .. Len(mainq)
    <3>1. i = Len(mainq')
      BY <2>2, <1>9, PromoteQueue
    <3> QED BY <3>1, <1>1, PromoteQueue
  <2> QED BY <2>1, <2>2
<1> QED BY <1>2, <1>5, <1>6, <1>7, <1>8, <1>9 DEF NumbersOK

LEMMA NumbersNext == IInv /\ [Next]_vars => NumbersOK'
<1> SUFFICES ASSUME IInv, [Next]_vars PROVE NumbersOK'
  OBVIOUS
<1> USE DEF IInv
<1>1. CASE Flip
  <2>1. \A i \in 1 .. Len(pending') :
           pending'[i] = pending[i + 1] /\ i + 1 \in 1 .. Len(pending)
    BY <1>1, FlipFacts
  <2>2. UNCHANGED <<promotions, sideq, mainq, fired>>
    BY <1>1, FlipFacts
  <2> QED BY <2>1, <2>2 DEF NumbersOK
<1>2. CASE Promote
  BY <1>2, PromoteNumbers
<1>3. CASE BatchDone
  <2>1. /\ \A n \in 1 .. Len(sideq') : sideq'[n] = sideq[n + 1] /\ n + 1 \in 1 .. Len(sideq)
        /\ 1 \in 1 .. Len(sideq) /\ fired' = fired \cup {<<"done", sideq[1].id>>}
        /\ UNCHANGED <<mainq, pending, promotions>>
    BY <1>3, BatchDoneFacts
  <2>2. \A e \in fired' : e[1] \in {"ready", "done"} => e[2] <= promotions
    BY <2>1 DEF NumbersOK
  <2>3. \A i, j \in 1 .. Len(sideq') : sideq'[i].id = sideq'[j].id => i = j
    <3> SUFFICES ASSUME NEW i \in 1 .. Len(sideq'), NEW j \in 1 .. Len(sideq'),
                        sideq'[i].id = sideq'[j].id
                 PROVE  i = j
      OBVIOUS
    <3>1. i + 1 = j + 1
      BY <2>1 DEF NumbersOK
    <3> QED BY <3>1
  <2>4. ASSUME NEW i \in 1 .. Len(sideq') PROVE <<"done", sideq'[i].id>> \notin fired'
    <3>1. i + 1 # 1 /\ i + 1 \in 1 .. Len(sideq) /\ sideq'[i] = sideq[i + 1]
      BY <2>1
    <3>2. sideq[i + 1].id # sideq[1].id /\ <<"done", sideq[i + 1].id>> \notin fired
      BY <3>1, <2>1 DEF NumbersOK
    <3> QED BY <3>1, <3>2, <2>1
  <2>5. \A i \in 1 .. Len(sideq') : sideq'[i].id <= promotions
    BY <2>1 DEF NumbersOK
  <2> QED BY <2>1, <2>2, <2>3, <2>4, <2>5 DEF NumbersOK
<1>4. CASE CopyEnd
  <2>1. /\ Len(sideq') = Len(sideq) /\ \A n \in 1 .. Len(sideq) : sideq'[n].id = sideq[n].id
        /\ UNCHANGED <<mainq, pending, promotions, fired>>
    BY <1>4, CopyEndFacts
  <2> QED BY <2>1 DEF NumbersOK
<1>5. CASE MainReady
  <2>1. /\ 1 \in 1 .. Len(mainq) /\ mainq[1].kind = "ready"
        /\ fired' = fired \cup {<<"ready", mainq[1].id>>}
        /\ \A i \in 1 .. Len(mainq') : mainq'[i] = mainq[i + 1] /\ i + 1 \in 1 .. Len(mainq)
    BY <1>5, QueueTypes, TailShift DEF MainReady, MainHead
  <2>2. UNCHANGED <<pending, promotions, sideq>>
    BY <1>5 DEF MainReady, MainFrame, hostVars
  <2> QED BY <2>1, <2>2 DEF NumbersOK
<1>6. CASE MainWrite \/ MainForward \/ MainRing
  <2>1. mainq # <<>> /\ mainq' = Tail(mainq)
    BY <1>6 DEF MainWrite, MainForward, MainRing, MainHead
  <2>2. \A i \in 1 .. Len(mainq') : mainq'[i] = mainq[i + 1] /\ i + 1 \in 1 .. Len(mainq)
    BY <2>1, QueueTypes, TailShift
  <2>3. \A e \in fired' : e \in fired \/ e[1] = "ring"
    BY <1>6 DEF MainWrite, MainForward, MainRing
  <2>4. UNCHANGED <<pending, promotions, sideq>>
    BY <1>6 DEF MainWrite, MainForward, MainRing, MainFrame, hostVars
  <2> QED BY <2>2, <2>3, <2>4, QuietNumbers
<1>7. ASSUME NEW op \in MainOp, op.kind # "ready", mainq' = Append(mainq, op),
             UNCHANGED <<pending, promotions, sideq, fired>>
      PROVE  NumbersOK'
  <2>1. /\ Len(mainq') = Len(mainq) + 1 /\ mainq'[Len(mainq) + 1] = op /\ Len(mainq) \in Nat
        /\ \A i \in 1 .. Len(mainq) : mainq'[i] = mainq[i]
    BY <1>7, QueueTypes, AppendEnd
  <2>2. \A i \in 1 .. Len(mainq') : mainq'[i].kind = "ready" => i \in 1 .. Len(mainq)
    BY <1>7, <2>1
  <2> QED BY <1>7, <2>1, <2>2, QuietNumbers
<1>8. CASE FlipDone
  <2>1. mainq' = Write(mainq, flips) /\ UNCHANGED <<pending, promotions, sideq, fired>>
    BY <1>8 DEF FlipDone, hostVars, devVars
  <2>2. Op("write", flips, 0) \in MainOp /\ Op("write", flips, 0).kind # "ready"
    BY DEF Op, MainOp, TypeOK
  <2>3. mainq' = mainq \/ mainq' = Append(mainq, Op("write", flips, 0))
    BY <2>1 DEF Write
  <2>4. CASE mainq' = mainq
    BY <2>1, <2>4, QuietNumbers
  <2> QED BY <2>1, <2>2, <2>3, <2>4, <1>7
<1>9. CASE Launch
  <2>1. Op("forward", {}, 0) \in MainOp /\ Op("forward", {}, 0).kind # "ready"
    BY DEF Op, MainOp
  <2> QED BY <1>9, <2>1, <1>7 DEF Launch, hostVars, devVars
<1>10. CASE StepEndDecodes
  <2>1. step' \in Nat
    BY <1>10 DEF StepEndDecodes, TypeOK
  <2>2. Op("ring", {}, step') \in MainOp /\ Op("ring", {}, step').kind # "ready"
    BY <2>1 DEF Op, MainOp
  <2> QED BY <1>10, <2>2, <1>7 DEF StepEndDecodes, hostVars, devVars
<1>11. ASSUME NEW x \in todo, NEW p \in Place, Take(x, p) PROVE NumbersOK'
  <2>1. UNCHANGED <<pending, promotions, sideq, fired, mainq>>
    BY <1>11, TakeFacts
  <2> QED BY <2>1, QuietNumbers
<1>12. ASSUME UNCHANGED <<pending, promotions, sideq, fired, mainq>> PROVE NumbersOK'
  BY <1>12, QuietNumbers
<1>13. CASE StepBegin \/ ReadRouting \/ ReadNothing \/ PlanBegin \/ PlanNothing \/ StepEndPrefill
  BY <1>12, <1>13 DEF StepBegin, ReadRouting, ReadNothing, PlanBegin, PlanNothing,
     StepEndPrefill, hostVars, devVars
<1>14. ASSUME NEW x \in todo, Skip(x) PROVE NumbersOK'
  BY <1>12, <1>14 DEF Skip, hostVars, devVars
<1>15. ASSUME NEW c \in Hosted \X Place, CopyBegin(c) PROVE NumbersOK'
  BY <1>12, <1>15 DEF CopyBegin, SideFrame, hostVars
<1>16. CASE UNCHANGED vars
  BY <1>12, <1>16 DEF vars, hostVars, devVars
<1> QED
  BY <1>1, <1>2, <1>3, <1>4, <1>5, <1>6, <1>8, <1>9, <1>10, <1>11, <1>13, <1>14, <1>15,
     <1>16
  DEF Next, Controller, MainStream, SideStream

(***************************************************************************)
(* What is still to be copied is in flight and listed, and what is listed   *)
(* is copied or still to be.                                                *)
(***************************************************************************)
CopyListed(c, id) ==
    /\ c[1] \notin live /\ c[2] = slotOf[c[1]] /\ c[2] # Host
    /\ \E j \in 1 .. Len(pending) : pending[j].id = id /\ c[1] \in pending[j].experts

ListedComes(x, id) ==
    \/ slotData[slotOf[x]] = x
    \/ \E i \in 1 .. Len(sideq) : sideq[i].id = id /\ <<x, slotOf[x]>> \in sideq[i].copies

UnderWay ==
    copying # None =>
        sideq # <<>> /\ copying \in sideq[1].copies /\ Ready(sideq[1])
        /\ slotData[copying[2]] = Torn

LEMMA CopiesParts ==
    CopiesOK <=>
        /\ \A i \in 1 .. Len(sideq) : \A c \in sideq[i].copies : CopyListed(c, sideq[i].id)
        /\ \A j \in 1 .. Len(pending) : \A x \in pending[j].experts : ListedComes(x, pending[j].id)
        /\ UnderWay
BY DEF CopiesOK, CopyListed, ListedComes, UnderWay

LEMMA CopiesParts2 ==
    CopiesOK' <=>
        /\ \A i \in 1 .. Len(sideq') : \A c \in sideq'[i].copies : CopyListed(c, sideq[i].id)'
        /\ \A j \in 1 .. Len(pending') : \A x \in pending'[j].experts : ListedComes(x, pending[j].id)'
        /\ UnderWay'
BY DEF CopiesOK, CopyListed, ListedComes, UnderWay

\* A listed expert, and the expert of a copy, is in flight.
LEMMA ListedInFlight ==
    ASSUME IInv, NEW j \in 1 .. Len(pending), NEW x \in pending[j].experts
    PROVE  /\ x \in Hosted /\ InFlight(x) /\ ListedComes(x, pending[j].id)
           /\ slotOf[x] \in Place /\ owner[slotOf[x]] = x
<1>1. pending[j] \in Batch
  BY QueueTypes DEF IInv
<1>2. x \in Hosted /\ InFlight(x)
  BY <1>1 DEF Batch, IInv, NoSlotLost
<1>3. slotOf[x] \in Place /\ owner[slotOf[x]] = x
  BY <1>2 DEF IInv, TypeOK, Addr, OneOwner, InFlight
<1> QED BY <1>2, <1>3, CopiesParts DEF IInv

LEMMA QuietCopies ==
    ASSUME CopiesOK, FlipsHold, fired \subseteq fired', flips' \subseteq flips,
           UNCHANGED <<sideq, pending, copying, slotData, live, slotOf>>
    PROVE  CopiesOK' /\ FlipsHold'
<1>1. FlipsHold'
  BY DEF FlipsHold
<1>2. CopiesOK'
  BY DEF CopiesOK, Ready
<1> QED BY <1>1, <1>2

LEMMA FlipCopies ==
    ASSUME IInv, Flip
    PROVE  CopiesOK' /\ FlipsHold'
<1> USE DEF IInv
<1>1. UNCHANGED <<slotOf, sideq, fired, slotData, copying>>
      /\ live' = live \cup pending[1].experts
  BY FlipFacts
<1>2. \A i \in 1 .. Len(pending') :
         pending'[i] = pending[i + 1] /\ i + 1 \in 1 .. Len(pending)
  BY FlipFacts
<1>3. ASSUME NEW i \in 1 .. Len(sideq), NEW c \in sideq[i].copies
      PROVE  CopyListed(c, sideq[i].id)'
  <2>1. CopyListed(c, sideq[i].id)
    BY CopiesParts
  <2>2. PICK j \in 1 .. Len(pending) : pending[j].id = sideq[i].id /\ c[1] \in pending[j].experts
    BY <2>1 DEF CopyListed
  <2>3. j # 1
    BY <2>2, FlipFacts
  <2>4. j \in 2 .. Len(pending) /\ j - 1 \in 1 .. Len(pending')
    BY <2>2, <2>3, FlipFacts
  <2>5. c[1] \notin pending[1].experts
    BY <2>2, <2>4, FlipFacts
  <2>6. pending'[j - 1] = pending[j]
    BY <2>4, <1>2
  <2> QED BY <2>1, <2>2, <2>4, <2>5, <2>6, <1>1 DEF CopyListed
<1>4. ASSUME NEW j \in 1 .. Len(pending'), NEW x \in pending'[j].experts
      PROVE  ListedComes(x, pending[j].id)'
  <2>1. ListedComes(x, pending'[j].id)
    BY <1>2, CopiesParts
  <2> QED BY <2>1, <1>1 DEF ListedComes
<1>5. UnderWay'
  <2>1. UnderWay
    BY CopiesParts
  <2> QED BY <2>1, <1>1 DEF UnderWay, Ready
<1>6. FlipsHold'
  BY FlipFacts DEF FlipsHold
<1> QED BY <1>1, <1>3, <1>4, <1>5, <1>6, CopiesParts2

LEMMA TakeCopies ==
    ASSUME IInv, NEW x \in todo, NEW p \in Place, Take(x, p)
    PROVE  CopiesOK' /\ FlipsHold'
<1> USE DEF IInv
<1>1. /\ live' \subseteq live /\ flips' = {}
      /\ UNCHANGED <<slotData, sideq, fired, pending, copying>>
  BY TakeFacts
<1>2. ASSUME NEW j \in 1 .. Len(pending), NEW y \in pending[j].experts
      PROVE  slotOf'[y] = slotOf[y] /\ ListedComes(y, pending[j].id)
  BY ListedInFlight, TakeFacts
<1>3. ASSUME NEW i \in 1 .. Len(sideq), NEW c \in sideq[i].copies
      PROVE  CopyListed(c, sideq[i].id)'
  <2>1. CopyListed(c, sideq[i].id)
    BY CopiesParts
  <2>2. slotOf'[c[1]] = slotOf[c[1]]
    BY <2>1, <1>2 DEF CopyListed
  <2> QED BY <2>1, <2>2, <1>1 DEF CopyListed
<1>4. ASSUME NEW j \in 1 .. Len(pending), NEW y \in pending[j].experts
      PROVE  ListedComes(y, pending[j].id)'
  <2>1. slotOf'[y] = slotOf[y] /\ ListedComes(y, pending[j].id)
    BY <1>2
  <2>2. UNCHANGED <<slotData, sideq, pending>>
    BY <1>1
  <2> QED BY <2>1, <2>2 DEF ListedComes
<1>5. UnderWay'
  <2>1. UnderWay
    BY CopiesParts
  <2> QED BY <2>1, <1>1 DEF UnderWay, Ready
<1>6. FlipsHold'
  BY <1>1 DEF FlipsHold
<1> QED BY <1>1, <1>3, <1>4, <1>5, <1>6, CopiesParts2

LEMMA PromoteCopies ==
    ASSUME IInv, Promote
    PROVE  CopiesOK' /\ FlipsHold'
<1> USE DEF IInv
<1> DEFINE n == Len(sideq) + 1
           m == Len(pending) + 1
<1>1. UNCHANGED <<slotData, live, slotOf, fired, copying>> /\ flips' = flips
  BY PromoteSide DEF Promote
<1>2. /\ \A i \in 1 .. Len(sideq) : sideq'[i] = sideq[i] /\ i \in 1 .. Len(sideq')
      /\ n \in 1 .. Len(sideq') /\ sideq'[n].id = promotions'
      /\ sideq'[n].copies = {<<x, slotOf[x]>> : x \in issued}
      /\ \A i \in 1 .. Len(sideq') : i \in 1 .. Len(sideq) \/ i = n
  BY PromoteSide
<1>3. /\ \A j \in 1 .. Len(pending) : pending'[j] = pending[j] /\ j \in 1 .. Len(pending')
      /\ m \in 1 .. Len(pending') /\ pending'[m].id = promotions'
      /\ pending'[m].experts = issued
      /\ \A j \in 1 .. Len(pending') : j \in 1 .. Len(pending) \/ j = m
  BY PromoteSide
<1>4. ASSUME NEW i \in 1 .. Len(sideq'), NEW c \in sideq'[i].copies
      PROVE  CopyListed(c, sideq[i].id)'
  <2>1. CASE i \in 1 .. Len(sideq)
    <3>1. sideq'[i] = sideq[i] /\ CopyListed(c, sideq[i].id)
      BY <2>1, <1>2, CopiesParts
    <3> QED BY <3>1, <1>1, <1>3 DEF CopyListed
  <2>2. CASE i = n
    <3>1. PICK x \in issued : c = <<x, slotOf[x]>>
      BY <2>2, <1>2
    <3>2. c[1] = x /\ c[2] = slotOf[x] /\ x \notin live /\ slotOf[x] # Host
      BY <3>1 DEF TypeOK, NoSlotLost, InFlight
    <3> QED BY <2>2, <3>1, <3>2, <1>1, <1>2, <1>3 DEF CopyListed
  <2> QED BY <2>1, <2>2, <1>2
<1>5. ASSUME NEW j \in 1 .. Len(pending'), NEW x \in pending'[j].experts
      PROVE  ListedComes(x, pending[j].id)'
  <2>1. CASE j \in 1 .. Len(pending)
    <3>1. pending'[j] = pending[j] /\ ListedComes(x, pending[j].id)
      BY <2>1, <1>3, CopiesParts
    <3> QED BY <3>1, <1>1, <1>2 DEF ListedComes
  <2>2. CASE j = m
    BY <2>2, <1>1, <1>2, <1>3 DEF ListedComes
  <2> QED BY <2>1, <2>2, <1>3
<1>6. UnderWay'
  <2>1. UnderWay
    BY CopiesParts
  <2>2. sideq # <<>> => sideq' # <<>> /\ sideq'[1] = sideq[1]
    <3>1. sideq # <<>> => 1 \in 1 .. Len(sideq)
      BY QueueTypes
    <3>2. sideq' # <<>>
      BY PromoteSide
    <3> QED BY <3>1, <3>2, <1>2
  <2> QED BY <2>1, <2>2, <1>1 DEF UnderWay, Ready
<1>7. FlipsHold'
  BY <1>1 DEF FlipsHold
<1> QED BY <1>4, <1>5, <1>6, <1>7, CopiesParts2

LEMMA CopyBeginCopies ==
    ASSUME IInv, NEW c \in Hosted \X Place, CopyBegin(c)
    PROVE  CopiesOK' /\ FlipsHold'
<1> USE DEF IInv
<1>1. /\ sideq # <<>> /\ c \in sideq[1].copies /\ Ready(sideq[1]) /\ copying' = c
      /\ 1 \in 1 .. Len(sideq)
      /\ slotData' = [slotData EXCEPT ![c[2]] = Torn]
      /\ UNCHANGED <<slotOf, live, sideq, fired, pending, flips>>
  <2>1. sideq # <<>> /\ Head(sideq) = sideq[1] /\ 1 \in 1 .. Len(sideq)
    BY QueueTypes DEF CopyBegin
  <2> QED BY <2>1 DEF CopyBegin, SideFrame, hostVars, localVars
<1>2. CopyListed(c, sideq[1].id) /\ c[1] \in Hosted /\ c[2] \in Place /\ c = <<c[1], c[2]>>
  BY <1>1, CopiesParts
<1>3. \A p \in Place : slotData'[p] = IF p = c[2] THEN Torn ELSE slotData[p]
  BY <1>1, <1>2 DEF TypeOK
<1>4. \A i \in 1 .. Len(sideq) : \A d \in sideq[i].copies : CopyListed(d, sideq[i].id)'
  BY <1>1, CopiesParts DEF CopyListed
<1>5. ASSUME NEW j \in 1 .. Len(pending), NEW x \in pending[j].experts
      PROVE  ListedComes(x, pending[j].id)'
  <2>1. x \in Hosted /\ slotOf[x] \in Place /\ owner[slotOf[x]] = x
        /\ ListedComes(x, pending[j].id)
    BY ListedInFlight
  <2>2. CASE slotOf[x] # c[2]
    BY <2>1, <2>2, <1>1, <1>3 DEF ListedComes
  <2>3. CASE slotOf[x] = c[2]
    <3>1. slotOf[c[1]] = c[2] /\ owner[c[2]] = c[1]
      BY <1>2, PlaceNotHost DEF CopyListed, OneOwner
    <3>2. x = c[1]
      BY <3>1, <2>1, <2>3
    <3>3. PICK k \in 1 .. Len(pending) : pending[k].id = sideq[1].id /\ x \in pending[k].experts
      BY <1>2, <3>2 DEF CopyListed
    <3>4. k = j
      BY <2>1, <3>3 DEF NoSlotLost
    <3>5. sideq[1].id = pending[j].id /\ <<x, slotOf[x]>> \in sideq[1].copies
      BY <3>2, <3>3, <3>4, <2>3, <1>1, <1>2
    <3> QED BY <3>5, <1>1 DEF ListedComes
  <2> QED BY <2>2, <2>3
<1>6. UnderWay'
  BY <1>1, <1>2, <1>3 DEF UnderWay, Ready
<1>7. FlipsHold'
  <2> SUFFICES ASSUME NEW u \in flips PROVE slotData'[u[2]] = u[1]
    BY <1>1 DEF FlipsHold
  <2>1. u[1] \in live /\ u[2] = slotOf[u[1]] /\ slotData[u[2]] = u[1] /\ u[1] \in Hosted
    BY DEF LocalsOK, FlipsHold, TypeOK
  <2>2. u[2] \in Place /\ owner[u[2]] = u[1]
    BY <2>1 DEF OneOwner, TypeOK, Addr
  <2>3. owner[c[2]] = c[1] /\ c[1] \notin live
    BY <1>2, PlaceNotHost DEF CopyListed, OneOwner
  <2> QED BY <2>1, <2>2, <2>3, <1>3
<1> QED BY <1>1, <1>4, <1>5, <1>6, <1>7, CopiesParts2

LEMMA CopyEndCopies ==
    ASSUME IInv, CopyEnd
    PROVE  CopiesOK' /\ FlipsHold'
<1> USE DEF IInv
<1>1. UNCHANGED <<slotOf, live, pending, flips>> /\ copying' = None
  BY CopyEndFacts DEF CopyEnd
<1>2. \A p \in Place : slotData'[p] = IF p = copying[2] THEN copying[1] ELSE slotData[p]
  BY CopyEndFacts DEF TypeOK
<1>3. /\ Len(sideq') = Len(sideq)
      /\ \A i \in 1 .. Len(sideq) :
            /\ sideq'[i].id = sideq[i].id
            /\ sideq'[i].copies \subseteq sideq[i].copies
            /\ sideq[i].copies \ {copying} \subseteq sideq'[i].copies
  <2>1. \A n \in 1 .. Len(sideq) : n = 1 \/ n \in 2 .. Len(sideq)
    BY CopyEndFacts
  <2> QED BY <2>1, CopyEndFacts
<1>c. copying[1] \in Hosted /\ copying[2] \in Place /\ copying[2] = slotOf[copying[1]]
      /\ copying = <<copying[1], copying[2]>> /\ owner[copying[2]] = copying[1]
      /\ copying[1] \notin live
  <2>1. copying[1] \in Hosted /\ copying[2] \in Place /\ copying[2] = slotOf[copying[1]]
        /\ copying = <<copying[1], copying[2]>> /\ 1 \in 1 .. Len(sideq)
        /\ copying \in sideq[1].copies
    BY CopyEndFacts
  <2>2. CopyListed(copying, sideq[1].id)
    BY <2>1, CopiesParts
  <2> QED BY <2>1, <2>2, PlaceNotHost DEF OneOwner, CopyListed
<1>4. ASSUME NEW i \in 1 .. Len(sideq), NEW d \in sideq'[i].copies
      PROVE  CopyListed(d, sideq[i].id)'
  <2>1. CopyListed(d, sideq[i].id) /\ sideq'[i].id = sideq[i].id
    BY <1>3, CopiesParts
  <2> QED BY <2>1, <1>1 DEF CopyListed
<1>5. ASSUME NEW j \in 1 .. Len(pending), NEW x \in pending[j].experts
      PROVE  ListedComes(x, pending[j].id)'
  <2>1. x \in Hosted /\ slotOf[x] \in Place /\ owner[slotOf[x]] = x
        /\ ListedComes(x, pending[j].id)
    BY ListedInFlight
  <2>2. CASE slotOf[x] = copying[2]
    <3>1. slotData'[slotOf[x]] = x
      BY <2>1, <2>2, <1>2, <1>c
    <3> QED BY <3>1, <1>1 DEF ListedComes
  <2>3. CASE slotOf[x] # copying[2]
    <3>1. <<x, slotOf[x]>> # copying
      BY <2>3
    <3> QED BY <2>1, <2>3, <3>1, <1>1, <1>2, <1>3 DEF ListedComes
  <2> QED BY <2>2, <2>3
<1>6. UnderWay'
  BY <1>1 DEF UnderWay
<1>7. FlipsHold'
  <2> SUFFICES ASSUME NEW u \in flips PROVE slotData'[u[2]] = u[1]
    BY <1>1 DEF FlipsHold
  <2>1. u[1] \in live /\ u[2] = slotOf[u[1]] /\ slotData[u[2]] = u[1] /\ u[1] \in Hosted
    BY DEF LocalsOK, FlipsHold, TypeOK
  <2>2. u[2] \in Place /\ owner[u[2]] = u[1]
    BY <2>1 DEF OneOwner, TypeOK, Addr
  <2> QED BY <2>1, <2>2, <1>c, <1>2
<1> QED BY <1>1, <1>3, <1>4, <1>5, <1>6, <1>7, CopiesParts2

LEMMA BatchDoneCopies ==
    ASSUME IInv, BatchDone
    PROVE  CopiesOK' /\ FlipsHold'
<1> USE DEF IInv
<1>1. UNCHANGED <<slotOf, slotData, live, pending, flips, copying>> /\ copying = None
      /\ sideq[1].copies = {}
  BY BatchDoneFacts
<1>2. \A n \in 1 .. Len(sideq') : sideq'[n] = sideq[n + 1] /\ n + 1 \in 1 .. Len(sideq)
  BY BatchDoneFacts
<1>3. \A n \in 1 .. Len(sideq) : n # 1 => n - 1 \in 1 .. Len(sideq') /\ sideq'[n - 1] = sideq[n]
  <2> SUFFICES ASSUME NEW n \in 1 .. Len(sideq), n # 1
               PROVE  n - 1 \in 1 .. Len(sideq') /\ sideq'[n - 1] = sideq[n]
    OBVIOUS
  <2>1. n - 1 \in 1 .. Len(sideq') /\ (n - 1) + 1 = n
    BY BatchDoneFacts
  <2> QED BY <2>1, <1>2
<1>4. ASSUME NEW i \in 1 .. Len(sideq'), NEW d \in sideq'[i].copies
      PROVE  CopyListed(d, sideq[i].id)'
  <2>1. CopyListed(d, sideq'[i].id)
    BY <1>2, CopiesParts
  <2> QED BY <2>1, <1>1 DEF CopyListed
<1>5. ASSUME NEW j \in 1 .. Len(pending), NEW x \in pending[j].experts
      PROVE  ListedComes(x, pending[j].id)'
  <2>1. ListedComes(x, pending[j].id)
    BY CopiesParts
  <2>2. CASE slotData[slotOf[x]] = x
    BY <2>2, <1>1 DEF ListedComes
  <2>3. CASE slotData[slotOf[x]] # x
    <3>1. PICK i \in 1 .. Len(sideq) :
             sideq[i].id = pending[j].id /\ <<x, slotOf[x]>> \in sideq[i].copies
      BY <2>1, <2>3 DEF ListedComes
    <3>2. i # 1
      BY <3>1, <1>1
    <3> QED BY <3>1, <3>2, <1>1, <1>3 DEF ListedComes
  <2> QED BY <2>2, <2>3
<1>6. UnderWay' /\ FlipsHold'
  BY <1>1 DEF UnderWay, FlipsHold
<1> QED BY <1>1, <1>4, <1>5, <1>6, CopiesParts2

LEMMA CopiesNext == IInv /\ [Next]_vars => CopiesOK' /\ FlipsHold'
<1> SUFFICES ASSUME IInv, [Next]_vars PROVE CopiesOK' /\ FlipsHold'
  OBVIOUS
<1>0. ASSUME fired \subseteq fired', flips' \subseteq flips,
             UNCHANGED <<sideq, pending, copying, slotData, live, slotOf>>
      PROVE  CopiesOK' /\ FlipsHold'
  BY <1>0, QuietCopies DEF IInv
<1>1. CASE Flip
  BY <1>1, FlipCopies
<1>2. ASSUME NEW x \in todo, NEW p \in Place, Take(x, p) PROVE CopiesOK' /\ FlipsHold'
  BY <1>2, TakeCopies
<1>3. CASE Promote
  BY <1>3, PromoteCopies
<1>4. ASSUME NEW c \in Hosted \X Place, CopyBegin(c) PROVE CopiesOK' /\ FlipsHold'
  BY <1>4, CopyBeginCopies
<1>5. CASE CopyEnd
  BY <1>5, CopyEndCopies
<1>6. CASE BatchDone
  BY <1>6, BatchDoneCopies
<1>7. CASE StepBegin \/ FlipDone \/ ReadRouting \/ ReadNothing \/ PlanBegin
  BY <1>0, <1>7 DEF StepBegin, FlipDone, ReadRouting, ReadNothing, PlanBegin, hostVars,
     devVars
<1>8. CASE PlanNothing \/ Launch \/ StepEndDecodes \/ StepEndPrefill
  BY <1>0, <1>8 DEF PlanNothing, Launch, StepEndDecodes, StepEndPrefill, hostVars, devVars
<1>9. ASSUME NEW x \in todo, Skip(x) PROVE CopiesOK' /\ FlipsHold'
  BY <1>0, <1>9 DEF Skip, hostVars, devVars
<1>10. CASE MainStream
  BY <1>0, <1>10 DEF MainStream, MainWrite, MainReady, MainForward, MainRing, MainFrame,
     hostVars, localVars
<1>11. CASE UNCHANGED vars
  BY <1>0, <1>11 DEF vars, hostVars, localVars, devVars
<1> QED
  BY <1>1, <1>2, <1>3, <1>4, <1>5, <1>6, <1>7, <1>8, <1>9, <1>10, <1>11
  DEF Next, Controller, SideStream

(***************************************************************************)
(* The invariant.                                                           *)
(***************************************************************************)
LEMMA IInvInit == Init => IInv
<1> SUFFICES ASSUME Init PROVE IInv
  OBVIOUS
<1>1. TypeOK /\ OneOwner /\ NoSlotLost /\ LocalsOK
  BY TypeInit, HostInit DEF HostOK
<1>2. mainq = <<>> /\ sideq = <<>> /\ pending = <<>> /\ fired = {} /\ flips = {}
      /\ updates = {} /\ copying = None
  BY DEF Init
<1>3. NumbersOK /\ CopiesOK /\ WritesOK /\ FlipsHold /\ CopiesWait
  BY <1>2 DEF NumbersOK, CopiesOK, WritesOK, FlipsHold, CopiesWait
<1>4. ASSUME NEW i \in 0 .. Len(mainq), NEW x \in Hosted, NEW p \in Place, Claims(i, x, p)
      PROVE  slotData[p] = x /\ x \in live /\ slotOf[x] = p
  <2>1. FillSlot(x) = p
    BY <1>4, <1>2 DEF Claims, Init
  <2>2. FillOwner(p, Torn) = x
    BY <2>1, FillOwnerOf
  <2> QED BY <2>1, <2>2, PlaceNotHost DEF Init
<1>5. ClaimsHold /\ StaleRevoked
  BY <1>4 DEF ClaimsHold, StaleRevoked
<1> QED BY <1>1, <1>3, <1>5 DEF IInv

LEMMA IInvNext == IInv /\ [Next]_vars => IInv'
BY TypeNext, HostNext, NumbersNext, CopiesNext, ClaimsNext DEF IInv, HostOK, ClaimsOK

LEMMA IInvSound == IInv => TableSound
<1> SUFFICES ASSUME IInv, NEW x \in Hosted, table[x] # Host PROVE slotData[table[x]] = x
  BY DEF TableSound
<1>1. table[x] \in Place /\ Claims(0, x, table[x]) /\ 0 \in 0 .. Len(mainq)
  BY QueueTypes DEF IInv, TypeOK, Addr, Claims
<1> QED BY <1>1 DEF IInv, ClaimsHold

(* Whatever the two streams have executed of what the CPU enqueued, the     *)
(* address the kernel reads an expert at holds that expert, whole.          *)
THEOREM TableAlwaysSound == Spec => []TableSound
<1>1. Init => IInv
  BY IInvInit
<1>2. IInv /\ [Next]_vars => IInv'
  BY IInvNext
<1>3. IInv => TableSound
  BY IInvSound
<1> QED BY <1>1, <1>2, <1>3, PTL DEF Spec

(***************************************************************************)
(* The device implements SlotMemory.                                        *)
(***************************************************************************)
LEMMA MemoryInit == Init => Memory!Init
<1> SUFFICES ASSUME Init PROVE Memory!Init
  OBVIOUS
<1>1. TypeOK /\ TableSound
  BY IInvInit, IInvSound DEF IInv
<1> QED BY <1>1 DEF Memory!Init, TypeOK, TableSound, Addr

LEMMA MemoryNext == IInv /\ IInv' /\ [Next]_vars => [Memory!Next]_(Memory!vars)
<1> SUFFICES ASSUME IInv, IInv', [Next]_vars PROVE [Memory!Next]_(Memory!vars)
  OBVIOUS
<1> USE DEF Memory!vars
<1>1. CASE MainWrite
  <2>1. slotData' = slotData
    BY <1>1 DEF MainWrite, MainFrame
  <2>2. table' \in [Hosted -> Place \cup {Host}]
    BY DEF IInv, TypeOK, Addr
  <2>3. ASSUME NEW x \in Hosted, table'[x] \in Place PROVE slotData[table'[x]] = x
    <3>1. TableSound'
      BY IInvSound, PTL
    <3> QED BY <2>1, <2>3, <3>1, PlaceNotHost DEF TableSound
  <2> QED BY <2>1, <2>2, <2>3 DEF Memory!Next, Memory!Repoint
<1>2. ASSUME NEW c \in Hosted \X Place, CopyBegin(c) PROVE [Memory!Next]_(Memory!vars)
  <2>1. sideq # <<>> /\ c \in sideq[1].copies /\ Ready(sideq[1])
    BY <1>2, QueueTypes DEF CopyBegin, IInv
  <2>2. \A y \in Hosted : table[y] # c[2]
    <3>1. 0 \in 0 .. Len(mainq)
      BY QueueTypes DEF IInv
    <3> QED BY <2>1, <3>1, NoClaimOnCopy DEF Claims
  <2> QED BY <1>2, <2>2 DEF CopyBegin, SideFrame, Memory!Next, Memory!BeginLoad
<1>3. CASE CopyEnd
  <2>1. copying[1] \in Hosted /\ copying[2] \in Place /\ slotData[copying[2]] = Torn
        /\ slotData' = [slotData EXCEPT ![copying[2]] = copying[1]] /\ table' = table
    BY <1>3, CopyEndFacts
  <2> QED BY <2>1 DEF Memory!Next, Memory!EndLoad
<1>4. CASE Controller
  <2>1. UNCHANGED <<table, slotData>>
    BY <1>4 DEF Controller, StepBegin, Flip, FlipDone, ReadRouting, ReadNothing, PlanBegin,
       Skip, Take, Promote, PlanNothing, Launch, StepEndDecodes, StepEndPrefill, devVars
  <2> QED BY <2>1
<1>5. CASE MainReady \/ MainForward \/ MainRing \/ BatchDone \/ UNCHANGED vars
  <2>1. UNCHANGED <<table, slotData>>
    BY <1>5 DEF MainReady, MainForward, MainRing, BatchDone, MainFrame, SideFrame, vars,
       devVars
  <2> QED BY <2>1
<1> QED BY <1>1, <1>2, <1>3, <1>4, <1>5 DEF Next, MainStream, SideStream

(* Every step of the controller and of the two streams is, seen from the    *)
(* table and the slots, a step SlotMemory allows: a slot is loaded only     *)
(* while nothing reads it, and read only once it is loaded.                 *)
THEOREM ImplementsMemory == Spec => MemorySpec
<1>1. Init => IInv /\ Memory!Init
  BY IInvInit, MemoryInit
<1>2. IInv /\ [Next]_vars => IInv'
  BY IInvNext
<1>3. IInv /\ IInv' /\ [Next]_vars => [Memory!Next]_(Memory!vars)
  BY MemoryNext
<1> QED BY <1>1, <1>2, <1>3, PTL DEF Spec, MemorySpec, Memory!Spec
=============================================================================
