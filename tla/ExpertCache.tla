---------------------------- MODULE ExpertCache ----------------------------
(***************************************************************************)
(* The VRAM cache of offloaded routed experts (expert_cache.ExpertCache).   *)
(*                                                                          *)
(* The CPU's controller runs around each forward of the model runner and    *)
(* only ENQUEUES work; two CUDA streams carry it out, in order, later.  The *)
(* main stream executes table writes, forwards and routing copies, the side *)
(* stream promotion copies, and CUDA events order the one after the other.  *)
(* The host's view of the slots (owner, slotOf, live) therefore runs ahead  *)
(* of the device's (table, slotData).                                       *)
(*                                                                          *)
(* An expert's three projections have their table entries written together  *)
(* and their rows copied together, so one entry stands for them.            *)
(***************************************************************************)
EXTENDS Integers, Sequences, FiniteSets

CONSTANTS
    NumLayers,    \* layers that have offloaded experts
    NumExperts,   \* experts per layer
    Hosted,       \* the offloaded experts, as <<layer, expert>>
    Slots,        \* VRAM slots wanted per layer
    Budget,       \* promotions per step, over all layers
    Ring,         \* entries of the pinned routing ring (_RING)
    Ahead,        \* forwards vLLM lets the CPU have enqueued and unfinished
    Routings,     \* rows of a step's decodes that chose each hosted expert
    MaxSteps,     \* bound: the steps that count; later ones only drain
    Host, Torn, None

Layer  == 0 .. NumLayers - 1
Expert == 0 .. NumExperts - 1

ASSUME SizesAssumption ==
    /\ NumLayers \in Nat \ {0}
    /\ NumExperts \in Nat \ {0}
    /\ Hosted \subseteq Layer \X Expert
    /\ IsFiniteSet(Hosted)
    /\ {Slots, Budget, MaxSteps} \subseteq Nat
    /\ Ring \in Nat /\ Ring >= 2
    /\ Ahead \in Nat \ {0}

HostedIn(l) == {x \in Hosted : x[1] = l}

\* A layer never gets more slots than it has offloaded experts.
Capacity(l) ==
    IF Slots < Cardinality(HostedIn(l)) THEN Slots ELSE Cardinality(HostedIn(l))

Place == {p \in Layer \X (0 .. Slots - 1) : p[2] < Capacity(p[1])}
Addr  == Place \cup {Host}

ASSUME ValuesAssumption ==
    /\ Host \notin Place
    /\ Torn \notin Hosted
    /\ None \notin Hosted
    /\ None \notin Hosted \X Place
    /\ Routings \subseteq [Hosted -> Nat]
    /\ Routings # {}

VARIABLES
    \* the host's view of the slots
    owner,        \* the expert in each slot, or on its way there
    slotOf,       \* the slot of each expert, in it or on its way there
    live,         \* experts whose entry has been told to point at the slot
    lastUse,      \* the plan that last saw each expert routed
    clock,        \* plans made
    pending,      \* promotions whose copies have not been seen to land
    promotions,   \* promotion batches issued
    \* the routing ring, the host's side
    step,         \* steps ended
    steps,        \* launched steps whose routing is not read yet
    \* the controller's position and locals
    pc, flips, routed, counts, todo, updates, issued,
    \* the device
    mainq,        \* main stream: operations not yet executed
    sideq,        \* side stream: batches not yet copied
    copying,      \* the copy under way on the side stream
    fired,        \* CUDA events that have completed
    table,        \* the address the kernel reads each expert at
    slotData,     \* the expert whose bytes each slot holds
    route,        \* the device buffer the layers write their routing to
    ring          \* the pinned ring, each entry tagged with its step

hostVars  == <<owner, slotOf, live, lastUse, clock, pending, promotions>>
ringVars  == <<step, steps>>
localVars == <<pc, flips, routed, counts, todo, updates, issued>>
devVars   == <<copying, fired, table, slotData, route, ring>>
vars == <<hostVars, ringVars, localVars, mainq, sideq, devVars>>

(***************************************************************************)
(* Operations on the main stream.  One record shape serves all four kinds:  *)
(* upd is a write's set of <<expert, address>>, id numbers the promotion a  *)
(* "ready" event belongs to or the step a "ring" copy belongs to.           *)
(***************************************************************************)
Op(kind, upd, id) == [kind |-> kind, upd |-> upd, id |-> id]

\* _write: one scatter into the table, and nothing at all for no updates.
Write(q, upd) == IF upd = {} THEN q ELSE Append(q, Op("write", upd, 0))

\* What the scatter leaves in the table.
Scatter(t, upd) ==
    [x \in Hosted |->
        IF \E a \in Addr : <<x, a>> \in upd
        THEN CHOOSE a \in Addr : <<x, a>> \in upd
        ELSE t[x]]

Forwards == {i \in 1 .. Len(mainq) : mainq[i].kind = "forward"}
RingSlot_OneShort(n) == n % (Ring - 1)

\* The ring slot of a step.
RingSlot(n) == n % Ring

(***************************************************************************)
(* _fill: before graph capture, and synchronously, the first experts of     *)
(* each layer in ascending order take the layer's slots.                    *)
(***************************************************************************)
Rank(x) == Cardinality({y \in HostedIn(x[1]) : y[2] < x[2]})

FillSlot(x) == IF Rank(x) < Capacity(x[1]) THEN <<x[1], Rank(x)>> ELSE Host

FillOwner(p, none) ==
    IF \E x \in Hosted : FillSlot(x) = p
    THEN CHOOSE x \in Hosted : FillSlot(x) = p
    ELSE none

NoRouting == [x \in Hosted |-> 0]

Init ==
    /\ owner = [p \in Place |-> FillOwner(p, None)]
    /\ slotOf = [x \in Hosted |-> FillSlot(x)]
    /\ live = {x \in Hosted : FillSlot(x) # Host}
    /\ lastUse = [x \in Hosted |-> -1]
    /\ clock = 0
    /\ pending = <<>>
    /\ promotions = 0
    /\ step = 0
    /\ steps = <<>>
    /\ pc = "idle"
    /\ flips = {}
    /\ routed = None
    /\ counts = NoRouting
    /\ todo = {}
    /\ updates = {}
    /\ issued = {}
    /\ mainq = <<>>
    /\ sideq = <<>>
    /\ copying = None
    /\ fired = {}
    /\ table = [x \in Hosted |-> FillSlot(x)]
    /\ slotData = [p \in Place |-> FillOwner(p, Torn)]
    /\ route = NoRouting
    /\ ring = [i \in 0 .. Ring - 1 |-> [step |-> 0, counts |-> NoRouting]]

(***************************************************************************)
(* step_begin                                                               *)
(***************************************************************************)
\* execute_model with tokens to run: vLLM starts it only when fewer than
\* Ahead earlier forwards are still unfinished.
StepBegin ==
    /\ pc = "idle"
    /\ Cardinality(Forwards) < Ahead
    /\ pc' = "flip"
    /\ flips' = {}
    /\ UNCHANGED <<hostVars, ringVars, routed, counts, todo, updates, issued,
                   mainq, sideq, devVars>>

NextLanded_Unqueried == pending # <<>>
NextLanded_KeepsOne == Len(pending) > 1 /\ <<"done", Head(pending).id>> \in fired

\* pending[0][0].query()
NextLanded == pending # <<>> /\ <<"done", Head(pending).id>> \in fired

\* The oldest promotion's copies have landed: its experts go live.
Flip ==
    /\ pc = "flip"
    /\ NextLanded
    /\ pending' = Tail(pending)
    /\ flips' = flips \cup {<<x, slotOf[x]>> : x \in Head(pending).experts}
    /\ live' = live \cup Head(pending).experts
    /\ UNCHANGED <<owner, slotOf, lastUse, clock, promotions, ringVars, pc,
                   routed, counts, todo, updates, issued, mainq, sideq, devVars>>

\* No more has landed: one scatter points all of them at their slots.
FlipDone ==
    /\ pc = "flip"
    /\ ~NextLanded
    /\ mainq' = Write(mainq, flips)
    /\ flips' = {}
    /\ routed' = None
    /\ pc' = "read"
    /\ UNCHANGED <<hostVars, ringVars, counts, todo, updates, issued, sideq,
                   devVars>>

Copied(e) == <<"ring", e.step>> \in fired

\* steps[0][1].query()
NextCopied == steps # <<>> /\ Copied(Head(steps))

\* A launched step's routing has reached the ring; a newer one supersedes it.
ReadRouting ==
    /\ pc = "read"
    /\ NextCopied
    /\ steps' = Tail(steps)
    /\ routed' = Head(steps)
    /\ UNCHANGED <<hostVars, step, pc, flips, counts, todo, updates, issued,
                   mainq, sideq, devVars>>

ReadNothing ==
    /\ pc = "read"
    /\ routed = None
    /\ ~NextCopied
    /\ pc' = "launch"
    /\ UNCHANGED <<hostVars, ringVars, flips, routed, counts, todo, updates,
                   issued, mainq, sideq, devVars>>

\* _plan's first half: the newest routing read moves the LRU, and the routed
\* experts with no slot are wanted.
PlanBegin ==
    /\ pc = "read"
    /\ routed # None
    /\ ~NextCopied
    /\ LET seen == ring[routed.slot].counts
           chosen == {x \in Hosted : seen[x] > 0}
       IN  /\ counts' = seen
           /\ lastUse' = [x \in Hosted |->
                             IF x \in chosen THEN clock + 1 ELSE lastUse[x]]
           /\ todo' = {x \in chosen : slotOf[x] = Host}
    /\ clock' = clock + 1
    /\ updates' = {}
    /\ issued' = {}
    /\ pc' = "plan"
    /\ UNCHANGED <<owner, slotOf, live, pending, promotions, ringVars, flips,
                   routed, mainq, sideq, devVars>>

\* Most wanted first; ties start at a layer that rotates with the clock.
Turn(x) == (x[1] - clock) % NumLayers

Sooner(x, y) ==
    \/ counts[x] > counts[y]
    \/ /\ counts[x] = counts[y]
       /\ \/ Turn(x) < Turn(y)
          \/ Turn(x) = Turn(y) /\ x[2] <= y[2]

First(x) == x \in todo /\ \A y \in todo : Sooner(x, y)

Free(l) == {p \in Place : p[1] = l /\ owner[p] = None}

Evictable_InFlightToo(l) ==
    {p \in Place : p[1] = l /\ owner[p] # None /\ lastUse[owner[p]] < clock}
Evictable_RoutedToo(l) == {p \in Place : p[1] = l /\ owner[p] \in live}

\* Slots whose copy has landed and whose expert the plan's step did not route.
Evictable(l) ==
    {p \in Place : /\ p[1] = l
                   /\ owner[p] \in live
                   /\ lastUse[owner[p]] < clock}

\* _victim: the first free slot, else the least recently used evictable one.
Victims(l) ==
    IF Free(l) # {}
    THEN {p \in Free(l) : \A q \in Free(l) : p[2] <= q[2]}
    ELSE {p \in Evictable(l) : \A q \in Evictable(l) :
             \/ lastUse[owner[p]] < lastUse[owner[q]]
             \/ lastUse[owner[p]] = lastUse[owner[q]] /\ p[2] <= q[2]}

WithinBudget == todo # {} /\ Cardinality(issued) < Budget

Displace(p) == IF owner[p] = None THEN slotOf ELSE [slotOf EXCEPT ![owner[p]] = Host]

BackToHost_Forgotten(p) == {}
BackToHost(p) == IF owner[p] = None THEN {} ELSE {<<owner[p], Host>>}

\* The slot changes hands; its old expert's entry is to go back to the host.
Take(x, p) ==
    /\ pc = "plan"
    /\ WithinBudget
    /\ First(x)
    /\ p \in Victims(x[1])
    /\ todo' = todo \ {x}
    /\ owner' = [owner EXCEPT ![p] = x]
    /\ slotOf' = [Displace(p) EXCEPT ![x] = p]
    /\ live' = live \ {owner[p]}
    /\ updates' = updates \cup BackToHost(p)
    /\ issued' = issued \cup {x}
    /\ UNCHANGED <<lastUse, clock, pending, promotions, ringVars, pc, flips,
                   routed, counts, mainq, sideq, devVars>>

\* Every slot of the layer is on its way or was just routed: try the next.
Skip(x) ==
    /\ pc = "plan"
    /\ WithinBudget
    /\ First(x)
    /\ Victims(x[1]) = {}
    /\ todo' = todo \ {x}
    /\ UNCHANGED <<hostVars, ringVars, pc, flips, routed, counts, updates,
                   issued, mainq, sideq, devVars>>

\* _plan is over, and step_begin with it; its locals are gone.
PlanReturns ==
    /\ todo' = {}
    /\ counts' = NoRouting
    /\ routed' = None
    /\ pc' = "launch"

\* _promote: the victims' entries move on the main stream, an event follows
\* them, and the side stream copies after that event.
Promote ==
    /\ pc = "plan"
    /\ ~WithinBudget
    /\ issued # {}
    /\ promotions' = promotions + 1
    /\ mainq' = Append(Write(mainq, updates), Op("ready", {}, promotions'))
    /\ sideq' = Append(sideq, [id |-> promotions',
                                copies |-> {<<x, slotOf[x]>> : x \in issued}])
    /\ pending' = Append(pending, [id |-> promotions', experts |-> issued])
    /\ updates' = {}
    /\ issued' = {}
    /\ PlanReturns
    /\ UNCHANGED <<owner, slotOf, live, lastUse, clock, ringVars, flips, devVars>>

PlanNothing ==
    /\ pc = "plan"
    /\ ~WithinBudget
    /\ issued = {}
    /\ PlanReturns
    /\ UNCHANGED <<hostVars, ringVars, flips, updates, issued, mainq, sideq,
                   devVars>>

(***************************************************************************)
(* The forward, then step_end.                                              *)
(***************************************************************************)
\* The model runner enqueues the forward; a drained run has no more decodes.
Launch ==
    /\ pc = "launch"
    /\ mainq' = Append(mainq, Op("forward", {}, 0))
    /\ pc' = "end"
    /\ UNCHANGED <<hostVars, ringVars, flips, routed, counts, todo, updates,
                   issued, sideq, devVars>>

\* A step with decode rows: its routing is copied to the ring, and the oldest
\* unread step is given up once Ring - 1 are waiting.
StepEndDecodes ==
    /\ pc = "end"
    /\ step < MaxSteps
    /\ step' = step + 1
    /\ mainq' = Append(mainq, Op("ring", {}, step'))
    /\ steps' = Append(IF Len(steps) >= Ring - 1 THEN Tail(steps) ELSE steps,
                       [slot |-> RingSlot(step'), step |-> step'])
    /\ pc' = "idle"
    /\ UNCHANGED <<hostVars, flips, routed, counts, todo, updates, issued,
                   sideq, devVars>>

\* A step of prefill only: counted, but nothing to learn from.
StepEndPrefill ==
    /\ pc = "end"
    /\ step' = IF step < MaxSteps THEN step + 1 ELSE step
    /\ pc' = "idle"
    /\ UNCHANGED <<hostVars, steps, flips, routed, counts, todo, updates,
                   issued, mainq, sideq, devVars>>

(***************************************************************************)
(* The main stream executes its head.                                       *)
(***************************************************************************)
MainHead(kind) == mainq # <<>> /\ Head(mainq).kind = kind

MainFrame == UNCHANGED <<hostVars, ringVars, localVars, sideq, copying, slotData>>

MainWrite ==
    /\ MainHead("write")
    /\ table' = Scatter(table, Head(mainq).upd)
    /\ mainq' = Tail(mainq)
    /\ MainFrame /\ UNCHANGED <<fired, route, ring>>

MainReady ==
    /\ MainHead("ready")
    /\ fired' = fired \cup {<<"ready", Head(mainq).id>>}
    /\ mainq' = Tail(mainq)
    /\ MainFrame /\ UNCHANGED <<table, route, ring>>

\* The layers' apply leaves the step's leading rows of topk_ids in route.
MainForward ==
    /\ MainHead("forward")
    /\ route' \in Routings
    /\ mainq' = Tail(mainq)
    /\ MainFrame /\ UNCHANGED <<fired, table, ring>>

MainRing ==
    /\ MainHead("ring")
    /\ LET n == Head(mainq).id
       IN  /\ ring' = [ring EXCEPT ![RingSlot(n)] = [step |-> n, counts |-> route]]
           /\ fired' = fired \cup {<<"ring", n>>}
    /\ mainq' = Tail(mainq)
    /\ MainFrame /\ UNCHANGED <<table, route>>

(***************************************************************************)
(* The side stream copies the batches it was given, after their events.  A  *)
(* slot's bytes are those of no expert while a copy into it is under way.   *)
(***************************************************************************)
SideFrame ==
    UNCHANGED <<hostVars, ringVars, localVars, mainq, table, route, ring>>

Ready_Unwaited(b) == TRUE

\* side.wait_event: everything enqueued before the event has been executed.
Ready(b) == <<"ready", b.id>> \in fired

CopyBegin(c) ==
    /\ sideq # <<>>
    /\ copying = None
    /\ c \in Head(sideq).copies
    /\ Ready(Head(sideq))
    /\ copying' = c
    /\ slotData' = [slotData EXCEPT ![c[2]] = Torn]
    /\ SideFrame /\ UNCHANGED <<sideq, fired>>

CopyEnd ==
    /\ copying # None
    /\ slotData' = [slotData EXCEPT ![copying[2]] = copying[1]]
    /\ sideq' = [sideq EXCEPT ![1].copies = @ \ {copying}]
    /\ copying' = None
    /\ SideFrame /\ UNCHANGED fired

BatchDone ==
    /\ sideq # <<>>
    /\ Head(sideq).copies = {}
    /\ fired' = fired \cup {<<"done", Head(sideq).id>>}
    /\ sideq' = Tail(sideq)
    /\ SideFrame /\ UNCHANGED <<copying, slotData>>

(***************************************************************************)
(* The specification.                                                       *)
(***************************************************************************)
Controller ==
    \/ StepBegin \/ Flip \/ FlipDone
    \/ ReadRouting \/ ReadNothing
    \/ PlanBegin
    \/ \E x \in todo : Skip(x) \/ \E p \in Place : Take(x, p)
    \/ Promote \/ PlanNothing
    \/ Launch \/ StepEndDecodes \/ StepEndPrefill

MainStream == MainWrite \/ MainReady \/ MainForward \/ MainRing

SideStream ==
    \/ \E c \in Hosted \X Place : CopyBegin(c)
    \/ CopyEnd \/ BatchDone

Next == Controller \/ MainStream \/ SideStream

Spec == Init /\ [][Next]_vars

\* The engine keeps stepping while there is work, and a stream that has an
\* operation it may execute executes it.
Fairness == WF_vars(Controller) /\ WF_vars(MainStream) /\ WF_vars(SideStream)

FairSpec == Spec /\ Fairness
(***************************************************************************)
(* Properties.                                                              *)
(***************************************************************************)
(* Every variable has its type: in particular the slot numbers of the ring *)
(* and of the experts stay within what was allocated.                       *)
TypeOK ==
    /\ owner \in [Place -> Hosted \cup {None}]
    /\ slotOf \in [Hosted -> Addr]
    /\ live \subseteq Hosted
    /\ lastUse \in [Hosted -> Int]
    /\ clock \in Nat
    /\ pending \in Seq([id : Nat, experts : SUBSET Hosted])
    /\ promotions \in Nat
    /\ step \in Nat
    /\ steps \in Seq([slot : 0 .. Ring - 1, step : Nat])
    /\ pc \in {"idle", "flip", "read", "plan", "launch", "end"}
    /\ flips \subseteq Hosted \X Addr
    /\ routed \in [slot : 0 .. Ring - 1, step : Nat] \cup {None}
    /\ counts \in [Hosted -> Nat]
    /\ todo \subseteq Hosted
    /\ updates \subseteq Hosted \X Addr
    /\ issued \subseteq Hosted
    /\ mainq \in Seq([kind : {"write", "ready", "forward", "ring"},
                      upd : SUBSET (Hosted \X Addr), id : Nat])
    /\ sideq \in Seq([id : Nat, copies : SUBSET (Hosted \X Addr)])
    /\ copying \in (Hosted \X Addr) \cup {None}
    /\ fired \subseteq {"ready", "done", "ring"} \X Nat
    /\ table \in [Hosted -> Addr]
    /\ slotData \in [Place -> Hosted \cup {Torn}]
    /\ route \in [Hosted -> Nat]
    /\ ring \in [0 .. Ring - 1 -> [step : Nat, counts : [Hosted -> Nat]]]

(* At every moment, whatever the streams have executed of what the CPU has  *)
(* enqueued, the address the kernel would read an expert at holds that      *)
(* expert's bytes: never another expert's, never half a copy.               *)
TableSound ==
    \A x \in Hosted : table[x] # Host => slotData[table[x]] = x

(* slot_of and owner stay inverse, and only an expert in a slot is live.    *)
OneOwner ==
    /\ \A p \in Place : owner[p] # None => slotOf[owner[p]] = p
    /\ \A x \in Hosted : slotOf[x] # Host => owner[slotOf[x]] = x
    /\ \A x \in live : slotOf[x] # Host

InFlight(x) == slotOf[x] # Host /\ x \notin live

(* An expert whose slot is taken but not live is on its way in exactly one  *)
(* promotion: a slot that left the pending list unlanded could never be     *)
(* flipped or evicted again.                                                *)
NoSlotLost ==
    \A x \in Hosted :
        /\ InFlight(x) => \/ x \in issued
                          \/ \E i \in 1 .. Len(pending) : x \in pending[i].experts
        /\ x \in issued => InFlight(x)
        /\ \A i \in 1 .. Len(pending) : x \in pending[i].experts =>
              /\ InFlight(x) /\ x \notin issued
              /\ \A j \in 1 .. Len(pending) : x \in pending[j].experts => i = j

\* Ring entries queued and not read yet, and the one being read.
Unread ==
    {steps[i] : i \in 1 .. Len(steps)} \cup (IF routed # None THEN {routed} ELSE {})

(* A ring slot is never overwritten while its routing is queued or being    *)
(* read: no copy of another step into it is outstanding, and once its copy  *)
(* has completed the slot holds the step's own routing.                     *)
RingSafe ==
    \A e \in Unread :
        /\ \A i \in 1 .. Len(mainq) :
              mainq[i].kind = "ring" /\ RingSlot(mainq[i].id) = e.slot
              => mainq[i].id = e.step
        /\ Copied(e) => ring[e.slot].step = e.step

(* An expert loses its slot only in a plan, only when its own copy has      *)
(* landed, and never when the step planned from routed it.                  *)
VictimCold ==
    [][\A x \in Hosted : slotOf[x] # Host /\ slotOf'[x] # slotOf[x] =>
          x \in live /\ counts[x] = 0]_vars

(* The device's table and slots implement the promise made to the kernel.   *)
Memory == INSTANCE SlotMemory WITH map <- table, data <- slotData

MemorySpec == Memory!Spec

(* A promotion that was issued is flipped eventually: its slot does not     *)
(* stay dead for the rest of the run.                                       *)
PromotionLands == \A x \in Hosted : InFlight(x) ~> x \in live
(***************************************************************************)
(* The inductive invariant behind TableSound and MemorySpec.                *)
(*                                                                          *)
(* An expert claims a slot when the table, or a write still in the main     *)
(* stream, points it there.  A claim is safe as long as the slot holds the  *)
(* expert; a copy into the slot may start once every claim on it has been   *)
(* revoked by a later write, which the copy's event follows.                *)
(***************************************************************************)
Claims(i, x, p) == IF i = 0 THEN table[x] = p ELSE <<x, p>> \in mainq[i].upd

Revokes(j, x) == <<x, Host>> \in mainq[j].upd

\* The controller's locals mean nothing outside the phase that uses them.
LocalsOK ==
    /\ pc # "flip" => flips = {}
    /\ pc # "plan" => todo = {} /\ issued = {}
    /\ issued = {} => updates = {}
    /\ \A u \in flips : u[1] \in live /\ u[2] = slotOf[u[1]]
    /\ \A u \in updates : u[2] = Host
    /\ \A x \in todo : slotOf[x] = Host

\* Promotion numbers identify batches on both streams and in the host's list.
NumbersOK ==
    /\ \A i \in 1 .. Len(pending) : pending[i].id <= promotions
    /\ \A i \in 1 .. Len(sideq) : sideq[i].id <= promotions
    /\ \A i \in 1 .. Len(mainq) : mainq[i].kind = "ready" => mainq[i].id <= promotions
    /\ \A e \in fired : e[1] \in {"ready", "done"} => e[2] <= promotions
    /\ \A i, j \in 1 .. Len(sideq) : sideq[i].id = sideq[j].id => i = j
    /\ \A i \in 1 .. Len(sideq) : <<"done", sideq[i].id>> \notin fired

\* What is still to be copied is in flight; what is pending is copied or will be.
CopiesOK ==
    /\ \A i \in 1 .. Len(sideq) : \A c \in sideq[i].copies :
          /\ c[1] \notin live
          /\ c[2] = slotOf[c[1]]
          /\ c[2] # Host
          /\ \E j \in 1 .. Len(pending) :
                pending[j].id = sideq[i].id /\ c[1] \in pending[j].experts
    /\ \A j \in 1 .. Len(pending) : \A x \in pending[j].experts :
          \/ slotData[slotOf[x]] = x
          \/ \E i \in 1 .. Len(sideq) :
                sideq[i].id = pending[j].id /\ <<x, slotOf[x]>> \in sideq[i].copies
    /\ copying # None =>
          /\ sideq # <<>>
          /\ copying \in sideq[1].copies
          /\ Ready(sideq[1])
          /\ slotData[copying[2]] = Torn

\* A scatter names each expert once, and nothing else writes the table.
WritesOK ==
    \A i \in 1 .. Len(mainq) :
        /\ mainq[i].kind # "write" => mainq[i].upd = {}
        /\ \A x \in Hosted : \A a, b \in Addr :
              <<x, a>> \in mainq[i].upd /\ <<x, b>> \in mainq[i].upd => a = b

\* A slot that is claimed holds the expert that claims it.
ClaimsHold ==
    \A i \in 0 .. Len(mainq) : \A x \in Hosted : \A p \in Place :
        Claims(i, x, p) => slotData[p] = x

\* What the next scatter will point at its slot is there.
FlipsHold == \A u \in flips : slotData[u[2]] = u[1]

\* A claim the host has given up is revoked by a later write, decided or queued.
StaleRevoked ==
    \A i \in 0 .. Len(mainq) : \A x \in Hosted : \A p \in Place :
        Claims(i, x, p) /\ ~(x \in live /\ slotOf[x] = p) =>
            \/ <<x, Host>> \in updates
            \/ \E j \in i + 1 .. Len(mainq) : Revokes(j, x)

\* A claim on a slot to be copied into is revoked before the copy's event.
CopiesWait ==
    \A n \in 1 .. Len(sideq) : \A c \in sideq[n].copies :
        \A i \in 0 .. Len(mainq) : \A y \in Hosted :
            Claims(i, y, c[2]) =>
                /\ ~Ready(sideq[n])
                /\ \A k \in 1 .. Len(mainq) :
                      mainq[k].kind = "ready" /\ mainq[k].id = sideq[n].id =>
                          \E j \in i + 1 .. k - 1 : Revokes(j, y)

IInv ==
    /\ TypeOK /\ OneOwner /\ NoSlotLost
    /\ LocalsOK /\ NumbersOK /\ CopiesOK /\ WritesOK
    /\ ClaimsHold /\ FlipsHold /\ StaleRevoked /\ CopiesWait
=============================================================================
