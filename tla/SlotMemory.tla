----------------------------- MODULE SlotMemory -----------------------------
(***************************************************************************)
(* What the expert cache promises the MoE kernel: an expert is read through *)
(* a table whose entry names the expert's host row or a VRAM slot, and      *)
(* whichever it names holds that expert's bytes.  A slot is loaded only     *)
(* while no entry names it, and an entry is pointed at a slot only once     *)
(* that slot holds the whole expert.                                        *)
(***************************************************************************)
CONSTANTS
    Hosted,   \* the experts that have a host row
    Place,    \* the VRAM slots
    Host,     \* the address that stands for an expert's own host row
    Torn      \* the content of a slot whose copy is under way

VARIABLES
    map,      \* the address each hosted expert is read at
    data      \* the expert whose bytes each slot holds

vars == <<map, data>>

Init ==
    /\ map \in [Hosted -> Place \cup {Host}]
    /\ data \in [Place -> Hosted \cup {Torn}]
    /\ \A x \in Hosted : map[x] # Host => data[map[x]] = x

\* Entries move together: each to its host row, or to a slot that holds it.
Repoint ==
    /\ map' \in [Hosted -> Place \cup {Host}]
    /\ \A x \in Hosted : map'[x] \in Place \ {map[x]} => data[map'[x]] = x
    /\ UNCHANGED data

BeginLoad(p) ==
    /\ \A x \in Hosted : map[x] # p
    /\ data' = [data EXCEPT ![p] = Torn]
    /\ UNCHANGED map

EndLoad(p, x) ==
    /\ data[p] = Torn
    /\ data' = [data EXCEPT ![p] = x]
    /\ UNCHANGED map

Next ==
    \/ Repoint
    \/ \E p \in Place : BeginLoad(p) \/ \E x \in Hosted : EndLoad(p, x)

Spec == Init /\ [][Next]_vars

(* An entry that names a slot names one that holds its own expert whole. *)
ReadsOwnExpert ==
    \A x \in Hosted : map[x] # Host => data[map[x]] = x
=============================================================================
