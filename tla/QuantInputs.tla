---------------------------- MODULE QuantInputs ----------------------------
(***************************************************************************)
(* The stages of quantization/quant.py that make what `quantize` converts  *)
(* with: the evaluation and calibration traces, the recall slice, the      *)
(* sensitivity measurement per content category and the YAQA output        *)
(* factors.  Each is a row of steps, a step is skipped when its output is  *)
(* there, and a command that stops - a tool failed, the user killed it -   *)
(* is given again, with the same arguments or with others.                 *)
(*                                                                         *)
(* The tools themselves (ctx_trace.py, sc_measure.py, yaqa_hessians.py)    *)
(* are external: one run of a tool makes its output or leaves a part.      *)
(***************************************************************************)
EXTENDS Naturals, FiniteSets, Sequences, SequencesExt, FiniteSetsExt

CONSTANTS
    Composite,    \* EVAL_SLICES, in order
    Diagnostic,   \* DIAG_SLICES, in order; one run of the tool writes them all
    Heldout,      \* the own-voice prompts held out of calibration
    Pool,         \* the prompts calibration draws from
    Generators,   \* the --generator values a user gives
    Available,    \* rows the calibration trace holds of each content category
    MeasureRows,  \* MEASURE_ROWS
    RowSpecs,     \* the --rows values a user gives: rows of some categories
    MeasureChunk, \* MEASURE_CHUNK
    Anchors,      \* the --rfn-anchor values a user gives
    Seeds,        \* YAQA_SEEDS
    Layers,       \* num_hidden_layers
    LayersPerRun, \* the --layers-per-run values a user gives
    None,
    MaxCommands, MaxEvents   \* bounds: commands; stops and what a user does in between

Slice == ToSet(Composite) \cup ToSet(Diagnostic)
Category == DOMAIN Available
Layer == 0 .. Layers - 1
Factor == {"ownvoice", "cal", "blend"}
Generator == Generators \cup {"uncalibrated"}
Anchor == {"constant", "probe", None}
Calibration == [gen : Generator, prompts : SUBSET (Heldout \cup Pool)]

ASSUME InputsAssumption ==
    /\ Composite \in Seq(ToSet(Composite)) /\ Diagnostic \in Seq(ToSet(Diagnostic))
    /\ ToSet(Composite) \cap ToSet(Diagnostic) = {} /\ IsInjective(Diagnostic)
    /\ "swe" \in ToSet(Composite) /\ Diagnostic # <<>> /\ Last(Diagnostic) = "self"
    /\ Heldout \cap Pool = {}
    /\ Generators \subseteq {"uncalibrated", "bf16"}
    /\ Anchors \subseteq {"constant", "probe"}
    /\ IsFiniteSet(Category) /\ {Available, MeasureRows} \subseteq [Category -> Nat]
    /\ \A spec \in RowSpecs : DOMAIN spec \subseteq Category /\ \A c \in DOMAIN spec : spec[c] \in Nat
    /\ MeasureChunk \in Nat \ {0} /\ Layers \in Nat \ {0} /\ Seeds \in Nat
    /\ LayersPerRun \subseteq Nat \ {0}
    /\ {MaxCommands, MaxEvents} \subseteq Nat
    /\ \A p \in SUBSET Heldout : p # None
    /\ \A c \in Calibration : c # None
    /\ None \notin Generator /\ None \notin {"constant", "probe"}

VARIABLES
    trace,     \* the evaluation traces: the own-voice prompts each scores on
    cal,       \* the calibration trace: its generator and own-voice prompts
    named,     \* cal_generator.json
    gen,       \* whether the uncalibrated 8bpw generator is there
    recall,    \* what recall-slice has made: "pool", "reference", "slice"
    rungs,     \* whether an integer-rate uncalibrated rung is there
    rfn,       \* the anchors in rfn.json, and whether rfn-probe.json is there
    chunks,    \* measured row ranges of each category, with their anchors
    own,       \* own-voice passes made, and whether their rows are joined
    hout,      \* the factor directories
    cmd, todo, \* the command that runs and what it has left to do
    ok,        \* whether the last command exited with 0
    spent      \* bounds used up

traces == <<trace, cal, named, gen, recall>>
measured == <<rungs, rfn, chunks>>
factors == <<own, hout>>
vars == <<traces, measured, factors, cmd, todo, ok, spent>>

Idle == [op |-> "none"]
Spend(what) == [spent EXCEPT ![what] = @ + 1]
ReadyFor == cmd = Idle /\ spent.commands < MaxCommands

(***************************************************************************)
(* Commands.                                                                *)
(***************************************************************************)
Start(c, steps) ==
    /\ ReadyFor /\ spent' = Spend("commands")
    /\ cmd' = c /\ todo' = steps
    /\ UNCHANGED <<traces, measured, factors, ok>>

Refuse ==
    /\ ReadyFor /\ spent' = Spend("commands")
    /\ ok' = FALSE
    /\ UNCHANGED <<traces, measured, factors, cmd, todo>>

\* A model without a chat template has no conversational traces; a model for
\* which no sampling profile is found is refused.
TraceSetup(resolved, steps, c) == IF resolved THEN Start(c, steps) ELSE Refuse

EvalSteps == [i \in DOMAIN Composite |-> [do |-> "eval", on |-> Composite[i]]]
             \o <<[do |-> "diag"]>>
CalSteps_Trusting(g) ==
    (IF g = "uncalibrated" THEN <<[do |-> "generator"]>> ELSE <<>>)
    \o <<[do |-> "cal", on |-> g], [do |-> "name", on |-> g]>>
    \o (IF cal # None THEN <<>> ELSE <<[do |-> "decontaminate"]>>)
CalSteps(g) == (IF g = "uncalibrated" THEN <<[do |-> "generator"]>> ELSE <<>>)
               \o <<[do |-> "cal", on |-> g], [do |-> "name", on |-> g],
                    [do |-> "decontaminate"]>>

EvalTraces(resolved) == TraceSetup(resolved, EvalSteps, [op |-> "eval-traces"])

CalTraces(resolved, g) ==
    IF trace["swe"] = None THEN Refuse
    ELSE TraceSetup(resolved, CalSteps(g), [op |-> "cal-traces"])

Traces(resolved, g) == TraceSetup(resolved, EvalSteps \o CalSteps(g), [op |-> "traces"])

RecallSlice ==
    Start([op |-> "recall-slice"],
          [i \in 1 .. 3 |-> [do |-> "recall", on |-> <<"pool", "reference", "slice">>[i]]])

\* Later rules win: --rows over the defaults.
Want(spec) == [c \in Category |-> IF c \in DOMAIN spec THEN spec[c] ELSE MeasureRows[c]]

\* Where a category's measured rows end: the end of its last chunk.
Measured_Count(c) == MeasureChunk * Cardinality(chunks[c])
Measured(c) == Max({0} \cup {k.to : k \in chunks[c]})

Upto_Full(start, n, size) == start + size

\* Where a run over at most `size` rows or layers from `start` on ends.
Upto(start, n, size) == Min({start + size, n})

Wanted(spec, c) == Min({Want(spec)[c], Available[c]})

\* sc_measure over MEASURE_CHUNK rows at a time, of one category after another.
Measure(spec, anchor) ==
    LET order == SetToSeq(Category)
    IN  IF cal = None THEN Refuse
        ELSE Start([op |-> "measure", rows |-> spec],
                   <<[do |-> "anchors", on |-> anchor]>>
                   \o [i \in DOMAIN order |->
                         [do |-> "category", on |-> order[i], upto |-> Wanted(spec, order[i])]])

\* util/yaqa_hessians.py over --layers-per-run layers at a time.
Collect(f, step) ==
    IF hout[f].done THEN <<>>
    ELSE <<[do |-> "ranges", on |-> f, from |-> 0, by |-> step], [do |-> "done", on |-> f]>>

OwnvoiceRows ==
    IF hout["ownvoice"].done \/ own.joined THEN <<>>
    ELSE [s \in 1 .. Seeds |-> [do |-> "pass", on |-> s]] \o <<[do |-> "join"]>>

Yaqa(resolved, step) ==
    IF cal = None THEN Refuse
    ELSE TraceSetup(resolved,
             OwnvoiceRows \o Collect("ownvoice", step) \o Collect("cal", step)
             \o (IF hout["blend"].done THEN <<>>
                 ELSE <<[do |-> "blend"], [do |-> "done", on |-> "blend"]>>),
             [op |-> "yaqa"])

(***************************************************************************)
(* Steps.                                                                   *)
(***************************************************************************)
At(step) == todo # <<>> /\ Head(todo).do = step
Onward == todo' = Tail(todo) /\ UNCHANGED <<cmd, ok, spent>>
OnwardFrom(next) == todo' = [todo EXCEPT ![1].from = next] /\ UNCHANGED <<cmd, ok, spent>>
Halt == cmd' = Idle /\ todo' = <<>> /\ ok' = FALSE

Prompts(sl) == IF sl = "self" THEN Heldout ELSE {}

\* run_until: nothing to run for an output that is there.
MakeEval ==
    /\ At("eval") /\ Onward
    /\ LET sl == Head(todo).on
       IN  trace' = [trace EXCEPT ![sl] = IF @ = None THEN Prompts(sl) ELSE @]
    /\ UNCHANGED <<cal, named, gen, recall, measured, factors>>

\* The last slice written stands for the whole run.
Diagnosed_First == trace[Head(Diagnostic)] # None
Diagnosed == trace[Last(Diagnostic)] # None
MakeDiag ==
    /\ At("diag") /\ Onward
    /\ trace' = IF Diagnosed THEN trace
                ELSE [sl \in Slice |-> IF sl \in ToSet(Diagnostic) THEN Prompts(sl) ELSE trace[sl]]
    /\ UNCHANGED <<cal, named, gen, recall, measured, factors>>

MakeGenerator ==
    /\ At("generator") /\ Onward
    /\ gen' = TRUE
    /\ UNCHANGED <<trace, cal, named, recall, measured, factors>>

\* --exclude_self: the held-out prompts are no source of calibration.
Drawn_All == Heldout \cup Pool
Drawn == Pool

MakeCal ==
    /\ At("cal") /\ Onward
    /\ IF cal # None THEN UNCHANGED cal
       ELSE \E p \in SUBSET Drawn : cal' = [gen |-> Head(todo).on, prompts |-> p]
    /\ UNCHANGED <<trace, named, gen, recall, measured, factors>>

NameGenerator ==
    /\ At("name") /\ Onward
    /\ named' = Head(todo).on
    /\ UNCHANGED <<trace, cal, gen, recall, measured, factors>>

\* Rows whose prompt the calibration used are dropped.
Decontaminated(prompts) == prompts \ cal.prompts
DecontaminateSelf ==
    /\ At("decontaminate") /\ Onward
    /\ trace' = [trace EXCEPT !["self"] = IF @ = None THEN None ELSE Decontaminated(@)]
    /\ UNCHANGED <<cal, named, gen, recall, measured, factors>>

\* The pool and the reference pass are kept; the selection is always made.
MakeRecall ==
    /\ At("recall") /\ Onward
    /\ recall' = recall \cup {Head(todo).on}
    /\ UNCHANGED <<trace, cal, named, gen, measured, factors>>

\* The converter's constant, or a probe of the lowest integer-rate rung; with
\* no such rung the noise levels are sc_measure's own.
MakeAnchors ==
    /\ At("anchors") /\ Onward
    /\ LET probed == Head(todo).on = "probe" /\ rungs
       IN  rfn' = IF rfn.anchor # None THEN rfn
                  ELSE IF Head(todo).on = "constant" THEN [rfn EXCEPT !.anchor = "constant"]
                  ELSE IF probed THEN [anchor |-> "probe", probe |-> TRUE]
                  ELSE rfn
    /\ UNCHANGED <<traces, rungs, chunks, factors>>

\* The next range of a category begins where its last chunk ends.
MeasureRange ==
    /\ At("category")
    /\ LET s == Head(todo)
           chunk == [from |-> Measured(s.on), to |-> Upto(Measured(s.on), s.upto, MeasureChunk),
                     anchor |-> rfn.anchor]
       IN  /\ chunk.from < s.upto
           /\ chunks' = [chunks EXCEPT ![s.on] = @ \cup {chunk}]
    /\ UNCHANGED <<traces, rungs, rfn, factors, cmd, todo, ok, spent>>

CategoryMeasured ==
    /\ At("category") /\ Onward
    /\ Measured(Head(todo).on) >= Head(todo).upto
    /\ UNCHANGED <<traces, measured, factors>>

OwnvoicePass ==
    /\ At("pass") /\ Onward
    /\ own' = [own EXCEPT !.passes = @ \cup {Head(todo).on}]
    /\ UNCHANGED <<traces, measured, hout>>

JoinRows ==
    /\ At("join") /\ Onward
    /\ own' = [own EXCEPT !.joined = TRUE]
    /\ UNCHANGED <<traces, measured, hout>>

\* The range's marker, or - for runs from before the markers - a log whose
\* last attempt ran exactly this range and exited 0.
LoggedOk(f, a, b) == hout[f].log[a] = [to |-> b, ok |-> TRUE]
Collected_ByFiles(f, a, b) == \A l \in a .. b - 1 : hout[f].layer[l] # "none"
Collected(f, a, b) == <<a, b>> \in hout[f].marks \/ LoggedOk(f, a, b)

Written(f, a, b, how) ==
    [l \in Layer |-> IF l \in a .. b - 1 THEN how ELSE hout[f].layer[l]]

CollectRange ==
    /\ At("ranges")
    /\ LET f == Head(todo).on
           a == Head(todo).from
           b == Upto(a, Layers, Head(todo).by)
       IN  /\ hout' = IF Collected(f, a, b) THEN hout
                      ELSE [hout EXCEPT ![f].layer = Written(f, a, b, "whole"),
                                        ![f].log[a] = [to |-> b, ok |-> TRUE],
                                        ![f].marks = @ \cup {<<a, b>>}]
           /\ IF b < Layers THEN OnwardFrom(b) ELSE Onward
    /\ UNCHANGED <<traces, measured, own>>

\* Both sides must cover the same tensors.
SameTensors == \A l \in Layer :
    (hout["ownvoice"].layer[l] = "none") = (hout["cal"].layer[l] = "none")

Blended(l) ==
    IF \A f \in {"ownvoice", "cal"} : hout[f].layer[l] = "whole" THEN "whole"
    ELSE hout["cal"].layer[l]

BlendHout ==
    /\ At("blend")
    /\ IF SameTensors
       THEN /\ hout' = [hout EXCEPT !["blend"].layer = [l \in Layer |-> Blended(l)]]
            /\ Onward
       ELSE Halt /\ UNCHANGED <<hout, spent>>
    /\ UNCHANGED <<traces, measured, own>>

\* DONE.json, written last.
FactorDone ==
    /\ At("done") /\ Onward
    /\ hout' = [hout EXCEPT ![Head(todo).on].done = TRUE]
    /\ UNCHANGED <<traces, measured, own>>

Exit ==
    /\ cmd # Idle /\ todo = <<>>
    /\ cmd' = Idle /\ ok' = TRUE
    /\ UNCHANGED <<traces, measured, factors, todo, spent>>

(***************************************************************************)
(* A tool fails or the user kills the command: the step under way leaves   *)
(* what it had written.                                                     *)
(***************************************************************************)
Prefix(n) == ToSet(SubSeq(Diagnostic, 1, n))

PartOfDiag ==
    /\ At("diag") /\ ~Diagnosed
    /\ \E n \in DOMAIN Diagnostic :
         trace' = [sl \in Slice |-> IF sl \in Prefix(n) THEN Prompts(sl) ELSE trace[sl]]
    /\ UNCHANGED <<cal, named, gen, recall, measured, factors>>

\* The probe ran, the anchors were not restated at K=2.
PartOfAnchors ==
    /\ At("anchors") /\ Head(todo).on = "probe"
    /\ rungs /\ rfn.anchor = None
    /\ rfn' = [rfn EXCEPT !.probe = TRUE]
    /\ UNCHANGED <<traces, rungs, chunks, factors>>

\* Layers are written one after another, the last of them in part.
WrittenUpTo(f, a, m) ==
    [l \in Layer |-> IF l \in a .. m - 1 THEN "whole" ELSE IF l = m THEN "torn" ELSE hout[f].layer[l]]

PartOfRange ==
    /\ At("ranges")
    /\ LET f == Head(todo).on
           a == Head(todo).from
           b == Upto(a, Layers, Head(todo).by)
       IN  /\ ~Collected(f, a, b)
           /\ \E m \in a .. b - 1 :
                hout' = [hout EXCEPT ![f].layer = WrittenUpTo(f, a, m),
                                     ![f].log[a] = [to |-> b, ok |-> FALSE]]
    /\ UNCHANGED <<traces, measured, own>>

PartOfBlend ==
    /\ At("blend")
    /\ \E m \in Layer : hout' = [hout EXCEPT !["blend"].layer = WrittenUpTo("blend", 0, m)]
    /\ UNCHANGED <<traces, measured, own>>

Stop ==
    /\ cmd # Idle /\ todo # <<>> /\ spent.events < MaxEvents
    /\ Halt /\ spent' = Spend("events")
    /\ \/ UNCHANGED <<traces, measured, factors>>
       \/ PartOfDiag \/ PartOfAnchors \/ PartOfRange \/ PartOfBlend

(***************************************************************************)
(* What a user does between commands.                                       *)
(***************************************************************************)
Between ==
    /\ cmd = Idle /\ spent.events < MaxEvents
    /\ spent' = Spend("events")
    /\ UNCHANGED <<factors, cmd, todo, ok>>

\* To have the evaluation or the calibration trace made again.
RemoveEval ==
    /\ Between
    /\ trace' = [sl \in Slice |-> None]
    /\ UNCHANGED <<cal, named, gen, recall, measured>>

RemoveCal ==
    /\ Between /\ cal # None
    /\ cal' = None
    /\ UNCHANGED <<trace, named, gen, recall, measured>>

\* `baseline` has made an integer-rate rung.
BaselineBuilt ==
    /\ Between /\ ~rungs
    /\ rungs' = TRUE
    /\ UNCHANGED <<traces, rfn, chunks>>

\* A job from before the held-out prompts, the generator's name and the range
\* markers: its calibration used prompts the evaluation scores on, and its
\* first range of layers is known by the log alone.
EmptyFactor == [layer |-> [l \in Layer |-> "none"], marks |-> {},
                log |-> [l \in Layer |-> [to |-> 0, ok |-> FALSE]], done |-> FALSE]
OldFactor(step) ==
    [EmptyFactor EXCEPT !.layer = [l \in Layer |-> IF l < step THEN "whole" ELSE "none"],
                        !.log[0] = [to |-> Min({step, Layers}), ok |-> TRUE]]

Init ==
    /\ \/ /\ cal = None
          /\ trace = [sl \in Slice |-> None]
          /\ hout = [f \in Factor |-> EmptyFactor]
       \/ /\ \E p \in SUBSET (Heldout \cup Pool) : cal = [gen |-> "uncalibrated", prompts |-> p]
          /\ trace = [sl \in Slice |-> Prompts(sl)]
          /\ \E step \in LayersPerRun :
                hout = [f \in Factor |-> IF f = "ownvoice" THEN OldFactor(step) ELSE EmptyFactor]
    /\ named = None /\ gen = FALSE /\ recall = {}
    /\ rungs = FALSE /\ rfn = [anchor |-> None, probe |-> FALSE]
    /\ chunks = [c \in Category |-> {}]
    /\ own = [passes |-> {}, joined |-> FALSE]
    /\ cmd = Idle /\ todo = <<>> /\ ok = TRUE
    /\ spent = [commands |-> 0, events |-> 0]

Command ==
    \/ \E resolved \in BOOLEAN :
         \/ EvalTraces(resolved)
         \/ \E g \in Generators : CalTraces(resolved, g) \/ Traces(resolved, g)
         \/ \E step \in LayersPerRun : Yaqa(resolved, step)
    \/ RecallSlice
    \/ \E spec \in RowSpecs, anchor \in Anchors : Measure(spec, anchor)

Step ==
    \/ MakeEval \/ MakeDiag \/ MakeGenerator \/ MakeCal \/ NameGenerator \/ DecontaminateSelf
    \/ MakeRecall \/ MakeAnchors \/ MeasureRange \/ CategoryMeasured
    \/ OwnvoicePass \/ JoinRows \/ CollectRange \/ BlendHout \/ FactorDone

Next == Command \/ Step \/ Exit \/ Stop \/ RemoveEval \/ RemoveCal \/ BaselineBuilt

Spec == Init /\ [][Next]_vars

(***************************************************************************)
(* Properties.                                                              *)
(***************************************************************************)
TypeOK ==
    /\ \A sl \in Slice : trace[sl] = None \/ trace[sl] \subseteq Heldout
    /\ cal \in Calibration \cup {None}
    /\ named \in Generators \cup {None}
    /\ rfn.anchor \in Anchor
    /\ \A c \in Category : \A k \in chunks[c] :
         k.from < k.to /\ k.to <= Available[c] /\ k.anchor \in Anchor
    /\ \A f \in Factor :
         /\ hout[f].layer \in [Layer -> {"none", "torn", "whole"}]
         /\ \A l \in Layer : hout[f].log[l].to \in 0 .. Layers

Succeeds(op) == cmd.op = op /\ cmd' = Idle /\ ok'

\* However its calibration trace came about and whatever was killed, removed
\* and made again: when `traces` or `cal-traces` has succeeded, own voice is
\* scored on no prompt that calibration used, and the one step that can undo
\* this is the evaluation made anew beside a calibration trace that is kept.
\* `eval-traces` does not look at that trace: where it is one from before the
\* held-out prompts, own voice is scored on prompts it used until a stage that
\* makes calibration traces is run again.
Overlap == trace["self"] # None /\ cal # None /\ trace["self"] \cap cal.prompts # {}
SelfHeldOut ==
    [][/\ Succeeds("traces") \/ Succeeds("cal-traces") => ~Overlap'
       /\ ~Overlap /\ Overlap' => trace["self"] = None /\ cal' = cal]_vars

\* A stage that exits with 0 has made all it stands for, however much of it
\* earlier attempts had left.
MadeAll ==
    [][/\ Succeeds("eval-traces") \/ Succeeds("traces") => \A sl \in Slice : trace[sl] # None
       /\ Succeeds("cal-traces") \/ Succeeds("traces") => cal # None /\ named # None
       /\ Succeeds("measure") =>
            \A c \in Category : Measured(c) >= Wanted(cmd.rows, c)
       /\ Succeeds("yaqa") => \A f \in Factor : hout[f].done]_vars

\* "An exact partition of one big measurement": the chunks of a category cover
\* its rows from the first on, each row once, under any sequence of --rows.
ChunksPartition ==
    \A c \in Category :
        \A row \in 0 .. Measured(c) - 1 :
            Cardinality({k \in chunks[c] : k.from <= row /\ row < k.to}) = 1

\* A factor directory with its DONE.json holds every layer, whole.
FactorWhole ==
    \A f \in Factor : hout[f].done => \A l \in Layer : hout[f].layer[l] = "whole"

\* A measurement and the factors taken from it are whole and counted once.
MeasurementWhole == TypeOK /\ ChunksPartition /\ FactorWhole
=============================================================================
