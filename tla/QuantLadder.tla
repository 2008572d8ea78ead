---------------------------- MODULE QuantLadder ----------------------------
(***************************************************************************)
(* The conversions of quantization/quant.py in one job directory: the      *)
(* uncalibrated rungs and the calibration generator of `baseline`, the     *)
(* calibrated revisions of `quantize`, run by run_jobs on the lanes of one *)
(* or more GPUs, and the record each conversion gets of the converter or   *)
(* of the calibration that made it.                                        *)
(*                                                                         *)
(* A user gives one command after another and may kill any of them; the    *)
(* converter's checkout may change at any time, also while a conversion    *)
(* runs.  A conversion is made by the code it loads as it starts, and its  *)
(* record is written from the checkout when it has ended.  What made a     *)
(* directory (made, out) is not stored anywhere: it is what the records    *)
(* (stamp, json) claim.                                                    *)
(***************************************************************************)
EXTENDS Naturals, FiniteSets, Sequences, SequencesExt, FiniteSetsExt

CONSTANTS
    Bits,         \* the revisions asked for with -b, in order
    Gen,          \* the calibration generator
    Tree,         \* hashes of the converter's source tree
    Dirty,        \* a checkout with uncommitted changes
    Devices,      \* the -d lists a user gives
    Quantizes,    \* the quantize commands a user gives: a -d list and flags
    Retries,      \* --retries
    Idle, None,
    MaxCommands, MaxEvents    \* bounds: commands; kills, failures and what happens between commands

Rung == ToSet(Bits)
Uncal == Rung \cup {Gen}
Gpu == UNION {ToSet(d) : d \in Devices}
Lane == UNION {DOMAIN d : d \in Devices}

\* A quantize command's flags; what it converts with; the record of a directory.
Flag == [calibration : {"mix", "default"}, recipe : BOOLEAN, share : {"own", "blend", "file"},
         yaqa : {"no", "blend", "named"}, plan : BOOLEAN]
ModeOf == [cal : {"mix", "default"}, recipe : {None, "own", "blend", "file"}, hess : BOOLEAN]
StampOf == [tree : Tree \cup {None}, adopted : BOOLEAN]
Command == [op : {"baseline", "quantize"}, devices : Devices, mode : ModeOf \cup {None},
            tasks : {Bits, <<Gen>> \o Bits}]

ASSUME LadderAssumption ==
    /\ Bits \in Seq(Rung) /\ IsInjective(Bits) /\ Bits # <<>> /\ Gen \notin Rung
    /\ Dirty \notin Tree /\ None \notin Tree \cup {Dirty}
    /\ \A d \in Devices : d \in Seq(ToSet(d)) /\ d # <<>>
    /\ Quantizes \subseteq Devices \X Flag
    /\ {Retries, MaxCommands, MaxEvents} \subseteq Nat
    /\ None \notin {"own", "blend", "file"}
    /\ \A x \in ModeOf \cup StampOf : x # None
    /\ \A c \in Command : c # Idle

VARIABLES
    tree,       \* the converter in exllamav3dir
    uncal,      \* uncalibrated directories: what made each, and converter.json;
                \* (history) shifted: the checkout changed between the two
    hub,        \* the same, as published in <repo>-uncalibrated
    inputs,     \* which of "cal", "measured", "factor" earlier stages have made
    rev,        \* calibrated revisions
    asked,      \* the modes a revision's files were asked for since it was empty
    compared,   \* the converters behind the last comparison
    cmd,        \* the command that runs
    share,      \* the tasks dealt to each GPU and not taken yet, as positions in cmd.tasks
    lane,       \* what each slot is doing
    failed,     \* the tasks run_jobs will report
    ok,         \* whether the last command has exited with 0
    spent       \* bounds used up

files == <<uncal, hub, inputs, rev, asked>>
jobs == <<share, lane, failed>>
vars == <<tree, files, compared, cmd, jobs, ok, spent>>

Spend(what) == [spent EXCEPT ![what] = @ + 1]

(***************************************************************************)
(* converter.json                                                           *)
(***************************************************************************)
Stamp_Tree(t, adopted) == [tree |-> t, adopted |-> adopted]
\* converter_id has no tree for a modified checkout; an adopted record says
\* what a person judged.
Stamp(t, adopted) == [tree |-> IF t = Dirty THEN None ELSE t, adopted |-> adopted]
Unknown == [tree |-> None, adopted |-> FALSE]
Recorded(dir) == IF dir.stamp = None THEN None ELSE dir.stamp.tree

\* Not provably from the current converter, of the directories u describes.
Mismatched_Recorded(u, dirs) == {d \in dirs : Recorded(u[d]) \notin {tree, None}}
Mismatched(u, dirs) == {d \in dirs : tree = Dirty \/ Recorded(u[d]) # tree}

Made(dirs) == {d \in dirs : uncal[d].made # None}

\* adopt_converter passes over records that name a converter.
Adopted(dirs) ==
    [d \in Uncal |-> IF d \in dirs /\ Recorded(uncal[d]) = None
                     THEN [uncal[d] EXCEPT !.stamp = Stamp(tree, TRUE), !.shifted = FALSE]
                     ELSE uncal[d]]

(***************************************************************************)
(* run_jobs: tasks are dealt to GPUs up front, each GPU's slots take theirs *)
(* in turn.                                                                 *)
(***************************************************************************)
Width(d, g) == Cardinality({i \in DOMAIN d : d[i] = g})
FirstAt(d, g) == Min({i \in DOMAIN d : d[i] = g})

\* Each task in turn goes to the GPU with the fewest per slot so far, the first
\* listed on a tie.
Dealt(d, to) ==
    \A k \in DOMAIN to : \A h \in ToSet(d) :
        LET soFar(g) == Cardinality({j \in 1 .. k - 1 : to[j] = g})
            a == soFar(to[k]) * Width(d, h)
            b == soFar(h) * Width(d, to[k])
        IN  a < b \/ (a = b /\ FirstAt(d, to[k]) <= FirstAt(d, h))

Free == [task |-> None, step |-> "free", left |-> 0, existed |-> FALSE]
Stopped == [Free EXCEPT !.step = "stopped"]

Launch(c) ==
    /\ cmd' = c
    /\ \E to \in [DOMAIN c.tasks -> ToSet(c.devices)] :
         /\ Dealt(c.devices, to)
         /\ share' = [g \in Gpu |-> {k \in DOMAIN to : to[k] = g}]
    /\ lane' = [l \in Lane |-> IF l <= Len(c.devices) THEN Free ELSE Stopped]
    /\ failed' = {}
    /\ ok' = FALSE

\* A command that ends before any job, or without jobs.
Return(success) ==
    /\ ok' = success
    /\ UNCHANGED <<cmd, jobs>>

(***************************************************************************)
(* Commands.                                                                *)
(***************************************************************************)
Ready == cmd = Idle /\ spent.commands < MaxCommands

\* --adopt-converter is for a person who knows the unrecorded ones are current.
Honest == \A d \in Made(Uncal) : Recorded(uncal[d]) = None => uncal[d].made = tree

Baseline(d, gen, allow, adopt) ==
    /\ Ready /\ spent' = Spend("commands")
    /\ adopt => Honest
    /\ LET present == Made(Rung)
           refused == adopt /\ tree = Dirty
           c == [op |-> "baseline", devices |-> d, mode |-> None,
                 tasks |-> (IF gen THEN <<Gen>> ELSE <<>>) \o Bits]
       IN  /\ uncal' = IF adopt /\ ~refused THEN Adopted(Made(Uncal)) ELSE uncal
           /\ IF refused \/ (~allow /\ Mismatched(uncal', present) # {})
              THEN Return(FALSE)
              ELSE Launch(c)
    /\ UNCHANGED <<tree, hub, inputs, rev, asked, compared>>

\* What a quantize command converts with, from its flags and what is there.
\* share: "own" voice, a "blend" with the other categories, or a "file" given
\* with --measurement.
Measured(f) == f.share = "file" \/ "measured" \in inputs
Mode(f) == [cal |-> f.calibration,
            recipe |-> IF f.recipe /\ Measured(f) THEN f.share ELSE None,
            hess |-> f.yaqa # "no" /\ "factor" \in inputs]

Quantize(d, f) ==
    /\ Ready /\ spent' = Spend("commands")
    /\ LET refused == \/ f.calibration = "mix" /\ "cal" \notin inputs
                      \/ f.yaqa = "named" /\ "factor" \notin inputs
           c == [op |-> "quantize", devices |-> d, mode |-> Mode(f), tasks |-> Bits]
       IN  IF refused \/ f.plan
           THEN Return(~refused) /\ UNCHANGED asked
           ELSE /\ Launch(c)
                /\ asked' = [r \in Rung |-> asked[r] \cup {Mode(f)}]
    /\ UNCHANGED <<tree, uncal, hub, inputs, rev, compared>>

\* qbench, as far as it compares with the uncalibrated rungs.
Compare ==
    /\ Ready /\ spent' = Spend("commands")
    /\ Made(Rung) # {}
    /\ LET refused == Mismatched(uncal, Made(Rung)) # {}
       IN  /\ compared' = IF refused THEN compared ELSE {uncal[d].made : d \in Made(Rung)}
           /\ Return(~refused)
    /\ UNCHANGED <<tree, files>>

\* upload --uncalibrated: what carries no record is published as unknown.
UploadUncalibrated ==
    /\ Ready /\ spent' = Spend("commands")
    /\ uncal' = [d \in Uncal |-> IF d \in Made(Uncal) /\ uncal[d].stamp = None
                                 THEN [uncal[d] EXCEPT !.stamp = Unknown] ELSE uncal[d]]
    /\ hub' = [d \in Uncal |-> IF d \in Made(Uncal) THEN uncal'[d] ELSE hub[d]]
    /\ Return(TRUE)
    /\ UNCHANGED <<tree, inputs, rev, asked, compared>>

\* Only what is missing locally is downloaded.
Fetched(d) == hub[d].made # None /\ uncal[d].made = None

FetchUncalibrated ==
    /\ Ready /\ spent' = Spend("commands")
    /\ \E d \in Uncal : hub[d].made # None
    /\ uncal' = [d \in Uncal |-> IF Fetched(d) THEN hub[d] ELSE uncal[d]]
    /\ Return(TRUE)
    /\ UNCHANGED <<tree, hub, inputs, rev, asked, compared>>

(***************************************************************************)
(* Lanes.                                                                   *)
(***************************************************************************)
Do(l, state) == lane' = [lane EXCEPT ![l] = state]
Goto(l, step) == Do(l, [lane[l] EXCEPT !.step = step])
At(l, step) == cmd # Idle /\ lane[l].step = step
Parallel == Len(cmd.devices) > 1

Finish(l) == Do(l, Free) /\ UNCHANGED failed
Fail(l) == Do(l, Free) /\ failed' = failed \cup {lane[l].task}

\* What a task raises is a failure among lanes, the end of the command alone.
Abort == /\ cmd' = Idle /\ ok' = FALSE
         /\ lane' = [l \in Lane |-> Stopped]
         /\ share' = [g \in Gpu |-> {}]
         /\ failed' = {}
Raise(l) == IF Parallel THEN Fail(l) /\ UNCHANGED <<cmd, share, ok>> ELSE Abort
\* SystemExit is no Exception: the thread ends, and nothing is noted.
RaiseExit(l) == IF Parallel THEN Do(l, Stopped) /\ UNCHANGED <<cmd, share, failed, ok>> ELSE Abort

Existed_Never(t) == FALSE
\* Checked before the first attempt: is there a finished conversion already?
Existed(t) == uncal[t].made # None

\* A revision with a recipe is solved first, unless it is done or under way.
FirstStep_Again(t) ==
    IF /\ cmd.op = "quantize" /\ cmd.mode.recipe # None
       /\ rev[t].out = None
    THEN "solve" ELSE "convert"
FirstStep(t) ==
    IF /\ cmd.op = "quantize" /\ cmd.mode.recipe # None
       /\ rev[t].out = None /\ rev[t].work = None
    THEN "solve" ELSE "convert"

TakeTask(l) ==
    /\ At(l, "free")
    /\ LET g == cmd.devices[l]
       IN  \E k \in share[g] :
             /\ \A j \in share[g] : k <= j
             /\ share' = [share EXCEPT ![g] = @ \ {k}]
             /\ LET t == cmd.tasks[k]
                IN  Do(l, [task |-> t, step |-> FirstStep(t), left |-> Retries + 1,
                           existed |-> cmd.op = "baseline" /\ Existed(t)])
    /\ UNCHANGED <<tree, files, compared, cmd, failed, ok, spent>>

NoMoreTasks(l) ==
    /\ At(l, "free")
    /\ share[cmd.devices[l]] = {}
    /\ Do(l, Stopped)
    /\ UNCHANGED <<tree, files, compared, cmd, share, failed, ok, spent>>

\* run_until: attempts until the output is there.  What a conversion is made by
\* is the converter it started with; record_converter comes after it.
UncalConvert(l) ==
    /\ At(l, "convert") /\ cmd.op = "baseline"
    /\ LET t == lane[l].task
       IN  \/ /\ uncal[t].made # None
              /\ Goto(l, "record")
              /\ UNCHANGED <<uncal, failed, spent>>
           \/ /\ uncal[t].made = None
              /\ uncal' = [uncal EXCEPT ![t].made = tree, ![t].shifted = FALSE]
              /\ Goto(l, "record")
              /\ UNCHANGED <<failed, spent>>
           \/ /\ uncal[t].made = None /\ spent.events < MaxEvents
              /\ spent' = Spend("events")
              /\ IF lane[l].left > 1
                 THEN Do(l, [lane[l] EXCEPT !.left = @ - 1]) /\ UNCHANGED failed
                 ELSE Fail(l)
              /\ UNCHANGED uncal
    /\ UNCHANGED <<tree, hub, inputs, rev, asked, compared, cmd, share, ok>>

\* Only what this run built is stamped, with the converter that is there by now.
UncalRecord(l) ==
    /\ At(l, "record")
    /\ uncal' = IF lane[l].existed THEN uncal
                ELSE [uncal EXCEPT ![lane[l].task].stamp = Stamp(tree, FALSE)]
    /\ Finish(l)
    /\ UNCHANGED <<tree, hub, inputs, rev, asked, compared, cmd, share, ok, spent>>

\* A blend below an own-voice share of 1 needs the other categories measured.
Blendable == cmd.mode.recipe # "blend" \/ "categories" \in inputs

Solve(l) ==
    /\ At(l, "solve")
    /\ LET t == lane[l].task
       IN  \/ /\ Blendable
              /\ rev' = [rev EXCEPT ![t].recipe = cmd.mode.recipe]
              /\ Goto(l, "convert")
              /\ UNCHANGED <<cmd, share, failed, ok, spent>>
           \/ /\ Blendable /\ spent.events < MaxEvents
              /\ spent' = Spend("events")
              /\ Fail(l)
              /\ UNCHANGED <<rev, cmd, share, ok>>
           \/ /\ ~Blendable
              /\ RaiseExit(l)
              /\ UNCHANGED <<rev, spent>>
    /\ UNCHANGED <<tree, uncal, hub, inputs, asked, compared>>

\* convert.py starts with the command's arguments, or resumes (-r) with those
\* the work directory was begun with.
Begun(t) == IF rev[t].work # None THEN rev[t].work ELSE cmd.mode

Convert(l) ==
    /\ At(l, "convert") /\ cmd.op = "quantize"
    /\ LET t == lane[l].task
       IN  \/ /\ rev[t].out # None
              /\ Goto(l, "publish")
              /\ UNCHANGED <<rev, failed, spent>>
           \/ /\ rev[t].out = None
              /\ rev' = [rev EXCEPT ![t].out = Begun(t), ![t].work = Begun(t)]
              /\ Goto(l, "publish")
              /\ UNCHANGED <<failed, spent>>
           \/ /\ rev[t].out = None /\ spent.events < MaxEvents
              /\ spent' = Spend("events")
              /\ \E w \in {rev[t].work, Begun(t)} : rev' = [rev EXCEPT ![t].work = w]
              /\ IF lane[l].left > 1
                 THEN Do(l, [lane[l] EXCEPT !.left = @ - 1]) /\ UNCHANGED failed
                 ELSE Fail(l)
    /\ UNCHANGED <<tree, uncal, hub, inputs, asked, compared, cmd, share, ok>>

\* The work directory goes; recipe.yaml is published from the solved recipe,
\* which a revision converted at uniform bits never had; calibration.json
\* states the flags of this command.
Publish(l) ==
    /\ At(l, "publish")
    /\ LET t == lane[l].task
       IN  IF cmd.mode.recipe # None /\ rev[t].recipe = None
           THEN /\ rev' = [rev EXCEPT ![t].work = None]
                /\ Raise(l)
           ELSE /\ rev' = [rev EXCEPT ![t].work = None, ![t].json = cmd.mode]
                /\ Finish(l)
                /\ UNCHANGED <<cmd, share, ok>>
    /\ UNCHANGED <<tree, uncal, hub, inputs, asked, compared, spent>>

Reported_Nothing == TRUE
Reported == failed = {}

\* Every lane has stopped: report_failures decides the exit code.
BatchEnds ==
    /\ cmd # Idle
    /\ \A l \in Lane : lane[l].step = "stopped"
    /\ ok' = Reported
    /\ cmd' = Idle
    /\ UNCHANGED <<tree, files, compared, jobs, spent>>

(***************************************************************************)
(* The user and the other stages.                                           *)
(***************************************************************************)
\* The process group dies; a conversion under way leaves a work directory.
Kill ==
    /\ cmd # Idle /\ spent.events < MaxEvents
    /\ spent' = Spend("events")
    /\ \E begun \in SUBSET {l \in Lane : At(l, "convert") /\ cmd.op = "quantize"} :
           rev' = [r \in Rung |->
                     IF rev[r].out = None /\ \E l \in begun : lane[l].task = r
                     THEN [rev[r] EXCEPT !.work = Begun(r)] ELSE rev[r]]
    /\ Abort
    /\ UNCHANGED <<tree, uncal, hub, inputs, asked, compared>>

\* What a command is converting, or has converted and not recorded.
InHand == {d \in Made(Uncal) : /\ cmd # Idle /\ cmd.op = "baseline"
                              /\ \E l \in Lane : lane[l].task = d /\ ~lane[l].existed}

EditConverter(t) ==
    /\ spent.events < MaxEvents
    /\ t # tree
    /\ spent' = Spend("events")
    /\ tree' = t
    /\ uncal' = [d \in Uncal |-> IF d \in InHand THEN [uncal[d] EXCEPT !.shifted = TRUE]
                                ELSE uncal[d]]
    /\ UNCHANGED <<hub, inputs, rev, asked, compared, cmd, jobs, ok>>

NoUncal == [made |-> None, stamp |-> None, shifted |-> FALSE]

\* "rebuild them (delete the directories)"
DeleteUncal(d) ==
    /\ cmd = Idle /\ spent.events < MaxEvents
    /\ uncal[d].made # None
    /\ spent' = Spend("events")
    /\ uncal' = [uncal EXCEPT ![d] = NoUncal]
    /\ UNCHANGED <<tree, hub, inputs, rev, asked, compared, cmd, jobs, ok>>

Emptied_WorkOutside(x) == [out |-> None, work |-> x.work, recipe |-> x.recipe, json |-> None]
\* The work directory is inside the revision's directory, the solved recipe is not.
Emptied(x) == [out |-> None, work |-> None, recipe |-> x.recipe, json |-> None]

DeleteRevision(r) ==
    /\ cmd = Idle /\ spent.events < MaxEvents
    /\ rev[r].out # None
    /\ spent' = Spend("events")
    /\ rev' = [rev EXCEPT ![r] = Emptied(@)]
    /\ asked' = [asked EXCEPT ![r] = {}]
    /\ UNCHANGED <<tree, uncal, hub, inputs, compared, cmd, jobs, ok>>

\* traces, measure or yaqa has finished.
StageDone(i) ==
    /\ cmd = Idle /\ i \notin inputs /\ spent.events < MaxEvents
    /\ spent' = Spend("events")
    /\ inputs' = inputs \cup {i}
    /\ UNCHANGED <<tree, uncal, hub, rev, asked, compared, cmd, jobs, ok>>

Step(l) ==
    \/ TakeTask(l) \/ NoMoreTasks(l)
    \/ UncalConvert(l) \/ UncalRecord(l)
    \/ Solve(l) \/ Convert(l) \/ Publish(l)

Stage == {"cal", "measured", "categories", "factor"}

Init ==
    /\ tree \in Tree
    /\ uncal = [d \in Uncal |-> NoUncal]
    /\ hub = uncal
    /\ inputs \in {{}, {"cal", "factor"}}
    /\ rev = [r \in Rung |-> [out |-> None, work |-> None, recipe |-> None, json |-> None]]
    /\ asked = [r \in Rung |-> {}]
    /\ compared = {}
    /\ cmd = Idle
    /\ share = [g \in Gpu |-> {}]
    /\ lane = [l \in Lane |-> Stopped]
    /\ failed = {}
    /\ ok = TRUE
    /\ spent = [commands |-> 0, events |-> 0]

Next ==
    \/ \E d \in Devices, gen, allow, adopt \in BOOLEAN : Baseline(d, gen, allow, adopt)
    \/ \E q \in Quantizes : Quantize(q[1], q[2])
    \/ Compare \/ UploadUncalibrated \/ FetchUncalibrated
    \/ \E l \in Lane : Step(l)
    \/ BatchEnds
    \/ Kill
    \/ \E t \in Tree \cup {Dirty} : EditConverter(t)
    \/ \E d \in Uncal : DeleteUncal(d)
    \/ \E r \in Rung : DeleteRevision(r)
    \/ \E i \in Stage : StageDone(i)

Spec == Init /\ [][Next]_vars


(***************************************************************************)
(* Properties.                                                              *)
(***************************************************************************)
UncalDir == [made : Tree \cup {Dirty, None}, stamp : {None} \cup StampOf, shifted : BOOLEAN]

TypeOK ==
    /\ tree \in Tree \cup {Dirty}
    /\ {uncal, hub} \subseteq [Uncal -> UncalDir]
    /\ inputs \subseteq Stage
    /\ \A r \in Rung :
         /\ {rev[r].out, rev[r].work, rev[r].json} \subseteq ModeOf \cup {None}
         /\ asked[r] \subseteq ModeOf
    /\ cmd # Idle => UNION {share[g] : g \in Gpu} \subseteq DOMAIN cmd.tasks
    /\ \A l \in Lane : lane[l].left <= Retries + 1
    /\ failed \subseteq Uncal

\* "Never stamp an older rung as current": a record that names a converter
\* names the one that made the directory, here and in the published repo,
\* whatever was killed, rebuilt, adopted, fetched or uploaded in between, unless
\* the checkout changed after that conversion had started and before its record.
StampTrue ==
    \A d \in Uncal : \A dir \in {uncal[d], hub[d]} :
        dir.stamp # None /\ dir.stamp.tree # None => dir.made = dir.stamp.tree \/ dir.shifted

\* qbench never sets a ladder against rungs of another converter than the
\* current one without being told to (--allow-converter-mismatch); rungs whose
\* record a change of the checkout made false are the exception.
ComparesOwn ==
    [][compared' # compared =>
          \A d \in Made(Rung) : uncal[d].made = tree \/ uncal[d].shifted]_vars

\* The recipe that would be published with a revision is the one it was
\* converted with: no later command solves it again.
RecipeKept ==
    \A r \in Rung :
        rev[r].out # None /\ rev[r].out.recipe # None => rev[r].recipe = rev[r].out.recipe

\* calibration.json says how its revision was made if every quantize command
\* since the directory was empty asked for the same: also after a kill and a
\* resumed conversion.  A later command with other flags converts nothing, and
\* rewrites the record of the finished revision with its own.
CalibrationTrue ==
    \A r \in Rung :
        rev[r].json # None /\ rev[r].json # rev[r].out => asked[r] \ {rev[r].json} # {}

\* What is recorded beside rungs and revisions is true of how they were made,
\* but for a checkout that changes during the conversion and for a revision
\* asked for with several calibrations.
RecordsKept == TypeOK /\ StampTrue /\ RecipeKept /\ CalibrationTrue

\* A batch that exits with 0 has converted all it was asked for: every task
\* runs, whatever fails, and what failed is reported.
Delivered(t) == IF cmd.op = "baseline" THEN uncal[t].made # None
                ELSE rev[t].out # None /\ rev[t].json # None
ExitHonest ==
    [][cmd # Idle /\ cmd' = Idle /\ ok' => \A t \in ToSet(cmd.tasks) : Delivered(t)]_vars
=============================================================================
