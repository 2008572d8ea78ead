----------------------------- MODULE QuantScore -----------------------------
(***************************************************************************)
(* Scoring and publishing in quantization/quant.py: `qbench` scores the    *)
(* revisions, other publishers' sets, the uncalibrated rungs and the       *)
(* thresholds on each evaluation slice; `card` renders what was scored;    *)
(* `upload` publishes the revisions and main; `fetch` makes a job          *)
(* directory from what was published, with stand-ins for the weights.      *)
(*                                                                         *)
(* Results are rows of main/qb_<slice>.json.  A row is abstracted to the   *)
(* version of the trace it was scored on, a directory of weights to        *)
(* whether it holds weights.                                               *)
(***************************************************************************)
EXTENDS Naturals, FiniteSets, Sequences, SequencesExt

CONSTANTS
    Rev,          \* revisions, and the uncalibrated rungs of the same names
    Ref,          \* repositories of other sets of quants
    Thr,          \* thresholds
    Slices,       \* the slices with traces, in order; "raw" has none
    Composite,    \* EVAL_SLICES
    Series,       \* the arguments of the qbench commands a user gives
    Stoppable,    \* the commands that may be stopped half way
    Room,         \* the entries that --logit-cache-size leaves room for
    None,
    MaxCommands, MaxEvents, MaxVersion   \* bounds

ASSUME ScoreAssumption ==
    /\ Slices \in Seq(STRING) /\ None \notin ToSet(Slices) \cup {"raw"}
    /\ MaxVersion \in Nat \ {0} /\ Room \in Nat \ {0}
    /\ Composite \subseteq ToSet(Slices) /\ "raw" \notin ToSet(Slices)
    /\ Stoppable \subseteq {"qbench", "card", "upload", "fetch"}
    /\ \A a \in Series :
         /\ a.revisions = None \/ a.revisions \subseteq Rev
         /\ a.baselines \subseteq Rev /\ a.refs \subseteq Ref /\ a.thrs \subseteq Thr
         /\ a.parity \subseteq a.refs /\ a.prune \in BOOLEAN

Scored == Slices \o <<"raw">>
Key == [slice : ToSet(Scored), sampled : BOOLEAN]
Label == [kind : {"rev", "base"}, of : Rev] \cup [kind : {"ref", "parity"}, of : Ref]
         \cup [kind : {"thr"}, of : Thr]
Labels(kind, set) == {[kind |-> kind, of |-> x] : x \in set}

\* What a file of results holds.
Results == [ref : 1 .. MaxVersion, rows : UNION {[S -> 1 .. MaxVersion] : S \in SUBSET Label}]
ASSUME ResultsAssumption == None \notin Results

VARIABLES
    trace,      \* the version of each slice's trace, 0 without one
    sampled,    \* the version each sampled trace was drawn from
    dir, base,  \* what the revisions' and the rungs' directories hold
    qb,         \* main/qb_<slice>.json
    refinfo,    \* main/reference.json
    thresholds, \* main/thresholds.json
    logits,     \* the cache of reference logits
    card,       \* what main/README.md compares, and whether scores have moved since
    fetched,    \* FETCHED.json
    original,   \* _fetched_reference.json
    hub,        \* what is published
    cmd,
    todo,       \* the steps that the command has left
    ok,         \* the last command has ended, with 0
    spent

results == <<qb, refinfo, thresholds>>
local == <<trace, sampled, dir, base, results, logits, card, fetched, original>>
vars == <<local, hub, cmd, todo, ok, spent>>

Idle == [op |-> "none"]
Spend(what) == [spent EXCEPT ![what] = @ + 1]
Ready == cmd = Idle /\ spent.commands < MaxCommands
\* In a fetched job directory only card, upload and fetch run.
Allowed(op) == fetched => op \in {"card", "upload", "fetch"}

Steps(do, set) == {[do |-> do, on |-> x] : x \in set}
Once(do) == Steps(do, {None})

Start(c, steps) ==
    /\ Ready /\ spent' = Spend("commands")
    /\ cmd' = c /\ todo' = steps
    /\ ok' = FALSE
Fails ==
    /\ Ready /\ spent' = Spend("commands")
    /\ ok' = FALSE
    /\ UNCHANGED <<cmd, todo>>

Complete == {r \in Rev : dir[r] # "none"}
Rungs == {r \in Rev : base[r] # "none"}

(***************************************************************************)
(* qbench                                                                   *)
(***************************************************************************)
Subset(a) == a.revisions # None \/ a.slices # None
Revisions(a) == IF a.revisions = None THEN Complete ELSE a.revisions
Baselines(a) == IF a.revisions = None THEN Rungs ELSE a.baselines

Version(k) == IF k.slice = "raw" THEN 1
              ELSE IF k.sampled THEN sampled[k.slice] ELSE trace[k.slice]

Asked(a) == IF a.slices = None THEN ToSet(Scored) ELSE a.slices \cap ToSet(Scored)
Keys(a, slices) == {[slice |-> sl, sampled |-> sl = a.sample] : sl \in slices}

\* The slices that have a trace, each whole or as its sample.
Wanted(a) == Keys(a, {sl \in Asked(a) : sl = "raw" \/ trace[sl] # 0})

\* The baseline only enters through the composite.
Arms(a, k) ==
    Labels("rev", Revisions(a)) \cup Labels("ref", a.refs) \cup Labels("thr", a.thrs)
    \cup IF k.slice \in Composite THEN Labels("base", Baselines(a)) ELSE {}

Unknown(a) ==
    \/ Revisions(a) = {} /\ (a.revisions = None \/ a.refs \cup a.thrs \cup a.baselines = {})
    \/ ~(Revisions(a) \subseteq Complete) \/ ~(Baselines(a) \subseteq Rungs)
    \/ a.slices # None /\ \E sl \in a.slices \ {"raw"} : trace[sl] = 0
    \/ a.sample # None /\ (trace[a.sample] = 0 \/ (a.slices # None /\ a.sample \notin a.slices))

\* Its sampled trace is written once; thresholds.json before the converter check.
QBench(a, mismatch) ==
    /\ Allowed("qbench")
    /\ IF Unknown(a) THEN Fails /\ UNCHANGED <<sampled, thresholds>>
       ELSE /\ sampled' = IF a.sample # None /\ sampled[a.sample] = 0
                          THEN [sampled EXCEPT ![a.sample] = trace[a.sample]] ELSE sampled
            /\ thresholds' = IF a.thrs = {} THEN thresholds
                             ELSE a.thrs \cup IF Subset(a) THEN thresholds ELSE {}
            /\ IF mismatch /\ Baselines(a) # {} THEN Fails
               ELSE Start([op |-> "qbench", args |-> a],
                          Once("reference") \cup Steps("score", Wanted(a))
                          \cup (IF a.parity = {} THEN {} ELSE Steps("parity", Wanted(a)))
                          \cup Once("prune"))
    /\ UNCHANGED <<trace, dir, base, qb, refinfo, logits, card, fetched, original, hub>>

\* The steps of a command come in this order, those of slices in theirs.
Stages == <<"reference", "score", "parity", "prune", "rung", "main", "revision",
            "results", "stand-in", "rewrite", "mark">>
Nth(seq) == [x \in ToSet(seq) |-> CHOOSE i \in DOMAIN seq : seq[i] = x]
Stage == Nth(Stages)
Place == Nth(Scored)
Due == LET first == {s \in todo : \A t \in todo : Stage[s.do] <= Stage[t.do]}
       IN  CHOOSE s \in first : s.do \in {"score", "parity"} =>
               \A t \in first : Place[s.on.slice] <= Place[t.on.slice]

At(step) == todo # {} /\ Due.do = step
Onward == todo' = todo \ {Due} /\ UNCHANGED <<cmd, ok, spent>>
Halt == cmd' = Idle /\ todo' = {} /\ ok' = FALSE
Moved == IF card = None THEN None ELSE [card EXCEPT !.fresh = FALSE]

Recorded_Anew(a) == [refs |-> a.refs, base |-> Baselines(a)]
\* A run of some revisions adds its own references and keeps every other entry.
Recorded(a) ==
    IF a.revisions # None /\ refinfo # None
    THEN [refinfo EXCEPT !.refs = @ \cup a.refs]
    ELSE [refs |-> a.refs, base |-> Baselines(a)]

RecordReference ==
    /\ At("reference") /\ Onward
    /\ LET a == cmd.args
       IN  refinfo' = IF a.refs = {} /\ Baselines(a) = {} THEN refinfo ELSE Recorded(a)
    /\ card' = Moved
    /\ UNCHANGED <<trace, sampled, dir, base, qb, thresholds, logits, fetched, original, hub>>

\* merge_results: new rows replace those of the same label; the reference rows
\* stay those that were there.
Replacing(new, old) ==
    [l \in DOMAIN new \cup DOMAIN old |-> IF l \in DOMAIN new THEN new[l] ELSE old[l]]
Merged_Anew(old, new) == new
Merged_OldFirst(old, new) ==
    IF old = None THEN new ELSE [old EXCEPT !.rows = Replacing(@, new.rows)]
Merged(old, new) ==
    IF old = None THEN new ELSE [old EXCEPT !.rows = Replacing(new.rows, @)]

Weightless(l) == \/ l.kind = "rev" /\ dir[l.of] # "weights"
                 \/ l.kind = "base" /\ base[l.of] # "weights"

Entry(k) == [key |-> k, of |-> Version(k)]
Fits(entry) == Cardinality(logits \cup {entry}) <= Room
\* The scorer keeps its cache within max_size_gb, dropping until an entry fits;
\* which ones it drops is its own affair.
Cached(entry) ==
    {kept \cup {entry} : kept \in
        IF Fits(entry) THEN {logits}
        ELSE {some \in SUBSET logits : Cardinality(some \cup {entry}) = Room}}

\* One slice: the reference first, then every arm, on one GPU or split over
\* several and merged in arm order.  Without its weights an arm cannot run.
ScoreSlice ==
    /\ At("score")
    /\ LET a == cmd.args
           k == Due.on
           new == [ref |-> Version(k), rows |-> [l \in Arms(a, k) |-> Version(k)]]
       IN  /\ logits' \in Cached(Entry(k))
           /\ IF \E l \in Arms(a, k) : Weightless(l)
              THEN Halt /\ UNCHANGED <<qb, card, spent>>
              ELSE /\ qb' = [qb EXCEPT ![k] = IF a.revisions = None THEN new ELSE Merged(@, new)]
                   /\ card' = Moved
                   /\ Onward
    /\ UNCHANGED <<trace, sampled, dir, base, refinfo, thresholds, fetched, original, hub>>

\* A set's bf16 file: optional, the results stand without it.
ScoreParity ==
    /\ At("parity") /\ Onward
    /\ LET k == Due.on
           add == [l \in Labels("parity", cmd.args.parity) |-> Version(k)]
       IN  \/ qb' = [qb EXCEPT ![k].rows = Replacing(add, @)]
           \/ UNCHANGED qb
    /\ UNCHANGED <<trace, sampled, dir, base, refinfo, thresholds, logits, card, fetched, original, hub>>

Pruned_Always(a) == a.prune
\* A subset series used only some slices' reference logits.
Pruned(a) == a.prune /\ ~Subset(a)

\* What this series did not use goes.
Prune ==
    /\ At("prune") /\ Onward
    /\ LET used == {Entry(k) : k \in Wanted(cmd.args)}
       IN  logits' = IF Pruned(cmd.args) THEN logits \cap used ELSE logits
    /\ UNCHANGED <<trace, sampled, dir, base, results, card, fetched, original, hub>>

(***************************************************************************)
(* card                                                                     *)
(***************************************************************************)
Full(sl) == [slice |-> sl, sampled |-> FALSE]
\* The slices with results, whole ones: screening results stay off the card.
Shown == {sl \in ToSet(Scored) : qb[Full(sl)] # None}
HasRow(l, sl) == l \in DOMAIN qb[Full(sl)].rows

\* A revision needs a row on every slice; a set that is compared, on the
\* composite's slices.
CardRevs == {r \in Complete : \A sl \in Shown : HasRow([kind |-> "rev", of |-> r], sl)}
CardRefs == IF refinfo = None \/ ~(Composite \subseteq Shown) THEN {}
            ELSE {f \in refinfo.refs : \A sl \in Composite : HasRow([kind |-> "ref", of |-> f], sl)}

Card ==
    /\ IF "raw" \in Shown
       THEN /\ card' = [revs |-> CardRevs, refs |-> CardRefs, fresh |-> TRUE]
            /\ ok' = TRUE
       ELSE ok' = FALSE /\ UNCHANGED card
    /\ Ready /\ spent' = Spend("commands")
    /\ UNCHANGED <<trace, sampled, dir, base, results, logits, fetched, original, hub, cmd, todo>>

(***************************************************************************)
(* upload and fetch                                                         *)
(***************************************************************************)
Uploads_Any == Complete
\* A fetched directory's revisions are stand-ins: main only.
Uploads == IF fetched THEN {} ELSE Complete

\* --uncalibrated: the rungs, to a repository of their own.
Upload(uncalibrated) ==
    /\ IF uncalibrated /\ fetched THEN Fails
       ELSE Start([op |-> "upload"],
                  (IF uncalibrated THEN Steps("rung", Rungs) ELSE {})
                  \cup (IF card = None THEN {} ELSE Once("main"))
                  \cup Steps("revision", Uploads))
    /\ UNCHANGED <<local, hub>>

Staged_Local == refinfo
\* A fetched job directory publishes the reference.json it fetched.
Staged == IF fetched /\ original # None THEN original ELSE refinfo

Kept_Listed(rows, refs) == {l \in DOMAIN rows : l.of \in refs}
\* Rows of references the card does not compare against stay local.
Kept(rows, refs) == {l \in DOMAIN rows : l.kind \in {"ref", "parity"} => l.of \in refs}
StagedRows(q) ==
    IF q = None \/ Staged = None THEN q
    ELSE [q EXCEPT !.rows = [l \in Kept(q.rows, Staged.refs) |-> q.rows[l]]]

UploadMain ==
    /\ At("main") /\ Onward
    /\ hub' = [hub EXCEPT !.main =
                 [qb |-> [sl \in ToSet(Scored) |-> StagedRows(qb[Full(sl)])],
                  refinfo |-> Staged, card |-> card]]
    /\ UNCHANGED local

UploadRevision ==
    /\ At("revision") /\ Onward
    /\ hub' = [hub EXCEPT !.rev[Due.on] = dir[Due.on]]
    /\ UNCHANGED local

UploadRung ==
    /\ At("rung") /\ Onward
    /\ hub' = [hub EXCEPT !.base[Due.on] = base[Due.on]]
    /\ UNCHANGED local

Published == {r \in Rev : hub.rev[r] # "none"}

Fetch ==
    /\ IF hub.main = None THEN Fails
       ELSE Start([op |-> "fetch"],
                  Once("results") \cup Steps("stand-in", Published)
                  \cup (IF hub.main.refinfo = None THEN {} ELSE Once("rewrite"))
                  \cup Once("mark"))
    /\ UNCHANGED <<local, hub>>

FetchResults ==
    /\ At("results") /\ Onward
    /\ qb' = [k \in Key |-> IF ~k.sampled /\ hub.main.qb[k.slice] # None
                            THEN hub.main.qb[k.slice] ELSE qb[k]]
    /\ card' = Moved
    /\ UNCHANGED <<trace, sampled, dir, base, refinfo, thresholds, logits, fetched, original, hub>>

\* A configuration without weights; weights that are there stay.
StandIn(held) == IF held = "none" THEN "stand-in" ELSE held

FetchStandIn ==
    /\ At("stand-in") /\ Onward
    /\ dir' = [dir EXCEPT ![Due.on] = StandIn(@)]
    /\ UNCHANGED <<trace, sampled, base, results, logits, card, fetched, original, hub>>

\* Rungs are not published here: a revision of the same name lends its size, a
\* rung without one is left out.
RewriteReference ==
    /\ At("rewrite") /\ Onward
    /\ LET info == hub.main.refinfo
           stands == info.base \cap Published
       IN  /\ original' = info
           /\ refinfo' = [info EXCEPT !.base = stands]
           /\ base' = [r \in Rev |-> IF r \in stands THEN StandIn(base[r]) ELSE base[r]]
    /\ card' = Moved
    /\ UNCHANGED <<trace, sampled, dir, qb, thresholds, logits, fetched, hub>>

MarkFetched ==
    /\ At("mark") /\ Onward
    /\ fetched' = TRUE
    /\ UNCHANGED <<trace, sampled, dir, base, results, logits, card, original, hub>>

Exit ==
    /\ cmd # Idle /\ todo = {}
    /\ cmd' = Idle /\ ok' = TRUE
    /\ UNCHANGED <<local, hub, todo, spent>>

(***************************************************************************)
(* What happens besides.                                                    *)
(***************************************************************************)
Event == spent.events < MaxEvents /\ spent' = Spend("events")

\* A scorer fails, the Hub does not answer, the user stops the command.
Stop ==
    /\ cmd # Idle /\ cmd.op \in Stoppable /\ Event /\ Halt
    /\ UNCHANGED <<local, hub>>

\* An evaluation trace is made again.
Retrace(sl) ==
    /\ cmd = Idle /\ Event /\ ~fetched
    /\ trace[sl] < MaxVersion
    /\ trace' = [trace EXCEPT ![sl] = @ + 1]
    /\ UNCHANGED <<sampled, dir, base, results, logits, card, fetched, original, hub, cmd, todo, ok>>

\* `quantize` and `baseline` have made r.
Converted(r) ==
    /\ cmd = Idle /\ Event /\ ~fetched
    /\ dir[r] = "none"
    /\ dir' = [dir EXCEPT ![r] = "weights"]
    /\ base' = [base EXCEPT ![r] = "weights"]
    /\ UNCHANGED <<trace, sampled, results, logits, card, fetched, original, hub, cmd, todo, ok>>

NoResults == [k \in Key |-> None]

\* Another machine, or a new -w directory.
NewWorkdir ==
    /\ cmd = Idle /\ Event
    /\ trace' = [sl \in ToSet(Slices) |-> 0] /\ sampled' = trace'
    /\ dir' = [r \in Rev |-> "none"] /\ base' = dir'
    /\ qb' = NoResults /\ refinfo' = None /\ thresholds' = {} /\ logits' = {}
    /\ card' = None /\ fetched' = FALSE /\ original' = None
    /\ UNCHANGED <<hub, cmd, todo, ok>>

\* A set published earlier: scored against one other set, with an uncalibrated
\* rung for every rate and some of the revisions.
EarlierSet(revs) ==
    LET Rows(sl) == Labels("rev", revs) \cup Labels("ref", Ref)
                    \cup IF sl \in Composite THEN Labels("base", Rev) ELSE {}
    IN  [main |-> [qb |-> [sl \in ToSet(Scored) |-> [ref |-> 1, rows |-> [l \in Rows(sl) |-> 1]]],
                   refinfo |-> [refs |-> Ref, base |-> Rev],
                   card |-> [revs |-> revs, refs |-> Ref, fresh |-> TRUE]],
         rev |-> [r \in Rev |-> IF r \in revs THEN "weights" ELSE "none"],
         base |-> [r \in Rev |-> "weights"]]
NothingPublished ==
    [main |-> None, rev |-> [r \in Rev |-> "none"], base |-> [r \in Rev |-> "none"]]

Init ==
    /\ trace = [sl \in ToSet(Slices) |-> 1]
    /\ sampled = [sl \in ToSet(Slices) |-> 0]
    /\ dir \in [Rev -> {"none", "weights"}]
    /\ base = [r \in Rev |-> "weights"]
    /\ qb = NoResults /\ refinfo = None /\ thresholds = {} /\ logits = {}
    /\ card = None /\ fetched = FALSE /\ original = None
    /\ hub \in {NothingPublished, EarlierSet(Complete)}
    /\ cmd = Idle /\ todo = {} /\ ok = TRUE
    /\ spent = [commands |-> 0, events |-> 0]

Next ==
    \/ \E a \in Series, mismatch \in BOOLEAN : QBench(a, mismatch)
    \/ RecordReference \/ ScoreSlice \/ ScoreParity \/ Prune
    \/ Card
    \/ \E uncalibrated \in BOOLEAN : Upload(uncalibrated)
    \/ UploadMain \/ UploadRevision \/ UploadRung
    \/ Fetch \/ FetchResults \/ FetchStandIn \/ RewriteReference \/ MarkFetched
    \/ Exit \/ Stop
    \/ \E sl \in ToSet(Slices) : Retrace(sl)
    \/ \E r \in Rev : Converted(r)
    \/ NewWorkdir

Spec == Init /\ [][Next]_vars

(***************************************************************************)
(* Properties.                                                              *)
(***************************************************************************)
Holds == {"none", "stand-in", "weights"}

TypeOK ==
    /\ trace \in [ToSet(Slices) -> 0 .. MaxVersion]
    /\ {dir, base, hub.rev, hub.base} \subseteq [Rev -> Holds]
    /\ \A k \in Key : qb[k] # None =>
         /\ DOMAIN qb[k].rows \subseteq Label
         /\ \A l \in DOMAIN qb[k].rows : qb[k].rows[l] \in 1 .. MaxVersion
    /\ refinfo # None => refinfo.refs \subseteq Ref /\ refinfo.base \subseteq Rev
    /\ thresholds \subseteq Thr

Labelled(q) == IF q = None THEN {} ELSE DOMAIN q.rows
\* The labels whose rows a series writes.
Own(a, k) == Arms(a, k) \cup Labels("parity", a.parity)
KeptBut(labels, q, r) ==
    \A l \in Labelled(q) : l \in Labelled(r) /\ (l \in labels \/ r.rows[l] = q.rows[l])

\* What a series does not score it leaves alone: the results of slices that it is
\* not asked for, and, if it is a run of some revisions or slices, the thresholds.
\* A run of some revisions also keeps the rows of every label but its own and
\* "every other entry" of reference.json.  A run of some slices with all revisions
\* does not: it writes the rows of those slices, and reference.json, anew.
NothingLost ==
    [][\A c \in {cmd, cmd'} : c.op = "qbench" =>
         /\ \A k \in Key \ Wanted(c.args) : qb'[k] = qb[k]
         /\ Subset(c.args) => thresholds \subseteq thresholds'
         /\ c.args.revisions # None =>
              /\ \A k \in Key : KeptBut(Own(c.args, k), qb[k], qb'[k])
              /\ refinfo # None => /\ refinfo.refs \subseteq refinfo'.refs
                                   /\ refinfo.base \subseteq refinfo'.base]_vars

\* A series that exits with 0 has scored all its arms on every slice it was
\* asked for, on the trace that is there now, whatever results were there; with
\* all revisions, the reference row is of that trace too.  A run of some revisions
\* keeps the reference row that it finds, which may be of an earlier trace.
SeriesScored ==
    [][cmd.op = "qbench" /\ cmd' = Idle /\ ok' =>
         \A k \in Wanted(cmd.args) :
             /\ cmd.args.revisions = None => qb[k] # None /\ qb[k].ref = Version(k)
             /\ \A l \in Arms(cmd.args, k) :
                    l \in Labelled(qb[k]) /\ qb[k].rows[l] = Version(k)]_vars

\* The reference logits of a whole slice's present trace outlive any series but
\* one that did score the whole slice: pruning takes superseded ones only.  When a
\* slice is scored that the cache has no room for, the scorer may drop any.
LogitsKept ==
    [][\A sl \in ToSet(Slices) :
         LET now == [key |-> Full(sl), of |-> trace[sl]]
         IN  /\ now \in logits /\ cmd.op = "qbench"
             /\ At("score") => Fits(Entry(Due.on))
             => now \in logits']_vars

\* No publication replaces a quant's weights by a weightless stand-in.
HubWhole == "stand-in" \notin Range(hub.rev) \cup Range(hub.base)

\* "The published results match the card": while nothing was scored since the
\* card was rendered, every set it compares is published with its rows.
PublishedMatchesCard ==
    hub.main # None /\ hub.main.card.fresh =>
        \A sl \in Composite :
            LET rows == Labelled(hub.main.qb[sl])
            IN  /\ Labels("ref", hub.main.card.refs) \subseteq rows
                /\ hub.main.qb[sl] # None => Labels("rev", hub.main.card.revs) \subseteq rows

\* What is published belongs together.
PublishedSound == TypeOK /\ HubWhole /\ PublishedMatchesCard

\* A card rendered again from a fetched directory leaves the published
\* reference.json, if there is one, as it was, rungs without a stand-in included.
ReferenceKept ==
    [][fetched /\ cmd.op = "upload" /\ hub.main.refinfo # None =>
         hub'.main.refinfo = hub.main.refinfo]_vars

\* What a series did not score, and what was published for the card, stay as they
\* were through what is run or published later.
ResultsKept == NothingLost /\ ReferenceKept
=============================================================================
