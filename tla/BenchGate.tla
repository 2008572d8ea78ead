----------------------------- MODULE BenchGate -----------------------------
(***************************************************************************)
(* bench/: the gate that compares what a build serves with committed       *)
(* baselines. `bless` records the matrix of entries one after another,     *)
(* `check` captures it again and compares, `freeze-tune` records which     *)
(* kernels every later capture has to use. Each capture is a process of    *)
(* its own that loads the trees when it starts and records their state     *)
(* when it is done; it may fail, or hang and be killed by its timeout. The *)
(* operator edits, commits and upgrades at any moment, during a command    *)
(* too: nothing prevents it.                                               *)
(*                                                                         *)
(* Simplifications. What an entry serves, [logits, weight, fixture],       *)
(* depends on the source alone (`fixture` is what a derived checkpoint     *)
(* contains) and comparing within a tolerance is equality of logits. The   *)
(* run that warms a cold cache changes what the run that counts changes    *)
(* and is part of it. Of the caches a capture uses, those of compiled code *)
(* (vllm, triton, flashinfer) are left out: a capture lists them, and      *)
(* nothing freezes or compares them. A file of baselines is written whole. *)
(* The performance baselines, a second set, are left out.                  *)
(***************************************************************************)
EXTENDS Naturals, Sequences, FiniteSets, FiniteSetsExt, SequencesExt

CONSTANTS
  Suite,       \* the entries, in the order of suite.ENTRIES
  TierOf,      \* [entries -> tiers]
  Sibling,     \* [tensor-parallel entries -> their TP=1 entry]
  Broken,      \* entries with known_broken set
  Derived,     \* entries whose checkpoint is a fixture built from our encoder
  Shapes,      \* [entries -> the kernel shapes a capture may need]
  Serves,      \* [1..MaxSource -> [entries -> [logits, weight, fixture]]]
  EncoderOf,   \* [1..MaxSource -> digest of the files fixtures.py lists]
  Logs,        \* [1..MaxEnv -> [weighs, backend]]: what run_entry finds in the log
  MaxSource,   \* bound: versions of the source
  MaxEnv,      \* bound: states of the installed packages
  MaxCommands, \* bound: commands the operator gives
  MaxChanges   \* bound: times that trees or packages change

Entries == ToSet(Suite)
Sources == 1..MaxSource
Envs == 1..MaxEnv
Shape == UNION {Shapes[e] : e \in Entries}
Tiers == {TierOf[e] : e \in Entries} \cup {"all"}
None == [source |-> 0]

ASSUME BenchAssumption ==
  /\ Suite \in Seq(Entries)
  /\ \A v \in Sources, e \in Entries : Serves[v][e] \in [logits : Nat, weight : Nat, fixture : Nat]
  /\ \A v \in Envs : Logs[v] \in [weighs : BOOLEAN, backend : Nat]
  /\ DOMAIN Sibling \subseteq Entries /\ Broken \subseteq Entries /\ Derived \subseteq Entries
  /\ \A e \in DOMAIN Sibling : Sibling[e] \in Entries \ DOMAIN Sibling
  /\ MaxSource \in Nat \ {0} /\ MaxEnv \in Nat \ {0}
  /\ MaxCommands \in Nat /\ MaxChanges \in Nat

VARIABLES
  source, dirty, \* the working tree: its version, and whether it is uncommitted
  env,           \* the installed packages
  expected,      \* bench/expected/*.json: entry -> capture or None
  manifest,      \* bench/expected/environment.txt: an env, 0 if absent
  frozen,        \* the committed autotune fixture: shapes, or <<>> if absent
  blob,          \* autotune cache of the persistent root and of the command's own:
                 \* shape -> "frozen" or "live"
  built,         \* derived checkpoints: key -> the source whose encoder wrote it
  cmd,           \* "idle", "bless", "check" or "freeze"
  opts,          \* its tier, and whether its caches are its own
  todo,          \* the positions in Suite that are still to be run
  fresh, failed, known,
  run,           \* the capture that is running: the source and packages it loaded
  verdict,       \* how the last command ended
  given,         \* commands given so far
  changes,       \* times that trees or packages changed so far
  disturbed,     \* history: trees or packages changed while the last command ran
  torn           \* history: the tree changed while a derived checkpoint was built

world == <<source, dirty, env, changes>>
kept == <<expected, manifest, frozen>>
caches == <<blob, built>>
job == <<opts, todo, fresh, failed, known>>
history == <<disturbed, torn>>
vars == <<world, kept, caches, cmd, job, run, verdict, given, history>>

\* by_tier keeps the suite's order: a command takes the first position left.
ByTier(t) == {i \in DOMAIN Suite : t = "all" \/ TierOf[Suite[i]] = t}
Nothing == [e \in Entries |-> None]
NoRun == [source |-> 0, env |-> 0]

Init ==
  /\ source = 1 /\ dirty = FALSE /\ env = 1 /\ changes = 0
  /\ expected = Nothing /\ manifest = 0 /\ frozen = <<>>
  /\ blob = [own |-> <<>>, persistent |-> <<>>] /\ built = <<>>
  /\ cmd = "idle" /\ opts = [tier |-> "all", root |-> "own"]
  /\ todo = {} /\ fresh = Nothing /\ failed = {} /\ known = {} /\ run = NoRun
  /\ verdict = "none" /\ given = 0 /\ disturbed = FALSE /\ torn = FALSE

(***************************************************************************)
(* One capture (run_entry and capture.py)                                  *)
(***************************************************************************)
Entry == Suite[Min(todo)]
Root == opts.root

FixtureKey_NameOnly == 1   \* mutant: the name of a fixture does not tell who built it

\* fixtures.key: a digest of the listed files, taken as the capture starts.
FixtureKey == EncoderOf[run.source]

\* The running capture has the checkpoint that it serves.
Ready == run # NoRun /\ (Entry \in Derived => FixtureKey \in DOMAIN built)

\* Mutant: a blob that is there already is kept.
SeedTune_Once(b) ==
  IF cmd = "freeze" \/ frozen = <<>> \/ b # <<>> THEN b
  ELSE [s \in frozen[1] |-> "frozen"]

\* install_tune_fixture: the committed fixture replaces the run's blob.
SeedTune(b) ==
  IF cmd = "freeze" \/ frozen = <<>> THEN b
  ELSE [s \in frozen[1] |-> "frozen"]

\* A shape the blob lacks is timed on the card and recorded.
Blob == blob[Root]
Tuned(e) == [s \in DOMAIN Blob \cup Shapes[e] |-> IF s \in DOMAIN Blob THEN Blob[s] ELSE "live"]

\* tune_drift: no fixture, or the blob changed under the run.
Drift(e) == frozen = <<>> \/ Tuned(e) # Blob

\* The encoder that wrote the derived checkpoint, and fixtures.digest of its content.
Writer(e) == IF e \in Derived THEN built[FixtureKey] ELSE run.source
Digest(e) == IF e \in Derived THEN Serves[Writer(e)][e].fixture ELSE 0

\* capture_prompts: greedy, so that it is a property of the model.
Scores(e) == Serves[run.source][e].logits

\* compare_prompt, within the entry's tolerance.
Same(a, b) == a.logits = b.logits

Stamp_Early(e, cap) ==   \* mutant: the drift is read before the run
  [cap EXCEPT !.stamped = TRUE,
              !.weight = IF Logs[run.env].weighs THEN Serves[run.source][e].weight ELSE 0,
              !.backend = Logs[run.env].backend, !.drift = (frozen = <<>>)]

\* What run_entry adds when the capture is over: the drift, and the weight and the
\* attention backend it reads off the log, 0 for one it does not find there.
Stamp(e, cap) ==
  [cap EXCEPT !.stamped = TRUE,
              !.weight = IF Logs[run.env].weighs THEN Serves[run.source][e].weight ELSE 0,
              !.backend = Logs[run.env].backend, !.drift = Drift(e)]

\* What capture.py writes: the state of trees and packages as it finds them when it
\* is done. Not recorded: `loaded`, the source that ran; `by`, the command; `encoder`,
\* the digest of the encoder that wrote the checkpoint; `live`, whether a kernel of
\* this run was chosen by timing.
Unstamped(e) ==
  [source |-> source, dirty |-> dirty, env |-> env, loaded |-> run.source, by |-> given,
   logits |-> Scores(e), fixture |-> Digest(e), encoder |-> EncoderOf[Writer(e)],
   stamped |-> FALSE, weight |-> 0, backend |-> 0, drift |-> FALSE,
   live |-> \E s \in Shapes[e] : Tuned(e)[s] = "live"]

Captured(e) == Stamp(e, Unstamped(e))

Ran(e) == Ready /\ blob' = [blob EXCEPT ![Root] = Tuned(e)] /\ UNCHANGED built

\* A capture that failed may have died before or after it tuned.
Failed(e) == run # NoRun /\ (Ran(e) \/ UNCHANGED caches)

(***************************************************************************)
(* The operator, at any moment                                             *)
(***************************************************************************)
Disturbs ==
  /\ changes < MaxChanges /\ changes' = changes + 1
  /\ disturbed' = (disturbed \/ cmd # "idle")

\* An edit, or a checkout of another version.
Edit ==
  /\ \E v \in Sources \ {source}, d \in BOOLEAN : source' = v /\ dirty' = d
  /\ torn' = (torn \/ (run # NoRun /\ ~Ready)) /\ Disturbs
  /\ UNCHANGED <<env, kept, caches, cmd, job, run, verdict, given>>

Commit ==
  /\ dirty /\ dirty' = FALSE /\ Disturbs
  /\ UNCHANGED <<source, env, kept, caches, cmd, job, run, verdict, given, torn>>

Install ==
  /\ env < MaxEnv /\ env' = env + 1 /\ Disturbs
  /\ UNCHANGED <<source, dirty, kept, caches, cmd, job, run, verdict, given, torn>>

(***************************************************************************)
(* Starting a command                                                      *)
(***************************************************************************)
\* cache_policy: bless and freeze-tune bring an empty cache root of their own.
Start(c, tier, root) ==
  /\ cmd' = c /\ opts' = [tier |-> tier, root |-> root]
  /\ todo' = ByTier(tier) /\ fresh' = Nothing /\ failed' = {} /\ known' = {}
  /\ blob' = [blob EXCEPT !.own = <<>>]
  /\ verdict' = "none" /\ disturbed' = FALSE /\ UNCHANGED built

Refuse == verdict' = "refused" /\ UNCHANGED <<caches, cmd, job, disturbed>>

Idle ==
  /\ cmd = "idle" /\ given < MaxCommands /\ given' = given + 1
  /\ UNCHANGED <<world, kept, run, torn>>

\* refuse_if_dirty looks once, before the first entry.
Bless(tier, allowDirty) ==
  Idle /\ IF dirty /\ ~allowDirty THEN Refuse ELSE Start("bless", tier, "own")

\* environment_drift, looked at once: no manifest is no difference.
Drifted == manifest # 0 /\ manifest # env

Check(tier, cold, strict) ==
  /\ Idle
  /\ IF Drifted /\ strict THEN Refuse
     ELSE Start("check", tier, IF cold THEN "own" ELSE "persistent")

FreezeTune(tier) == Idle /\ Start("freeze", tier, "own")

(***************************************************************************)
(* The steps every command takes                                           *)
(***************************************************************************)
PassedOver_Refused == failed   \* mutant: only what this command refused is passed over
PassedOver_Recorded == Broken \cup {e \in Entries : expected[e] # None}   \* mutant: resumes

\* known_broken: kept in the matrix and run by check, never blessed or frozen.
PassedOver == Broken

\* The entries a command captures.
Wanted(e) ==
  \/ cmd = "check" /\ (e \in Broken \/ expected[e] # None)
  \/ cmd \in {"bless", "freeze"} /\ e \notin PassedOver

Working == cmd # "idle" /\ todo # {}

\* The process starts: its blob is the fixture, the trees it loads are today's.
Launch ==
  /\ Working /\ run = NoRun /\ Wanted(Entry)
  /\ run' = [source |-> source, env |-> env]
  /\ blob' = [blob EXCEPT ![Root] = SeedTune(@)]
  /\ UNCHANGED <<world, kept, built, cmd, job, verdict, given, history>>

\* fixtures.ensure: the tool, a process that loads the tree for itself, builds beside
\* the name and renames; a checkpoint that is there is taken as it is.
Build ==
  /\ Working /\ run # NoRun /\ ~Ready
  /\ built' = [k \in DOMAIN built \cup {FixtureKey} |->
                 IF k \in DOMAIN built THEN built[k] ELSE source]
  /\ UNCHANGED <<world, kept, blob, cmd, job, run, verdict, given, history>>

Ended(v) == cmd' = "idle" /\ verdict' = v
Continue == todo' = todo \ {Min(todo)} /\ UNCHANGED <<cmd, verdict>>

AnswersToSibling_Logits(e, cap) ==   \* mutant: only the prompts are compared
  e \in DOMAIN Sibling =>
    expected[Sibling[e]] # None /\ Same(expected[Sibling[e]], cap)

\* check_sibling: the TP=1 entry's committed baseline is a second reference, in
\* weight too where both have one (weight_ratio, 1.25).
AnswersToSibling(e, cap) ==
  e \in DOMAIN Sibling =>
    LET sib == expected[Sibling[e]] IN
      /\ sib # None /\ Same(sib, cap)
      /\ cap.weight # 0 /\ sib.weight # 0 => 4 * cap.weight <= 5 * sib.weight

Refused_Unlisted(e) == failed   \* mutant: the entry is passed over in silence

\* The entries that get no baseline, or fail.
Refused(e) == failed \cup {e}

\* An entry is over, and its capture with it.
Step(c) ==
  /\ cmd = c /\ Working /\ run' = NoRun
  /\ UNCHANGED <<world, manifest, frozen, opts, given, history>>

Skip ==
  /\ Step(cmd) /\ cmd # "check" /\ Entry \in PassedOver
  /\ Continue /\ UNCHANGED <<expected, caches, fresh, failed, known>>

(***************************************************************************)
(* bless                                                                   *)
(***************************************************************************)
\* A TP entry is captured aside and installed only if it answers to its sibling.
BlessEntry ==
  /\ Step("bless") /\ Ran(Entry)
  /\ LET cap == Captured(Entry) IN
       IF AnswersToSibling(Entry, cap)
       THEN expected' = [expected EXCEPT ![Entry] = cap] /\ UNCHANGED failed
       ELSE failed' = Refused(Entry) /\ UNCHANGED expected
  /\ Continue /\ UNCHANGED <<fresh, known>>

\* "one entry that cannot capture must not hide the rest of the tier"
BlessTpFails ==
  /\ Step("bless") /\ Entry \in DOMAIN Sibling
  /\ failed' = Refused(Entry)
  /\ Failed(Entry) /\ Continue /\ UNCHANGED <<expected, fresh, known>>

\* A TP=1 entry is captured straight into bench/expected/: a capture that fails or
\* is stopped after it wrote leaves what it wrote, without run_entry's stamp.
BlessStops ==
  /\ Step("bless") /\ Entry \notin DOMAIN Sibling
  /\ \/ Failed(Entry) /\ UNCHANGED expected
     \/ Ran(Entry) /\ expected' = [expected EXCEPT ![Entry] = Unstamped(Entry)]
  /\ Ended("aborted") /\ UNCHANGED <<todo, fresh, failed, known>>

BlessEnd ==
  /\ cmd = "bless" /\ todo = {}
  /\ manifest' = env
  /\ Ended(IF failed = {} THEN "blessed" ELSE "partly")
  /\ UNCHANGED <<world, expected, frozen, caches, job, run, given, history>>

(***************************************************************************)
(* check                                                                   *)
(***************************************************************************)
Agrees_OwnOnly(e, cap) ==   \* mutant: the entry's own baseline is all it answers to
  LET base == expected[e] IN
    /\ Same(base, cap) /\ base.fixture = cap.fixture
    /\ base.backend # 0 => base.backend = cap.backend
    /\ base.weight # 0 /\ cap.weight # 0 => base.weight = cap.weight

\* check_entry: the weight is compared where both logs had it, the backend where the
\* baseline has one.
Agrees(e, cap) ==
  LET base == expected[e] IN
    /\ Same(base, cap) /\ base.fixture = cap.fixture
    /\ base.backend # 0 => base.backend = cap.backend
    /\ base.weight # 0 /\ cap.weight # 0 => base.weight = cap.weight
    /\ AnswersToSibling(e, cap)

\* An entry known to be broken that captures has been fixed, and fails the check.
CheckEntry ==
  /\ Step("check") /\ Ran(Entry)
  /\ LET cap == Captured(Entry) IN
       /\ fresh' = [fresh EXCEPT ![Entry] = cap]
       /\ failed' = IF Entry \notin Broken /\ Agrees(Entry, cap) THEN failed
                    ELSE Refused(Entry)
  /\ Continue /\ UNCHANGED <<expected, known>>

CheckNoBaseline ==
  /\ Step("check") /\ Entry \notin Broken /\ expected[Entry] = None
  /\ failed' = Refused(Entry)
  /\ Continue /\ UNCHANGED <<expected, caches, fresh, known>>

CheckKnownBroken ==
  /\ Step("check") /\ Entry \in Broken
  /\ known' = known \cup {Entry}
  /\ Failed(Entry) /\ Continue /\ UNCHANGED <<expected, fresh, failed>>

CheckEnd ==
  /\ cmd = "check" /\ todo = {}
  /\ Ended(IF failed = {} THEN "pass" ELSE "fail")
  /\ UNCHANGED <<world, kept, caches, job, run, given, history>>

(***************************************************************************)
(* freeze-tune                                                             *)
(***************************************************************************)
\* The blob only ever grows: records an entry loses refuse the freeze.
Lost(e) == DOMAIN Blob \ DOMAIN Tuned(e)

FreezeEntry ==
  /\ Step("freeze") /\ Ran(Entry)
  /\ IF Lost(Entry) = {} THEN Continue ELSE Ended("refused") /\ UNCHANGED todo
  /\ UNCHANGED <<expected, fresh, failed, known>>

FreezeFails ==
  /\ Step("freeze")
  /\ Failed(Entry) /\ Continue /\ UNCHANGED <<expected, fresh, failed, known>>

FreezeEnd ==
  /\ cmd = "freeze" /\ todo = {}
  /\ IF Blob = <<>>
     THEN Ended("refused") /\ UNCHANGED frozen
     ELSE Ended("froze") /\ frozen' = <<DOMAIN Blob>>
  /\ UNCHANGED <<world, expected, manifest, caches, job, run, given, history>>

\* The command is killed, or a capture hangs: its timeout is not a SystemExit, so
\* no handler of the loops sees it. (A plain failure under check ends it as well.) What
\* the process held goes with it.
Abort ==
  /\ cmd # "idle" /\ Ended("aborted") /\ run' = NoRun
  /\ UNCHANGED caches \/ (todo # {} /\ Failed(Entry))
  /\ todo' = {} /\ fresh' = Nothing /\ failed' = {} /\ known' = {}
  /\ UNCHANGED <<world, kept, opts, given, history>>

Next ==
  \/ Edit \/ Commit \/ Install
  \/ \E t \in Tiers, a \in BOOLEAN : Bless(t, a)
  \/ \E t \in Tiers, cold, strict \in BOOLEAN : Check(t, cold, strict)
  \/ \E t \in Tiers : FreezeTune(t)
  \/ Launch \/ Build \/ Skip
  \/ BlessEntry \/ BlessTpFails \/ BlessStops \/ BlessEnd
  \/ CheckEntry \/ CheckNoBaseline \/ CheckKnownBroken \/ CheckEnd
  \/ FreezeEntry \/ FreezeFails \/ FreezeEnd
  \/ Abort

Spec == Init /\ [][Next]_vars

-----------------------------------------------------------------------------
(***************************************************************************)
(* Properties                                                              *)
(***************************************************************************)
Captures ==
  [source : Sources, dirty : BOOLEAN, env : Envs, loaded : Sources, by : 1..MaxCommands,
   logits : Nat, fixture : Nat, encoder : {EncoderOf[v] : v \in Sources},
   stamped : BOOLEAN, weight : Nat, backend : Nat, drift : BOOLEAN, live : BOOLEAN]

\* Every variable stays in its set, and known-broken entries have no baseline.
TypeOK ==
  /\ source \in Sources /\ dirty \in BOOLEAN /\ env \in Envs
  /\ expected \in [Entries -> Captures \cup {None}]
  /\ \A e \in Broken : expected[e] = None
  /\ fresh \in [Entries -> Captures \cup {None}]
  /\ manifest \in 0..MaxEnv
  /\ frozen = <<>> \/ frozen[1] \subseteq Shape
  /\ \A r \in {"own", "persistent"} : \A s \in DOMAIN blob[r] :
       s \in Shape /\ blob[r][s] \in {"frozen", "live"}
  /\ \A k \in DOMAIN built : built[k] \in Sources
  /\ cmd \in {"idle", "bless", "check", "freeze"} /\ todo \subseteq DOMAIN Suite
  /\ run = NoRun \/ (run \in [source : Sources, env : Envs] /\ Working)
  /\ failed \subseteq Entries /\ known \subseteq Broken
  /\ given \in 0..MaxCommands /\ changes \in 0..MaxChanges /\ disturbed \in BOOLEAN /\ torn \in BOOLEAN

InTier == {Suite[i] : i \in ByTier(opts.tier)}

\* A check that passes has captured every entry of its tier that is not known to
\* be broken, and each agrees with its own baseline and, sharded, with the TP=1
\* baseline too -- whichever blesses recorded the two, and whatever changed while
\* the check ran. Of weights it says something only where both logs had a weight
\* line, of the backend only where the baseline has one (cmd_check, check_sibling).
PassHonest ==
  verdict = "pass" =>
    \A e \in InTier \ known :
      LET base == expected[e] cap == fresh[e] IN
        /\ e \notin Broken /\ base # None /\ cap # None /\ cap.by = given
        /\ cap.logits = base.logits /\ cap.fixture = base.fixture
        /\ base.backend \in {0, cap.backend}
        /\ cap.weight = base.weight \/ 0 \in {cap.weight, base.weight}
        /\ e \in DOMAIN Sibling =>
             LET sib == expected[Sibling[e]] IN
               /\ sib # None /\ cap.logits = sib.logits
               /\ 4 * cap.weight <= 5 * sib.weight \/ sib.weight = 0

\* A bless that ends well has itself recorded every entry of its tier, each with its
\* stamp; and where trees and packages held still meanwhile (nothing makes them), its
\* tier is a snapshot of one build in one environment, the one the manifest names.
BlessWhole ==
  verdict = "blessed" =>
    \A e, f \in InTier \ Broken :
      /\ expected[e] # None /\ expected[e].stamped /\ expected[e].by = given
      /\ ~disturbed =>
           /\ expected[e].loaded = expected[f].source
           /\ expected[e].dirty = expected[f].dirty
           /\ expected[e].env = manifest

\* A stamped capture not marked as drifted used no kernel that exllamav3's autotuner
\* chose by timing, in this run or in an earlier one with the same cache. (A baseline
\* without its stamp, which a bless stopped in between leaves, carries no mark.)
NoSilentTuning ==
  \A e \in Entries : \A cap \in {expected[e], fresh[e]} \ {None} :
    cap.stamped /\ cap.live => cap.drift

\* A derived checkpoint is the one that the encoder's files, as the capture found
\* them, write -- though it is cached across edits, aborted runs and commands -- as
\* long as the tree never changed between the digest and the build of one
\* (fixtures.ensure; of other files and of packages the key says nothing).
FixtureFresh ==
  ~torn =>
    \A e \in Entries : \A cap \in {expected[e], fresh[e]} \ {None} :
      cap.encoder = EncoderOf[cap.loaded]

\* What an earlier run left in these two caches is in no capture unseen.
CapturesFresh == TypeOK /\ NoSilentTuning /\ FixtureFresh
=============================================================================
