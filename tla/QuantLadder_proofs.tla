------------------------ MODULE QuantLadder_proofs ------------------------
(***************************************************************************)
(* Proofs about QuantLadder, for any rungs, converters, GPUs and numbers of *)
(* commands, kills and failures: a record names what made the directory     *)
(* unless the checkout changed during the conversion, or a revision was     *)
(* asked for with several calibrations; ladders are compared with rungs of  *)
(* one converter, with the same exception; and a batch that exits with 0    *)
(* has made all it was asked for.                                           *)
(***************************************************************************)
EXTENDS QuantLadder, SequenceTheorems, TLAPS

(***************************************************************************)
(* The inductive invariant.                                                 *)
(***************************************************************************)
Active(l) == lane[l].step \notin {"free", "stopped"}
Steps == {"free", "stopped", "solve", "convert", "record", "publish"}
Revision == [out : ModeOf \cup {None}, work : ModeOf \cup {None},
             recipe : {None, "own", "blend", "file"}, json : ModeOf \cup {None}]
Slot == [task : Uncal \cup {None}, step : Steps, left : 0 .. Retries + 1, existed : BOOLEAN]

FileTypes ==
    /\ tree \in Tree \cup {Dirty}
    /\ uncal \in [Uncal -> UncalDir] /\ hub \in [Uncal -> UncalDir]
    /\ inputs \subseteq Stage
    /\ rev \in [Rung -> Revision]
    /\ asked \in [Rung -> SUBSET ModeOf]

Given(c) ==
    /\ c \in Command
    /\ c.op = "quantize" => c.mode \in ModeOf /\ c.tasks = Bits

JobTypes ==
    /\ cmd # Idle => Given(cmd)
    /\ share \in [Gpu -> SUBSET Nat]
    /\ cmd # Idle => \A g \in Gpu : share[g] \subseteq DOMAIN cmd.tasks
    /\ lane \in [Lane -> Slot]
    /\ failed \subseteq Uncal

\* A record is of a directory that is there, and true of it.
StampOK(dir) ==
    /\ dir.made = None => dir.stamp = None
    /\ dir.stamp # None /\ dir.stamp.tree # None => dir.made = dir.stamp.tree \/ dir.shifted
Stamped == \A d \in Uncal : StampOK(uncal[d]) /\ StampOK(hub[d])

\* A conversion done or begun with a recipe has the one that is solved.
RecipeOf(r, mode) == mode # None /\ mode.recipe # None => rev[r].recipe = mode.recipe
Solved == \A r \in Rung : RecipeOf(r, rev[r].out) /\ RecipeOf(r, rev[r].work)

\* What a lane works on is a task of the command, and where it is in it.
LaneTask(l) ==
    /\ lane[l].step # "stopped" => l \in DOMAIN cmd.devices
    /\ Active(l) => lane[l].task \in ToSet(cmd.tasks)
    /\ lane[l].step = "record" => cmd.op = "baseline"
    /\ lane[l].step \in {"solve", "publish"} => cmd.op = "quantize"

\* What was not there when its task began is made by the current converter, or the
\* checkout has changed since.
LaneBase(l) ==
    LET made == uncal[lane[l].task].made
    IN  /\ lane[l].step = "record" => made # None
        /\ Active(l) /\ cmd.op = "baseline" /\ ~lane[l].existed =>
              made \in {None, tree} \/ uncal[lane[l].task].shifted

\* A revision is solved before it is begun, and converted before it is published.
LaneQuant(l) ==
    LET r == rev[lane[l].task]
    IN  /\ lane[l].step = "solve" => r.out \in {None, cmd.mode} /\ r.work \in {None, cmd.mode}
        /\ lane[l].step = "convert" /\ cmd.op = "quantize" /\ cmd.mode.recipe # None =>
              r.out # None \/ r.work # None \/ r.recipe = cmd.mode.recipe
        /\ lane[l].step = "publish" => r.out # None

Lanes == cmd # Idle => \A l \in Lane : LaneTask(l) /\ LaneBase(l) /\ LaneQuant(l)

LadderInv == FileTypes /\ JobTypes /\ Stamped /\ Solved /\ Lanes

(***************************************************************************)
(* Constants and commands.                                                  *)
(***************************************************************************)
LEMMA Nones ==
    /\ None \notin ModeOf /\ None \notin StampOf /\ None \notin Tree /\ None # Dirty
    /\ None \notin {"own", "blend", "file"}
BY LadderAssumption

LEMMA LaneIsNat == Lane \subseteq Nat \ {0}
<1> SUFFICES ASSUME NEW d \in Devices, NEW l \in DOMAIN d PROVE l \in Nat \ {0}
  BY DEF Lane
<1>1. d \in Seq(ToSet(d))
  BY LadderAssumption
<1> QED BY <1>1

LEMMA DevicesOf ==
    ASSUME NEW d \in Devices
    PROVE  /\ d \in Seq(Gpu) /\ DOMAIN d = 1 .. Len(d) /\ Len(d) \in Nat \ {0}
           /\ DOMAIN d \subseteq Lane /\ ToSet(d) \subseteq Gpu /\ ToSet(d) = {d[i] : i \in DOMAIN d}
<1>1. d \in Seq(ToSet(d)) /\ d # <<>>
  BY LadderAssumption
<1>2. ToSet(d) \subseteq Gpu /\ DOMAIN d \subseteq Lane
  BY DEF Gpu, Lane
<1>3. DOMAIN d = 1 .. Len(d) /\ Len(d) \in Nat \ {0}
  BY <1>1
<1>4. \A i \in 1 .. Len(d) : d[i] \in Gpu
  BY <1>1, <1>2
<1>5. d \in Seq(Gpu)
  BY <1>1, <1>2
<1> QED BY <1>2, <1>3, <1>5 DEF ToSet

LEMMA BitsAreRungs ==
    /\ Bits \in Seq(Rung) /\ ToSet(Bits) = Rung
    /\ Gen \in Uncal /\ Rung \subseteq Uncal /\ Gen \notin Rung
BY LadderAssumption DEF Rung, Uncal

LEMMA TasksOf ==
    ASSUME NEW c \in Command
    PROVE  /\ c.tasks \in Seq(Uncal) /\ DOMAIN c.tasks = 1 .. Len(c.tasks) /\ Len(c.tasks) \in Nat
           /\ ToSet(c.tasks) = {c.tasks[k] : k \in DOMAIN c.tasks}
           /\ ToSet(c.tasks) \subseteq Uncal
<1>1. c.tasks = Bits \/ c.tasks = <<Gen>> \o Bits
  BY DEF Command
<1>2. Bits \in Seq(Uncal) /\ <<Gen>> \in Seq(Uncal)
  BY BitsAreRungs
<1>3. <<Gen>> \o Bits \in Seq(Uncal)
  BY <1>2, ConcatProperties
<1>3a. c.tasks \in Seq(Uncal)
  BY <1>1, <1>2, <1>3
<1>4. DOMAIN c.tasks = 1 .. Len(c.tasks) /\ Len(c.tasks) \in Nat
  BY <1>3a
<1>5. \A k \in DOMAIN c.tasks : c.tasks[k] \in Uncal
  BY <1>3a
<1>6. ToSet(c.tasks) = {c.tasks[k] : k \in DOMAIN c.tasks}
  BY DEF ToSet
<1>7. ToSet(c.tasks) \subseteq Uncal
  BY <1>5, <1>6
<1> QED BY <1>3a, <1>4, <1>6, <1>7

LEMMA GivenFacts ==
    ASSUME NEW c, Given(c)
    PROVE  /\ c \in Command /\ c # Idle /\ c.op \in {"baseline", "quantize"} /\ c.devices \in Devices
           /\ c.op = "quantize" => ToSet(c.tasks) = Rung /\ c.mode \in ModeOf /\ c.mode # None
BY LadderAssumption, Nones, BitsAreRungs DEF Given, Command

(***************************************************************************)
(* A new batch, the end of one, and commands without jobs.                  *)
(***************************************************************************)
LEMMA IdleSlots == Free \in Slot /\ Stopped \in Slot
<1>1. 0 \in 0 .. Retries + 1
  BY LadderAssumption
<1> QED BY <1>1 DEF Free, Stopped, Slot, Steps

LEMMA LaunchKeeps ==
    ASSUME JobTypes, NEW c, Given(c), Launch(c), UNCHANGED <<tree, hub, inputs>>
    PROVE  JobTypes' /\ Lanes'
<1>1. c \in Command /\ c # Idle /\ c.devices \in Devices /\ cmd' = c /\ failed' = {}
  BY GivenFacts DEF Launch
<1>2. PICK to \in [DOMAIN c.tasks -> ToSet(c.devices)] :
        share' = [g \in Gpu |-> {k \in DOMAIN to : to[k] = g}]
  BY DEF Launch
<1>3. DOMAIN c.tasks \subseteq Nat
  BY <1>1, TasksOf
<1>4. share' \in [Gpu -> SUBSET Nat] /\ \A g \in Gpu : share'[g] \subseteq DOMAIN c.tasks
  BY <1>2, <1>3
<1>5. lane' = [l \in Lane |-> IF l <= Len(c.devices) THEN Free ELSE Stopped]
  BY DEF Launch
<1>6. Free \in Slot /\ Stopped \in Slot
  BY IdleSlots
<1>7. lane' \in [Lane -> Slot]
  BY <1>5, <1>6
<1>8. JobTypes'
  BY <1>1, <1>4, <1>7 DEF JobTypes, Given
<1>9. ASSUME NEW l \in Lane PROVE (LaneTask(l) /\ LaneBase(l) /\ LaneQuant(l))'
  <2>1. l \in Nat \ {0} /\ DOMAIN c.devices = 1 .. Len(c.devices) /\ Len(c.devices) \in Nat
    BY <1>1, LaneIsNat, DevicesOf
  <2>2. lane'[l].step \in {"free", "stopped"} /\ (lane'[l].step # "stopped" => l <= Len(c.devices))
    BY <1>5 DEF Free, Stopped
  <2>3. lane'[l].step # "stopped" => l \in DOMAIN c.devices
    BY <2>1, <2>2
  <2> QED BY <1>1, <2>2, <2>3 DEF LaneTask, LaneBase, LaneQuant, Active
<1> QED BY <1>8, <1>9 DEF Lanes

LEMMA AbortKeeps ==
    ASSUME JobTypes, Abort
    PROVE  JobTypes' /\ Lanes'
<1>1. Stopped \in Slot
  BY IdleSlots
<1> QED BY <1>1 DEF Abort, JobTypes, Lanes

LEMMA IdleKeeps ==
    ASSUME JobTypes, cmd = Idle, UNCHANGED <<cmd, jobs>>
    PROVE  JobTypes' /\ Lanes'
BY DEF JobTypes, Lanes, jobs

LEMMA Initially == Init => LadderInv
<1> SUFFICES ASSUME Init PROVE LadderInv
  OBVIOUS
<1>1. FileTypes
  <2>1. NoUncal \in UncalDir
    BY DEF NoUncal, UncalDir
  <2> QED BY <2>1, LadderAssumption DEF Init, FileTypes, Revision, Stage
<1>2. JobTypes
  <2>1. lane \in [Lane -> Slot]
    BY IdleSlots DEF Init
  <2> QED BY <2>1 DEF Init, JobTypes
<1>3. Stamped /\ Solved
  BY DEF Init, Stamped, StampOK, Solved, RecipeOf, NoUncal
<1> QED BY <1>1, <1>2, <1>3 DEF Init, LadderInv, Lanes

(***************************************************************************)
(* The steps of lanes.                                                      *)
(***************************************************************************)
\* What a step of one lane may do to what others work on.
MadeGrows ==
    \A d \in Uncal : \/ uncal'[d].made = uncal[d].made /\ uncal'[d].shifted = uncal[d].shifted
                     \/ uncal[d].made = None /\ uncal'[d].made = tree
RevGrows(r) ==
    /\ rev[r].out # None => rev'[r].out # None
    /\ rev[r].json # None => rev'[r].json # None
    /\ rev[r].out \in {None, cmd.mode} /\ rev[r].work \in {None, cmd.mode} =>
          rev'[r].out \in {None, cmd.mode} /\ rev'[r].work \in {None, cmd.mode}
    /\ rev[r].out # None \/ rev[r].work # None \/ rev[r].recipe = cmd.mode.recipe =>
          rev'[r].out # None \/ rev'[r].work # None \/ rev'[r].recipe = cmd.mode.recipe
Grows == MadeGrows /\ \A r \in Rung : RevGrows(r)

LEMMA AtWork ==
    ASSUME LadderInv, cmd # Idle, NEW l \in Lane
    PROVE  /\ LaneTask(l) /\ LaneBase(l) /\ LaneQuant(l) /\ Given(cmd)
           /\ lane[l].step # "stopped" => cmd.devices[l] \in Gpu /\ l \in DOMAIN cmd.devices
           /\ Active(l) => lane[l].task \in Uncal
           /\ Active(l) /\ cmd.op = "quantize" => lane[l].task \in Rung
<1>1. LaneTask(l) /\ LaneBase(l) /\ LaneQuant(l) /\ Given(cmd)
  BY DEF LadderInv, Lanes, JobTypes
<1>2. cmd \in Command /\ cmd.devices \in Devices
  BY <1>1, GivenFacts
<1>3. lane[l].step # "stopped" => cmd.devices[l] \in Gpu /\ l \in DOMAIN cmd.devices
  BY <1>1, <1>2, DevicesOf DEF LaneTask
<1>4. Active(l) => lane[l].task \in Uncal
  BY <1>1, <1>2, TasksOf DEF LaneTask
<1>5. Active(l) /\ cmd.op = "quantize" => lane[l].task \in Rung
  BY <1>1, GivenFacts DEF LaneTask
<1> QED BY <1>1, <1>3, <1>4, <1>5

LEMMA OtherLanes ==
    ASSUME LadderInv, cmd # Idle, cmd' = cmd, tree' = tree, Grows,
           NEW m \in Lane, lane'[m] = lane[m]
    PROVE  (LaneTask(m) /\ LaneBase(m) /\ LaneQuant(m))'
<1>1. /\ LaneTask(m) /\ LaneBase(m) /\ LaneQuant(m)
      /\ Active(m) => lane[m].task \in Uncal
      /\ Active(m) /\ cmd.op = "quantize" => lane[m].task \in Rung
  BY AtWork
<1>2. LaneTask(m)'
  BY <1>1 DEF LaneTask, Active
<1>3. LaneBase(m)'
  <2>1. tree # None
    BY Nones DEF LadderInv, FileTypes
  <2> QED BY <1>1, <2>1 DEF LaneBase, Active, Grows, MadeGrows
<1>4. LaneQuant(m)'
  <2>1. CASE lane[m].step \in {"solve", "publish"} \/ (lane[m].step = "convert" /\ cmd.op = "quantize")
    <3>1. lane[m].task \in Rung
      BY <1>1, <2>1 DEF LaneTask, Active
    <3>2. RevGrows(lane[m].task)
      BY <3>1 DEF Grows
    <3> QED BY <1>1, <3>2 DEF LaneQuant, RevGrows
  <2>2. CASE ~(lane[m].step \in {"solve", "publish"} \/ (lane[m].step = "convert" /\ cmd.op = "quantize"))
    BY <2>2 DEF LaneQuant
  <2> QED BY <2>1, <2>2
<1> QED BY <1>2, <1>3, <1>4

LEMMA LaneMoves ==
    ASSUME LadderInv, cmd # Idle, cmd' = cmd, tree' = tree, Grows,
           NEW l \in Lane, NEW x \in Slot, Do(l, x),
           x.step \notin {"free", "stopped"} => (LaneTask(l) /\ LaneBase(l) /\ LaneQuant(l))',
           lane[l].step # "stopped"
    PROVE  lane' \in [Lane -> Slot] /\ lane'[l] = x /\ Lanes'
<1>1. lane' \in [Lane -> Slot] /\ lane'[l] = x /\ \A m \in Lane \ {l} : lane'[m] = lane[m]
  BY DEF Do, LadderInv, JobTypes
<1>2. x.step \in {"free", "stopped"} => (LaneTask(l) /\ LaneBase(l) /\ LaneQuant(l))'
  BY <1>1, AtWork DEF LaneTask, LaneBase, LaneQuant, Active
<1>3. ASSUME NEW m \in Lane PROVE (LaneTask(m) /\ LaneBase(m) /\ LaneQuant(m))'
  BY <1>1, <1>2, OtherLanes
<1> QED BY <1>1, <1>3 DEF Lanes

\* A step that leaves the files alone.
LEMMA FilesKept ==
    ASSUME LadderInv, UNCHANGED <<tree, files>>
    PROVE  FileTypes' /\ Stamped' /\ Solved' /\ Grows
<1>1. MadeGrows
  BY DEF files, MadeGrows
<1>2. \A r \in Rung : RevGrows(r)
  BY DEF files, RevGrows
<1>3. FileTypes'
  BY DEF LadderInv, FileTypes, files
<1>4. Stamped' /\ Solved'
  BY DEF LadderInv, Stamped, StampOK, Solved, RecipeOf, files
<1> QED BY <1>1, <1>2, <1>3, <1>4 DEF Grows

LEMMA TakeTaskKeeps == \A l \in Lane : LadderInv /\ TakeTask(l) => LadderInv' /\ Grows
<1> SUFFICES ASSUME NEW l \in Lane, LadderInv, TakeTask(l) PROVE LadderInv' /\ Grows
  OBVIOUS
<1>1. /\ UNCHANGED <<tree, files, cmd, failed>> /\ cmd # Idle /\ lane[l].step = "free"
  BY DEF TakeTask, At
<1>2. FileTypes' /\ Stamped' /\ Solved' /\ Grows
  BY <1>1, FilesKept
<1> DEFINE g == cmd.devices[l]
<1>3. g \in Gpu /\ Given(cmd) /\ l \in DOMAIN cmd.devices
  BY <1>1, AtWork
<1>4. PICK k \in share[g] :
        /\ share' = [share EXCEPT ![g] = @ \ {k}]
        /\ Do(l, [task |-> cmd.tasks[k], step |-> FirstStep(cmd.tasks[k]), left |-> Retries + 1,
                  existed |-> cmd.op = "baseline" /\ Existed(cmd.tasks[k])])
  BY DEF TakeTask
<1> DEFINE t == cmd.tasks[k]
           x == [task |-> t, step |-> FirstStep(t), left |-> Retries + 1,
                 existed |-> cmd.op = "baseline" /\ Existed(t)]
<1>5. k \in DOMAIN cmd.tasks
  BY <1>1, <1>3 DEF LadderInv, JobTypes
<1>6. cmd \in Command /\ t \in ToSet(cmd.tasks) /\ t \in Uncal
  BY <1>3, <1>5, GivenFacts, TasksOf
<1>7. FirstStep(t) \in {"solve", "convert"}
  BY DEF FirstStep
<1>8. x \in Slot
  <2>1. Retries + 1 \in 0 .. Retries + 1
    BY LadderAssumption
  <2>2. (cmd.op = "baseline" /\ Existed(t)) \in BOOLEAN
    OBVIOUS
  <2> HIDE DEF t
  <2> QED BY <1>6, <1>7, <2>1, <2>2 DEF Slot, Steps
<1>9. lane'[l] = x /\ Do(l, x)
  BY <1>4 DEF Do, LadderInv, JobTypes
<1>10. (LaneTask(l) /\ LaneBase(l) /\ LaneQuant(l))'
  <2>1. /\ lane'[l].task = t /\ lane'[l].step = FirstStep(t)
        /\ lane'[l].existed = (cmd.op = "baseline" /\ Existed(t))
    BY <1>9
  <2> HIDE DEF t
  <2>2. LaneTask(l)'
    BY <1>1, <1>3, <1>6, <1>7, <2>1 DEF LaneTask, FirstStep
  <2>3. LaneBase(l)'
    BY <1>1, <1>7, <2>1 DEF LaneBase, Existed, files
  <2>4. LaneQuant(l)'
    BY <1>1, <1>7, <2>1 DEF LaneQuant, FirstStep, files
  <2> QED BY <2>2, <2>3, <2>4
<1>11. lane' \in [Lane -> Slot] /\ Lanes'
  BY <1>1, <1>2, <1>8, <1>9, <1>10, LaneMoves
<1>12. JobTypes'
  BY <1>1, <1>3, <1>4, <1>11 DEF LadderInv, JobTypes, Given
<1> QED BY <1>2, <1>11, <1>12 DEF LadderInv

LEMMA NoMoreTasksKeeps == \A l \in Lane : LadderInv /\ NoMoreTasks(l) => LadderInv' /\ Grows
<1> SUFFICES ASSUME NEW l \in Lane, LadderInv, NoMoreTasks(l) PROVE LadderInv' /\ Grows
  OBVIOUS
<1>1. /\ UNCHANGED <<tree, files, cmd, share, failed>> /\ cmd # Idle /\ lane[l].step = "free"
      /\ Do(l, Stopped)
  BY DEF NoMoreTasks, At
<1>2. FileTypes' /\ Stamped' /\ Solved' /\ Grows
  BY <1>1, FilesKept
<1>3. lane' \in [Lane -> Slot] /\ Lanes'
  BY <1>1, <1>2, IdleSlots, LaneMoves DEF Stopped, Free
<1>4. JobTypes'
  BY <1>1, <1>3 DEF LadderInv, JobTypes, Given
<1> QED BY <1>2, <1>3, <1>4 DEF LadderInv

\* A lane's slot when its attempt or its task is over.
LEMMA Slots ==
    ASSUME LadderInv, NEW l \in Lane
    PROVE  /\ lane[l] \in Slot
           /\ \A s \in Steps : [lane[l] EXCEPT !.step = s] \in Slot
           /\ lane[l].left > 1 => [lane[l] EXCEPT !.left = @ - 1] \in Slot
<1>1. lane[l] \in Slot
  BY DEF LadderInv, JobTypes
<1>2. ASSUME lane[l].left > 1 PROVE lane[l].left - 1 \in 0 .. Retries + 1
  BY <1>1, <1>2, LadderAssumption DEF Slot
<1> QED BY <1>1, <1>2 DEF Slot

\* A rung is made from the current converter, or is there already.
LEMMA UncalConvertKeeps == \A l \in Lane : LadderInv /\ UncalConvert(l) => LadderInv' /\ Grows
<1> SUFFICES ASSUME NEW l \in Lane, LadderInv, UncalConvert(l) PROVE LadderInv' /\ Grows
  OBVIOUS
<1> DEFINE t == lane[l].task
<1>1. /\ UNCHANGED <<tree, hub, inputs, rev, asked, cmd, share>> /\ cmd # Idle
      /\ lane[l].step = "convert" /\ cmd.op = "baseline"
  BY DEF UncalConvert, At
<1>2. /\ LaneTask(l) /\ LaneBase(l) /\ Active(l) /\ t \in Uncal /\ Given(cmd)
  BY <1>1, AtWork DEF Active
<1>3. tree \in Tree \cup {Dirty} /\ tree # None
  BY Nones DEF LadderInv, FileTypes
<1>4. \A r \in Rung : RevGrows(r)
  BY <1>1 DEF RevGrows
<1>5. \/ uncal' = uncal
      \/ uncal[t].made = None /\ uncal' = [uncal EXCEPT ![t].made = tree, ![t].shifted = FALSE]
  BY DEF UncalConvert
<1>6. uncal \in [Uncal -> UncalDir] /\ Stamped /\ lane \in [Lane -> Slot]
  BY DEF LadderInv, FileTypes, JobTypes
<1>7. Grows
  BY <1>2, <1>4, <1>5, <1>6 DEF Grows, MadeGrows, UncalDir
<1>8. uncal' \in [Uncal -> UncalDir]
  BY <1>2, <1>3, <1>5, <1>6 DEF UncalDir
<1>9. Stamped'
  <2> SUFFICES ASSUME NEW d \in Uncal PROVE StampOK(uncal[d])' /\ StampOK(hub[d])'
    BY DEF Stamped
  <2>0. StampOK(uncal[d]) /\ StampOK(hub[d])
    BY <1>6 DEF Stamped
  <2>1. StampOK(hub[d])'
    BY <1>1, <2>0 DEF StampOK
  <2>2. CASE uncal'[d] = uncal[d]
    BY <2>0, <2>1, <2>2 DEF StampOK
  <2>3. CASE /\ d = t /\ uncal[t].made = None
             /\ uncal' = [uncal EXCEPT ![t].made = tree, ![t].shifted = FALSE]
    <3>1. uncal'[d].made = tree /\ uncal'[d].stamp = uncal[d].stamp
      BY <1>2, <1>6, <2>3 DEF UncalDir
    <3> QED BY <1>3, <2>0, <2>1, <2>3, <3>1 DEF StampOK
  <2> QED BY <1>2, <1>5, <1>6, <2>1, <2>2, <2>3
<1>10. FileTypes' /\ Solved'
  BY <1>1, <1>8 DEF LadderInv, FileTypes, Solved, RecipeOf
<1>11. \/ /\ Goto(l, "record") /\ failed' = failed /\ uncal'[t].made # None
       \/ /\ lane[l].left > 1 /\ Do(l, [lane[l] EXCEPT !.left = @ - 1]) /\ failed' = failed /\ uncal' = uncal
       \/ Fail(l)
  BY <1>2, <1>3, <1>6 DEF UncalConvert, UncalDir
<1>12. lane' \in [Lane -> Slot] /\ Lanes' /\ failed' \subseteq Uncal
  <2>0. failed \subseteq Uncal
    BY DEF LadderInv, JobTypes
  <2>1. CASE Goto(l, "record") /\ failed' = failed /\ uncal'[t].made # None
    <3> DEFINE x == [lane[l] EXCEPT !.step = "record"]
    <3>1. x \in Slot /\ Do(l, x)
      BY <2>1, Slots DEF Steps, Goto
    <3>2. lane'[l] = x /\ x.step = "record" /\ x.task = t /\ x.existed = lane[l].existed
      BY <1>6, <2>1 DEF Goto, Do, Slot
    <3> HIDE DEF x
    <3>3. (LaneTask(l) /\ LaneBase(l) /\ LaneQuant(l))'
      <4>1. LaneTask(l)' /\ LaneQuant(l)'
        BY <1>1, <1>2, <3>2 DEF LaneTask, LaneQuant, Active
      <4>2. LaneBase(l)'
        BY <1>1, <1>2, <1>7, <2>1, <3>2 DEF LaneBase, Active, Grows, MadeGrows
      <4> QED BY <4>1, <4>2
    <3> QED BY <1>1, <1>7, <2>0, <2>1, <3>1, <3>3, LaneMoves
  <2>2. CASE lane[l].left > 1 /\ Do(l, [lane[l] EXCEPT !.left = @ - 1]) /\ failed' = failed /\ uncal' = uncal
    <3> DEFINE x == [lane[l] EXCEPT !.left = @ - 1]
    <3>1. x \in Slot /\ Do(l, x)
      BY <2>2, Slots
    <3>2. lane'[l] = x /\ x.step = "convert" /\ x.task = t /\ x.existed = lane[l].existed
      BY <1>1, <1>6, <2>2 DEF Do, Slot
    <3> HIDE DEF x
    <3>3. (LaneTask(l) /\ LaneBase(l) /\ LaneQuant(l))'
      BY <1>1, <1>2, <2>2, <3>2 DEF LaneTask, LaneBase, LaneQuant, Active
    <3> QED BY <1>1, <1>7, <2>0, <2>2, <3>1, <3>3, LaneMoves
  <2>3. CASE Fail(l)
    BY <1>1, <1>2, <1>7, <2>0, <2>3, IdleSlots, LaneMoves DEF Fail, Free
  <2> QED BY <1>11, <2>1, <2>2, <2>3
<1>13. JobTypes'
  BY <1>1, <1>12 DEF LadderInv, JobTypes, Given
<1> QED BY <1>7, <1>9, <1>10, <1>12, <1>13 DEF LadderInv

\* Only what this run made is recorded as the current converter's.
LEMMA UncalRecordKeeps == \A l \in Lane : LadderInv /\ UncalRecord(l) => LadderInv' /\ Grows
<1> SUFFICES ASSUME NEW l \in Lane, LadderInv, UncalRecord(l) PROVE LadderInv' /\ Grows
  OBVIOUS
<1> DEFINE t == lane[l].task
<1>1. /\ UNCHANGED <<tree, hub, inputs, rev, asked, cmd, share, failed>> /\ cmd # Idle
      /\ lane[l].step = "record" /\ Do(l, Free)
  BY DEF UncalRecord, At, Finish
<1>2. /\ LaneTask(l) /\ LaneBase(l) /\ Active(l) /\ t \in Uncal /\ Given(cmd)
  BY <1>1, AtWork DEF Active
<1>3. cmd.op = "baseline" /\ uncal[t].made # None /\ (~lane[l].existed => uncal[t].made = tree \/ uncal[t].shifted)
  BY <1>1, <1>2 DEF LaneTask, LaneBase
<1>4. uncal \in [Uncal -> UncalDir] /\ Stamped /\ lane \in [Lane -> Slot] /\ tree \in Tree \cup {Dirty}
  BY DEF LadderInv, FileTypes, JobTypes
<1>5. \/ uncal' = uncal
      \/ ~lane[l].existed /\ uncal' = [uncal EXCEPT ![t].stamp = Stamp(tree, FALSE)]
  BY DEF UncalRecord
<1>6. Stamp(tree, FALSE) \in StampOf /\ Stamp(tree, FALSE).tree \in {None, tree}
  BY <1>4 DEF Stamp, StampOf
<1>7. /\ uncal' \in [Uncal -> UncalDir]
      /\ \A d \in Uncal : uncal'[d].made = uncal[d].made /\ uncal'[d].shifted = uncal[d].shifted
  <2> DEFINE new == Stamp(tree, FALSE)
  <2>1. new \in StampOf
    BY <1>6
  <2>2. uncal' = uncal \/ uncal' = [uncal EXCEPT ![t].stamp = new]
    BY <1>5
  <2> HIDE DEF new, t
  <2> QED BY <1>2, <1>4, <2>1, <2>2 DEF UncalDir
<1>8. Grows
  BY <1>1, <1>7 DEF Grows, MadeGrows, RevGrows
<1>9. Stamped'
  <2> SUFFICES ASSUME NEW d \in Uncal PROVE StampOK(uncal[d])' /\ StampOK(hub[d])'
    BY DEF Stamped
  <2>0. StampOK(uncal[d]) /\ StampOK(hub[d])
    BY <1>4 DEF Stamped
  <2>1. StampOK(hub[d])'
    BY <1>1, <2>0 DEF StampOK
  <2>2. CASE uncal'[d] = uncal[d]
    BY <2>0, <2>1, <2>2 DEF StampOK
  <2>3. CASE d = t /\ ~lane[l].existed /\ uncal'[d].stamp = Stamp(tree, FALSE)
    BY <1>3, <1>6, <1>7, <2>1, <2>3 DEF StampOK
  <2> QED BY <1>2, <1>4, <1>5, <2>1, <2>2, <2>3 DEF UncalDir
<1>10. FileTypes' /\ Solved'
  BY <1>1, <1>7 DEF LadderInv, FileTypes, Solved, RecipeOf
<1>11. lane' \in [Lane -> Slot] /\ Lanes'
  BY <1>1, <1>8, IdleSlots, LaneMoves DEF Free
<1>12. JobTypes'
  BY <1>1, <1>11 DEF LadderInv, JobTypes, Given
<1> QED BY <1>8, <1>9, <1>10, <1>11, <1>12 DEF LadderInv

\* The own-voice recipe of a revision, before it is begun.
LEMMA SolveKeeps == \A l \in Lane : LadderInv /\ Solve(l) => LadderInv' /\ Grows
<1> SUFFICES ASSUME NEW l \in Lane, LadderInv, Solve(l) PROVE LadderInv' /\ Grows
  OBVIOUS
<1> DEFINE t == lane[l].task
<1>1. /\ UNCHANGED <<tree, uncal, hub, inputs, asked>> /\ cmd # Idle /\ lane[l].step = "solve"
  BY DEF Solve, At
<1>2. /\ LaneTask(l) /\ LaneBase(l) /\ LaneQuant(l) /\ Active(l) /\ Given(cmd)
      /\ cmd.op = "quantize" /\ t \in Rung /\ t \in Uncal
  BY <1>1, AtWork DEF Active, LaneTask
<1>3. rev \in [Rung -> Revision] /\ Solved /\ lane \in [Lane -> Slot] /\ failed \subseteq Uncal
  BY DEF LadderInv, FileTypes, JobTypes
<1>4. cmd.mode \in ModeOf /\ cmd.mode.recipe \in {None, "own", "blend", "file"}
  BY <1>2 DEF Given, ModeOf
<1>5. rev' = rev \/ rev' = [rev EXCEPT ![t].recipe = cmd.mode.recipe]
  BY DEF Solve
<1>6. /\ rev' \in [Rung -> Revision]
      /\ \A r \in Rung : rev'[r].out = rev[r].out /\ rev'[r].work = rev[r].work /\ rev'[r].json = rev[r].json
      /\ \A r \in Rung : rev'[r].recipe = rev[r].recipe
                         \/ (r = t /\ rev'[r].recipe = cmd.mode.recipe)
  BY <1>2, <1>3, <1>4, <1>5 DEF Revision
<1>7. Grows
  BY <1>1, <1>6 DEF Grows, MadeGrows, RevGrows
<1>8. Solved'
  <2> SUFFICES ASSUME NEW r \in Rung PROVE RecipeOf(r, rev[r].out)' /\ RecipeOf(r, rev[r].work)'
    BY DEF Solved
  <2>1. RecipeOf(r, rev[r].out) /\ RecipeOf(r, rev[r].work)
    BY <1>3 DEF Solved
  <2>2. CASE rev'[r].recipe = rev[r].recipe
    BY <1>6, <2>1, <2>2 DEF RecipeOf
  <2>3. CASE r = t /\ rev'[r].recipe = cmd.mode.recipe
    BY <1>1, <1>2, <1>6, <2>3 DEF RecipeOf, LaneQuant
  <2> QED BY <1>6, <2>2, <2>3
<1>9. Stamped' /\ FileTypes'
  BY <1>1, <1>6 DEF LadderInv, FileTypes, Stamped, StampOK
<1>10. CASE Goto(l, "convert") /\ rev' = [rev EXCEPT ![t].recipe = cmd.mode.recipe]
            /\ UNCHANGED <<cmd, share, failed>>
  <2> DEFINE x == [lane[l] EXCEPT !.step = "convert"]
  <2>1. x \in Slot /\ Do(l, x)
    BY <1>10, Slots DEF Steps, Goto
  <2>2. lane'[l] = x /\ x.step = "convert" /\ x.task = t /\ x.existed = lane[l].existed
    BY <1>3, <1>10 DEF Goto, Do, Slot
  <2> HIDE DEF x
  <2>3. (LaneTask(l) /\ LaneBase(l) /\ LaneQuant(l))'
    <3>1. LaneTask(l)' /\ LaneBase(l)'
      BY <1>1, <1>2, <1>10, <2>2 DEF LaneTask, LaneBase, Active
    <3>2. rev'[t].recipe = cmd.mode.recipe
      BY <1>2, <1>3, <1>10 DEF Revision
    <3>3. LaneQuant(l)'
      BY <1>10, <2>2, <3>2 DEF LaneQuant
    <3> QED BY <3>1, <3>3
  <2>4. lane' \in [Lane -> Slot] /\ Lanes'
    BY <1>1, <1>7, <1>10, <2>1, <2>3, LaneMoves
  <2> QED BY <1>3, <1>7, <1>8, <1>9, <1>10, <2>4 DEF LadderInv, JobTypes, Given
<1>11. CASE Fail(l) /\ UNCHANGED <<cmd, share>>
  <2>1. lane' \in [Lane -> Slot] /\ Lanes'
    BY <1>1, <1>7, <1>11, IdleSlots, LaneMoves DEF Fail, Free
  <2>2. failed' \subseteq Uncal
    BY <1>2, <1>3, <1>11 DEF Fail
  <2> QED BY <1>7, <1>8, <1>9, <1>11, <2>1, <2>2 DEF LadderInv, JobTypes, Given
<1>12. CASE Do(l, Stopped) /\ UNCHANGED <<cmd, share, failed>>
  <2>1. lane' \in [Lane -> Slot] /\ Lanes'
    BY <1>1, <1>7, <1>12, IdleSlots, LaneMoves DEF Stopped, Free
  <2> QED BY <1>7, <1>8, <1>9, <1>12, <2>1 DEF LadderInv, JobTypes, Given
<1>13. CASE Abort
  BY <1>7, <1>8, <1>9, <1>13, AbortKeeps DEF LadderInv
<1> QED BY <1>10, <1>11, <1>12, <1>13 DEF Solve, RaiseExit

\* A revision is begun with the command's arguments, or those it was begun with.
LEMMA ConvertKeeps == \A l \in Lane : LadderInv /\ Convert(l) => LadderInv' /\ Grows
<1> SUFFICES ASSUME NEW l \in Lane, LadderInv, Convert(l) PROVE LadderInv' /\ Grows
  OBVIOUS
<1> DEFINE t == lane[l].task
           b == Begun(t)
<1>1. /\ UNCHANGED <<tree, uncal, hub, inputs, asked, cmd, share>> /\ cmd # Idle
      /\ lane[l].step = "convert" /\ cmd.op = "quantize"
  BY DEF Convert, At
<1>2. /\ LaneTask(l) /\ LaneBase(l) /\ LaneQuant(l) /\ Active(l) /\ Given(cmd)
      /\ t \in Rung /\ t \in Uncal
  BY <1>1, AtWork DEF Active
<1>3. rev \in [Rung -> Revision] /\ Solved /\ lane \in [Lane -> Slot] /\ failed \subseteq Uncal
  BY DEF LadderInv, FileTypes, JobTypes
<1>4. cmd.mode \in ModeOf /\ cmd.mode # None
  BY <1>1, <1>2, Nones DEF Given
<1>5. /\ b \in ModeOf /\ b # None
      /\ rev[t].work # None => b = rev[t].work
      /\ rev[t].work = None => b = cmd.mode
  BY <1>2, <1>3, <1>4 DEF Begun, Revision
<1>6. \/ rev' = rev
      \/ rev[t].out = None /\ rev' = [rev EXCEPT ![t].out = b, ![t].work = b]
      \/ rev[t].out = None /\ rev' = [rev EXCEPT ![t].work = b]
  <2>1. [rev EXCEPT ![t].work = rev[t].work] = rev
    BY <1>2, <1>3 DEF Revision
  <2> QED BY <2>1 DEF Convert
<1>7. /\ rev' \in [Rung -> Revision]
      /\ \A r \in Rung : rev'[r].recipe = rev[r].recipe /\ rev'[r].json = rev[r].json
      /\ \A r \in Rung : rev'[r].out = rev[r].out \/ (r = t /\ rev[r].out = None /\ rev'[r].out = b)
      /\ \A r \in Rung : rev'[r].work = rev[r].work \/ (r = t /\ rev[r].out = None /\ rev'[r].work = b)
  <2> HIDE DEF b, t
  <2> QED BY <1>2, <1>3, <1>5, <1>6 DEF Revision
<1>8. Grows
  <2> SUFFICES ASSUME NEW r \in Rung PROVE RevGrows(r)
    BY <1>1 DEF Grows, MadeGrows
  <2> HIDE DEF b
  <2> QED BY <1>5, <1>7 DEF RevGrows
<1>9. rev[t].out = None => RecipeOf(t, b)
  <2>1. CASE rev[t].work # None
    BY <1>2, <1>3, <1>5, <2>1 DEF Solved
  <2>2. CASE rev[t].work = None
    BY <1>1, <1>2, <1>5, <2>2 DEF RecipeOf, LaneQuant
  <2> QED BY <2>1, <2>2
<1>10. Solved'
  <2> SUFFICES ASSUME NEW r \in Rung PROVE RecipeOf(r, rev[r].out)' /\ RecipeOf(r, rev[r].work)'
    BY DEF Solved
  <2>1. RecipeOf(r, rev[r].out) /\ RecipeOf(r, rev[r].work)
    BY <1>3 DEF Solved
  <2> HIDE DEF b
  <2> QED BY <1>7, <1>9, <2>1 DEF RecipeOf
<1>11. Stamped' /\ FileTypes'
  BY <1>1, <1>7 DEF LadderInv, FileTypes, Stamped, StampOK
<1>12. \/ Goto(l, "publish") /\ failed' = failed /\ rev'[t].out # None
       \/ lane[l].left > 1 /\ Do(l, [lane[l] EXCEPT !.left = @ - 1]) /\ failed' = failed
       \/ Fail(l)
  BY <1>2, <1>3, <1>5 DEF Convert, Revision
<1>13. lane' \in [Lane -> Slot] /\ Lanes' /\ failed' \subseteq Uncal
  <2>1. CASE Goto(l, "publish") /\ failed' = failed /\ rev'[t].out # None
    <3> DEFINE x == [lane[l] EXCEPT !.step = "publish"]
    <3>1. x \in Slot /\ Do(l, x)
      BY <2>1, Slots DEF Steps, Goto
    <3>2. lane'[l] = x /\ x.step = "publish" /\ x.task = t /\ x.existed = lane[l].existed
      BY <1>3, <2>1 DEF Goto, Do, Slot
    <3> HIDE DEF x
    <3>3. (LaneTask(l) /\ LaneBase(l) /\ LaneQuant(l))'
      BY <1>1, <1>2, <2>1, <3>2 DEF LaneTask, LaneBase, LaneQuant, Active
    <3> QED BY <1>1, <1>3, <1>8, <2>1, <3>1, <3>3, LaneMoves
  <2>2. CASE lane[l].left > 1 /\ Do(l, [lane[l] EXCEPT !.left = @ - 1]) /\ failed' = failed
    <3> DEFINE x == [lane[l] EXCEPT !.left = @ - 1]
    <3>1. x \in Slot /\ Do(l, x)
      BY <2>2, Slots
    <3>2. lane'[l] = x /\ x.step = "convert" /\ x.task = t /\ x.existed = lane[l].existed
      BY <1>1, <1>3, <2>2 DEF Do, Slot
    <3> HIDE DEF x
    <3>3. (LaneTask(l) /\ LaneBase(l))'
      BY <1>1, <1>2, <2>2, <3>2 DEF LaneTask, LaneBase, Active
    <3>4. LaneQuant(l)'
      <4>1. RevGrows(t)
        BY <1>2, <1>8 DEF Grows
      <4> QED BY <1>1, <1>2, <3>2, <4>1 DEF LaneQuant, RevGrows
    <3> QED BY <1>1, <1>3, <1>8, <2>2, <3>1, <3>3, <3>4, LaneMoves
  <2>3. CASE Fail(l)
    BY <1>1, <1>2, <1>3, <1>8, <2>3, IdleSlots, LaneMoves DEF Fail, Free
  <2> QED BY <1>12, <2>1, <2>2, <2>3
<1>14. JobTypes'
  BY <1>1, <1>13 DEF LadderInv, JobTypes, Given
<1> QED BY <1>8, <1>10, <1>11, <1>13, <1>14 DEF LadderInv

\* The work directory goes once the revision is there.
LEMMA PublishKeeps == \A l \in Lane : LadderInv /\ Publish(l) => LadderInv' /\ Grows
<1> SUFFICES ASSUME NEW l \in Lane, LadderInv, Publish(l) PROVE LadderInv' /\ Grows
  OBVIOUS
<1> DEFINE t == lane[l].task
<1>1. /\ UNCHANGED <<tree, uncal, hub, inputs, asked>> /\ cmd # Idle /\ lane[l].step = "publish"
  BY DEF Publish, At
<1>2. /\ LaneTask(l) /\ LaneQuant(l) /\ Active(l) /\ Given(cmd)
      /\ cmd.op = "quantize" /\ t \in Rung /\ t \in Uncal
  BY <1>1, AtWork DEF Active, LaneTask
<1>3. rev \in [Rung -> Revision] /\ Solved /\ lane \in [Lane -> Slot] /\ failed \subseteq Uncal
  BY DEF LadderInv, FileTypes, JobTypes
<1>4. cmd.mode \in ModeOf /\ cmd.mode # None /\ rev[t].out # None
  BY <1>1, <1>2, Nones DEF Given, LaneQuant
<1>5. \/ rev' = [rev EXCEPT ![t].work = None]
      \/ rev' = [rev EXCEPT ![t].work = None, ![t].json = cmd.mode]
  BY DEF Publish
<1>6. /\ rev' \in [Rung -> Revision]
      /\ \A r \in Rung : rev'[r].recipe = rev[r].recipe /\ rev'[r].out = rev[r].out
      /\ \A r \in Rung : rev'[r].json = rev[r].json \/ rev'[r].json = cmd.mode
      /\ \A r \in Rung : rev'[r].work = rev[r].work \/ (r = t /\ rev'[r].work = None)
  <2> HIDE DEF t
  <2> QED BY <1>2, <1>3, <1>4, <1>5 DEF Revision
<1>7. Grows
  <2> SUFFICES ASSUME NEW r \in Rung PROVE RevGrows(r)
    BY <1>1 DEF Grows, MadeGrows
  <2> QED BY <1>4, <1>6 DEF RevGrows
<1>8. Solved'
  <2> SUFFICES ASSUME NEW r \in Rung PROVE RecipeOf(r, rev[r].out)' /\ RecipeOf(r, rev[r].work)'
    BY DEF Solved
  <2>1. RecipeOf(r, rev[r].out) /\ RecipeOf(r, rev[r].work)
    BY <1>3 DEF Solved
  <2> QED BY <1>6, <2>1 DEF RecipeOf
<1>9. Stamped' /\ FileTypes'
  BY <1>1, <1>6 DEF LadderInv, FileTypes, Stamped, StampOK
<1>10. CASE Do(l, Free) /\ failed' \subseteq failed \cup {t} /\ UNCHANGED <<cmd, share>>
  <2>1. lane' \in [Lane -> Slot] /\ Lanes'
    BY <1>1, <1>7, <1>10, IdleSlots, LaneMoves DEF Free
  <2>2. failed' \subseteq Uncal
    BY <1>2, <1>3, <1>10
  <2> QED BY <1>7, <1>8, <1>9, <1>10, <2>1, <2>2 DEF LadderInv, JobTypes, Given
<1>11. CASE Abort
  BY <1>7, <1>8, <1>9, <1>11, AbortKeeps DEF LadderInv
<1> QED BY <1>10, <1>11 DEF Publish, Raise, Fail, Finish

\* What was under way when the process group died leaves a work directory.
LEMMA KillKeeps == LadderInv /\ Kill => LadderInv'
<1> SUFFICES ASSUME LadderInv, Kill PROVE LadderInv'
  OBVIOUS
<1>1. UNCHANGED <<tree, uncal, hub, inputs, asked>> /\ cmd # Idle /\ Abort
  BY DEF Kill
<1>2. PICK begun \in SUBSET {l \in Lane : At(l, "convert") /\ cmd.op = "quantize"} :
        rev' = [r \in Rung |->
                  IF rev[r].out = None /\ \E l \in begun : lane[l].task = r
                  THEN [rev[r] EXCEPT !.work = Begun(r)] ELSE rev[r]]
  BY DEF Kill
<1>3. rev \in [Rung -> Revision] /\ Solved
  BY DEF LadderInv, FileTypes
<1>4. ASSUME NEW r \in Rung, rev[r].out = None, NEW l \in begun, lane[l].task = r
      PROVE  Begun(r) \in ModeOf /\ RecipeOf(r, Begun(r))
  <2>1. /\ LaneQuant(l) /\ Given(cmd) /\ cmd.op = "quantize" /\ lane[l].step = "convert"
    BY <1>1, AtWork DEF At
  <2>2. cmd.mode \in ModeOf
    BY <2>1 DEF Given
  <2>3. CASE rev[r].work # None
    BY <1>3, <2>3 DEF Begun, Solved, Revision
  <2>4. CASE rev[r].work = None
    BY <1>4, <2>1, <2>2, <2>4 DEF Begun, LaneQuant, RecipeOf
  <2> QED BY <2>3, <2>4
<1>5. ASSUME NEW r \in Rung
      PROVE  /\ rev'[r] \in Revision /\ rev'[r].out = rev[r].out /\ rev'[r].recipe = rev[r].recipe
             /\ rev'[r].work = rev[r].work \/ (rev'[r].work = Begun(r) /\ RecipeOf(r, Begun(r)))
  <2>1. CASE rev[r].out = None /\ \E l \in begun : lane[l].task = r
    <3>1. rev'[r] = [rev[r] EXCEPT !.work = Begun(r)]
      BY <1>2, <2>1
    <3>2. Begun(r) \in ModeOf /\ RecipeOf(r, Begun(r)) /\ rev[r] \in Revision
      BY <1>3, <1>4, <2>1
    <3> QED BY <3>1, <3>2 DEF Revision
  <2>2. CASE ~(rev[r].out = None /\ \E l \in begun : lane[l].task = r)
    <3>1. rev'[r] = rev[r]
      BY <1>2, <2>2
    <3> QED BY <1>3, <3>1
  <2> QED BY <2>1, <2>2
<1>6. rev' \in [Rung -> Revision]
  BY <1>2, <1>5
<1>7. Solved'
  BY <1>3, <1>5 DEF Solved, RecipeOf
<1>8. Stamped' /\ FileTypes'
  BY <1>1, <1>6 DEF LadderInv, FileTypes, Stamped, StampOK
<1> QED BY <1>1, <1>7, <1>8, AbortKeeps DEF LadderInv

LEMMA BatchEndsKeeps == LadderInv /\ BatchEnds => LadderInv'
<1> SUFFICES ASSUME LadderInv, BatchEnds PROVE LadderInv'
  OBVIOUS
<1>1. UNCHANGED <<tree, files, jobs>> /\ cmd' = Idle
  BY DEF BatchEnds
<1>2. JobTypes' /\ Lanes'
  BY <1>1 DEF LadderInv, JobTypes, Lanes, jobs
<1> QED BY <1>1, <1>2, FilesKept DEF LadderInv

(***************************************************************************)
(* The steps of the user.                                                   *)
(***************************************************************************)
\* What a step between commands leaves of the jobs.
LEMMA Between ==
    ASSUME LadderInv, cmd = Idle, UNCHANGED <<cmd, jobs>>, FileTypes', Stamped', Solved'
    PROVE  LadderInv'
BY IdleKeeps DEF LadderInv

LEMMA SolvedStays == ASSUME Solved, rev' = rev PROVE Solved'
BY DEF Solved, RecipeOf

\* A directory of the job is described by no more than was true of it.
LEMMA StampsHold ==
    ASSUME LadderInv,
           \A d \in Uncal : /\ uncal'[d] \in {uncal[d], hub[d]} \/ StampOK(uncal'[d])
                            /\ hub'[d] \in {hub[d], uncal'[d]}
    PROVE  Stamped'
<1> SUFFICES ASSUME NEW d \in Uncal PROVE StampOK(uncal'[d]) /\ StampOK(hub'[d])
  BY DEF Stamped, StampOK
<1>1. StampOK(uncal[d]) /\ StampOK(hub[d])
  BY DEF LadderInv, Stamped
<1> QED BY <1>1

\* Adopting records what a person found the directories to be.
LEMMA AdoptedHolds ==
    ASSUME LadderInv, Honest, tree # Dirty
    PROVE  LET new == Adopted(Made(Uncal))
           IN  new \in [Uncal -> UncalDir] /\ \A d \in Uncal : new[d] = uncal[d] \/ StampOK(new[d])
<1> DEFINE new == Adopted(Made(Uncal))
<1>1. uncal \in [Uncal -> UncalDir] /\ tree \in Tree
  BY DEF LadderInv, FileTypes
<1>2. ASSUME NEW d \in Uncal PROVE new[d] \in UncalDir /\ (new[d] = uncal[d] \/ StampOK(new[d]))
  <2>1. CASE d \in Made(Uncal) /\ Recorded(uncal[d]) = None
    <3>1. new[d] = [uncal[d] EXCEPT !.stamp = Stamp(tree, TRUE), !.shifted = FALSE]
      BY <2>1 DEF Adopted
    <3>2. uncal[d].made = tree
      BY <2>1 DEF Honest
    <3>3. Stamp(tree, TRUE) \in StampOf /\ Stamp(tree, TRUE).tree = tree
      BY <1>1 DEF Stamp, StampOf
    <3>4. new[d] \in UncalDir /\ new[d].made = tree /\ new[d].stamp = Stamp(tree, TRUE)
      BY <1>1, <3>1, <3>2, <3>3 DEF UncalDir
    <3> QED BY <1>1, <3>3, <3>4, Nones DEF StampOK
  <2>2. CASE ~(d \in Made(Uncal) /\ Recorded(uncal[d]) = None)
    BY <1>1, <2>2 DEF Adopted
  <2> QED BY <2>1, <2>2
<1>3. new = [d \in Uncal |-> new[d]]
  BY DEF Adopted
<1> QED BY <1>2, <1>3

LEMMA BaselineGiven ==
    ASSUME NEW d \in Devices, NEW gen \in BOOLEAN
    PROVE  Given([op |-> "baseline", devices |-> d, mode |-> None,
                  tasks |-> (IF gen THEN <<Gen>> ELSE <<>>) \o Bits])
<1> DEFINE tasks == (IF gen THEN <<Gen>> ELSE <<>>) \o Bits
<1>1. <<>> \o Bits = Bits
  BY BitsAreRungs, ConcatEmptySeq
<1>2. tasks \in {Bits, <<Gen>> \o Bits}
  BY <1>1
<1> DEFINE c == [op |-> "baseline", devices |-> d, mode |-> None, tasks |-> tasks]
<1>3. c \in Command /\ c.op = "baseline"
  <2> HIDE DEF tasks
  <2> QED BY <1>2 DEF Command
<1> HIDE DEF c
<1>4. Given(c)
  BY <1>3 DEF Given
<1> QED BY <1>4 DEF c

LEMMA BaselineKeeps ==
    \A d \in Devices, gen, allow, adopt \in BOOLEAN :
        LadderInv /\ Baseline(d, gen, allow, adopt) => LadderInv'
<1> SUFFICES ASSUME NEW d \in Devices, NEW gen \in BOOLEAN, NEW allow \in BOOLEAN,
                    NEW adopt \in BOOLEAN, LadderInv, Baseline(d, gen, allow, adopt)
             PROVE  LadderInv'
  OBVIOUS
<1> DEFINE c == [op |-> "baseline", devices |-> d, mode |-> None,
                 tasks |-> (IF gen THEN <<Gen>> ELSE <<>>) \o Bits]
<1>1. UNCHANGED <<tree, hub, inputs, rev, asked>> /\ cmd = Idle
  BY DEF Baseline, Ready
<1>2. uncal' = uncal \/ (uncal' = Adopted(Made(Uncal)) /\ Honest /\ tree # Dirty)
  BY DEF Baseline
<1>3. uncal' \in [Uncal -> UncalDir] /\ \A e \in Uncal : uncal'[e] = uncal[e] \/ StampOK(uncal'[e])
  BY <1>2, AdoptedHolds DEF LadderInv, FileTypes
<1>4. FileTypes' /\ Stamped' /\ Solved'
  BY <1>1, <1>3, StampsHold, SolvedStays DEF LadderInv, FileTypes
<1>5. Given(c)
  BY BaselineGiven
<1>6. CASE Launch(c)
  BY <1>1, <1>4, <1>5, <1>6, LaunchKeeps DEF LadderInv
<1>7. CASE Return(FALSE)
  BY <1>1, <1>4, <1>7, Between DEF Return
<1> QED BY <1>6, <1>7 DEF Baseline

LEMMA QuantizeKeeps == \A q \in Quantizes : LadderInv /\ Quantize(q[1], q[2]) => LadderInv'
<1> SUFFICES ASSUME NEW q \in Quantizes, LadderInv, Quantize(q[1], q[2]) PROVE LadderInv'
  OBVIOUS
<1> DEFINE d == q[1]
           f == q[2]
           c == [op |-> "quantize", devices |-> d, mode |-> Mode(f), tasks |-> Bits]
<1>1. UNCHANGED <<tree, uncal, hub, inputs, rev>> /\ cmd = Idle
  BY DEF Quantize, Ready
<1>2. d \in Devices /\ f \in Flag
  BY LadderAssumption
<1>3. Mode(f) \in ModeOf
  BY <1>2 DEF Mode, ModeOf, Flag
<1>4. asked' \in [Rung -> SUBSET ModeOf]
  BY <1>3 DEF Quantize, LadderInv, FileTypes
<1>5. FileTypes' /\ Stamped' /\ Solved'
  BY <1>1, <1>4, SolvedStays DEF LadderInv, FileTypes, Stamped, StampOK
<1>6. Given(c)
  BY <1>2, <1>3 DEF Given, Command
<1>7. CASE Launch(c)
  BY <1>1, <1>5, <1>6, <1>7, LaunchKeeps DEF LadderInv
<1>8. CASE UNCHANGED <<cmd, jobs>>
  BY <1>1, <1>5, <1>8, Between
<1> QED BY <1>7, <1>8 DEF Quantize, Return

LEMMA CompareKeeps == LadderInv /\ Compare => LadderInv'
<1> SUFFICES ASSUME LadderInv, Compare PROVE LadderInv'
  OBVIOUS
<1>1. UNCHANGED <<tree, files, cmd, jobs>> /\ cmd = Idle
  BY DEF Compare, Return, Ready
<1> QED BY <1>1, FilesKept, Between

LEMMA UploadKeeps == LadderInv /\ UploadUncalibrated => LadderInv'
<1> SUFFICES ASSUME LadderInv, UploadUncalibrated PROVE LadderInv'
  OBVIOUS
<1>1. UNCHANGED <<tree, inputs, rev, asked, cmd, jobs>> /\ cmd = Idle
  BY DEF UploadUncalibrated, Return, Ready
<1>2. uncal \in [Uncal -> UncalDir] /\ hub \in [Uncal -> UncalDir]
  BY DEF LadderInv, FileTypes
<1>3. Unknown \in StampOf /\ Unknown.tree = None /\ Unknown # None
  <2>1. Unknown \in StampOf /\ Unknown.tree = None
    BY DEF Unknown, StampOf
  <2> QED BY <2>1, Nones
<1>4. ASSUME NEW d \in Uncal
      PROVE  /\ uncal'[d] \in UncalDir /\ (uncal'[d] = uncal[d] \/ StampOK(uncal'[d]))
             /\ hub'[d] \in {hub[d], uncal'[d]}
  <2>1. hub'[d] \in {hub[d], uncal'[d]}
    BY DEF UploadUncalibrated
  <2>2. CASE d \in Made(Uncal) /\ uncal[d].stamp = None
    <3>1. uncal'[d] = [uncal[d] EXCEPT !.stamp = Unknown]
      BY <2>2 DEF UploadUncalibrated
    <3>2. uncal'[d] \in UncalDir /\ uncal'[d].made = uncal[d].made /\ uncal'[d].stamp = Unknown
      BY <1>2, <1>3, <3>1 DEF UncalDir
    <3> QED BY <1>3, <2>1, <2>2, <3>2 DEF StampOK, Made
  <2>3. CASE ~(d \in Made(Uncal) /\ uncal[d].stamp = None)
    BY <1>2, <2>1, <2>3 DEF UploadUncalibrated
  <2> QED BY <2>2, <2>3
<1>5. uncal' = [d \in Uncal |-> uncal'[d]] /\ hub' = [d \in Uncal |-> hub'[d]]
  BY DEF UploadUncalibrated
<1>6. uncal' \in [Uncal -> UncalDir] /\ hub' \in [Uncal -> UncalDir]
  BY <1>2, <1>4, <1>5
<1>7. FileTypes' /\ Stamped' /\ Solved'
  BY <1>1, <1>4, <1>6, StampsHold, SolvedStays DEF LadderInv, FileTypes
<1> QED BY <1>1, <1>7, Between

LEMMA FetchKeeps == LadderInv /\ FetchUncalibrated => LadderInv'
<1> SUFFICES ASSUME LadderInv, FetchUncalibrated PROVE LadderInv'
  OBVIOUS
<1>1. UNCHANGED <<tree, hub, inputs, rev, asked, cmd, jobs>> /\ cmd = Idle
  BY DEF FetchUncalibrated, Return, Ready
<1>2. \A d \in Uncal : uncal'[d] \in {uncal[d], hub[d]}
  BY DEF FetchUncalibrated
<1>3. uncal' \in [Uncal -> UncalDir]
  BY DEF FetchUncalibrated, LadderInv, FileTypes
<1>4. FileTypes' /\ Stamped' /\ Solved'
  BY <1>1, <1>2, <1>3, StampsHold, SolvedStays DEF LadderInv, FileTypes
<1> QED BY <1>1, <1>4, Between

LEMMA EditKeeps == \A t \in Tree \cup {Dirty} : LadderInv /\ EditConverter(t) => LadderInv'
<1> SUFFICES ASSUME NEW t \in Tree \cup {Dirty}, LadderInv, EditConverter(t) PROVE LadderInv'
  OBVIOUS
<1>1. UNCHANGED <<hub, inputs, rev, asked, cmd, jobs>> /\ tree' = t
  BY DEF EditConverter
<1>2. uncal \in [Uncal -> UncalDir] /\ Stamped /\ lane \in [Lane -> Slot]
  BY DEF LadderInv, FileTypes, JobTypes
<1>3. ASSUME NEW d \in Uncal
      PROVE  /\ uncal'[d] \in UncalDir /\ uncal'[d].made = uncal[d].made
             /\ uncal'[d].stamp = uncal[d].stamp /\ (uncal[d].shifted => uncal'[d].shifted)
             /\ d \in InHand => uncal'[d].shifted
  BY <1>2 DEF EditConverter, UncalDir
<1>4. uncal' \in [Uncal -> UncalDir]
  <2>1. uncal' = [d \in Uncal |-> uncal'[d]]
    BY DEF EditConverter
  <2> QED BY <1>3, <2>1
<1>5. FileTypes' /\ Solved' /\ JobTypes'
  BY <1>1, <1>4, SolvedStays DEF LadderInv, FileTypes, JobTypes, jobs, Given
<1>6. Stamped'
  BY <1>1, <1>2, <1>3 DEF Stamped, StampOK
<1>7. ASSUME cmd # Idle, NEW l \in Lane PROVE (LaneTask(l) /\ LaneBase(l) /\ LaneQuant(l))'
  <2>1. /\ LaneTask(l) /\ LaneBase(l) /\ LaneQuant(l)
        /\ Active(l) => lane[l].task \in Uncal
    BY <1>7, AtWork
  <2>2. LaneTask(l)' /\ LaneQuant(l)'
    BY <1>1, <2>1 DEF LaneTask, LaneQuant, Active, jobs
  <2>3. LaneBase(l)'
    <3>1. CASE Active(l)
      <4>1. uncal'[lane[l].task].made = uncal[lane[l].task].made
        BY <1>3, <2>1, <3>1
      <4>2. ASSUME cmd.op = "baseline", ~lane[l].existed, uncal[lane[l].task].made # None
            PROVE  uncal'[lane[l].task].shifted
        <5>1. lane[l].task \in InHand
          BY <1>7, <2>1, <3>1, <4>2 DEF InHand, Made
        <5> QED BY <1>3, <2>1, <3>1, <5>1
      <4> QED BY <1>1, <2>1, <4>1, <4>2 DEF LaneBase, Active, jobs
    <3>2. CASE ~Active(l)
      BY <1>1, <3>2 DEF LaneBase, Active, jobs
    <3> QED BY <3>1, <3>2
  <2> QED BY <2>2, <2>3
<1>8. Lanes'
  BY <1>1, <1>7 DEF Lanes
<1> QED BY <1>5, <1>6, <1>8 DEF LadderInv

LEMMA DeleteUncalKeeps == \A d \in Uncal : LadderInv /\ DeleteUncal(d) => LadderInv'
<1> SUFFICES ASSUME NEW d \in Uncal, LadderInv, DeleteUncal(d) PROVE LadderInv'
  OBVIOUS
<1>1. UNCHANGED <<tree, hub, inputs, rev, asked, cmd, jobs>> /\ cmd = Idle
  BY DEF DeleteUncal
<1> DEFINE gone == NoUncal
<1>2. gone \in UncalDir /\ StampOK(gone)
  BY DEF NoUncal, UncalDir, StampOK
<1>3. uncal \in [Uncal -> UncalDir] /\ uncal' = [uncal EXCEPT ![d] = gone]
  BY DEF DeleteUncal, LadderInv, FileTypes
<1>4. uncal' \in [Uncal -> UncalDir] /\ \A e \in Uncal : uncal'[e] = uncal[e] \/ StampOK(uncal'[e])
  <2> HIDE DEF gone
  <2> QED BY <1>2, <1>3
<1>5. FileTypes' /\ Stamped' /\ Solved'
  BY <1>1, <1>4, StampsHold, SolvedStays DEF LadderInv, FileTypes
<1> QED BY <1>1, <1>5, Between

LEMMA DeleteRevisionKeeps == \A r \in Rung : LadderInv /\ DeleteRevision(r) => LadderInv'
<1> SUFFICES ASSUME NEW r \in Rung, LadderInv, DeleteRevision(r) PROVE LadderInv'
  OBVIOUS
<1>1. UNCHANGED <<tree, uncal, hub, inputs, cmd, jobs>> /\ cmd = Idle
  BY DEF DeleteRevision
<1>2. rev \in [Rung -> Revision] /\ asked \in [Rung -> SUBSET ModeOf]
  BY DEF LadderInv, FileTypes
<1> DEFINE gone == [out |-> None, work |-> None, recipe |-> rev[r].recipe, json |-> None]
<1>3. gone \in Revision /\ gone.out = None /\ gone.work = None
  BY <1>2 DEF Revision
<1>4. rev' = [rev EXCEPT ![r] = gone] /\ asked' = [asked EXCEPT ![r] = {}]
  BY DEF DeleteRevision, Emptied
<1> HIDE DEF gone
<1>5. rev' \in [Rung -> Revision] /\ asked' \in [Rung -> SUBSET ModeOf]
  BY <1>2, <1>3, <1>4
<1>6. Solved'
  BY <1>2, <1>3, <1>4 DEF LadderInv, Solved, RecipeOf
<1>7. FileTypes' /\ Stamped'
  BY <1>1, <1>5 DEF LadderInv, FileTypes, Stamped, StampOK
<1> QED BY <1>1, <1>6, <1>7, Between

LEMMA StageDoneKeeps == \A i \in Stage : LadderInv /\ StageDone(i) => LadderInv'
<1> SUFFICES ASSUME NEW i \in Stage, LadderInv, StageDone(i) PROVE LadderInv'
  OBVIOUS
<1>1. UNCHANGED <<tree, uncal, hub, rev, asked, cmd, jobs>> /\ cmd = Idle /\ inputs' = inputs \cup {i}
  BY DEF StageDone
<1>2. FileTypes' /\ Stamped' /\ Solved'
  BY <1>1, SolvedStays DEF LadderInv, FileTypes, Stamped, StampOK
<1> QED BY <1>1, <1>2, Between

(***************************************************************************)
(* The invariant, and what follows.                                         *)
(***************************************************************************)
LEMMA LaneStepKeeps == \A l \in Lane : LadderInv /\ Step(l) => LadderInv' /\ Grows
BY TakeTaskKeeps, NoMoreTasksKeeps, UncalConvertKeeps, UncalRecordKeeps, SolveKeeps,
   ConvertKeeps, PublishKeeps DEF Step

LEMMA LadderStep == LadderInv /\ [Next]_vars => LadderInv'
<1> SUFFICES ASSUME LadderInv, [Next]_vars PROVE LadderInv'
  OBVIOUS
<1>1. CASE UNCHANGED vars
  <2>1. UNCHANGED <<tree, files, cmd, jobs>>
    BY <1>1 DEF vars
  <2>2. JobTypes' /\ Lanes'
    BY <2>1 DEF LadderInv, JobTypes, Lanes, LaneTask, LaneBase, LaneQuant, Active, files, jobs, Given
  <2> QED BY <2>1, <2>2, FilesKept DEF LadderInv
<1>2. CASE \E d \in Devices, gen, allow, adopt \in BOOLEAN : Baseline(d, gen, allow, adopt)
  BY <1>2, BaselineKeeps
<1>3. CASE \E q \in Quantizes : Quantize(q[1], q[2])
  BY <1>3, QuantizeKeeps
<1>4. CASE Compare \/ UploadUncalibrated \/ FetchUncalibrated \/ BatchEnds \/ Kill
  BY <1>4, CompareKeeps, UploadKeeps, FetchKeeps, BatchEndsKeeps, KillKeeps
<1>5. CASE \E l \in Lane : Step(l)
  BY <1>5, LaneStepKeeps
<1>6. CASE \E t \in Tree \cup {Dirty} : EditConverter(t)
  BY <1>6, EditKeeps
<1>7. CASE \E d \in Uncal : DeleteUncal(d)
  BY <1>7, DeleteUncalKeeps
<1>8. CASE \E r \in Rung : DeleteRevision(r)
  BY <1>8, DeleteRevisionKeeps
<1>9. CASE \E i \in Stage : StageDone(i)
  BY <1>9, StageDoneKeeps
<1> QED BY <1>1, <1>2, <1>3, <1>4, <1>5, <1>6, <1>7, <1>8, <1>9 DEF Next

THEOREM LadderAlways == Spec => []LadderInv
BY Initially, LadderStep, PTL DEF Spec

(***************************************************************************)
(* What a revision was converted with, and what is recorded of it, is what  *)
(* some command asked for since the directory was empty.                    *)
(***************************************************************************)
AskedInv ==
    /\ \A r \in Rung :
         /\ {rev[r].out, rev[r].work, rev[r].json} \subseteq asked[r] \cup {None}
         /\ rev[r].json # None => rev[r].out # None
    /\ cmd # Idle /\ cmd.op = "quantize" => \A r \in Rung : cmd.mode \in asked[r]

\* A step that changes no revision, and begins no command.
LEMMA AskedStays ==
    ASSUME AskedInv, UNCHANGED <<rev, asked>>, cmd' \in {cmd, Idle}
    PROVE  AskedInv'
BY DEF AskedInv

LEMMA LaneAsks == ASSUME LadderInv, AskedInv, NEW l \in Lane, Step(l) PROVE AskedInv'
<1>1. rev \in [Rung -> Revision] /\ asked' = asked /\ cmd' \in {cmd, Idle}
  BY DEF LadderInv, FileTypes, Step, TakeTask, NoMoreTasks, UncalConvert, UncalRecord, Solve,
     Convert, Publish, Raise, RaiseExit, Abort, files
<1>2. CASE rev' = rev
  BY <1>1, <1>2, AskedStays
<1> DEFINE t == lane[l].task
<1>3. CASE Solve(l) /\ rev' = [rev EXCEPT ![t].recipe = cmd.mode.recipe]
  <2>1. \A r \in Rung : rev'[r].out = rev[r].out /\ rev'[r].work = rev[r].work /\ rev'[r].json = rev[r].json
    BY <1>1, <1>3 DEF Revision
  <2> QED BY <1>1, <2>1 DEF AskedInv
<1>4. CASE Convert(l)
  <2> DEFINE b == Begun(t)
  <2>1. cmd # Idle /\ cmd' = cmd /\ cmd.op = "quantize" /\ lane[l].step = "convert"
    BY <1>4 DEF Convert, At
  <2>2. t \in Rung
    BY <2>1, AtWork DEF Active
  <2>3. b \in asked[t] \cup {None}
    BY <2>1, <2>2 DEF Begun, AskedInv
  <2>4. /\ rev[t].out = None
        /\ \/ rev' = [rev EXCEPT ![t].out = b, ![t].work = b]
           \/ rev' = [rev EXCEPT ![t].work = b]
        \/ rev' = rev
    <3>1. [rev EXCEPT ![t].work = rev[t].work] = rev
      BY <1>1, <2>2 DEF Revision
    <3> QED BY <1>4, <3>1 DEF Convert
  <2>5. CASE rev' # rev
    <3>1. rev[t].out = None /\ rev[t].json = None
      BY <2>2, <2>4, <2>5 DEF AskedInv
    <3> HIDE DEF b, t
    <3>2. \A r \in Rung : /\ rev'[r].out \in {rev[r].out} \/ (r = t /\ rev'[r].out = b)
                          /\ rev'[r].work \in {rev[r].work} \/ (r = t /\ rev'[r].work = b)
                          /\ rev'[r].json = rev[r].json
      BY <1>1, <2>2, <2>4, <2>5 DEF Revision
    <3> QED BY <1>1, <2>1, <2>3, <3>1, <3>2 DEF AskedInv
  <2> QED BY <1>2, <2>5
<1>5. CASE Publish(l)
  <2>1. cmd # Idle /\ lane[l].step = "publish"
    BY <1>5 DEF Publish, At
  <2>2. t \in Rung /\ LaneQuant(l) /\ cmd.op = "quantize"
    BY <2>1, AtWork DEF Active, LaneTask
  <2>3. rev[t].out # None /\ cmd.mode \in asked[t]
    BY <2>1, <2>2 DEF LaneQuant, AskedInv
  <2>4. \/ rev' = [rev EXCEPT ![t].work = None]
        \/ rev' = [rev EXCEPT ![t].work = None, ![t].json = cmd.mode]
    BY <1>5 DEF Publish
  <2> HIDE DEF t
  <2>5. \A r \in Rung : /\ rev'[r].out = rev[r].out /\ rev'[r].work \in {rev[r].work, None}
                        /\ rev'[r].json = rev[r].json \/ (r = t /\ rev'[r].json = cmd.mode)
    BY <1>1, <2>2, <2>4 DEF Revision
  <2> QED BY <1>1, <2>3, <2>5 DEF AskedInv
<1> QED BY <1>2, <1>3, <1>4, <1>5
    DEF Step, TakeTask, NoMoreTasks, UncalConvert, UncalRecord, Solve, files

LEMMA AskedStep == LadderInv /\ AskedInv /\ [Next]_vars => AskedInv'
<1> SUFFICES ASSUME LadderInv, AskedInv, [Next]_vars PROVE AskedInv'
  OBVIOUS
<1>1. rev \in [Rung -> Revision] /\ asked \in [Rung -> SUBSET ModeOf]
  BY DEF LadderInv, FileTypes
<1>2. CASE UNCHANGED vars
  BY <1>2, AskedStays DEF vars, files
<1>3. CASE \E d \in Devices, gen, allow, adopt \in BOOLEAN : Baseline(d, gen, allow, adopt)
  <2>1. UNCHANGED <<rev, asked>> /\ (cmd' # Idle => cmd' = cmd \/ cmd'.op = "baseline")
    BY <1>3 DEF Baseline, Launch, Return
  <2> QED BY <2>1 DEF AskedInv
<1>4. CASE \E q \in Quantizes : Quantize(q[1], q[2])
  <2>1. PICK q \in Quantizes : Quantize(q[1], q[2])
    BY <1>4
  <2>2. rev' = rev /\ cmd = Idle
    BY <2>1 DEF Quantize, Ready
  <2> DEFINE m == Mode(q[2])
  <2>3. CASE asked' = asked /\ cmd' = cmd
    BY <2>2, <2>3 DEF AskedInv
  <2>4. CASE asked' = [r \in Rung |-> asked[r] \cup {m}] /\ cmd'.mode = m
    <3> HIDE DEF m
    <3>1. \A r \in Rung : asked'[r] = asked[r] \cup {m}
      BY <2>4
    <3> QED BY <2>2, <2>4, <3>1 DEF AskedInv
  <2> QED BY <2>1, <2>3, <2>4 DEF Quantize, Return, Launch
<1>5. CASE \E l \in Lane : Step(l)
  BY <1>5, LaneAsks
<1>6. CASE Kill
  <2>1. cmd # Idle /\ cmd' = Idle /\ asked' = asked
    BY <1>6 DEF Kill, Abort
  <2>2. PICK begun \in SUBSET {l \in Lane : At(l, "convert") /\ cmd.op = "quantize"} :
          rev' = [r \in Rung |->
                    IF rev[r].out = None /\ \E l \in begun : lane[l].task = r
                    THEN [rev[r] EXCEPT !.work = Begun(r)] ELSE rev[r]]
    BY <1>6 DEF Kill
  <2>3. ASSUME NEW r \in Rung, \E l \in begun : lane[l].task = r PROVE Begun(r) \in asked[r] \cup {None}
    BY <2>1, <2>3 DEF Begun, AskedInv
  <2>4. \A r \in Rung : /\ rev'[r].out = rev[r].out /\ rev'[r].json = rev[r].json
                        /\ rev'[r].work \in asked[r] \cup {None}
    BY <1>1, <2>2, <2>3 DEF AskedInv, Revision
  <2> QED BY <2>1, <2>4 DEF AskedInv
<1>7. CASE \E r \in Rung : DeleteRevision(r)
  <2>1. PICK r \in Rung : DeleteRevision(r)
    BY <1>7
  <2> DEFINE gone == [out |-> None, work |-> None, recipe |-> rev[r].recipe, json |-> None]
  <2>2. /\ rev' = [rev EXCEPT ![r] = gone] /\ asked' = [asked EXCEPT ![r] = {}]
        /\ cmd = Idle /\ cmd' = cmd
    BY <2>1 DEF DeleteRevision, Emptied
  <2>3. gone.out = None /\ gone.work = None /\ gone.json = None
    OBVIOUS
  <2> HIDE DEF gone
  <2>4. \A s \in Rung : s = r \/ (rev'[s] = rev[s] /\ asked'[s] = asked[s])
    BY <1>1, <2>2
  <2>5. rev'[r] = gone
    BY <1>1, <2>2
  <2> QED BY <2>2, <2>3, <2>4, <2>5 DEF AskedInv
<1>8. CASE \/ Compare \/ UploadUncalibrated \/ FetchUncalibrated \/ BatchEnds
           \/ \E t \in Tree \cup {Dirty} : EditConverter(t)
           \/ \E d \in Uncal : DeleteUncal(d)
           \/ \E i \in Stage : StageDone(i)
  <2>1. UNCHANGED <<rev, asked>> /\ cmd' \in {cmd, Idle}
    BY <1>8 DEF Compare, UploadUncalibrated, FetchUncalibrated, Return, BatchEnds, EditConverter,
       DeleteUncal, StageDone, files
  <2> QED BY <2>1, AskedStays
<1> QED BY <1>2, <1>3, <1>4, <1>5, <1>6, <1>7, <1>8 DEF Next

LEMMA AskedAlways == Spec => []AskedInv
<1>1. Init => AskedInv
  BY DEF Init, AskedInv
<1> QED BY <1>1, AskedStep, LadderAlways, PTL DEF Spec

\* A rung's record of its converter, here and in the published repository, names
\* what made it unless the checkout changed during that conversion; the recipe that
\* would be published with a revision is the one it was converted with; and
\* calibration.json says how its revision was made if no command since the
\* directory was empty asked for anything else: whatever was killed, retried,
\* rebuilt, adopted, fetched and uploaded in between.
THEOREM RecordsAlwaysKept == Spec => []RecordsKept
<1>1. LadderInv => TypeOK
  <2> SUFFICES ASSUME LadderInv PROVE TypeOK
    OBVIOUS
  <2> USE DEF LadderInv
  <2>1. \A l \in Lane : lane[l].left <= Retries + 1
    BY LadderAssumption DEF JobTypes, Slot
  <2>2. \A r \in Rung : {rev[r].out, rev[r].work, rev[r].json} \subseteq ModeOf \cup {None}
                        /\ asked[r] \subseteq ModeOf
    BY DEF FileTypes, Revision
  <2>3. cmd # Idle => UNION {share[g] : g \in Gpu} \subseteq DOMAIN cmd.tasks
    BY DEF JobTypes
  <2> QED BY <2>1, <2>2, <2>3 DEF TypeOK, FileTypes, JobTypes
<1>2. LadderInv => StampTrue
  BY DEF LadderInv, Stamped, StampOK, StampTrue
<1>3. LadderInv => RecipeKept
  <2> SUFFICES ASSUME LadderInv, NEW r \in Rung, rev[r].out # None, rev[r].out.recipe # None
               PROVE  rev[r].recipe = rev[r].out.recipe
    BY DEF RecipeKept
  <2> QED BY DEF LadderInv, Solved, RecipeOf
<1>4. AskedInv => CalibrationTrue
  BY DEF AskedInv, CalibrationTrue
<1> QED BY <1>1, <1>2, <1>3, <1>4, LadderAlways, AskedAlways, PTL DEF RecordsKept

\* Unless told to, qbench compares with a ladder of rungs that the present converter
\* made, all of them but those during whose conversion the checkout changed.
THEOREM AlwaysComparesOwn == Spec => ComparesOwn
<1>1. LadderInv /\ [Next]_vars =>
        [compared' # compared => \A d \in Made(Rung) : uncal[d].made = tree \/ uncal[d].shifted]_vars
  <2> SUFFICES ASSUME LadderInv, Next, compared' # compared, NEW d \in Made(Rung)
               PROVE  uncal[d].made = tree \/ uncal[d].shifted
    BY DEF vars
  <2>1. Compare
    BY DEF Next, Baseline, Quantize, UploadUncalibrated, FetchUncalibrated, Step, TakeTask,
       NoMoreTasks, UncalConvert, UncalRecord, Solve, Convert, Publish, BatchEnds, Kill,
       EditConverter, DeleteUncal, DeleteRevision, StageDone
  <2>2. Mismatched(uncal, Made(Rung)) = {}
    BY <2>1 DEF Compare
  <2>3. tree \in Tree \cup {Dirty} /\ tree # None
    BY Nones DEF LadderInv, FileTypes
  <2>4. tree # Dirty /\ Recorded(uncal[d]) = tree
    BY <2>2 DEF Mismatched
  <2>5. uncal[d].stamp # None /\ uncal[d].stamp.tree = tree
    BY <2>3, <2>4 DEF Recorded
  <2>6. d \in Uncal
    BY BitsAreRungs DEF Made
  <2> QED BY <2>3, <2>5, <2>6 DEF LadderInv, Stamped, StampOK
<1> QED BY <1>1, LadderAlways, PTL DEF Spec, ComparesOwn

(***************************************************************************)
(* The exit status.  Blends are solved on one lane only: ownvoice_groups    *)
(* refuses with SystemExit, which ends a thread without a word.             *)
(***************************************************************************)
OneLaneBlends == \A q \in Quantizes : q[2].recipe /\ q[2].share = "blend" => Len(q[1]) = 1

\* Every task is made, on its way, waiting for a lane, or one of those reported.
Waits(k) == \E g \in ToSet(cmd.devices) : k \in share[g]
Runs(t) == \E l \in Lane : Active(l) /\ lane[l].task = t
Accounted(k) == failed # {} \/ Delivered(cmd.tasks[k]) \/ Waits(k) \/ Runs(cmd.tasks[k])

ExitInv ==
    cmd # Idle =>
        /\ cmd.op = "quantize" /\ cmd.mode.recipe = "blend" => Len(cmd.devices) = 1
        /\ \A l \in DOMAIN cmd.devices : lane[l].step = "stopped" => share[cmd.devices[l]] = {}
        /\ \A k \in DOMAIN cmd.tasks : Accounted(k)

LEMMA LaunchAccounts ==
    ASSUME NEW c, Given(c), Launch(c),
           c.op = "quantize" /\ c.mode.recipe = "blend" => Len(c.devices) = 1
    PROVE  ExitInv'
<1>1. c.devices \in Devices /\ cmd' = c
  BY GivenFacts DEF Launch
<1>2. PICK to \in [DOMAIN c.tasks -> ToSet(c.devices)] :
        share' = [g \in Gpu |-> {k \in DOMAIN to : to[k] = g}]
  BY DEF Launch
<1>3. ASSUME NEW k \in DOMAIN c.tasks PROVE Accounted(k)'
  <2>1. to[k] \in ToSet(c.devices) /\ to[k] \in Gpu
    BY <1>1, <1>2, DevicesOf
  <2>2. k \in share'[to[k]]
    BY <1>2, <2>1
  <2> QED BY <1>1, <2>1, <2>2 DEF Accounted, Waits
<1>4. ASSUME NEW l \in DOMAIN c.devices PROVE lane'[l].step # "stopped"
  <2>1. l \in Lane /\ l <= Len(c.devices)
    BY <1>1, DevicesOf
  <2>2. lane'[l] = Free
    BY <2>1 DEF Launch
  <2> QED BY <2>2 DEF Free
<1> QED BY <1>1, <1>3, <1>4 DEF ExitInv

LEMMA DeliveredStays ==
    ASSUME LadderInv, cmd # Idle, cmd' = cmd, Grows, NEW t \in ToSet(cmd.tasks), Delivered(t)
    PROVE  Delivered(t)'
<1>1. Given(cmd)
  BY DEF LadderInv, JobTypes
<1>2. CASE cmd.op = "baseline"
  <2>1. t \in Uncal
    BY <1>1, GivenFacts, TasksOf
  <2> QED BY <1>2, <2>1 DEF Delivered, Grows, MadeGrows
<1>3. CASE cmd.op # "baseline"
  <2>1. t \in Rung
    BY <1>1, <1>3, GivenFacts
  <2>2. RevGrows(t)
    BY <2>1 DEF Grows
  <2> QED BY <1>3, <2>2 DEF Delivered, RevGrows
<1> QED BY <1>2, <1>3

\* A lane that goes on with its task, delivers it or has it reported loses none.
LEMMA LaneAccounts ==
    ASSUME LadderInv, ExitInv, cmd # Idle, cmd' = cmd, Grows, NEW l \in Lane, NEW x, Do(l, x),
           Active(l), share' = share, failed \subseteq failed', x.step # "stopped",
           NEW own, lane[l].task = own,
           (x.step # "free" /\ x.task = own) \/ failed' # {} \/ Delivered(own)'
    PROVE  ExitInv'
<1>1. lane'[l] = x /\ \A m \in Lane \ {l} : lane'[m] = lane[m]
  BY DEF Do, LadderInv, JobTypes
<1>2. Given(cmd) /\ cmd \in Command /\ cmd.devices \in Devices /\ DOMAIN cmd.devices \subseteq Lane
  BY GivenFacts, DevicesOf DEF LadderInv, JobTypes
<1>3. ASSUME NEW k \in DOMAIN cmd.tasks PROVE Accounted(k)'
  <2> DEFINE t == cmd.tasks[k]
  <2>1. t \in ToSet(cmd.tasks)
    BY <1>2, TasksOf
  <2>2. CASE failed # {}
    BY <2>2 DEF Accounted
  <2>3. CASE Delivered(t)
    BY <2>1, <2>3, DeliveredStays DEF Accounted
  <2>4. CASE Waits(k)
    BY <2>4 DEF Accounted, Waits
  <2>5. CASE Runs(t)
    <3>1. PICK m \in Lane : Active(m) /\ lane[m].task = t
      BY <2>5 DEF Runs
    <3>2. CASE m # l
      BY <1>1, <3>1, <3>2 DEF Accounted, Runs, Active
    <3>3. CASE m = l
      BY <1>1, <3>1, <3>3 DEF Accounted, Runs, Active
    <3> QED BY <3>2, <3>3
  <2> QED BY <2>2, <2>3, <2>4, <2>5 DEF ExitInv, Accounted
<1>4. \A m \in DOMAIN cmd.devices : lane'[m].step = "stopped" => share[cmd.devices[m]] = {}
  BY <1>1, <1>2 DEF ExitInv
<1> QED BY <1>3, <1>4 DEF ExitInv

LEMMA TakeTaskAccounts ==
    ASSUME LadderInv, ExitInv, NEW l \in Lane, TakeTask(l)
    PROVE  ExitInv'
<1>1. cmd # Idle /\ lane[l].step = "free" /\ UNCHANGED <<cmd, failed>> /\ Grows
  BY TakeTaskKeeps DEF TakeTask, At
<1> DEFINE g == cmd.devices[l]
<1>2. PICK k \in share[g] :
        /\ share' = [share EXCEPT ![g] = @ \ {k}]
        /\ Do(l, [task |-> cmd.tasks[k], step |-> FirstStep(cmd.tasks[k]), left |-> Retries + 1,
                  existed |-> cmd.op = "baseline" /\ Existed(cmd.tasks[k])])
  BY DEF TakeTask
<1>3. /\ lane'[l].task = cmd.tasks[k] /\ lane'[l].step = FirstStep(cmd.tasks[k])
      /\ \A m \in Lane \ {l} : lane'[m] = lane[m]
  BY <1>2 DEF Do, LadderInv, JobTypes
<1>4. FirstStep(cmd.tasks[k]) \in {"solve", "convert"}
  BY DEF FirstStep
<1>5. /\ Given(cmd) /\ cmd \in Command /\ cmd.devices \in Devices /\ g \in Gpu
      /\ DOMAIN cmd.devices \subseteq Lane /\ ToSet(cmd.devices) \subseteq Gpu
      /\ \A m \in DOMAIN cmd.devices : cmd.devices[m] \in Gpu
  BY <1>1, AtWork, GivenFacts, DevicesOf
<1>6. /\ share \in [Gpu -> SUBSET Nat]
      /\ share'[g] = share[g] \ {k} /\ \A h \in Gpu \ {g} : share'[h] = share[h]
  BY <1>2, <1>5 DEF LadderInv, JobTypes
<1>7. ASSUME NEW j \in DOMAIN cmd.tasks PROVE Accounted(j)'
  <2> DEFINE t == cmd.tasks[j]
  <2>1. t \in ToSet(cmd.tasks)
    BY <1>5, TasksOf
  <2>2. CASE failed # {}
    BY <1>1, <2>2 DEF Accounted
  <2>3. CASE Delivered(t)
    BY <1>1, <2>1, <2>3, DeliveredStays DEF Accounted
  <2>4. CASE Waits(j)
    <3>1. PICK h \in ToSet(cmd.devices) : j \in share[h]
      BY <2>4 DEF Waits
    <3>2. CASE h = g /\ j = k
      BY <1>1, <1>3, <1>4, <3>2 DEF Accounted, Runs, Active
    <3>3. CASE ~(h = g /\ j = k)
      <4>1. j \in share'[h]
        BY <1>5, <1>6, <3>1, <3>3
      <4> QED BY <1>1, <3>1, <4>1 DEF Accounted, Waits
    <3> QED BY <3>2, <3>3
  <2>5. CASE Runs(t)
    <3>1. PICK m \in Lane : Active(m) /\ lane[m].task = t
      BY <2>5 DEF Runs
    <3>2. m # l
      BY <1>1, <3>1 DEF Active
    <3> QED BY <1>1, <1>3, <3>1, <3>2 DEF Accounted, Runs, Active
  <2> QED BY <1>1, <2>2, <2>3, <2>4, <2>5 DEF ExitInv, Accounted
<1>8. ASSUME NEW m \in DOMAIN cmd.devices, lane'[m].step = "stopped" PROVE share'[cmd.devices[m]] = {}
  <2>1. m # l
    BY <1>3, <1>4, <1>8
  <2>2. share[cmd.devices[m]] = {}
    BY <1>1, <1>3, <1>5, <1>8, <2>1 DEF ExitInv
  <2> QED BY <1>5, <1>6, <2>2
<1> QED BY <1>1, <1>7, <1>8 DEF ExitInv

LEMMA NoMoreTasksAccounts ==
    ASSUME LadderInv, ExitInv, NEW l \in Lane, NoMoreTasks(l)
    PROVE  ExitInv'
<1>1. /\ cmd # Idle /\ lane[l].step = "free" /\ UNCHANGED <<cmd, share, failed>> /\ Grows
      /\ share[cmd.devices[l]] = {} /\ Do(l, Stopped)
  BY NoMoreTasksKeeps DEF NoMoreTasks, At
<1>2. lane'[l] = Stopped /\ \A m \in Lane \ {l} : lane'[m] = lane[m]
  BY <1>1 DEF Do, LadderInv, JobTypes
<1>3. Given(cmd) /\ cmd \in Command /\ cmd.devices \in Devices /\ DOMAIN cmd.devices \subseteq Lane
  BY <1>1, AtWork, GivenFacts, DevicesOf
<1>4. ASSUME NEW k \in DOMAIN cmd.tasks PROVE Accounted(k)'
  <2> DEFINE t == cmd.tasks[k]
  <2>1. t \in ToSet(cmd.tasks)
    BY <1>3, TasksOf
  <2>2. CASE failed # {} \/ Waits(k)
    BY <1>1, <2>2 DEF Accounted, Waits
  <2>3. CASE Delivered(t)
    BY <1>1, <2>1, <2>3, DeliveredStays DEF Accounted
  <2>4. CASE Runs(t)
    <3>1. PICK m \in Lane : Active(m) /\ lane[m].task = t
      BY <2>4 DEF Runs
    <3>2. m # l
      BY <1>1, <3>1 DEF Active
    <3> QED BY <1>1, <1>2, <3>1, <3>2 DEF Accounted, Runs, Active
  <2> QED BY <1>1, <2>2, <2>3, <2>4 DEF ExitInv, Accounted
<1>5. \A m \in DOMAIN cmd.devices : lane'[m].step = "stopped" => share[cmd.devices[m]] = {}
  BY <1>1, <1>2, <1>3 DEF ExitInv
<1> QED BY <1>1, <1>4, <1>5 DEF ExitInv

LEMMA ConversionAccounts ==
    ASSUME LadderInv, ExitInv, NEW l \in Lane, UncalConvert(l) \/ Convert(l)
    PROVE  ExitInv'
<1>0. PICK t : lane[l].task = t
  OBVIOUS
<1>1. cmd # Idle /\ lane[l].step = "convert" /\ UNCHANGED <<cmd, share>> /\ Grows
  BY UncalConvertKeeps, ConvertKeeps DEF UncalConvert, Convert, At
<1>2. Active(l) /\ lane[l] \in Slot
  BY <1>1 DEF Active, LadderInv, JobTypes
<1>3. \/ failed' = failed /\ (Goto(l, "record") \/ Goto(l, "publish"))
      \/ failed' = failed /\ Do(l, [lane[l] EXCEPT !.left = @ - 1])
      \/ Fail(l)
  BY DEF UncalConvert, Convert
<1>4. CASE failed' = failed /\ (Goto(l, "record") \/ Goto(l, "publish"))
  <2>1. PICK s \in {"record", "publish"} : Goto(l, s)
    BY <1>4
  <2> DEFINE x == [lane[l] EXCEPT !.step = s]
  <2>2. x.step = s /\ x.task = t /\ Do(l, x)
    BY <1>0, <1>2, <2>1 DEF Goto, Slot
  <2> HIDE DEF x
  <2> QED BY <1>1, <1>2, <1>4, <2>2, <1>0, LaneAccounts
<1>5. CASE failed' = failed /\ Do(l, [lane[l] EXCEPT !.left = @ - 1])
  <2> DEFINE x == [lane[l] EXCEPT !.left = @ - 1]
  <2>1. x.step = "convert" /\ x.task = t /\ Do(l, x)
    BY <1>0, <1>1, <1>2, <1>5 DEF Slot
  <2> HIDE DEF x
  <2> QED BY <1>1, <1>2, <1>5, <2>1, <1>0, LaneAccounts
<1>6. CASE Fail(l)
  BY <1>1, <1>2, <1>6, <1>0, LaneAccounts DEF Fail, Free
<1> QED BY <1>3, <1>4, <1>5, <1>6

LEMMA UncalRecordAccounts ==
    ASSUME LadderInv, ExitInv, NEW l \in Lane, UncalRecord(l)
    PROVE  ExitInv'
<1>0. PICK t : lane[l].task = t
  OBVIOUS
<1>1. /\ cmd # Idle /\ lane[l].step = "record" /\ UNCHANGED <<cmd, share, failed>> /\ Grows
      /\ Do(l, Free)
  BY UncalRecordKeeps DEF UncalRecord, At, Finish
<1>2. Active(l) /\ LaneBase(l) /\ LaneTask(l)
  BY <1>1, AtWork DEF Active
<1>3. Delivered(t) /\ t \in ToSet(cmd.tasks)
  BY <1>0, <1>1, <1>2 DEF LaneBase, LaneTask, Delivered
<1>4. Delivered(t)'
  BY <1>1, <1>3, DeliveredStays
<1> QED BY <1>1, <1>2, <1>4, <1>0, LaneAccounts DEF Free

LEMMA SolveAccounts ==
    ASSUME LadderInv, ExitInv, NEW l \in Lane, Solve(l)
    PROVE  ExitInv'
<1>0. PICK t : lane[l].task = t
  OBVIOUS
<1>1. cmd # Idle /\ lane[l].step = "solve" /\ Grows
  BY SolveKeeps DEF Solve, At
<1>2. Active(l) /\ lane[l] \in Slot /\ LaneTask(l) /\ cmd.op = "quantize"
  BY <1>1, AtWork DEF Active, LadderInv, JobTypes, LaneTask
<1>3. CASE Goto(l, "convert") /\ UNCHANGED <<cmd, share, failed>>
  <2> DEFINE x == [lane[l] EXCEPT !.step = "convert"]
  <2>1. x.step = "convert" /\ x.task = t /\ Do(l, x)
    BY <1>0, <1>2, <1>3 DEF Goto, Slot
  <2> HIDE DEF x
  <2> QED BY <1>1, <1>2, <1>3, <2>1, <1>0, LaneAccounts
<1>4. CASE Fail(l) /\ UNCHANGED <<cmd, share>>
  BY <1>1, <1>2, <1>4, <1>0, LaneAccounts DEF Fail, Free
<1>5. CASE ~Blendable /\ RaiseExit(l)
  <2>1. cmd.mode.recipe = "blend"
    BY <1>5 DEF Blendable
  <2>2. Len(cmd.devices) = 1
    BY <1>1, <1>2, <2>1 DEF ExitInv
  <2>3. cmd' = Idle
    BY <1>5, <2>2 DEF RaiseExit, Parallel, Abort
  <2> QED BY <2>3 DEF ExitInv
<1> QED BY <1>3, <1>4, <1>5 DEF Solve

LEMMA PublishAccounts ==
    ASSUME LadderInv, ExitInv, NEW l \in Lane, Publish(l)
    PROVE  ExitInv'
<1>0. PICK t : lane[l].task = t
  OBVIOUS
<1>1. cmd # Idle /\ lane[l].step = "publish" /\ Grows
  BY PublishKeeps DEF Publish, At
<1>2. /\ Active(l) /\ LaneTask(l) /\ LaneQuant(l) /\ cmd.op = "quantize" /\ Given(cmd)
      /\ t \in Rung
  BY <1>0, <1>1, AtWork DEF Active, LaneTask
<1>3. CASE Raise(l)
  BY <1>1, <1>2, <1>3, <1>0, LaneAccounts DEF Raise, Fail, Free, Abort, ExitInv
<1>4. CASE /\ rev' = [rev EXCEPT ![t].work = None, ![t].json = cmd.mode]
           /\ Finish(l) /\ UNCHANGED <<cmd, share, ok>>
  <2>1. rev[t].out # None /\ rev[t] \in Revision /\ cmd.mode # None
    BY <1>0, <1>1, <1>2, Nones DEF LaneQuant, LadderInv, FileTypes, Given
  <2>2. rev'[t].out = rev[t].out /\ rev'[t].json = cmd.mode
    BY <1>2, <1>4, <2>1 DEF Revision, LadderInv, FileTypes
  <2>3. Delivered(t)'
    BY <1>2, <1>4, <2>1, <2>2 DEF Delivered, Finish, Do
  <2> QED BY <1>0, <1>1, <1>2, <1>4, <2>3, LaneAccounts DEF Finish, Free
<1> QED BY <1>0, <1>3, <1>4 DEF Publish

LEMMA LaneStepAccounts ==
    ASSUME LadderInv, ExitInv, NEW l \in Lane, Step(l)
    PROVE  ExitInv' /\ (cmd # Idle /\ cmd' = Idle => ~ok')
<1>1. ExitInv'
  BY TakeTaskAccounts, NoMoreTasksAccounts, ConversionAccounts, UncalRecordAccounts,
     SolveAccounts, PublishAccounts DEF Step
<1>2. cmd' = cmd \/ ~ok'
  BY DEF Step, TakeTask, NoMoreTasks, UncalConvert, UncalRecord, Solve, Convert, Publish,
     Raise, RaiseExit, Abort
<1> QED BY <1>1, <1>2

\* When every lane has stopped and nothing failed, nothing is left to do.
LEMMA EndsDelivered ==
    ASSUME LadderInv, ExitInv, BatchEnds, ok', NEW t \in ToSet(cmd.tasks)
    PROVE  Delivered(t)
<1>1. cmd # Idle /\ failed = {} /\ \A l \in Lane : lane[l].step = "stopped"
  BY DEF BatchEnds, Reported
<1>2. /\ Given(cmd) /\ cmd \in Command /\ cmd.devices \in Devices /\ DOMAIN cmd.devices \subseteq Lane
      /\ ToSet(cmd.devices) = {cmd.devices[i] : i \in DOMAIN cmd.devices}
  BY <1>1, GivenFacts, DevicesOf DEF LadderInv, JobTypes
<1>3. PICK k \in DOMAIN cmd.tasks : cmd.tasks[k] = t
  BY <1>2, TasksOf
<1>4. Accounted(k)
  BY <1>1 DEF ExitInv
<1>5. ~Runs(t)
  BY <1>1 DEF Runs, Active
<1>6. ~Waits(k)
  <2> SUFFICES ASSUME NEW i \in DOMAIN cmd.devices PROVE k \notin share[cmd.devices[i]]
    BY <1>2 DEF Waits
  <2> QED BY <1>1, <1>2 DEF ExitInv
<1> QED BY <1>1, <1>3, <1>4, <1>5, <1>6 DEF Accounted

ExitsTruly == cmd # Idle /\ cmd' = Idle /\ ok' => \A t \in ToSet(cmd.tasks) : Delivered(t)

LEMMA ExitStep ==
    ASSUME OneLaneBlends, LadderInv, ExitInv, [Next]_vars
    PROVE  ExitInv' /\ [ExitsTruly]_vars
<1>1. CASE UNCHANGED vars
  BY <1>1 DEF vars, files, jobs, ExitInv, Accounted, Delivered, Waits, Runs, Active
<1>2. CASE \E d \in Devices, gen, allow, adopt \in BOOLEAN : Baseline(d, gen, allow, adopt)
  <2>1. PICK d \in Devices, gen \in BOOLEAN, allow \in BOOLEAN, adopt \in BOOLEAN :
             Baseline(d, gen, allow, adopt)
    BY <1>2
  <2> DEFINE c == [op |-> "baseline", devices |-> d, mode |-> None,
                   tasks |-> (IF gen THEN <<Gen>> ELSE <<>>) \o Bits]
  <2>2. CASE Launch(c)
    <3>1. Given(c)
      BY BaselineGiven
    <3>2. ExitInv'
      BY <2>2, <3>1, LaunchAccounts
    <3> QED BY <2>1, <3>2 DEF Baseline, Ready, ExitsTruly
  <2>3. CASE Return(FALSE)
    BY <2>1, <2>3 DEF Return, Baseline, Ready, ExitInv, ExitsTruly
  <2> QED BY <2>1, <2>2, <2>3 DEF Baseline
<1>3. CASE \E q \in Quantizes : Quantize(q[1], q[2])
  <2>1. PICK q \in Quantizes : Quantize(q[1], q[2])
    BY <1>3
  <2> DEFINE c == [op |-> "quantize", devices |-> q[1], mode |-> Mode(q[2]), tasks |-> Bits]
  <2>2. CASE Launch(c)
    <3>1. q[1] \in Devices /\ q[2] \in Flag
      BY LadderAssumption
    <3>2. Mode(q[2]) \in ModeOf
      BY <3>1 DEF Mode, ModeOf, Flag
    <3>3. Given(c)
      BY <3>1, <3>2 DEF Given, Command
    <3>4. c.mode.recipe = "blend" => Len(c.devices) = 1
      BY LadderAssumption DEF Mode, OneLaneBlends
    <3>5. ExitInv'
      BY <2>2, <3>3, <3>4, LaunchAccounts
    <3> QED BY <2>1, <3>5 DEF Quantize, Ready, ExitsTruly
  <2>3. CASE UNCHANGED <<cmd, jobs>>
    BY <2>1, <2>3 DEF Quantize, Ready, ExitInv, ExitsTruly
  <2> QED BY <2>1, <2>2, <2>3 DEF Quantize, Return
<1>4. CASE \E l \in Lane : Step(l)
  BY <1>4, LaneStepAccounts DEF ExitsTruly
<1>5. CASE BatchEnds
  BY <1>5, EndsDelivered DEF BatchEnds, ExitInv, ExitsTruly
<1>6. CASE Kill
  BY <1>6 DEF Kill, Abort, ExitInv, ExitsTruly
<1>8. CASE \E t \in Tree \cup {Dirty} : EditConverter(t)
  <2>1. /\ UNCHANGED <<rev, cmd, jobs>>
        /\ \A d \in Uncal : uncal'[d].made = uncal[d].made
    <3>1. uncal \in [Uncal -> UncalDir]
      BY DEF LadderInv, FileTypes
    <3> QED BY <1>8, <3>1 DEF EditConverter, UncalDir
  <2>2. ASSUME cmd # Idle, NEW k \in DOMAIN cmd.tasks, Delivered(cmd.tasks[k])
        PROVE  Delivered(cmd.tasks[k])'
    <3>1. Given(cmd)
      BY <2>2 DEF LadderInv, JobTypes
    <3>2. cmd.tasks[k] \in Uncal
      BY <2>2, <3>1, GivenFacts, TasksOf
    <3> QED BY <2>1, <2>2, <3>2 DEF Delivered
  <2> QED BY <2>1, <2>2 DEF jobs, ExitInv, ExitsTruly, Accounted, Waits, Runs, Active
<1>7. CASE \/ Compare \/ UploadUncalibrated \/ FetchUncalibrated
           \/ \E d \in Uncal : DeleteUncal(d)
           \/ \E r \in Rung : DeleteRevision(r)
           \/ \E i \in Stage : StageDone(i)
  <2>1. cmd = Idle /\ cmd' = Idle
    BY <1>7 DEF Compare, UploadUncalibrated, FetchUncalibrated, Return, Ready,
       DeleteUncal, DeleteRevision, StageDone
  <2> QED BY <2>1 DEF ExitInv, ExitsTruly
<1> QED BY <1>1, <1>2, <1>3, <1>4, <1>5, <1>6, <1>7, <1>8 DEF Next

\* If blends are solved on one lane: a batch that exits with 0 has made every rung
\* or revision it was asked for, whichever GPUs its tasks were dealt to, whatever
\* was tried again and whatever another lane failed at.
THEOREM AlwaysExitHonest == ASSUME OneLaneBlends PROVE Spec => ExitHonest
<1>1. Init => ExitInv
  BY DEF Init, ExitInv
<1>2. LadderInv /\ ExitInv /\ [Next]_vars => ExitInv' /\ [ExitsTruly]_vars
  BY OneLaneBlends, ExitStep
<1>3. [ExitsTruly]_vars =>
        [cmd # Idle /\ cmd' = Idle /\ ok' => \A t \in ToSet(cmd.tasks) : Delivered(t)]_vars
  BY DEF ExitsTruly
<1> QED BY <1>1, <1>2, <1>3, LadderAlways, PTL DEF Spec, ExitHonest
===========================================================================
