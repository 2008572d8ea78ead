----------------------------- MODULE MirrorSync -----------------------------
(***************************************************************************)
(* src/tools/sync_outputs.py: a working tree on a pod's own disk mirrored  *)
(* into an archive volume by a loop of passes while other programs write   *)
(* the tree, and brought back from it when the pod is lost. The archive    *)
(* keeps no modification times, so (size, mtime) of what was copied is     *)
(* recorded in the tree, in .sync_state.json.                              *)
(*                                                                         *)
(* `now` counts granules of the file system's clock: two writes in one     *)
(* granule leave one mtime.  Excluded names are not part of the tree.      *)
(***************************************************************************)
EXTENDS Naturals, FiniteSets

CONSTANTS
    File, Size,
    Settle,        \* --settle, in granules
    Absent,
    MaxTime, MaxWrites, MaxMishaps   \* bounds: time; writes and deletions; failures, kills, lost pods

ASSUME MirrorAssumption ==
    /\ Settle \in Nat \ {0}
    /\ {MaxTime, MaxWrites, MaxMishaps} \subseteq Nat

VARIABLES
    now, writes, mishaps,
    local,     \* the tree: [data, mtime] or Absent
    archive,   \* the volume: data or Absent
    state,     \* .sync_state.json
    pod,       \* "work", "lost" (nothing restored yet) or "restore"
    pc,        \* the mirror: "stopped", "idle", "pass", "copy" or "restat"
    mem, left, \* the running pass's or restore's `state` and names left
    cur, key, got   \* the file being copied, what its stat said, what was read of it

bounds == <<now, writes, mishaps>>
trees == <<local, archive, state>>
pass == <<mem, left>>
copy == <<cur, key, got>>
mirrorVars == <<bounds, trees, pod, pc, pass, copy>>

Torn == [id |-> 0, size |-> 0]
Data == [id : 1 .. MaxWrites, size : Size] \cup {Torn}
Present(tree) == {f \in File : tree[f] # Absent}

Key_SizeOnly(l) == <<l.data.size, 0>>   \* mutant: a rewrite of the same size is not seen

\* [st_size, st_mtime_ns].
Key(l) == <<l.data.size, l.mtime>>

Record(s, f, k) == [g \in DOMAIN s \cup {f} |-> IF g = f THEN k ELSE s[g]]

MirrorInit ==
    /\ now = 0 /\ writes = 0 /\ mishaps = 0
    /\ local = [f \in File |-> Absent] /\ archive = local /\ state = <<>>
    /\ pod = "work" /\ pc = "stopped"
    /\ mem = <<>> /\ left = {} /\ cur = Absent /\ key = Absent /\ got = Absent

(***************************************************************************)
(* The pipeline and time                                                   *)
(***************************************************************************)
Tick == now < MaxTime /\ now' = now + 1 /\ UNCHANGED <<writes, mishaps, trees, pod, pc, pass, copy>>

\* Writes end early enough for the last of them to settle.
Busy == pod = "work" /\ writes < MaxWrites /\ now + Settle < MaxTime /\ writes' = writes + 1

\* A copy under way has read all, part or nothing of the file as it was.
Write(f, size) ==
    /\ Busy
    /\ LET new == [id |-> writes + 1, size |-> size] IN
         /\ local' = [local EXCEPT ![f] = [data |-> new, mtime |-> now]]
         /\ IF pc = "copy" /\ cur = f THEN got' \in {got, Torn, new} ELSE UNCHANGED got
    /\ UNCHANGED <<now, mishaps, archive, state, pod, pc, pass, cur, key>>

\* A copy that has opened the file reads it all the same.
Delete(f) ==
    /\ Busy /\ local[f] # Absent
    /\ local' = [local EXCEPT ![f] = Absent]
    /\ IF pc = "copy" /\ cur = f THEN got' \in {got, Absent} ELSE UNCHANGED got
    /\ UNCHANGED <<now, mishaps, archive, state, pod, pc, pass, cur, key>>

(***************************************************************************)
(* sync_pass                                                               *)
(***************************************************************************)
Goto(step) == pc' = step /\ UNCHANGED <<bounds, pod>>

StartMirror == pc = "stopped" /\ pod = "work" /\ Goto("idle") /\ UNCHANGED <<trees, pass, copy>>

\* A file that appears after its directory was listed waits for the next pass.
PassBegin ==
    /\ pc = "idle" /\ Goto("pass")
    /\ mem' = state /\ left' = Present(local)
    /\ UNCHANGED <<trees, copy>>

Settled_Always(f) == TRUE   \* mutant: a file is copied as soon as it is seen

Settled(f) == now >= local[f].mtime + Settle

Due(f) == /\ f \in DOMAIN mem => mem[f] # Key(local[f])
          /\ Settled(f)

Skip(f) ==
    /\ pc = "pass" /\ f \in left
    /\ local[f] # Absent => ~Due(f)
    /\ left' = left \ {f}
    /\ UNCHANGED <<bounds, trees, pod, pc, mem, copy>>

CopyBegin(f) ==
    /\ pc = "pass" /\ f \in left
    /\ local[f] # Absent /\ Due(f)
    /\ Goto("copy") /\ left' = left \ {f}
    /\ cur' = f /\ key' = Key(local[f]) /\ got' = local[f].data
    /\ UNCHANGED <<trees, mem>>

\* copy_one: under a temporary name, then renamed.
CopyLands ==
    /\ pc = "copy" /\ got # Absent /\ Goto("restat")
    /\ archive' = [archive EXCEPT ![cur] = got]
    /\ UNCHANGED <<local, state, pass, copy>>

\* The file is gone before it is opened, or the volume refuses.
CopyFails ==
    /\ pc = "copy"
    /\ IF got = Absent THEN UNCHANGED mishaps ELSE mishaps < MaxMishaps /\ mishaps' = mishaps + 1
    /\ pc' = "pass"
    /\ UNCHANGED <<now, writes, pod, trees, pass, copy>>

Unchanged == Key(local[cur]) = key

Restat ==
    /\ pc = "restat" /\ local[cur] # Absent /\ Goto("pass")
    /\ mem' = IF Unchanged THEN Record(mem, cur, key) ELSE mem
    /\ state' = IF Unchanged THEN mem' ELSE state
    /\ UNCHANGED <<local, archive, left, copy>>

\* The second stat is outside the try: a file removed during its copy ends the loop.
RestatRaises ==
    /\ pc = "restat" /\ local[cur] = Absent /\ Goto("stopped")
    /\ UNCHANGED <<trees, pass, copy>>

PassEnd == pc = "pass" /\ left = {} /\ Goto("idle") /\ UNCHANGED <<trees, pass, copy>>

(***************************************************************************)
(* Mishaps, and restore                                                    *)
(***************************************************************************)
Mishap == mishaps < MaxMishaps /\ mishaps' = mishaps + 1

Kill ==
    /\ Mishap /\ (pc # "stopped" \/ pod = "restore")
    /\ pc' = "stopped" /\ pod' = IF pod = "restore" THEN "lost" ELSE pod
    /\ UNCHANGED <<now, writes, trees, pass, copy>>

PodLost ==
    /\ Mishap /\ pod = "work" /\ pod' = "lost" /\ pc' = "stopped"
    /\ local' = [f \in File |-> Absent] /\ state' = <<>>
    /\ UNCHANGED <<now, writes, archive, pass, copy>>

\* Nothing else works in the tree until it is restored.
RestoreBegin ==
    /\ pod = "lost" /\ pod' = "restore"
    /\ mem' = state /\ left' = Present(archive)
    /\ UNCHANGED <<bounds, trees, pc, copy>>

RestoreFile(f) ==
    /\ pod = "restore" /\ f \in left /\ left' = left \ {f}
    /\ LET there == local[f] # Absent /\ local[f].data.size = archive[f].size
           l == IF there THEN local[f] ELSE [data |-> archive[f], mtime |-> now]
       IN  local' = [local EXCEPT ![f] = l] /\ mem' = Record(mem, f, Key(l))
    /\ UNCHANGED <<bounds, archive, state, pod, pc, copy>>

\* Whoever works on what was restored does so in a later granule.
RestoreEnd ==
    /\ pod = "restore" /\ left = {} /\ pod' = "work"
    /\ state' = mem /\ now' = IF now < MaxTime THEN now + 1 ELSE now
    /\ UNCHANGED <<writes, mishaps, local, archive, pc, pass, copy>>

Mirror ==
    \/ StartMirror \/ PassBegin \/ PassEnd
    \/ \E f \in File : Skip(f) \/ CopyBegin(f)
    \/ CopyLands \/ CopyFails \/ Restat \/ RestatRaises

Restore == RestoreBegin \/ RestoreEnd \/ \E f \in File : RestoreFile(f)

MirrorNext ==
    \/ Tick \/ Mirror \/ Restore \/ Kill \/ PodLost
    \/ \E f \in File : Delete(f) \/ \E s \in Size : Write(f, s)

MirrorSpec == MirrorInit /\ [][MirrorNext]_mirrorVars
MirrorFairSpec == MirrorSpec /\ WF_mirrorVars(Tick) /\ WF_mirrorVars(Mirror) /\ WF_mirrorVars(Restore)

(***************************************************************************)
(* Properties                                                              *)
(***************************************************************************)
MirrorTypeOK ==
    /\ now \in 0 .. MaxTime /\ writes \in 0 .. MaxWrites /\ mishaps \in 0 .. MaxMishaps
    /\ \A f \in Present(local) : local[f].data \in Data /\ local[f].mtime \in 0 .. now
    /\ \A f \in Present(archive) : archive[f] \in Data
    /\ DOMAIN state \subseteq File /\ DOMAIN mem \subseteq File /\ left \subseteq File
    /\ pod \in {"work", "lost", "restore"}
    /\ pc \in {"stopped", "idle", "pass", "copy", "restat"} /\ (pc # "stopped" => pod = "work")
    /\ pc \in {"copy", "restat"} => cur \in File

\* What the mirror would pass over is in the archive as it is in the tree, whoever
\* wrote, removed or rewrote the file around its copy, and after a restore too.
SkippedIsArchived ==
    \A f \in DOMAIN state \cap Present(local) :
        state[f] = Key(local[f]) => archive[f] = local[f].data

RecordsTrue == MirrorTypeOK /\ SkippedIsArchived

\* Whatever is left in the tree gets to the archive in the end, through kills,
\* refused writes, a loop that died of a removed file, and lost pods.
AllMirrored == <>[](\A f \in Present(local) : archive[f] = local[f].data)
=============================================================================
