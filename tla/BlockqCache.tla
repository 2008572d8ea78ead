---------------------------- MODULE BlockqCache ----------------------------
(***************************************************************************)
(* The on-disk cache of embeddings encoded during load (blockq_cache.py),   *)
(* shared by every process on the host that serves such a model.            *)
(*                                                                          *)
(* There is no lock: processes meet in the directory only.  A step below is *)
(* one call to the file system, so any two processes interleave between     *)
(* any two calls.  A process that crashes leaves what it had written.       *)
(*                                                                          *)
(* A file is an inode: a path names one at a time, an open descriptor keeps *)
(* one that no path names any more, and a rename moves one.                 *)
(***************************************************************************)
EXTENDS Integers, Sequences, FiniteSets, FiniteSetsExt, SequencesExt

CONSTANTS
    Proc,        \* processes that load models: ranks and engines
    PidOf,       \* the process id each sees itself under
    Model,       \* checkpoints
    Local,       \* those that are local directories, which can be rewritten
    Tensor,      \* embedding tensors of a checkpoint
    Size,        \* the size of each tensor's encoding
    Limit,       \* EXL3_BLOCKQ_CACHE_MAX_GB; 0 for no ceiling
    Overlap,     \* may a rewrite happen while a load has the old file mapped?
    MaxLoads, MaxRewrites, MaxMishaps,   \* bounds: loads in all, rewrites, faults and crashes
    Nothing

ASSUME ProcessesAssumption ==
    /\ IsFiniteSet(Proc) /\ DOMAIN PidOf = Proc
    /\ \A p \in Proc : PidOf[p] # "entry"    \* which stands for no suffix
    /\ Local \subseteq Model
    /\ \A t \in Tensor : Size[t] \in Nat \ {0}
    /\ Overlap \in BOOLEAN
    /\ {Limit, MaxLoads, MaxRewrites, MaxMishaps} \subseteq Nat
    /\ Nothing \notin Proc \X Nat

VARIABLES
    disk,        \* the version of each checkpoint's files
    dir,         \* the cache directory: which inode each path names
    inode,       \* what each inode holds, and whether all of it
    recent,      \* the named inodes, by modification time
    pc, loads,   \* each process: where it is, and loads begun
    job,         \* the tensor being loaded, of the checkpoint version mapped
    key,         \* the entry it identified, or None if not cacheable
    fd,          \* the inode it has open
    names, found, total,    \* evict's locals
    served,      \* the matrix the model was given
    failures, crashes,
    dirty        \* a crash cut a pass of evict short, and none ran since

dirVars == <<dir, inode, recent>>
loadVars == <<loads, job, key, fd, served>>
evictVars == <<names, found, total>>
faultVars == <<failures, crashes, dirty>>
cacheVars == <<disk, dirVars, pc, loadVars, evictVars, faultVars>>

Goto(p, label) == pc' = [pc EXCEPT ![p] = label]

\* The sum of a function's values, counted.
Total(f) == Cardinality(UNION {{x} \X (1 .. f[x]) : x \in DOMAIN f})

(***************************************************************************)
(* What is encoded: a tensor of a checkpoint, as of one version of it.      *)
(***************************************************************************)
Matrix(m, t, v) == [model |-> m, tensor |-> t, ver |-> v]
Matrices == [model : Model, tensor : Tensor, ver : 0 .. MaxRewrites]

EntryKey_NoTensor(m, t) == Matrix(m, CHOOSE u \in Tensor : TRUE, disk[m])
EntryKey_NoVersion(m, t) == Matrix(m, t, 0)

\* checkpoint_identity and entry: the files as they are now name the entry.
EntryKey(m, t) == Matrix(m, t, disk[m])

(***************************************************************************)
(* Paths.  A temporary is an entry's path with the writer's pid after it.   *)
(***************************************************************************)
EntryPath(k) == <<k, "entry">>
IsEntry(path) == path[2] = "entry"

TmpPath_NoPid(p) == <<key[p], "tmp">>
TmpPath(p) == <<key[p], PidOf[p]>>

Pile == {path \in DOMAIN dir : IsEntry(path)}
Bytes(paths) == Total([path \in paths |-> Size[path[1].tensor]])

Bind(f, x, v) == [y \in DOMAIN f \cup {x} |-> IF y = x THEN v ELSE f[y]]
Unbind(f, x) == [y \in DOMAIN f \ {x} |-> f[y]]

Place(i) == CHOOSE n \in DOMAIN recent : recent[n] = i
Unnamed(i) == IF Contains(recent, i) THEN RemoveAt(recent, Place(i)) ELSE recent

Unlink(path) ==
    /\ dir' = Unbind(dir, path)
    /\ recent' = IF path \in DOMAIN dir THEN Unnamed(dir[path]) ELSE recent

\* Written or touched now: newer than every other file.
Newest(i) == Append(Unnamed(i), i)

CacheInit ==
    /\ disk = [m \in Model |-> 0]
    /\ dir = <<>> /\ inode = <<>> /\ recent = <<>>
    /\ pc = [p \in Proc |-> "idle"]
    /\ loads = [p \in Proc |-> 0]
    /\ job = [p \in Proc |-> Nothing]
    /\ key = [p \in Proc |-> Nothing]
    /\ fd = [p \in Proc |-> Nothing]
    /\ names = [p \in Proc |-> {}]
    /\ found = [p \in Proc |-> <<>>]
    /\ total = [p \in Proc |-> 0]
    /\ served = [p \in Proc |-> Nothing]
    /\ failures = 0 /\ crashes = 0 /\ dirty = FALSE

(***************************************************************************)
(* The load callback of an embedding (_make_on_load_loader).                *)
(***************************************************************************)
\* vLLM has mapped the checkpoint's tensor and calls the loader with it.
Start(p, m, t) ==
    /\ pc[p] = "idle"
    /\ Total(loads) < MaxLoads
    /\ loads' = [loads EXCEPT ![p] = @ + 1]
    /\ job' = [job EXCEPT ![p] = Matrix(m, t, disk[m])]
    /\ served' = [served EXCEPT ![p] = Nothing]
    /\ Goto(p, "identify")
    /\ UNCHANGED <<disk, dirVars, key, fd, evictVars, faultVars>>

Identify(p) ==
    /\ pc[p] = "identify"
    /\ key' = [key EXCEPT ![p] = EntryKey(job[p].model, job[p].tensor)]
    /\ Goto(p, "exists")
    /\ UNCHANGED <<disk, dirVars, loads, job, fd, served, evictVars, faultVars>>

\* A local directory that cannot be listed has no identity: do not cache.
Unidentified(p) ==
    /\ pc[p] = "identify"
    /\ job[p].model \in Local
    /\ failures + crashes < MaxMishaps
    /\ failures' = failures + 1
    /\ key' = [key EXCEPT ![p] = Nothing]
    /\ Goto(p, "serve")
    /\ UNCHANGED <<disk, dirVars, loads, job, fd, served, evictVars, crashes, dirty>>

(***************************************************************************)
(* read: whatever goes wrong is a miss.                                     *)
(***************************************************************************)
Exists(p) ==
    /\ pc[p] = "exists"
    /\ Goto(p, IF EntryPath(key[p]) \in DOMAIN dir THEN "open" ELSE "encode")
    /\ UNCHANGED <<disk, dirVars, loadVars, evictVars, faultVars>>

AfterBadOpen_Raises == "raised"
AfterBadOpen == "encode"

\* Gone since, or truncated, which safetensors' header check refuses.
Open(p) ==
    /\ pc[p] = "open"
    /\ LET path == EntryPath(key[p])
       IN  IF path \in DOMAIN dir /\ inode[dir[path]].whole
           THEN fd' = [fd EXCEPT ![p] = dir[path]] /\ Goto(p, "slice")
           ELSE UNCHANGED fd /\ Goto(p, AfterBadOpen)
    /\ UNCHANGED <<disk, dirVars, loads, job, key, served, evictVars, faultVars>>

\* The rows come out of the open descriptor, whatever its path names by now.
Slice(p) ==
    /\ pc[p] = "slice"
    /\ served' = [served EXCEPT ![p] = inode[fd[p]].holds]
    /\ fd' = [fd EXCEPT ![p] = Nothing]
    /\ Goto(p, "touch")
    /\ UNCHANGED <<disk, dirVars, loads, job, key, evictVars, faultVars>>

\* A hit refreshes whatever the path names; an entry gone since is no error.
Touch(p) ==
    /\ pc[p] = "touch"
    /\ LET path == EntryPath(key[p])
       IN  recent' = IF path \in DOMAIN dir THEN Newest(dir[path]) ELSE recent
    /\ Goto(p, "idle")
    /\ UNCHANGED <<disk, dir, inode, loadVars, evictVars, faultVars>>

(***************************************************************************)
(* A miss: encode the mapped matrix, then write.                            *)
(***************************************************************************)
\* save_file opens the temporary: a new inode, or an old one truncated.
SaveOpen(p) ==
    /\ pc[p] = "encode"
    /\ LET path == TmpPath(p)
           i == IF path \in DOMAIN dir THEN dir[path] ELSE <<p, loads[p]>>
       IN  /\ dir' = Bind(dir, path, i)
           /\ inode' = Bind(inode, i, [holds |-> Nothing, whole |-> FALSE])
           /\ recent' = Newest(i)
           /\ fd' = [fd EXCEPT ![p] = i]
    /\ Goto(p, "saving")
    /\ UNCHANGED <<disk, loads, job, key, served, evictVars, faultVars>>

SaveClose(p) ==
    /\ pc[p] = "saving"
    /\ inode' = [inode EXCEPT ![fd[p]] = [holds |-> job[p], whole |-> TRUE]]
    /\ recent' = IF Contains(recent, fd[p]) THEN Newest(fd[p]) ELSE recent
    /\ fd' = [fd EXCEPT ![p] = Nothing]
    /\ Goto(p, "replace")
    /\ UNCHANGED <<disk, dir, loads, job, key, served, evictVars, faultVars>>

\* makedirs or save_file raises: a full or read-only disk.
SaveFails(p) ==
    /\ pc[p] \in {"encode", "saving"}
    /\ failures + crashes < MaxMishaps
    /\ failures' = failures + 1
    /\ fd' = [fd EXCEPT ![p] = Nothing]
    /\ Goto(p, "failed")
    /\ UNCHANGED <<disk, dirVars, loads, job, key, served, evictVars, crashes, dirty>>

\* os.replace; the inode the path named before loses its name.
Replace(p) ==
    /\ pc[p] = "replace"
    /\ TmpPath(p) \in DOMAIN dir
    /\ LET path == EntryPath(key[p])
       IN  /\ dir' = Bind(Unbind(dir, TmpPath(p)), path, dir[TmpPath(p)])
           /\ recent' = IF path \in DOMAIN dir THEN Unnamed(dir[path]) ELSE recent
    /\ Goto(p, IF Limit = 0 THEN "serve" ELSE "list")
    /\ UNCHANGED <<disk, inode, loadVars, evictVars, faultVars>>

\* os.replace raises: the temporary is gone, or the disk fails it.
ReplaceFails(p) ==
    /\ pc[p] = "replace"
    /\ LET there == TmpPath(p) \in DOMAIN dir
       IN  /\ there => failures + crashes < MaxMishaps
           /\ failures' = IF there THEN failures + 1 ELSE failures
    /\ Goto(p, "failed")
    /\ UNCHANGED <<disk, dirVars, loadVars, evictVars, crashes, dirty>>

CleanUp_Forgotten(p) == UNCHANGED <<dir, recent>>
CleanUp(p) == Unlink(TmpPath(p))

\* write's handler: log, remove the temporary if it is there, carry on.
WriteFailed(p) ==
    /\ pc[p] = "failed"
    /\ CleanUp(p)
    /\ Goto(p, "serve")
    /\ UNCHANGED <<disk, inode, loadVars, evictVars, faultVars>>

(***************************************************************************)
(* evict, after every write that landed.                                    *)
(***************************************************************************)
ListedFiles_Temporaries == DOMAIN dir
ListedFiles == Pile

Weighed_WithoutKept(p, paths) == Bytes(paths \ {EntryPath(key[p])})
Weighed(p, paths) == Bytes(paths)

ListDir(p) ==
    /\ pc[p] = "list"
    /\ names' = [names EXCEPT ![p] = ListedFiles]
    /\ dirty' = FALSE
    /\ Goto(p, "stat")
    /\ UNCHANGED <<disk, dirVars, loadVars, found, total, failures, crashes>>

\* sorted(found), by modification time.
OldestFirst(paths) ==
    {s \in SetToSeqs(paths) :
        \A i, j \in DOMAIN s : i < j => Place(dir[s[i]]) < Place(dir[s[j]])}

\* Size and age of each listed file that is still there, oldest first.
Stat(p) ==
    /\ pc[p] = "stat"
    /\ LET there == names[p] \cap DOMAIN dir
       IN  /\ \E s \in OldestFirst(there) : found' = [found EXCEPT ![p] = s]
           /\ total' = [total EXCEPT ![p] = Weighed(p, there)]
    /\ names' = [names EXCEPT ![p] = {}]
    /\ Goto(p, "evict")
    /\ UNCHANGED <<disk, dirVars, loadVars, faultVars>>

Kept_None(p, path) == FALSE
Kept(p, path) == path = EntryPath(key[p])

Fits(p) == total[p] <= Limit

\* One file of the list: the entry just written is passed over, any other is
\* unlinked, and counts as gone though another process may have unlinked it.
EvictNext(p) ==
    /\ pc[p] = "evict"
    /\ found[p] # <<>> /\ ~Fits(p)
    /\ LET path == Head(found[p])
       IN  IF Kept(p, path)
           THEN UNCHANGED <<dir, recent, total>>
           ELSE /\ Unlink(path)
                /\ total' = [total EXCEPT ![p] = @ - Bytes({path})]
    /\ found' = [found EXCEPT ![p] = Tail(@)]
    /\ UNCHANGED <<disk, inode, pc, loadVars, names, faultVars>>

EvictDone(p) ==
    /\ pc[p] = "evict"
    /\ found[p] = <<>> \/ Fits(p)
    /\ found' = [found EXCEPT ![p] = <<>>]
    /\ total' = [total EXCEPT ![p] = 0]
    /\ Goto(p, "serve")
    /\ UNCHANGED <<disk, dirVars, loadVars, names, faultVars>>

\* The rank's rows of what it encoded itself.
HandOver(p) ==
    /\ pc[p] = "serve"
    /\ served' = [served EXCEPT ![p] = job[p]]
    /\ Goto(p, "idle")
    /\ UNCHANGED <<disk, dirVars, loads, job, key, fd, evictVars, faultVars>>

(***************************************************************************)
(* The environment.                                                         *)
(***************************************************************************)
\* A local checkpoint is written again: its files' mtimes change with them.
Rewrite(m) ==
    /\ m \in Local
    /\ disk[m] < MaxRewrites
    /\ Overlap \/ ~\E p \in Proc : pc[p] = "identify" /\ job[p].model = m
    /\ disk' = [disk EXCEPT ![m] = @ + 1]
    /\ UNCHANGED <<dirVars, pc, loadVars, evictVars, faultVars>>

\* A process dies, and is started again with the same pid (as in a container).
Crash(p) ==
    /\ pc[p] # "idle"
    /\ failures + crashes < MaxMishaps
    /\ crashes' = crashes + 1
    /\ dirty' = (dirty \/ pc[p] \in {"list", "stat", "evict"})
    /\ fd' = [fd EXCEPT ![p] = Nothing]
    /\ names' = [names EXCEPT ![p] = {}]
    /\ found' = [found EXCEPT ![p] = <<>>]
    /\ total' = [total EXCEPT ![p] = 0]
    /\ served' = [served EXCEPT ![p] = Nothing]
    /\ Goto(p, "idle")
    /\ UNCHANGED <<disk, dirVars, loads, job, key, failures>>

Load(p) ==
    \/ Identify(p) \/ Unidentified(p)
    \/ Exists(p) \/ Open(p) \/ Slice(p) \/ Touch(p)
    \/ SaveOpen(p) \/ SaveClose(p) \/ SaveFails(p)
    \/ Replace(p) \/ ReplaceFails(p) \/ WriteFailed(p)
    \/ ListDir(p) \/ Stat(p) \/ EvictNext(p) \/ EvictDone(p)
    \/ HandOver(p)

CacheNext ==
    \/ \E p \in Proc :
        \/ \E m \in Model, t \in Tensor : Start(p, m, t)
        \/ Load(p)
        \/ Crash(p)
    \/ \E m \in Model : Rewrite(m)

CacheSpec == CacheInit /\ [][CacheNext]_cacheVars

\* A process that is running goes on to its next call.
CacheFairSpec == CacheSpec /\ \A p \in Proc : WF_cacheVars(Load(p))

Label == {"idle", "identify", "exists", "open", "slice", "touch", "encode", "saving",
          "replace", "failed", "list", "stat", "evict", "serve"}
Inode == Proc \X (1 .. MaxLoads)

(***************************************************************************)
(* Properties.                                                              *)
(***************************************************************************)
\* Types; every entry and every temporary names a file that exists, once, and
\* the modification times order exactly the files that have a name.
CacheTypeOK ==
    /\ disk \in [Model -> 0 .. MaxRewrites]
    /\ \A path \in DOMAIN dir : path[1] \in Matrices /\ dir[path] \in DOMAIN inode
    /\ DOMAIN inode \subseteq Inode
    /\ \A i \in DOMAIN inode : /\ inode[i].holds \in Matrices \cup {Nothing}
                               /\ inode[i].whole \in BOOLEAN
    /\ IsInjective(dir)
    /\ IsInjective(recent)
    /\ ToSet(recent) = {dir[path] : path \in DOMAIN dir}
    /\ pc \in [Proc -> Label]
    /\ loads \in [Proc -> 0 .. MaxLoads]
    /\ job \in [Proc -> Matrices \cup {Nothing}]
    /\ key \in [Proc -> Matrices \cup {Nothing}]
    /\ \A p \in Proc : (fd[p] # Nothing) <=> (pc[p] \in {"slice", "saving"})
    /\ fd \in [Proc -> Inode \cup {Nothing}]
    /\ total \in [Proc -> Int]
    /\ served \in [Proc -> Matrices \cup {Nothing}]

\* Every load gives the model the encoding of the tensor vLLM handed to it:
\* never another tensor's, nor the one an older version of the same local
\* checkpoint had, however hits, evictions, rewrites and crashes interleave.
\* (The cases checkpoint_identity and entry put the key together for.)
ServesOwn == \A p \in Proc : pc[p] = "idle" /\ served[p] # Nothing => served[p] = job[p]

\* No entry ever names a file that is only partly written: write fills a
\* temporary no other process writes, and renames it when it is closed.
EntriesWhole == \A path \in Pile : inode[dir[path]].whole

\* Once no load is under way the pile fits the ceiling, or is one entry that
\* alone exceeds it, whichever processes wrote and evicted at once: the totals
\* evict works from are stale by then.  (A crash that cuts evict short may
\* leave it over, until the next pass.)
PileFits ==
    (\A p \in Proc : pc[p] = "idle") /\ ~dirty /\ Limit > 0
        => Bytes(Pile) <= Limit \/ Cardinality(Pile) = 1

\* A write that fails or loses its temporary leaves none behind: with no load
\* under way and no crash so far, the directory holds entries only.
NoLitter ==
    (\A p \in Proc : pc[p] = "idle") /\ crashes = 0 => DOMAIN dir = Pile

\* With a disk that never fails, every write lands: nobody deletes or renames
\* a temporary under the process that is writing it.
WriteLands == failures = 0 => \A p \in Proc : pc[p] # "failed"

\* What loads leave of the directory: whole entries only, no more than fit, and
\* none lost on its way there.
DirectoryKept == CacheTypeOK /\ EntriesWhole /\ PileFits /\ NoLitter /\ WriteLands

\* While a writer's own pass of evict is under way, its entry can be lost only
\* to the pass of a process that keeps another one.
OnlyRivalsTakeIt ==
    [][\A p \in Proc :
          LET path == EntryPath(key[p])
          IN  /\ pc[p] \in {"list", "stat", "evict"}
              /\ path \in DOMAIN dir /\ path \notin DOMAIN dir'
              => \E q \in Proc : pc[q] = "evict" /\ key[q] # key[p]]_cacheVars

\* "Nothing here is allowed to be fatal": each load in time serves its own
\* matrix, whatever other processes do to the directory meanwhile, unless it
\* is killed.
EveryLoadServed ==
    \A p \in Proc :
        pc[p] = "identify" ~>
            pc[p] = "idle" /\ (served[p] = job[p] \/ (crashes > 0 /\ served[p] = Nothing))

=============================================================================
