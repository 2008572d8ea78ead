# Verification of vllm-exl3-plugin

This directory holds TLA+ models of this repository, the TLC configurations that
check them on small instances, and TLAPS proofs about eleven of them for instances
of any size. It covers the plugin itself (`vllm_exl3_plugin/`), the pipeline that makes
and publishes checkpoints (`quantization/quant.py`), the tools that rewrite and mirror
them (`tools/`), and the gate that guards a build (`bench/`). Paths below are relative
to the repository.

## The system

**Serving.** Inside a vLLM worker the plugin registers a quantization config, loads
weights and runs kernels. When a model is larger than VRAM it decides, per tensor, what
lives in host memory, and moves routed experts between host and VRAM while it serves.

| part | state it keeps | operations | what is hard | module |
|---|---|---|---|---|
| expert cache controller (`expert_cache.py`) | `slot_of`, `owner`, `live`, `last_use`, `pending`, `steps`, `clock` on the host; the pointer table, slots, routing buffer and pinned ring on the device | `step_begin`, `_plan`, `_victim`, `_promote`, `step_end` around each forward | two CUDA streams execute later what the CPU enqueues now; the host's view runs ahead of the device's; nothing blocks | `ExpertCache`, `SlotMemory` |
| expert cache sizing (`expert_cache.py`) | `_PENDING`, `CACHE`, `_STATIC` | `prepare`, `build`, `size_slots`, the wrapper of `determine_available_memory` | several limits at once; memory given back and taken; once per process | `ExpertPlacement` |
| CPU offload (`cpu_offload.py`) | `_STATS`, vLLM's budget counters, host blocks, the staging window | `place`, `place_expert`, `_plan_block`, `_host_quota`, `register_experts`, `build_staging` | decisions one tensor at a time, in checkpoint order, from counters that others change too | `ExpertPlacement` |
| embedding cache (`blockq_cache.py`, its caller in `quantization/embedding.py`) | a directory of entries and temporaries | `checkpoint_identity`, `entry`, `read`, `write`, `evict` | several processes and no lock; crashes, full disks | `BlockqCache` |
| config (`quantization/config.py`), embedding and head methods | what the checkpoint stores, the parameters per module | `maybe_update_config`, `get_cache_scale_mapper`, `get_quant_method`, `create_weights`, loaders | the mapper and the method decide separately, at different times, about one tensor | `EmbedPlan` |
| linear, head and expert weights (`linear.py`, `lm_head.py`, `fused_moe.py`, `tp.py`, `format.py`) | collectors of sub-tensors | loaders, `store`, `shard_bounds`, `fused_shard_bounds`, `process_weights_after_loading` | block boundaries, fused tensors, replicated KV heads, padded vocabularies | `ShardLoad` |
| kernels' Python side (`ops.py`), registration (`plugin.py`, `env.py`, `log.py`) | scratch per stream; patch flags | `_scratch`, GEMM dispatch; three patches | pooling against capture | not modelled |

**Making checkpoints.** `quant.py` is one program with stages that a person runs one
after another in a job directory, stops, and runs again; everything it knows is in files.

| part | state it keeps | operations | what is hard | module |
|---|---|---|---|---|
| conversions | directories of rungs and revisions, their `converter.json` and calibration records | `baseline`, `quantize`, `run_jobs` on the lanes of several GPUs, `fetch` and `upload` as far as records travel | what a record claims after kills, failures and a changed converter | `QuantLadder` |
| inputs | evaluation and calibration traces, recall slice, measured row ranges, output factors and their marks | `trace`, `recall`, `measure`, `yaqa` | every step is skipped when its output is there | `QuantInputs` |
| scores and publication | `qb_<slice>.json`, `reference.json`, thresholds, cached logits, the card, the published repository | `qbench`, `card`, `upload`, `fetch` | subset series merged into whole ones; a fetched directory holds stand-ins | `QuantScore` |
| `tools/compose_checkpoint.py` | an output directory written file by file, hardlinks to its base | `--from`, `--keep`, `--take`, `--restore`, `--map`, writing | rules that override one another; a run abandoned at any file | `CheckpointCompose` |
| `tools/sync_outputs.py` | the archive, `.sync_state.json` | passes, `restore` | the tree changes while it is copied; a pod is lost | `MirrorSync` |
| `tools/quantize_embedding.py` | a rewritten checkpoint | one rewrite | | what it writes: `EmbedPlan!Legal` |
| research tools | none of their own | | | not modelled |

**Guarding a build.** `bench/` captures what each entry of a suite serves and compares it
with committed baselines.

| part | state it keeps | operations | what is hard | module |
|---|---|---|---|---|
| gate (`run.py`, `suite.py`, `core.py`, `fixtures.py`, `capture.py`) | `expected/*.json`, the environment manifest, frozen and cached tunings, derived fixtures | `check`, `bless`, `freeze-tune` | commands that stop half way, trees that change under them, captures that depend on what an earlier one left | `BenchGate` |
| performance baselines (`perf.py`) | a second set of files | | wall-clock timings | not modelled |

How they interact. While weights load, vLLM calls the parameters' loaders, which cut
tensors for the rank and call `place` and `place_expert`; the embedding's loader calls
the embedding cache. At the end of load the patched `process_weights_after_loading` calls
`build_staging`, which hands the layers that have host blocks to `expert_cache.prepare`.
When vLLM has profiled its memory, the patched `determine_available_memory` calls
`build`, which sizes and fills the slots and either keeps them for good (`_STATIC`) or
patches the model runner so that the controller runs around each forward. The stages of
`quant.py` meet in the job directory (factors, measurements and traces go into
conversions, conversions and traces into scores, scores and conversions into what is
published) and in the Hub repository, which `fetch` turns back into a job directory.
`sync_outputs` copies that directory away while they run; `compose_checkpoint` takes
finished revisions apart.

What makes each correct: the kernel never reads an expert's bytes at an address that
holds something else; slots are neither lost nor shared; placement and slots keep the
budget, the RAM and the KV reserve; the embedding cache gives a model its own matrix,
whole, and keeps its pile bounded; the mapper and the methods agree; the ranks cut each
tensor exactly once. A record says what really made a directory; a command that succeeds
has made everything it was asked for; a number stands beside the trace it was measured
on; nothing published loses its weights; a composed checkpoint is whole or does not load;
what the mirror skips is in the archive; the gate passes only what agrees with what
someone blessed.

## Modules

**`SlotMemory`** is what the expert cache promises the kernel: a map from experts to
slots (or to the host) and the slots' contents. A slot is loaded only while nothing
points at it, and pointed at only once it holds the expert.

**`ExpertCache`** is `expert_cache.ExpertCache`. One action per statement of the
controller that another party could observe between: `Flip`/`FlipDone` are
`step_begin`'s first loop and its `_write`; `ReadRouting`, `ReadNothing`, `PlanBegin`
the second loop and the first half of `_plan`; `Take`, `Skip` one iteration of the plan's
loop with `_victim`; `Promote` is `_promote`; `StepEndDecodes`, `StepEndPrefill` are
`step_end`. The controller enqueues operations on `mainq` (table writes, `ready`
events, forwards, routing copies) and batches on `sideq`; the streams execute them in
order, at their own pace. A copy makes the slot `Torn` from its beginning to its end.
`query()` is membership in `fired`. The host variables keep the source's names. An
expert's three projections move together, so one table entry stands for three.

**`BlockqCache`** is `blockq_cache.py` and the load callback that uses it. Each step is one
call to the file system by one process, in the order of the code: `Exists`, `Open`,
`Slice`, `Touch` are `read`; `SaveOpen`, `SaveClose`, `Replace` and the failures are
`write`; `ListDir`, `Stat`, `EvictNext`, `EvictDone` are `evict`. Paths name inodes, open
descriptors keep them. `evict`'s `stat` loop is one step. A rewrite of a local checkpoint
makes new files (the mapping keeps the old ones). Entries have a size, so that one can
alone exceed the ceiling.

**`ExpertPlacement`** goes from the first tensor to KV's memory: `StoreDense` is `place`,
`StoreExpert` is `place_expert` with the plan its first arrival in a block triggers,
`FinishLoad` is `build_staging` and `prepare`, `Measure` is the wrapper of
`determine_available_memory` with `build` and `size_slots` inside. Tensors arrive in any
order. Sizes, budget, host RAM, measured memory and KV reserve are small numbers chosen
per behaviour. Rows have one size, as `_host_quota` assumes.

**`EmbedPlan`** is how `quantization/config.py` decides what serves the embedding, the
head and the linears, with what `embedding.py` and `lm_head.py` register for each choice.
A behaviour is a few starts of the engine on one checkpoint: `ReadIndex`, `ReadStorage`
and their failing forms are `maybe_update_config`; `Translate` is `apply_vllm_mapper`;
`BuildEmbedding`, `BuildLinears`, `BuildHead`, `TieHead`, `ShareModule` are
`get_quant_method` and `create_weights` as vLLM builds the modules; `Mapped` is
`get_cache_scale_mapper`, applied to every tensor in `LoadWeights`. The phases
`unclaimed` (a tensor no parameter takes), `unfilled` (a parameter without a tensor) and
`untied` are where vLLM's loader raises. `Legal` says which checkpoints the converter and
`tools/quantize_embedding.py` write. `graphs` is vLLM's compile cache: what a start
traced, under the part of the key the plugin supplies.

**`ShardLoad`** is how one layer's stored tensors are collected, cut for tensor
parallelism and checked. A tensor is the range of input and output channels it spans; a
slice is the part a rank keeps. `CreateWeights` is the method's checks, `Load` hands a
tensor of a module to every rank (`TakeColumn`, `TakeRow`, `LoadMerged`, `LoadQkv`,
`LoadExpert` are the loaders), `Process` is `process_weights_after_loading` with its
shape checks and, for experts, the measurement of the divisor folded into `up`. All ranks
read one stream of tensors; the tensors of all modules come in any order.

**`QuantLadder`** is the conversions of `quant.py`. `Baseline`, `Quantize`, `Compare` (the
part of `qbench` that refuses a ladder of several converters), `UploadUncalibrated` and
`FetchUncalibrated` are commands; `TakeTask` to `NoMoreTasks` and `BatchEnds` are
`run_jobs`, which deals the tasks to the GPUs before any starts (`Dealt`, `share`); `UncalConvert`, `UncalRecord`, `Solve`, `Convert`, `Publish` are what a task
does. What made a directory (`made`, `out`) is kept beside what its record claims
(`stamp`, `json`): no file has it, and the properties compare the two. `Kill` stops a
command anywhere. `EditConverter` changes the checkout at any moment, during a conversion
too: `record_converter` reads it when the conversion is over, and `shifted` remembers which
directories that made doubtful. `asked` is the calibrations that `quantize` commands have
asked of a revision since its directory was empty.

**`QuantInputs`** is the stages that make what `quantize` converts with. A command is a
row of steps (`todo`); a step looks at what is there and skips, makes or refuses. A category
is measured one chunk of rows at a time (`MeasureRange`) and factors are collected one
range of layers at a time (`CollectRange`): the step stays at the head of `todo` until its
last range is there. `Stop` leaves what the tool had written so far.

**`QuantScore`** is `qbench` (one action per slice, with its merge), pruning of logits,
`card`, `upload` revision by revision and `fetch` with its stand-ins. A command leaves the
steps it has to do in `todo`, and `Due` is the one whose turn it is: stages in the order of
`Stages`, slices in theirs. A row of results is the version of the trace it was scored on;
a directory is `none`, `stand-in` or `weights`. The cache of reference logits has room for
`Room` entries (`max_size_gb`); which ones go when one does not fit is for the scorer
(`eval/qbench.py`, outside this repository) to say, and `Cached` allows any.

**`CheckpointCompose`** is `compose_checkpoint.py`: the command line's rules one after
another (`From`, `Keep`, `Take`, `Restore`, `MapRule`), every refusal (`PlanErrors`,
`Problems`), then `WriteShard`, `CopyFiles`, `WriteIndex`, `WriteConfig`, abandoned
anywhere by `Stop`. A stored tensor is known by the directory it was read from.

**`BenchGate`** is the three commands of `bench/run.py`. A capture is a process: `Launch`
seeds its kernel cache and loads the trees as they are (`run`), `Build` is
`fixtures.ensure`, whose tool loads them for itself, and it ends in one action per outcome
(`BlessEntry`, `CheckEntry`, `FreezeEntry` and the ways they fail). `Unstamped` is what
`capture.py` writes: the state of trees and packages as they are at its end. `Stamp` is what
`run_entry` adds: the drift, and the weight and backend it finds in the log, or none.
`Tuned` is what the run does to the kernel cache. `Edit`, `Commit` and `Install` happen at
any moment, during a command and during a capture. What no file has (which source was
loaded, which command captured, which encoder wrote a checkpoint, whether a kernel was
chosen by timing) is kept beside the capture, and `disturbed` and `torn` remember whether
something changed during a command, or during the build of a derived checkpoint.

**`MirrorSync`** is `sync_outputs.py`. One action per call to the file system that a
writer can come between: the listing, the first `stat`, the copy, its rename, the second
`stat` with the record. `now` counts granules of the file system's clock.

The `MC...` modules hold the constants TLC needs; `..._proofs` modules hold proofs.
Operators named `X_Something` beside an `X` are changed forms of it, used to see that a
property notices the change; no action uses them.

## Runs

| run | bounds | what it shows |
|---|---|---|
| `ExpertCache_rounds.cfg` | 1 layer, 3 experts, 2 slots, ring of 3, 2 forwards ahead, 4 steps | `TableSound`, `NoSlotLost`, `VictimCold`, `RingSafe`; under fairness `PromotionLands`; the cache implements `SlotMemory` (`MemorySpec`) |
| `BlockqCache_loads.cfg` | 2 processes, 3 loads in all, 2 tensors, a ceiling below the larger, 1 rewrite, 1 fault or crash | `ServesOwn`; `DirectoryKept` (entries whole, pile fits, no litter); only a rival's eviction takes a new entry (`OnlyRivalsTakeIt`); `EveryLoadServed` |
| `ExpertPlacement_load.cfg` | 2 layers x 2 projections x 2 experts and a dense tensor in any order; 3 modes, 3 budgets, 2 selections, 4 amounts of RAM, 4 of VRAM, 3 reserves | `PlacementKept` and `MemoryKept` (budget, RAM, even shares, staging layout, accounting, reserve), `StaticHoldsAll`, `BuiltOnce` |
| `EmbedPlan_load.cfg` | every legal checkpoint, 8 settings, 2 starts, 2 failed lookups | mapper and methods `Agree`; `EmbeddingServed`: both roles, from the encoding meant, `EXL3_DENSE_EMBED` honoured; `GraphFitsKey` |
| `EmbedPlan_sidecar.cfg` | sidecar checkpoints, 1 start, 1 failed lookup | *violated*: `SidecarHonoured` |
| `ShardLoad_load.cfg` | six kinds of layer at 1, 2 and 4 ranks; widths from below one block to several, whole and narrower checkpoints, a missing tensor, experts of even and mixed bit widths; tensors in any order | `RanksPartition`: every served rank holds exactly its own channels and vocabulary rows; `SlicesSound`: no block is cut; `ExpertsMeet`: down reads what gate and up write; `ExactServed`: a layer that cuts exactly is not refused |
| `QuantLadder_batches.cfg` | 2 rungs and the generator, 1 or 2 GPUs, 2 converters and a modified checkout, 3 commands, 2 events (a kill, a failure, an edit of the checkout, a deletion, a stage done), 1 retry | `RecordsKept`: records are true of what made a directory, but for a checkout that changed under it and a revision asked for with several calibrations; `ComparesOwn`: a comparison is of one converter; `ExitHonest` |
| `QuantInputs_stages.cfg` | 2 scored and 2 diagnostic slices, 2 categories, chunks of 2 rows, 3 layers in ranges of 2, 2 seeds, 3 commands, 2 stops or deletions | `MeasurementWhole`: ranges meet without gap or overlap, finished factors are whole; `SelfHeldOut`: own voice is held out when calibration traces were made, and only evaluation made anew can undo it; `MadeAll` |
| `QuantScore_series.cfg` | 2 revisions and rungs, 1 other set, 1 threshold, 2 slices, 3 commands, 2 events, 2 versions of a trace, room for the logits of 3 slices | `PublishedSound`: the Hub holds weights, and results the card speaks of; `ResultsKept`: a series leaves alone what it does not score; `SeriesScored`, `LogitsKept` |
| `CheckpointCompose_write.cfg` | 4 modules in 2 shards, 3 donors that differ in codebook, listing and completeness, 5 selectors, 4 recipes, up to 5 rules | `PlanKept`, `OutputSound` (a directory that loads holds whole modules and a true config), `SourcesKept` |
| `BenchGate_gate.cfg` | 3 entries in 2 tiers (one that serves a derived checkpoint, the sharded one that answers to it, one known to be broken), 3 sources, 2 environments (one whose log has no weight line), 3 commands, 2 changes at any moment | `PassHonest`: a pass means agreement; `BlessWhole`: a bless that nothing disturbed is one snapshot; `CapturesFresh` |
| `MirrorSync_passes.cfg` | 2 files of 2 sizes, 4 granules, 3 writes or deletions, 2 mishaps | `RecordsTrue`: what a pass would skip is archived as it is; under fairness `AllMirrored` |

Each module states its properties with a comment that says what they mean. Where a
property is a conjunction (`PlacementKept`, `DirectoryKept`, `PublishedSound` and others),
the conjuncts are named definitions beside it, one of them the module's type invariant.

Why the bounds suffice. In the expert cache a wrong address needs one victim, one new
owner and one stale entry: three experts and two slots with four steps give a slot two
changes of hands with both streams behind, and the ring is shorter than the steps. The
later steps (`MaxSteps` and on) drain, so that no run ends in the middle of the
interesting part. In the embedding cache every race is between two processes at two
calls; the third load reads what one of them left. In placement the decisions depend on
the tensors only through order and counters; two layers and two projections already give
a first block, a last block and a dense tensor between them. `EmbedPlan` is not sampled at
all: its checkpoints and settings are every combination its predicates can tell apart,
and a second start is what a stale graph needs. `ShardLoad` is a calculation: its layers
take the widths at and around each boundary (a block, a tile, the padding), each with each
number of ranks at which vLLM splits it evenly. In the stages of `quant.py` a defect needs
what one command left, one that misreads it, and one that relies on it: three commands,
with two interruptions or edits between them. In `CheckpointCompose` a rule overrides
another for one module; five rules give each of two modules a move, a change of mind and a
`--keep`. In `BenchGate` a check compares what at most one bless and one freeze left; the two
changes can both fall into one command, one of them a change back, and the third source
keeps the encoder of the second, so that a derived checkpoint stays in use across an edit. In
`MirrorSync` a wrong record needs a write beside a copy and a pass after both; two files
keep the pass going after one fails.

`SYMMETRY` is used in `QuantLadder_batches.cfg` alone, of the converter's hashes, which
are only compared for equality; its properties are invariants and action properties.
`CHECK_DEADLOCK FALSE` stands where a model really ends: all loads done, the memory
measured, the model serving, the commands spent. `ExpertCache`, `CheckpointCompose` and
`MirrorSync` check deadlock.

Fairness. `ExpertCache!Fairness` is weak fairness of the controller (the engine keeps
stepping while requests are there), of the main stream and of the side stream (a GPU
executes what is at the head of a stream when its events have fired).
`BlockqCache!CacheFairSpec` is weak fairness of each running process. `MirrorSync!MirrorFairSpec` is
weak fairness of the clock, of the mirror (its loop, and that someone starts it again when
it died) and of a restore that has begun. Nothing is assumed of crashes, faults, rewrites,
writes or new commands.

What is assumed of the surroundings:

* `BlockqCache_loads`: each process has its own pid, and the checkpoint is not replaced
  between the mapping and the identity (`Overlap = FALSE`). Both can fail; see below.
* `QuantLadder`: a person adopts unrecorded rungs only when they are the current
  converter's; small records are written at once.
* `QuantInputs`: one value of `--layers-per-run` throughout the run (see below).
* `QuantScore`: a fetch is not stopped half way, and samples are drawn in subset series
  only (see below); `qbench` and `upload` are stopped anywhere.
  In its run a series of all revisions and slices asks for the other sets, the thresholds and
  parity as well.
* `QuantLadder` asks for a blend without measured categories on one GPU only (see below). Its
  run asks for uniform bits on one GPU and for a given file of measurements on two.
* `BenchGate`: nothing of when trees and packages change. What an entry serves depends on
  the source alone, and of what a cache may carry over, compiled code is left out (below).
* `ShardLoad`: all ranks read the same tensors in the same order. `ExactServed` speaks of
  experts most of which measure near the folded power of two.
* `CheckpointCompose`: the modules of a base are each in one shard before the run.
* `MirrorSync`: a restore is finished before anything else works in the tree, and that
  work begins a clock granule later; the tree is quiet in the end.

## Where the code and its words differ

`embed_sidecar` shows one: the assignment of `_dense_embed_present` stands behind a
`return` (`quantization/config.py:421`). Whether a dense embedding survives is then known
from `quantization_config.json` alone, and a start that could read the tensor names and not
that file ignores `EXL3_DENSE_EMBED` (a tied model does not even load). The two starts
also trace different graphs under one key; `GraphFitsKey` speaks of starts that read both.

Others were met while modelling. The models keep them out by an assumption above, or
the properties are stated so as to hold with them; no run rests on them.

* `blockq_cache.py:44` says the entry just written is never evicted; `evict` (`:289`)
  spares only its own writer's, so of two first loads at once one may find its entry gone.
  It costs an encode, never a wrong matrix: hence `OnlyRivalsTakeIt`.
* `blockq_cache.py:302` says ranks cannot interleave; the temporary's name (`:308`) has the
  pid and nothing else, and engines in two containers on one cache volume can share it.
* The identity of a local checkpoint is a `stat` made after its tensors were mapped
  (`embedding.py:243`): replaced in between, a matrix is filed under its successor's.
* `expert_cache.py:321` says that keeping at most `_RING - 1` routings unread is why a ring
  slot is never overwritten while queued. That alone is not enough: routings that were read
  or dropped on the host, and prefill steps, leave forwards in the stream that still have
  their copies to do (with `Ring = 2`, `Ahead = 2` TLC finds `RingSafe` violated). It holds
  because `_RING = 4` exceeds the forwards that vLLM lets wait, one with async scheduling
  (`:23`); `RingAlwaysSafe` has that as its hypothesis.
* `expert_cache.py:74` says experts never give up more than the budget allows;
  `size_slots` (`:81`) rounds down to whole slots there too.
* `build` takes the size of a slot from the first hosted layer (`expert_cache.py:475`).
  Selectors that leave that layer fewer projections than another one let the slots use more
  than `size_slots` was allowed, even more than vLLM measured, though its docstring (`:75`)
  says "nothing beyond what is available": on such an instance TLC finds `ReserveKept`
  violated. `MemoryAlwaysKept` has the other case as its hypothesis, `FirstFullest`.
* `quant.py:1992` says every task runs, whatever fails. `SystemExit` (raised by
  `ownvoice_groups`, `:2775`, and `blend_measurement`, `:2745`) is not an `Exception` and
  passes the handler at `:2021`: a lane ends silently and its tasks are not reported.
* `fetch` writes `FETCHED.json` last (`quant.py:1506`). One stopped before leaves a
  directory of stand-ins that is not marked, and `upload` would publish it. Where no
  `reference.json` was published there is no original to go back to, and a fetched
  directory publishes its own; `ReferenceKept` speaks of a published one.
* `yaqa` given again with another `--layers-per-run` can mark a torn layer as done: a range
  of two layers is marked, a run over one layer each is killed inside the first of them,
  and the next run over two finds its marker and passes the torn layer by
  (`quant.py:2917`). With 1 and 2 layers per run TLC finds `MeasurementWhole` violated.
* `measure` given again rewrites its record of the calibration, a generator's
  `cal_generator.json` likewise, and ranges measured with different anchors are combined.
* `quantize` given again with other flags converts nothing of a finished revision and writes
  its `calibration.json` anew (`quant.py:3104`), with the flags of the later command, and
  `:3101` says that nothing else records the calibration. `CalibrationTrue` is of revisions
  that were asked for with one calibration. A killed conversion resumes with the arguments
  it was begun with, and its record says those of the command that finished it.
* `record_converter` (`quant.py:2339`) reads the checkout when the conversion is over, hours
  after the converter was loaded. A checkout that changed meanwhile is recorded as the one
  that was used, though `:2466` is there "never [to] stamp an older rung as current", and
  `ComparesOwn` would pass such a rung: both properties except directories that are
  `shifted`.
* `do_eval_traces` (`quant.py:2206`) does not look at the calibration trace; only
  `do_cal_traces` (`:2295`) takes from it the prompts that own voice is scored on. A
  calibration trace from before the held-out prompts, an own-voice evaluation deleted and
  `eval-traces` alone: own voice is scored on prompts calibration used until `cal-traces` is
  run again. `SelfHeldOut` says that this is the only way.
* `quant.py:1759` says a subset run keeps every other entry of `reference.json`, and
  `subset` (`:1661`) includes `--slices`. A run of some slices with all revisions starts
  `reference.json` (`:1757`) and the results of its slices (`:1776`) anew: rows and
  references that another series had added are gone. `NothingLost` says what such a run does
  keep: the other slices and the thresholds. A run of some revisions keeps all, the
  reference and noise-floor rows included (`:1622`), also when they are of an earlier trace
  than the rows it adds; `SeriesScored` speaks of the reference row of whole runs only.
* `quant.py:1795` says pruning after a subset series would evict the others' logits; a
  series with `--sample` and neither `--revisions` nor `--slices` is no subset there
  (`:1661`), and evicts the logits of the full trace it drew its sample from.
* `compose_checkpoint.py:683` leaves a module alone when the *base* has the width a recipe
  asks for, also after an earlier rule has moved it, where `:263` says a later rule
  overrides an earlier one.
* A tensor-parallel rank accepts a checkpoint stored wider than the model, which one rank
  refuses; a fused QKV tensor with replicated KV heads is always refused.
* `bench/run.py:685` says that a set of baselines is meant to be one snapshot and that
  nothing enforces it. `verify` compares source fields only: packages upgraded between two
  captures of a bless pass it, and a change that is undone before the next capture, or that
  comes after a capture has loaded the tree and is there when it records it (`capture.py:104`),
  is not in the records at all. `BlessWhole` is of a bless during which nothing changed,
  `PassHonest` of any.
* The manifest, "one per bless, since a bless is one snapshot" (`run.py:950`), is written by
  a bless of one tier for all of them, and by one that refused every entry; what `env` then
  shows (`:666`) is not what moved since the other baselines were blessed.
* `check` looks at the environment once, "the same for every entry" (`run.py:974`), and a
  check during which the tree changes may pass with captures of several builds.
* `run.py:951`: a TP=1 capture that stops after `capture.py` has written leaves a baseline
  without its stamp: no drift, no weight, no backend, so that none of these is compared
  later, and the bless with it. `--timeout` is said to contain a hung engine (`:1038`), but
  `TimeoutExpired` is no `SystemExit`: the whole tier ends. Nothing reads the `tune_drift` of
  a baseline that has one.
* `check_entry` compares weights where both logs had the line (`run.py:384`), and
  `check_sibling` too (`:465`). When vLLM rewords the line, "weight gate inactive" is printed
  and the check passes.
* `fixtures.py:92` says a cached checkpoint was produced by exactly this code. The key is of
  three listed files (`:55`), read before the tool is started: a change in between files one
  encoder's checkpoint under another's key, and other files and packages have no part in it.
  `FixtureFresh` excepts the first and is about the listed files.
* `bench/README.md:130` and `:734` count the caches of compiled code among what can move a
  result. A capture lists them and nothing compares them; `CapturesFresh` is about the
  kernel choices and derived checkpoints, the two caches that are frozen or keyed.
* `sync_outputs.py:65`: the second `stat` is outside the `try`, so a file removed during its
  copy ends the loop. A file that changes during its copy replaces the archive's good copy
  with a torn one until the next pass. `.sync_state.json.tmp` is not excluded. A restore
  over a tree that already works keeps a different file of the same size and records it as
  archived.
* In `EmbedPlan`, `Agree` and `RolesServed` leave out one case by name, `NothingDense`:
  `EXL3_DENSE_EMBED` on a tied checkpoint with `bq_*` and no dense copy (or none the
  metadata tells of). `embedding_is_blockq` keeps the lookup quantized, as its warning
  says; `embedding_is_quantized` is false all the same, so the head's trellis is dropped,
  and the model either does not load (a head module of its own, which finds no `weight` to
  be tied to) or raises at the first token. Without that conjunct both are violated.
  `Described` says when the metadata suffices to decide at all; a text-only checkpoint
  whose lookups both fail is taken to be quantized throughout, as the code warns.

None of them is a claim about what is likely; each is a behaviour of the code that a
sentence beside it excludes, or that its author may not have meant.

## Proofs

Every theorem is for all values of the constants that the named assumptions of its module
allow (`SizesAssumption`, `ScoreAssumption`, ...): any number of layers, experts, slots,
processes, files, revisions, rules or commands. Each safety theorem comes from one
inductive invariant, a conjunction of named parts, shown to hold initially, to be kept by
every action (one step per action) and to imply the property; an action property is shown
of a step from a state in which the invariant holds. The hypotheses that a theorem states
beyond those assumptions are listed with it: each is about how the code is used, and can be
met and violated. Without `~Overlap`, `OneShardEach`, `OneHead`, `FetchEnds`,
`SamplesInSubsets`, `OneLaneBlends`, `OneStep`, `FirstFullest`, `MostMeasured`,
`DistinctPids` or `Ahead < Ring` TLC finds the property of the theorem violated.

**Expert cache** (`ExpertCache_proofs`).

* `TypeCorrect` and `SlotsKept` (`OneOwner /\ NoSlotLost`), by
  induction over the actions. `VictimAlwaysCold`, an action property: a victim's copy has
  landed, and the step that the plan was made from did not route to it; `Seen` carries
  from `PlanBegin` to `Take` that the counts are of that step. `RingAlwaysSafe` needs
  `Ahead < Ring`, which the code has (`_RING` is 4). `RingInv` says that the routings still
  to be copied or read are of the last `Ahead` steps, and steps that close have different
  ring slots.
* `TableAlwaysSound` and `ImplementsMemory`
  (`Spec => MemorySpec`), from `IInv`. `TableSound` alone is not inductive: it says nothing
  of what is queued. Say an expert *claims* a slot when the table, or a write still in the
  main stream, points it there. `IInv` says: a claimed slot holds its expert
  (`ClaimsHold`); a claim the host has given up is revoked by a later write, decided or
  queued (`StaleRevoked`); and a copy into a slot has its `ready` event behind the
  revocation of every claim on it (`CopiesWait`). So when the event has fired there is no
  claim left, and the copy may make the slot torn. The rest says that what is being copied
  is in flight, that promotions' numbers identify them, and that a write names an expert
  once. No run lists `IInv`, whose consequences are checked instead (it can be added to
  `ExpertCache_rounds.cfg`). Under it each device step is a step of `SlotMemory` or a
  stutter.

**Placement and sizing** (`ExpertPlacement_proofs`).

* `PlacementAlwaysKept`, with its parts `BudgetAlwaysKept`, `PlacementEven`,
  `HostAlwaysHolds`, from `LoadInv`. `HostHolds` is about a sum and not inductive. `LoadInv`
  adds that a quota is decided before any block is planned, that quota times blocks fits the
  RAM found but for the rounding (`QuotaFits`), and that the rows hosted so far are at most
  a quota per planned block (`RowsCounted`); a block is planned once, so the count of
  planned blocks bounds the sum. `RanksBelow` is the step between an expert's rank and the
  number of rows: the ranks below a quota number no more than the quota.
* `MemoryAlwaysKept` needs `FirstFullest`: no layer has more selected projections than the
  first that has any. Only `ReserveKept` does; the other parts of `MemoryKept` follow
  without it. `MemInv` says which layers still stage, into a window large enough for each
  (`Windowed`), that a served model has all rows (`Loaded`), what there is before the cache
  is built (`Unbuilt`), and that the slots are those the memory measured allows (`Sized`).
  Offsets, windows and used bytes are sums over a set, which `Total` counts; so places in
  the window are apart because the units below one projection are some of those below the
  next (`TotalWithin`), and no sum needs induction.
* `StaticAlwaysHoldsAll`, `CacheBuiltOnce`: what `build` leaves, from `BuildInv`: while
  tensors load there is neither cache nor measurement, and once memory is measured
  nothing is pending, so no second `build` follows.

**Embedding cache** (`Embedding_proofs`), for any number of processes, loads, faults and
crashes. Only the first needs `DistinctPids`: one pid namespace per cache directory.

* `DirectoryAlwaysKept`. `EntriesWhole`, `NoLitter` and `WriteLands` come from `DirInv`,
  which says who may have what open: a temporary path belongs to the process whose pid it
  has, its inode is nobody else's, and an inode that an entry's path leads to is whole and
  never written again. With a disk that never fails a process that is about to rename finds
  its temporary. `PileFits` comes from `PileInv` beside it. Entries are named for matrices
  (`NamedFor`), and their ages are in the order of the writes that made them (`Ages`).
  `Covered` is what makes it inductive: unless a crash cut a pass short or there is no
  ceiling, the pile fits, or is one entry, or some pass of `evict` under way has seen or is
  yet to see every entry, and its total is at least the bytes it may still find. Bytes are
  counted (`Total`), so that a pile's are those of its parts without induction over a sum.
* `AlwaysServesOwn` needs `~Overlap`, and no more: processes that share a pid may write one
  temporary at once, but only for one matrix. `OwnInv` says that the key of a load under way
  is that of the version its mapping has, and that whatever names, reads or writes a file
  stands for one matrix (`Stands`), the one it holds when it holds any. With shared pids a
  reader may find its file truncated, which `ServesOwn` allows; `DirInv` (`Reading`) excludes
  it where pids are distinct.
* `OnlyRivalsEvict`, without hypotheses: between its own rename and the end of its own
  `evict` a process loses its entry only to the pass of a process that keeps another one.

**Embedding plan** (`Embedding_proofs`), for any checkpoint and any number of starts,
without hypotheses: `AlwaysAgree`, `EmbeddingAlwaysServed` and `GraphsAlwaysFit`, from
`EmbedInv`. It says what each phase of a start knows of the ones before it: what was read of
the metadata is what the checkpoint has, or nothing (`Found`); each module that is built has
the method its storage calls for (`Built`); and a traced graph calls the parameters that the
key it is filed under stands for (`Traced`). From these the two decisions, of the mapper
and of the methods, are compared case by case (`DescribedAgrees`, `EncodingMatched`,
`DenseMatched`).

**Linear layers and sharding** (`ShardLoad_proofs`), for any layers, widths, ranks, experts
and orders of tensors.

* `SlicesAlwaysSound`, without hypotheses, from `SliceInv`: whatever a collector or a
  resident layer holds was cut by a layer whose split was checked, so its ends are multiples
  of the block; the shapes that `Process` compares make a served rank's `suh` and `svh` span
  what its trellis does.
* `RanksAlwaysPartition`, without hypotheses. `Fitted` says that what a served rank holds has
  the widths it asked for, so that no part was cut short at the end of a stored tensor; then
  the parts of one rank begin where those of the rank before end.
  Replicated KV heads are the case apart: `FusedNotShared` shows that a fused tensor never
  gets that far, and one stored apart gives neighbouring ranks the same heads.
* `ExpertsAlwaysMeet` needs `MostMeasured`: on more than half of the experts the noise is
  less than what makes the median look like the next power of two (`MedianWithin`), and the
  constant is not two, whose median may pass for none (`format.py:225`). The meeting of gate,
  up and down needs neither.
* `ExactAlwaysServed`, without hypotheses beyond what `Exact` says of the layer. `ServedInv`
  says that as long as a whole checkpoint of this model is being read no rank has failed, and
  that everything that came of the modules begun so far is in every rank's collectors
  (`ArrivedTo`), so that `Process` finds each part, in the width it compares.

**Composition** (`Tools_proofs`), for any checkpoints and any command line.

* `AlwaysPlanKept` and `SourcesAlwaysKept`, without hypotheses.
* `AlwaysOutputSound` needs `OneShardEach` and `OneHead`: a base stores each module in one
  shard and has at most one head. `Written` follows the output from shards through index to
  configuration: what is on disk at each phase is what the finished plan asks for, and
  nothing is left of an earlier output, because a directory is written only if it is new or
  empty.

**Gate** (`Tools_proofs`): `AlwaysPassHonest`, `AlwaysBlessWhole`, `AlwaysCapturesFresh`,
without hypotheses, from `BenchInv`: the entries that are done and those of `todo` make up
the tier; what a check has captured so far agrees, or its entry has failed; what a bless has
installed is its own, stamped, and of today's trees and packages unless something changed;
what a cache holds was put there by a run that is marked, and a derived checkpoint is filed
under the key of the encoder that wrote it unless a build was torn.

**Conversions** (`QuantLadder_proofs`), for any rungs, GPUs, lanes, tries and commands.

* `RecordsAlwaysKept` and `AlwaysComparesOwn`, without hypotheses, from `LadderInv`: which
  files there can be (`FileTypes`, `JobTypes`); a record is of a directory that is there and
  names the converter that made it, or the checkout changed in between (`Stamped`); a
  conversion done or begun with a recipe has the one that is solved (`Solved`); what a lane
  is at belongs to its command, and what was not there when its task began is the current
  converter's, or shifted (`Lanes`). `AskedInv` beside it says that what a revision, its
  work directory and its `calibration.json` hold was asked for.
* `AlwaysExitHonest` needs `OneLaneBlends`: a recipe that blends is solved on one GPU. With
  two, the `SystemExit` above ends a lane that nobody counts. `ExitInv` follows a task from
  the share it was dealt to, over its lane, to what it made or to `failed`: none is lost in
  between.

**Inputs** (`PipelineFiles_proofs`), for any slices, categories, chunk sizes, layers and
commands.

* `AlwaysSelfHeldOut`, `AlwaysMadeAll` and `RowsAlwaysMeasuredOnce` (`ChunksPartition`),
  without hypotheses, from `InputsInv`. A command's `todo` holds every step whose output is
  not there yet (`TracesDue`, `RowsDue`, `FactorsDue`), and the chunks of a category cut the
  rows below its last end, each row into one chunk (`Cut`).
  `SelfHeldOut` also says how an overlap does come about: by an evaluation made anew beside
  the calibration trace of before (`OverlapComes`), which `do_eval_traces` does not check.
* `MeasurementAlwaysWhole` needs `OneStep`: one value of `--layers-per-run`. Then a marked
  range is a whole one (`RangesKept`), the layers below the range under way are whole
  (`RangesUnderWay`), and a `DONE.json` or a blend still to come has before it the steps that
  make all layers whole (`DoneDue`, `BlendDue`).

**Mirror** (`PipelineFiles_proofs`): `RecordsAlwaysTrue`, without hypotheses. `MirrorInv` says
that no file is from the future, that a recorded key no later write can have is the key of
what is archived, and that what was read at the first `stat` is what the copy has, if the
second finds the same.

**Scores** (`QuantScore_proofs`), from `ScoreInv`: types; what each command under way still
has to do (`Work`); a job directory that is not marked fetched has no stand-ins
(`LocalWhole`); a fresh card compares rows that are there (`CardFresh`); what is published
holds weights and the card's rows (`HubSound`).

* `AlwaysSeriesScored`, without hypotheses. The steps that a series has done left their rows;
  those it has not are in `todo`; at its end there are none.
* `AlwaysResultsKept`, without hypotheses, from its parts `NothingLost` (what a series does
  not score it leaves alone) and `ReferenceKept` (of uploads from a fetched directory).
* `AlwaysPublishedSound` needs `FetchEnds`: no fetch is stopped half way.
* `AlwaysLogitsKept` needs `SamplesInSubsets`: a series draws samples only together with
  `--revisions` or `--slices`. Where the cache is full it promises nothing.

With TLC only:

* Liveness under fairness (`PromotionLands`, `EveryLoadServed`, `AllMirrored`) and whatever
  needs `ENABLED`.
* Induction over data. Where a sum over a set had to be compared, the model counts it
  (`Total`, also the offsets of `ShardLoad`'s fused parts); where a sequence is cut into pieces, the invariant speaks of one piece and the
  end of the one before.

## Not modelled

* Numerics: trellis decode, Hadamard transforms, block quantization, solvers, metrics.
* vLLM beyond what the plugin calls or is called by, with its KV reserve arithmetic; the
  driver's allocators; logs and statistics.
* `ops.py`: scratch is pooled per stream by torch and not pooled under capture by one
  test; the rest is dispatch to kernels.
* `plugin.py`, `env.py`, `log.py`: three patches that each run once.
* `cpu_offload.expert_tables`'s copies into the staging window (one stream, torch's order),
  the dequantizing path's `register_offload`, `report_once`.
* `evict` counts an entry whose `unlink` failed for another reason than a lost race
  (permissions) as freed (`blockq_cache.py:296`).
* `quant.py`: what the converter, the solver and the tools it calls compute; the card's
  prose and plots.
* `bench`: performance baselines, the metrics of a comparison, the caches of compiled code,
  `verify` and `env` (they only read), the backend and KV memory as more than a number.
* `eval/qbench.py` and `qbench_prune.py` (a submodule): which logits they drop first.
* `tools`: `quantize_embedding`'s own rewriting (`Legal` says what comes out), and
  `compose_checkpoint`'s byte-level verification (`Faithful` says how it ends).
* Research tools: programs that measure other programs once and keep nothing.

## Plan

Modelled as planned: serving (`SlotMemory`, `ExpertCache`, `BlockqCache`,
`ExpertPlacement`, `EmbedPlan`, `ShardLoad`), making checkpoints (`QuantLadder`,
`QuantInputs`, `QuantScore`, `CheckpointCompose`, `MirrorSync`) and guarding a build
(`BenchGate`). Proved as planned: every safety invariant and action property that a
passing run checks. What is left is liveness, which stays with TLC, and what the section
above leaves out.
