# TileOPs: specifications, model checking and proofs

TLA+ modules for the parts of TileOPs whose correctness depends on the order of
events: which backend is installed and which one a call runs, what a failed or
interrupted first call leaves behind, what a trace shows, how warp-specialised
GEMM and attention kernels share their buffers, how the routes of a mixture of
experts get to their expert and back, and how the benchmark sweep shares the card.
Paths below are relative to
the repository; `op_base.py`, `registry.py` and so on are under `src/tileops/`.

How to read it: start with the `Spec` section of a module, then its properties,
then the run that instantiates it. Every property has a comment naming the line
of the code it is about. Definitions keep the names of the code where there is
one; a definition called `...Keeps...`, `...One...` or the like under a comment
`\* Bug:` is a plausible mistake in the next definition, kept so that each
property can be seen to fail when the code is broken that way.

## 1. Inventory

| component | state | operations | who it talks to |
| --- | --- | --- | --- |
| backend registry (`backend/registry.py`) | detectors, builders, failure lines, default, `_loaded`, `_loading`, `LOCK` | `register_*`, `ensure_loaded`, `_load_all`, `snapshot`/`restore` | Python's import system (each entry point is an import), every dispatch |
| backend dispatch (`backend/dispatch.py`) | none of its own | `select_target`, `detect_target`, `set_default_target`, readers | registry tables, mostly without the lock |
| kernel selection (`ops/op_base.py`, `kernels/kernel_base.py`) | `kernel_map`, `_overridden` | constructor merge, hand-down to inner ops, `select_kernel_key` | kernel classes' `refusal` |
| op instance (`ops/op_base.py`) | `_builder`, `_kernel_roles`, target | `__call__`, `_resolve_builder`, `kernel_for`, `_unsettle` | dispatch, builders of a backend, torch.compile |
| trace registry (`trace/state.py`, `markers.py`) | events, lanes, groups, scope stack, flows | markers, scopes, `lower`, `strip` | kernel builders |
| trace run half (`trace/passes.py`, `decode.py`) | slots in device memory | prologue, stores, `decode` | the launched kernel |
| warp-specialised GEMM (`kernels/gemm/dense.py`) | barriers, ring of shared-memory slots, counters, instructions in flight | producer and consumer loops | TMA engine, tensor cores |
| persistent attention (`kernels/attention/gqa_fwd_ws.py`) | slots and barriers of K and V, named barriers, the warps' running sums | producer loop, consumer loop, epilogue | TMA engine, tensor cores |
| MoE permutation (`kernels/moe/permute_*.py`, `unpermute.py`, `ops/moe`) | counts, offsets, cursors, row tables, gathered rows | count, scan, scatter, gather, way back | the grouped GEMMs of the routed experts |
| grouped-GEMM scheduling (`kernels/grouped_gemm/template.py`, `grouped_gemm_persistent_maca.py`) | the tile counter of a cached kernel | waves, claims, tile to expert | the permuted rows, thread blocks |
| benchmark sweep (`scripts/ci/run_benchmarks.py`) | child processes, heartbeats, deadlines, the report | spawn, grant, wait, kill, reap, end | pytest processes, the card, the CI job |
| torch.compile boundary (`ops/compile_boundary.py`) | instance keys | register, look up | compiled graphs |
| autotuning (`kernels/kernel_base.py`) | a kernel's config | `tune_jit_kernel`, `autotune` | ops that hold the kernel |
| operators and other kernels (`ops/*`, `kernels/*`) | per-op shapes, caches | `forward` | the base class |
| manifest, code generation, perf model | tables | read at import | validators |
| CI reports and validators | files | read and compare | the CI job |

What is hard in this code, and what each component must keep true:

- *Registry.* Threads discover, read and register concurrently; an entry point
  can raise half way, be interrupted, or import modules that register more; the
  import system has locks of its own. It is right when nobody sees a half-built
  registry, a backend is in as a whole or not at all, the result does not depend on
  who discovers, and everyone who waits is served.
- *Selection.* The answer must be a function of the installed classes and the
  call; a replacement that refuses must not be covered up by a shipped class.
- *Instance.* A first call settles the instance on a target, and may fail or be
  interrupted anywhere in between; under torch.compile its writes land after the
  graph ran. It is right when the kernels that run belong to the target the
  instance is settled on, a failed call settles nothing, and a settled instance
  stays settled.
- *Trace.* Ids are interned while one kernel is built and used when another runs.
  It is right when the timeline shows what the lead of each group executed, under
  the names the author wrote.
- *GEMM ring.* Warps wait by parity, copies and matrix instructions land later,
  and a slot is released one step late. It is right when no slot is overwritten
  while it is read, every tile sums its own steps, and the block finishes.
- *Attention.* Producer and consumers share one barrier for the two slots of an
  operand; the consumers take turns by named barriers that count arrivals and know
  neither whose nor of which iteration; the product with V of one block runs while
  the softmax of the next changes the maximum. It is right when no copy overtakes a
  product, one group issues at a time, every stored tile is the attention of its
  rows, and the block finishes.
- *Mixture of experts.* Threads of several launches sort routes by expert through
  counters they add to concurrently; the GEMM turns the offsets of the sort into
  tiles, by searches, in waves or by claims from a counter; the way back must find
  every product. It is right when each row is handed out once, each cell computed
  once, and each token gets its own products.
- *Sweep.* Processes are started ahead of their turn, hang, crash, exit and report
  at any point against two deadlines, and the parent can fail or be interrupted. It
  is right when one process at a time is on the card, none is left behind, every
  file is settled once, in order and honestly, and the sweep ends.

`PROJECT.json` lists every component, with those not modelled and the reason, and
every hazard with the properties that would catch it.

## 2. Modules

| module | models | state and actions |
| --- | --- | --- |
| `BackendRegistry` | registry, dispatch and the import system under them | one record `registry` for the tables; `stack[t]` the module bodies a thread is executing; `load[t]` its discovery frame. One action per step between two reads of shared state |
| `BackendRegistryProperties` | its properties | |
| `BackendCatalog` | abstract: what discovery promises, without threads or rollback | `view`: unpublished, then the tables as a function of what is installed |
| `KernelSelection` | constructor merge and `select_kernel_key` | one scan step per candidate, in any order |
| `OpInstance` | one instance, its callers, failures and interrupts | `frame[t]`: where a call is and what its handlers would do; `later`: the write of a traced frame that has not landed |
| `TraceRegistry` | the build half of the trace | `_BUILD_STATE`, the build in progress, the last lowered kernel |
| `TraceTimeline` | the run half, extends `TraceRegistry` | the run of a lowered kernel, and `log`, what each group's leads executed, in the author's own words |
| `WarpPipeline` | one thread block of the persistent GEMM | `pc`, counters, barriers, ring, copies and instructions in flight |
| `StepStream` | abstract: what the ring promises | steps become ready and are taken within a window |
| `WsAttention` | one thread block of the persistent attention kernel, causal and not | `prod`, the producer; `warp[x]`, each consumer warp with its running sum; barriers; copies and products in flight |
| `MoePermute` | the five counting sorts, thread by thread | `Program` gives each sort its launches and the segments between barriers; one action per segment or per atomic addition |
| `PowersOfTwo` | the powers of two that the scan and the searches step by | a recursive function |
| `GroupedTiles` | from a tile's number to its expert, rows and columns | pure operators: two searches, the swizzle, the counter kernel's decode |
| `MoePipeline` | extends `MoePermute`, instances `GroupedTiles`: permute, gather, gate and up, down, way back | waves of blocks, or blocks claiming tiles from the counter |
| `BenchSweep` | `main` and the processes it runs | `pc` and the locals of `main`; `child[f]`: the stage of a file's process; a clock |
| `SweepPromise` | abstract: every file is settled once, in order, and the verdict is that of the outcomes | `outcome`, `verdict` |
| `MC*` | model values and data for TLC | |
| `*_proofs` | theorems | |

`BackendRegistry` contains the dispatch readers because they race with
discovery. `TraceTimeline` composes with `TraceRegistry` by running only kernels
that the registry lowered. `OpInstance` uses one atomic `select_target`: its races
are the subject of `BackendRegistry`. `MoePipeline` composes sort, schedule and
delivery: what the sort left in memory is what the tiles are cut from.

What the models leave out, and the choices worth knowing:

- *BackendRegistry.* A module body is a sequence of statements: a detector, a
  builder, a default, an import, a raise. A failed import is removed from
  `sys.modules` and one that finished stays, as importlib does. Dispatch reads the
  default twice and tables one at a time, each read a step. A detector that raises
  fails the call that asked it. A rollback is seven steps, one for each
  assignment of `restore` (`registry.py:188-194`): detectors and builders are emptied and
  refilled, then the failure lines, the default and the loaded flag are set, and
  `default_target()` may read between any two of them. An interrupt hits `ep.load()`; one
  that hits `restore` itself is not modelled.
- *KernelSelection.* Before an op is constructed its map may have passed through any
  number of ops: a composite hands down what it was given, an op with a map of its own
  the caller's keys that are among its own, so a key that it lacks is lost on the way.
- *OpInstance.* `_settled_target`, read by messages only, is written with
  `_builder`. A role is looked up and stored in one step. Two dictionaries are
  enough for one thread: whoever needs a fresh one finds one that is not in use,
  otherwise the deadlock check would fail.
- *TraceRegistry.* Ids are positions in a table, `MAX_LANES` is shrunk from 16 to 1
  or 2. A marker keeps beside its ids what its author wrote (`says`).
- *TraceTimeline.* One CTA; a guard around a store survives the simplifier, as
  `passes.py:158` says. An uninitialised row decodes to anything (`Garbage`).
- *WarpPipeline.* `Producers` are threads and `Consumers` warps, as the agents that
  wait and arrive on their own. A barrier has a number of phases, of which a wait
  sees the parity only. The epilogue is one step: its own barriers are inside one
  warpgroup. The tiles of a block are numbered, since producer and consumers
  compute the same list. `_gemm_kernel` is the instance with one tile and one
  consumer warpgroup.
- *WsAttention.* The warps of a group are actors of their own; the producer's
  threads wait and arrive together and are one. Rows and columns are counted in
  units, a product is the record of its operands, and a running sum the sequence of
  its terms, so that a wrong block, scale or mask shows. A copy finishes the round the
  producer arrived for; the products of a warp finish in order. The epilogue's way
  through shared memory is one step after its group's named barrier; the tile's load
  of Q follows it.
- *MoePermute.* What a thread does between two barriers is one step, except where
  it adds to a counter that others add to: then every addition is one. The
  gather is one step: each row is written by its own thread. The small kernel has
  `max(num_experts, 32)` workers, which all count and place routes; those with an
  expert's number also sum its column and name its row blocks. `MinWorkers` is the 32.
  The loops of the parallel sort are taken as they are written: if `RoutesPerBlock` is
  no multiple of `BlockThreads`, the blocks of the model overrun each other as those of
  the code do.
- *MoePipeline.* A wave computes its tiles in any order; the persistent kernel's claim,
  barriers and reads of the claimed number are separate steps. What a warpgroup does
  inside a tile, and the ring between its loads and products, is `WarpPipeline`'s
  subject. The counter schedule is fed the tables the adapter computes.
- *BenchSweep.* The children take steps of their own at any time: start of a test,
  crash, exit, report, end. `Look` is main's reading of a heartbeat; a status may
  arrive between any two of main's steps. A process may leave with any code at any
  point, after its report too. The finally block kills one process per step, and an
  exception may come between two of them. `proc.wait()` at lines 138 and 144 has no
  deadline; it is one step with the death it waits for, as the process has closed its
  pipe or was sent SIGKILL. The log, the collected profile text and the
  order of discovery are left out.

## 3. Runs

| run | question | result |
| --- | --- | --- |
| `registry_load` | two threads race the first lookup; one backend raises half way after choosing itself as the default, another contests a cell | holds, and refines `BackendCatalog` |
| `registry_retry` | one interrupt anywhere in discovery, while the program imports a package that contests a cell | holds: discovery can be retried, cells keep their owner, waiters are served |
| `registry_lost_helper` | an interrupted backend whose helper module had finished importing | violated: see findings |
| `registry_import_deadlock` | a thread imports a backend by itself during discovery | violated: see findings |
| `selection` | every map a caller may write, directly or handed down by any ops above, every call and order of keys | holds |
| `instance` | one thread; eager and traced calls; a failure or interrupt anywhere; the default changes between calls | holds |
| `instance_traced_failure` | `FailureSettlesNothing` without the exception for compiled graphs | violated |
| `trace_run` | two builds in a row, lowered, stripped or failing anywhere, at the lane cap; every kernel they lower, run by two threads beyond capacity | holds |
| `pipeline` | two tiles of four steps through three slots | holds, refines `StepStream`, and always finishes |
| `attention` | four causal tiles of one, four, two and three key blocks, or two full ones of two | holds, and always finishes |
| `moe` | 65 route tables of three tokens, two routes each, over four experts, through every sort and every GEMM that takes its layout | holds |
| `sweep` | two files whose processes do anything at any point against both deadlines | holds, refines `SweepPromise`, and always ends |

### Bounds, and why they are enough

- *Registry.* Two threads, three entry points and two more modules, two targets,
  one op. Two threads are enough for one discovering and one being elsewhere; three
  entry points give one before, one inside and one after a failure. At most one
  interrupt: the second would meet the state the first one's rollback produced. The
  program sets the default to a target, to `BUILTIN` and back to detection, at any time.
- *Selection.* An op with a general and a specialised key, a sibling key that
  belongs to a parent only, and a stale one: the four ways a map's key can relate
  to an op. The ops above are composites, ops that have all three keys and ops that lack
  one of this op's; as what a map has lost it does not regain, a handful of hops reaches
  every map. Two calls, one of which each specialised class refuses.
- *Instance.* A registered target that claims a device, one that claims none, and
  one that is not registered; two roles, one without an in-tree kernel. Calls go on
  for ever; `Dicts` recycles dictionaries no longer referenced.
- *Trace.* Two builds, because what a build inherits comes from its predecessor; the
  second has at most two markers and its kernel is run more briefly (`Later`).
  Three markers and three rows reach nesting, overlap, an end without a begin and
  truncation. The number of builds ends a behaviour (`CHECK_DEADLOCK FALSE`).
  Names and lanes are symmetric.
- *Pipeline.* Eight steps through three slots, with a tile boundary after four: the
  ring wraps in the middle of a tile and a tile starts in the middle of the ring,
  with either parity; two operands land separately; two producers and two consumers
  can be apart. `CHECK_DEADLOCK FALSE` because the kernel ends; `Finishes` says it
  ends only there.
- *Attention.* Two warps to a group, so that one can be ahead of the other inside its
  group; tiles with an odd and an even number of key blocks, so that a tile starts in
  either slot and parity; a tile of one block, whose only V is the last; row blocks
  from both ends of the sequence. A block of rows is two units, so the mask differs
  between the two groups.
- *MoE.* Three tokens with two routes each over four experts: experts without routes
  before, between and after used ones, one with all six, two threads to a block, two
  blocks to a launch and the second of them half empty. The small sort has five workers:
  one more than there are experts and one fewer than there are routes, so that one has no
  expert and one places two routes. Alignment and tile height 2 give full, partial and
  padded tiles; two columns of tiles and groups of two row blocks reach the swizzle's
  lower last group; two SMs give more than one wave. The tables are taken up to the order
  of a token's routes and of the tokens, and the third token repeats the first. One table
  also goes through the tile counter with two blocks of two threads. The code chooses the
  parallel sort from eight blocks on only, which changes nothing of a block.
- *Sweep.* Two files: one in hand, one pending. Limits of 2 (silence), 3 (budget) and
  1 (teardown) ticks make each deadline reachable before and after each other. One
  test per file gives a heartbeat between two silences. `CHECK_DEADLOCK FALSE`:
  `main` returns, and `Ends` says it does.

### Fairness

- *Registry* (`WaitersServed`): every thread that can take a step of a call it has
  begun does so eventually: the interpreter schedules it. Nothing obliges a
  program to call, or an interrupt to come.
- *Pipeline* (`Finishes`): the hardware runs every warp that can run, and a copy or
  matrix instruction in flight lands.
- *Attention* (`Finishes`): the same of warps, copies and products.
- *Sweep* (`Ends`): `main` takes its steps and time passes. Nothing is assumed of the
  processes: they may hang for ever, and `main` ends all the same.
- Nothing else is assumed fair, and no other property needs it.

### Findings

1. `registry_lost_helper`: a rollback takes back what helper modules registered,
   but the helpers stay imported, so the retry publishes the backend without them
   (`registry.py:147` against the comment at `registry.py:136`).
2. `registry_import_deadlock`: discovery takes `LOCK`, then an import lock; a
   program importing a backend takes them the other way round (`registry.py:139`).
3. `instance_traced_failure`: a failure in a compiled graph, after the first
   `kernel_for` settled the instance, passes no handler (`op_base.py:436` against
   the docstring at `op_base.py:697`).

Seen in a model, and without a run of its own:

- `kernel_for` reads `_builder` twice; a failing first call of another thread in
  between makes an op of an external target run in tree (`op_base.py:446` against
  `op_base.py:786`). With two threads `TargetHonoured` fails.
- `strip` does not end the registry's epoch, so the next traced kernel elects the
  writers of an earlier one (`trace/passes.py:333` against `trace/state.py:192`).
  `OwnTables` excepts it.
- `select_target` reads the process default twice; when another thread resets it to
  detection in between, the answer is None, which means in tree, and
  `_resolve_builder` keeps it for the instance although a backend claims the device
  (`dispatch.py:79` against `dispatch.py:55`, `op_base.py:774`). The premise of
  `SelectFollowsOrder` is that nobody does so; as an invariant `InTreeByDetection`
  fails.
- While a failed backend is rolled back, `default_target()`, which takes no lock, can
  answer a target that is no longer in any table (`registry.py:188-194`,
  `dispatch.py:120`). `DefaultIsKnown` is stated for when no rollback is under way.
- The parent of a sweep is killed, its first spawn fails, or an exception or a second
  Ctrl-C cuts its finally block short: every process left, waiting, reads the end of its
  stdin as the grant (`run_benchmarks.py:64`, line 457). `OneRuns` is stated for a living
  parent, `NobodyLeft` for one that is through with the block.
- A process that reports 0 and leaves with another positive code has passed: after the
  report only a signal or a missed deadline counts (`run_benchmarks.py:156`).
  `VerdictHonest` is stated of what `main` was told, and of signals.
- The parallel sort needs `scan_routes_per_block` to be a multiple of
  `parallel_scan_threads`, as 512 is of 256; its loops (`permute_contiguous.py:100`,
  line 175) have no other bound, and a config that breaks it is not refused: two blocks
  would place the same routes.
- An interrupt during discovery after a backend has failed, then a second lookup: the
  rollback keeps the failures recorded before it (`registry.py:147`), the failed module
  is executed again, and fails a second time or loads. So a backend can have two lines,
  against "One line per backend" (`registry.py:24`), or be listed and installed.
- The aligning sort gives every expert a thread of its one block, 1024 by default, and
  refuses no call with more experts; with more experts than threads `Permuted` fails.
- The sweep's docstring says the deadline kills "nothing for being slow"
  (`run_benchmarks.py:12`), and the budget does kill the file in hand (line 397); a
  single test longer than the silence limit is killed as well.

Read, and without a model: the docstring of `kernels/moe/permute_align.py` (line 5) says
the large-batch path starts above 64 experts, the threshold at line 41 is 32;
the per-row layout allocates `numel + E * (alignment - 1)` rows, not in general a
multiple of the alignment, which `ops/moe/staged.py:379` and `template.py:994` refuse;
the MACA adapter of the grouped GEMM always takes its first branch (`if True:`), so the
persistent kernel is reached by nobody and silu is applied whatever was asked;
`gqa_decode_bs1_common.py:100` takes a ring's parity modulo its depth, which is
right because the depth is two; `num_stages = 1` with more than one K-step
deadlocks the ring of `WarpPipeline` (the slot is released by the step after its
own; `OneSlotStalls` proves it for every such ring), and nothing refuses such a config, although no tile table chooses it;
`ops/compile_boundary.py:60` holds instances weakly, so that a compiled graph may
outlive its op; `op_base.py:687` marks every delegate before it replaces configs one by
one; `trace/api.py:373` reads the switch again after the launch; the flat index of a
CTA at `trace/passes.py:141` drops axes before one of extent 1.

## 4. Proofs

All theorems hold for every value of the constants that satisfies the module's
named assumptions (finite sets, positive sizes, functions between them) and, where a
theorem has some, its own hypotheses, explained below.

| module | theorems | argument |
| --- | --- | --- |
| `BackendRegistry_proofs` | `TypeCorrect`, `LockInvariant`, `Publication`, `ClaimsPermanent`, `DefaultKnown` | `LockInv` is inductive: only the owner of the lock discovers, on an unpublished registry, and the checkpoint it may restore is unpublished too. Publication and the permanence of cells follow; the default is known whenever no rollback is under way |
| | `BackendsDecided`, `NoHalfLoad`, `OneLineEach`, `SelectionOrder`, `CatalogPublished` | below |
| `OpBase_proofs` | selection: `SelectionTypeCorrect`, `ScanPartition`, `OrderDoesNotDecide`, `NoFallback`, `SpecialisedWins`, `CallerReplaces` | `ScanInv`: what a scan has put aside is a function of the set of keys seen, so their order cannot matter. `HandedDown` follows the caller's map through any number of ops above, and says which keys got through |
| | instance: `TypeCorrect` for any threads; for one thread `OneCaller`, `KernelsOfTheSettled`, `RequestHonoured`, `SettledForGood`, `FailureUnsettles` | `OneCallerInv` ties each frame's position to what it may believe of the instance; `ArmedInv` says that a frame whose instance is settled has one of two handlers armed, that of `kernel_for` or that of `__call__`; what is excepted of `FailureUnsettles` is an interrupt, and a failure of a compiled graph once the `kernel_for` that settled has returned (finding 3). A failure inside that `kernel_for` is covered. With two threads `TargetHonoured` fails |
| `TraceRegistry_proofs` | `TypeCorrect`, `TablesHold`, `TablesOwned` | tables hold a name once and only grow until `lower` takes them; a second invariant says what the registry of a build without leftovers contains |
| | `LeadsHold`, `DecodesFaithfully` | below |
| `WarpPipeline_proofs` | `TypeCorrect`, `ParitiesDecide`, `NeverOverwritten`, `TilesAreWhole`, `BarriersStream`, `NoDeadlock`, `OneSlotStalls` | below |
| `BenchSweep_proofs` | `TypeCorrect`, `SweepInvariant`, `ExclusiveCard`, `NoOrphans` | `SweepInv`: whoever is alive is in hand or pending, whoever is on the card was granted it, and what was granted is behind `main` or in its hand. `main` has `left` once the block found nobody alive |
| | `StallMeansSilence` | the ticks `main` has yet to wait and those the process has been silent for make up the silence limit, unless a heartbeat has come that `main` has not looked at |
| | `ReportInvariant`, `HonestVerdict`, `SweepKeepsPromise` | `ReportInv`: the results are those of a prefix of the files, each with an outcome that fits what `main` was told, a signal, a kill and the fragment; the code of an exit after the report is free. It gives the verdict and every step of the refinement of `SweepPromise` |
| `WsAttention_proofs` | `TypeCorrect`, `AttentionInvariant`, `NoOverwrite`, `TurnsTaken`, `DataInvariant`, `TilesWhole`, `NoDeadlock` | below |
| `MoePipeline_proofs` | `RowsApart`, `SortPermutes`, `TilesAreOnce` | below |
| `MoeDelivery_proofs` | `RoutesDelivered` | below |

*The ring.* `NoOverwrite`, `TileComplete` and the refinement are not inductive:
they say nothing of barriers. `PipelineInv` counts, for every slot, the visits of
each step counter to it (`Visits`). Each producer has visited a slot as often as its
full barrier completed, or once more; each consumer has released it as often as
its empty barrier completed, or once more; and the full barrier is level with the
empty one or one ahead. So everyone is within one phase of what it waits for and
the parity decides. From this `StagingInv` gets where each box of a step is, and
`MmaInv` which instructions are in flight and what the accumulator sums; one
lemma per action and part shows it is kept. For the refinement, a full barrier's
completion is a `Publish`, a release is a `Take`, and every other step stutters.
No bound on slots, steps, tiles, threads or operands is used, one slot included.

That the ring never stops early is `NoDeadlock`: in every reachable state the window is
through or the guard of some action holds (the guards are written out, `ENABLED` being
beyond the prover). Suppose nobody can move. The consumer furthest behind (`Hindmost`)
waits for a full barrier, hence for a producer no further than it; that producer waits for
an empty barrier, hence for a consumer that has yet to release the visit before. With two
slots that consumer is further behind than the hindmost, which is absurd; with one it may
be waiting for the very step whose arrival would have it release. So the theorem assumes
`LateReleaseFits`, two slots or one step to a tile, and `OneSlotStalls` shows that the rest
is no accident: with one slot and several steps no consumer ever gets past the first step.

*The timeline.* `TimelineFaithful` compares two things of different kinds: what the
host decodes, row by row with a stack, and what was executed, where a range is a begin
and the first end with which the two balance. `SlotInv` brings the rows to the history:
the clock orders the records (`Ordered`), only a lead past the prologue has executed
anything in a group (`Spoken`), and from then on its slot holds the first `max_events`
of its records, each row one that stands for a record by the host maps (`Standing`). It
needs that the writer a marker's slot elects is the thread the marker's scope names,
which is `TablesInv`, `OwnTables` and `OneLead`; that this thread exists, `LeadsHold`;
and that different names have different ids.

The scan of one lane is then compared with the history it stands for. `Excess` is by
how much the begins of a name and lane are ahead of its ends over a stretch; a range is
open after e records (`OpenAt`) when it has been positive ever since. `Scanned` says,
after every row, that the decoder's open ranges are exactly those, in order, and what it
has put out are exactly the ranges closed so far. The step that matters is an end: the
last open range of its name and lane is one ahead (`LastIsOneAhead`), those outside it
are further (`OuterIsFurtherAhead`), so the end balances that one and no other
(`EndCloses`), and it is the one `match_idx` finds, however ranges of other names
overlap it. `LaneDecoded` is the induction over the rows, `GroupDecoded` puts the lanes
of a group together. The hypothesis on builds, no leftovers, is the property's own: a
kernel lowered after a build that was stripped or raised may be decoded wrongly (§3).

*The attention block.* Neither `SlotsHeld` nor `PingPong` is inductive. `IInv` counts,
for each operand, the rounds the producer issued, those that landed, those each warp
took and those it released (`FlowInv`): released is at most taken, at most landed,
at most issued, at most one more than the slowest release. So the producer stages
round n only once round n - 1 is released by every warp: the two slots of an operand
are never in use together, and one barrier can serve both. For the turns it counts the
arrivals of every warp at the two named barriers, the first turn given away
(`TurnInv`): every warp is within one turn of its barrier's phase. The products a warp
has in flight are a function of its position (`ShapeInv`). Each step of a warp is
first reduced to what it changes (`...Step`), then shown to keep each part
(`...Keeps`).

That a stored tile is whole follows from how far everybody is. `FlowInv` leaves two
cases for a warp and an operand: the producer has issued as many rounds as the warp
released, or one more. `SyncInv` says that it is then about to stage the block the warp
waits for, or the one after, and that in the second case the warp's block is in its
slot or on its way there; a warp that has taken a round it has not released is in the
second case with no copy under way, so a product reads the right block whenever it
runs. `LocalOf` gives the scores, probabilities, maximum and sum of a warp as functions
of its place in the tile and of the products it has in flight. `TilesWhole` has a
hypothesis, `Aligned`: `BlockN` is a multiple of `BlockM`. The code masks the last
key block only, which needs it; its default is 128 for both, and it does not refuse a
config for which it fails.

`NoDeadlock` needs one more part, `GroupInv`: the barriers a group waits at for its Q and
before it stores count the tiles its warps have begun and ended. Suppose nothing can move.
Then no product is unfinished, so a warp is done or at one of seven waits (`StuckAt`), and
`StuckIn` places each of them, and the producer, at a block of K and one of V. The
coordinates exclude two waits: the producer's for a V within a tile, and a warp's for one.
A producer waiting for the last V of a tile waits for a warp at its turn in the last block
(`LastVWaitsFor`); any other waits for a warp a round behind. The rest of the cycle is
broken by a rank: rounds of K first, then the place in a round from the last V of the tile
before, over storing, Q and K, to the turn, then the group, as group 1 goes first. Each
stuck warp that is not done waits for one of lower rank that is not done either (`Lower`), so
none is left. As for the ring the guards are written out (`WarpCan`, `ProducerCan`).

*Discovery.* What is installed is decided once and for all, backend by backend
(`BackendsDecided`): the entry module of one that loaded is imported, everything it
registers is there, and it has no line; one that is not imported owns nothing; one
that has a line is barred for good. For the module being executed the invariant says
by how much the tables differ from the checkpoint it would be rolled back to: by its
own claims, up to the statement it is at. While a rollback puts the tables back one at a
time nothing of this is true of the tables: it is true of the checkpoint then
(`RollbackInv`), nobody but `default_target()` can look, and when the last assignment
is made the tables are the checkpoint (`BackendsInv` joins the two). `NoHalfLoad` (`AllOrNothing`) and `OneLineEach`
(`OneLinePerBackend`) follow. The hypotheses name where the code relies on its backends:
`SelfContained`, entry points are distinct modules that import nothing and are not
imported by the program by themselves (with a helper module the property is false,
finding 1); `Repeatable`, no interrupt out of discovery, or no backend names a default
whose target may be there at the second attempt only; for `OneLineEach` no interrupt
at all (see §3), and `Declaring`, every backend registers something (`registry.py:18`). For
`SelectionOrder` (`SelectFollowsOrder`) `NoLateDetectors`: what the program imports by
itself registers no detector while a selection reads the table.

*The catalog.* `CatalogPublished` is the refinement `FixedOrder`: the registry with its
threads, lock, import system and rollbacks implements `BackendCatalog`. `Catalog!Tried` is
recursive; `TriedUnfolds` shows, by an induction over a set of numbers, that it has the
value its definition says. `CatalogInv` then says, for the discovering thread, that the
tables between two entry points are those of `Tried` so far (`Prefix`), that the
checkpoint is while a module is executed, and of that module which defaults it has chosen
and from which targets (`Named`, `Chose`). An entry point that ends is one the catalog
accepts (`EntrySucceeds`), one that raises is one it refuses (`EntryFails`): the code finds
out by running into the statement, the catalog by looking at all of them. The hypotheses
are `SelfContained` and `Undisturbed`: no interrupt out of discovery (a retry lists the
failures of the first attempt a second time, §3) and nothing claimed by what the program
imports by itself. The run `registry_load` checks the same property with a helper module,
which the theorem leaves out: a helper of a failed backend stays imported without its
claims (finding 1), and then the tables depend on more than the catalog says.

*The sorts.* `RowsTakenOnce` and `Permuted` speak of rows only; what makes them true
is what the counters hold when. `SortInv` follows the five sorts segment by segment.
`BarrierInv`: nobody is past a barrier that somebody has not reached. `CountInv`: the
count of an expert is the number of its routes whose threads have counted.
`TotalsInv`, `PrefixInv`, `CursorInv`: after the barriers between them these are the
total, the sum over the experts before, and the first row of the table row's share
plus the routes that have taken a row. The small kernel has its private columns
(`WorkerInv`, `ColumnInv`), the aligning one its scan (`ScanInv`): that the shuffle
rounds of doubling distance leave in every lane the sum of the lanes up to it is
`ScanAll`. `PlaceInv` then has a table of places, one for every route that was given a
row: no two places are equal, and the places of a table row's share are the first so
many of its span. A claim adds the place at the cursor, a store fills it.

When all threads are done every route has a place, an expert's as many as it has rows,
so each row is taken (`AllRowsTaken`). `MetaInv` adds the metadata: the ends are the
starts of the next regions, the binary search over them finds the number of regions
that end before a row (`OwnerIs`), and the row blocks of a region are nobody else's,
since regions are whole blocks (`PaddedStarts`). Sums over sets and recursive functions
are met with induction over sets of natural numbers (`SetInduction`), which first-order
provers can use.

The hypothesis `Fits` says what two of the sorts need and no line of the code checks. The
aligning sort: two warps with a lane for every expert, a warp being a power of two. In
the code a block has 1024 threads unless configured otherwise and a warp 32. The parallel
sort: a block's routes are a whole number of rounds of its threads, 512 by 256 unless
configured otherwise (§3). For the other sorts nothing is assumed; the small one has any
number of workers, no fewer than experts, and any number of routes for each.

*The tiles.* `TilesOnce` has two halves. That the tiles do not overlap is arithmetic:
a tile number is one row block and one column block (`SwizzleOnce`), the binary search
over the sums of row blocks ends at the group the block lies in (`SearchFinds`), so
two numbers with a row and a column in common are equal (`CoversOnce`), by either
schedule, and a row belongs to the tile's group (`CoversOwn`). That no tile is computed
twice is the schedule's: with waves a number is a wave and a block; with the counter,
`CounterInv` says that the numbers a block has at hand come from the counter and are in
no other block's hands, and what the two threads of a block may be at together
(`Meets`), a thread that found its number past the last tile running ahead of the
other. `CellInv` says that a cell that is written holds its one tile's product and
that the tile's fragment lies behind every block (`Gone`), so a store finds its cells
empty. The hypothesis `TilesFit`, where an aligned layout is called for: the alignment
is a multiple of `BlockM`. The code takes them equal and refuses any other
(`grouped_gemm/heuristics.py:482`).

*The way back.* `Delivered` needs the other half: nothing is left out. That the tiles
cover the rows is arithmetic again, read the other way. The swizzle reaches every row
block and column block (`SwizzleOnto`), so a row that holds a route lies, in every column
block, in a tile whose number is below the number of tiles (`CoversAll`), by either
schedule and on every layout that is multiplied. That every tile is stored takes two
invariants. `WrittenInv`: a tile with no block still ahead of it was stored, so a step
may leave a number behind only by storing it or by giving it up past the last tile
(`CounterFills`). `RoundsInv`: the tile counter is the number of rounds the blocks have
claimed in, counted as pairs of a block and a round (`Turns`), and a block exits after
`max_iters` of them. When all have exited the counter is therefore `NumSms * max_iters`,
however the claims were shared out, and that is no less than the number of tiles
(`RoundsSuffice`): the sum of the rounded-up row blocks of the experts exceeds the
rounded-down total by at most one for each (`BlocksBounded`). So at the end of a launch
no tile is left (`AllGone`), and the row of a route holds its operand multiplied with the
weights of its expert (`RouteMultiplied`). `CarriesInv` follows the token from the gather
through both products, `OutputInv` back to its place. That `max_iters` adds two rounds to
the quotient is not used: the rounded-up quotient is enough.

Types of `BackendRegistry`, `KernelSelection` (`SelectionTypeOK`), `OpInstance`, `WarpPipeline`, `BenchSweep`
and `WsAttention` are proved and not repeated as invariants of the runs.

Only model-checked: `WaitersServed`, `Finishes` (twice) and `Ends`, which are liveness
and beyond the proof system; of the two `Finishes` the safety half, that nobody is stuck
before the end, is proved (`NoDeadlock`). Every safety invariant and action property of the passing
runs is stated by a theorem. What recursive functions compute for every input
(`DecodeLane`, the catalog's `Tried`, the sums of the sorts) is proved by induction over a
set of numbers, the prover's own induction theorems being out of reach.

## 5. Not modelled

The arithmetic of kernels (linear attention, Mamba, norms, reductions, convolutions,
pooling, elementwise): tensor code without state between calls, whose correctness is
numerical. They are most of the repository's lines, and the reason the models cover a
small part of them. The manifest, the generators, roofline formulas and reports:
sequential and checked by the repository's own validators.

Of attention, the split, paged, decode, backward and sparse kernels and the arithmetic of
the online softmax; of `gqa_fwd_ws.py`, every config but the default one, and the
non-causal class's partial last block, which it does not mask and no caller in `src/`
reaches. Of the mixture of experts, the router's scores, the routing weights, and the
masked, aligned-psum, batched and K-grouped layouts. Of the tile counter, two streams that
share it. For the rest see the plan.

## 6. Plan

Done, in this order: registry and dispatch with the catalog they refine; selection;
the instance; the trace's build and run halves; the GEMM ring with the window it
refines; the sweep and what it promises; the mixture of experts from routes to
products, with both schedules; the attention block; an inductive invariant and its
theorems for each.

Next:

1. The rings that differ: the block-scaled fp8 loop of `dense.py` and
   `gqa_decode_bs1*.py`, as variants of `WarpPipeline` refining `StepStream`.
2. The top-k selector, against a reference definition.
3. The compile boundary with the collector as an actor, ops with delegates, and
   tuning of a kernel that several calls hold.
4. A grid of CTAs and `compute_flows` in `TraceTimeline`.
