# MindProx: TLA+ models of its profilers, its placement and its pipeline

MindProx builds *proxies*: small synthetic programs whose instruction mix,
branches and memory behaviour follow those of a real workload. This directory
holds specifications of its code, the TLC configurations that check them on
small instances, and proofs checked by TLAPS that hold for every value of the
parameters. Source paths are relative to the root of the repository.

## The system

| component | state it keeps | operations | what makes it correct |
|---|---|---|---|
| **HALO** `memory_profiler/proxy_rand_reuse_delta_v4.cpp` | per-macroblock history, LRU list and reuse distances, delta tables, hand-kept weights, what has been generated | record an access, close a phase, generate an access by one of eleven cases, clear | statistics match their definitions; accesses are drawn from them without replacement; its assertions hold; its retry loops end |
| **Pipeline driver** `MindProx.py` | files on disk, child processes | one function per stage; each truncates its output and starts a process, mostly without waiting | a stage reads what the stage before it has finished writing |
| **Linked-list placement** `memory_profiler/trace2ll.py` | nodes, map of locations, stress, worker processes | add, move, optimise, cull, audit; `parallelize_func_calls` | `audit` never fails; the parallel run ends with every result or an error |
| **Region converter** `trace_to_log_converter.cpp`, `ll_json_creator.py`, `clean_trace.py` | counts per macroblock, one trace per region | count, choose regions, split | every access lands in exactly one region |
| **PIN profilers** `core_profiler/pin_tools`, `pin_replay_tools` | global counters and maps per branch, stride, register | callbacks per instruction or basic block, report per interval | totals are the sums of what was executed, with several threads too |
| **Collection scripts** `mkJSON_both*.sh`, `perf.sh`, `profile_pinballs.py`, `imix_new.py` | files in a shared working directory | run SDE/PIN, move and convert | a run collects its own files |
| **Code generator** `proxy_generator/*.py` | a basic-block graph and its annotations | build blocks, assign branches, registers, memory walks, emit C | the program follows the profile |
| helpers, obsolete versions, vendored workloads, collected data | – | – | not modelled |

They interact through files only: HALO's `halo_out` feeds the region converter,
its `log_scale_out` feeds `ll_json_creator.py`, its `ll_in.json` feeds
`trace2ll.py`, and the resulting lists together with the JSON made from the PIN
profiles feed the code generator. `MindProx.py` starts each of these programs.

What is hard differs from part to part. HALO and the placement have one thread;
their hazards are long interactions: four statistics consumed by eleven random
cases, nodes that are moved, exchanged and put back thousands of times while
their stress and a dictionary are only ever adjusted. The parallel run is about
bounded pipes and the order in which a parent polls them; the profilers about
counts cleared at different moments, and about threads; the converter about two
readers of one file that must agree; the driver about processes left behind.

The hard behaviours of the whole system, with their lines and the properties
that cover them, are the `hazards` of `PROJECT.json`.

## Modules

| module | models | composes |
|---|---|---|
| `DeltaTables` | HALO's delta tables, pure operators | |
| `HaloLocality` | HALO | `DeltaTables`; implements `HaloBudget` |
| `HaloBudget` | what HALO promises: a draw without replacement | |
| `LogStrides` | strides and their magnitudes, pure operators | |
| `TraceCulling` | `Trace.cull` | `LogStrides` |
| `Placement` | where `LLNode.__init__` puts a node, moves, `flatten`; pure operators | `LogStrides` |
| `ListMaking` | `Trace.make_list` | `TraceCulling`, `Placement` |
| `LinkedList` | `optimize`, its cleanup and `audit`: a trace from beginning to end | `ListMaking` |
| `ParallelCalls` | `parallelize_func_calls`, `wrap_mp_stdout` | implements `ParallelRun` |
| `ParallelRun` | what the parallel run promises | |
| `Regions` | `trace_to_log_converter.cpp`, `ll_json_creator.py` | |
| `BranchIntervals` | the pin tool `st-branchconfigs-mj-v5.cpp` | |
| `BranchCorrelation` | the pin tool `branchconfigs-correlation.cpp` | implements `BranchLookback` |
| `BranchLookback` | the shift register that the ring of outcomes replaced | |
| `BranchThreads` | the pin tool `branchconfigs-local.cpp` in several threads | |
| `Profilers` | a program under the three tools | the three |
| `Pipeline` | `MindProx.py` and the files of its steps | |
| `SumTheorems` | theorems: what a sum over a finite set is | |
| `HaloProofs` | theorems about `HaloLocality`: types, the list, counts, what is left, what a macroblock goes on from | `SumTheorems` |
| `HaloRecordProofs` | theorems about `HaloLocality`: what is recorded of a phase and generated again | `HaloProofs` |
| `ListProofs` | theorems about `LogStrides`, `Placement`, `TraceCulling`, `ListMaking` and `LinkedList` | `SumTheorems` |
| `ParallelProofs` | theorems about `ParallelCalls` | |
| `RegionProofs` | theorems about `Regions` | `SumTheorems` |
| `ProfilerProofs` | theorems about `Profilers` and the three tools in it | `SumTheorems` |
| `PipelineProofs` | theorems about `Pipeline` | `SumTheorems` |
| `MC...` | instances for TLC | |

Operators named `..._<word>` after a mapped one and introduced by "Mutant:" are plausible bugs of
that operator; each is used to show that a property would notice it. `map` in `PROJECT.json` gives
the lines of every definition.

### HALO

Line numbers in this section are those of `memory_profiler/proxy_rand_reuse_delta_v4.cpp`.

`DeltaTables` - the classes `DELTA_ENTRY` and `DELTA_TABLES`: pure operators for
recording the deltas that followed a history (`update_tables`), for closing a
phase (`manage_cascaded_tables`) and for drawing a delta (`get_rand_delta`,
`get_forced_delta`, `update_proxy`). The code has one map per history length,
keyed by a string; the model has one function from histories (sequences of
deltas) to entries. Drawing operators return the *set* of what `rand()` can make
of an entry.

`HaloLocality` - `MACRO_BLOCK_LOC`, `LOCALITY_MJ` and `main`. The variables have
the names of the source. `unique_MB_reuse` stands for the two parallel vectors
`unique_MB_reuse` and `unique_MB_reuse_ct`; the `mb_list` and the `pgen_`
statistics, only printed, are left out. The control state `pc` says where the
generator is:

| `pc` | code | leaves by |
|---|---|---|
| `profile` | `main` reads a line (1997-2034) | `ReadElement`, `EndOfTrace` |
| `prepare` | end of a phase (2021-2032) | `Prepare` (`print_locality_info`, which cascades the tables, and `prep4proxygen`) |
| `next` | head of the loop (1251) | `InitAccess` (case 1), `PickReuse`, `PhaseClear` |
| `new`, `grow` | 1310-1383, 1440-1511 | `PickFresh` (2, 5), `PickEvicted` (3, 6), `GiveUp` |
| `lower` | 1384-1439 | `PickLower` (4) |
| `fallback` | 1513-1677 | `FallbackFresh` (7), `FallbackHigher` (8), `FallbackMiss` |
| `forced` | 1678-1818 | `ForceMaxReuse` (9), `ForceOnList` (10), `ForceVisited` (11) |
| `commit` | 1821-1951 | `Commit` |
| `done`, `abort` | return, failed `assert()` | – |

An assertion that fails is a step to `abort` that records the line in
`assert_failed`; the properties about assertions read that variable. The
program has one thread, so an action is as large as it can be without hiding a
random choice or a loop: one access recorded, one try of a retry loop, one
access output.

`HaloBudget` - the abstract specification: in every phase the generator outputs
`PHASE_LEN / 5` accesses, drawn without replacement from those profiled in that
phase. `HaloLocality` instantiates it as `Budget`, with `num_accesses` for the
budget of a macroblock, and is checked to implement it (`DrawsWithoutReplacement`).

`MCHalo` - small traces for TLC. `HaloProofs`, `HaloRecordProofs` - the theorems.

### Linked-list placement (`memory_profiler/trace2ll.py`)

Three records stand for the objects of a list: `t` for the nodes and their links, `m` for what a
move changes (`location`, `nodes_by_location` as `at`, `stress`, `global_stress`), `c` for what only
placement uses. `phase` says where the trace is:

| `phase` | code | leaves by |
|---|---|---|
| `raw`, `culling` | `cull`, 668-801, a stride at a time | `CullByParameters`, `KeepStride`, `CullStride`, `EndCull` |
| `culled`, `listing` | `make_list`, 807-854, a node at a time | `NewList`, `AddNode`, `Accept`, `Prune` (which culls again) |
| `made`, `pass` | `optimize`, 422-481 | `BeginOptimize`, `BeginPass` |
| `node`, `try`, `take back` | 484-540, a trial at a time | `Skip`, `Consider`, `Try`, `TakeBack`, `MoveNode`, `EndPass` |
| `cleanup`, `optimized` | 586-612, `audit` 871-919 | `Cleanup`, `Audit` |
| `done`, `abort`, `assertion`, `IndexError` | the end: audited, `sys.exit`, a failed assertion, an exception | - |

Fractions are kept exactly: the lead of a trace in eighths of an entry (a stride has whole bytes and an
entry eight), ratios in percent, `threshold * 0.98` by integer division. The correlation of pandas is
written out. Whether progress is "marginal", a comparison of floating-point means, is left open from the
pass on in which the code can first say so. The range of displacements is as asymmetric as the code has
it (314-315). `audit` fills no set of visited locations, so the model's does not either.

### The parallel run (the same file, lines 56-129)

The parent's variables are the locals of `parallelize_func_calls`; `pc` names the loop it is in. A
worker is its `wpc`: the function runs, its result is put, the feeder thread of the queue writes it
piece by piece under the queue's lock, the process flushes its stdout and exits. Output is counted in
chunks, and `Ends` says which end a line; the stdout of a worker is a pipe and therefore block-buffered,
so that what the function prints last is written when the process exits. `poll()` sees the pipe and not
what `readline()` has already taken into its buffer. `readline()` waits for the end of a line, `get()`
for the rest of a message, and Python's exit for the processes that are left: these are the places
where everyone may wait for everyone. Two of them are named, `WaitsForLine` (88) and `WaitsForWorker` (108), and the
program may stay in them. Assumed is that the feeder thread can pickle every result: one that it cannot is dropped
with a traceback while its worker exits well, and the parent would then come to line 125.

### Region converter

One variable per container of the C++ code. `HALO` is the flag that a third argument of the command line clears. `last_addr` has
one element more than the array, for what the code reads and writes behind it; the first value there is any
of `Beyond`. The choice among macroblocks of equal count is `std::sort`'s, thus open. `Line` is what ends up
in one line of output when regions are empty, and `Readable` what Python's `int()` makes of it.
`get_reg_traces` ends without `return`, so that what follows the last line end may be lost.

### PIN profilers

An action is one analysis call. In `Profilers` a program of one thread is seen by two tools at once: the tool
for intervals counts instructions before it sees the branch they are, and counts a basic block at any
of its instructions, as `IPOINT_ANYWHERE` allows. Left out of `BranchIntervals` are the counts of unconditional
branches and of blocks and the buckets made of them, which are counted at the same places and copied, reset and
written with the others.

A program of several threads is seen by `BranchThreads`. The steps of `record_branch_transitions` are those between
which another thread can be seen (`at`):

| `at` | code (`branchconfigs-local.cpp`) | leaves by |
|---|---|---|
| `running` | before 155 | `Find` (`find`), `Crash` |
| `found`, `struct`, `count` | 159-161, 125-127 | `LoadStruct` (`iter->second`), `ReadTotal`, `WriteTotal` |
| `insert` | 163-168: a new `BranchStruct`, counted; `operator[]` searches | `Insert`, `Crash` |
| `linking` | 168: `operator[]` adds a node, with a null pointer | `Link`, `Crash` |
| `assign` | 168: the pointer is written into the node | `Assign` |
| `recorded`, `finish` | 186, the global count | `ReadGlobal`, `WriteGlobal` |

So a thread increments the struct whose pointer it has loaded, which another may have replaced in the map since;
two threads may both insert a branch, into one node or into two; and one that finds a node before its assignment
dereferences null. Of a `std::map` that several threads change there is no definition in C++; what the model takes
of it is this: nodes are never erased, so they stay allocated; a search compares keys, so what it finds is a node of
its key; while another thread links a node, and for ever after two have linked at once (`torn`), a search may miss a
node that is there, or crash. A search that never ends is a thread that takes no more steps. The counts of taken
branches and transitions are incremented like `total_count` and left out.

### Pipeline

Of a file the model keeps how good it is: absent, cut off while it is written, made of poor input, of an earlier
experiment, or new. A process reads its inputs, then writes its output; what it makes of a cut file is poor, or
nothing. A step that writes through stdout has truncated the file when it is started. `trim` is the script's own loop
and `perf_proxy` waits; all others are left behind. The user is part of the model: the script is invoked again when
everything from the last time has ended.

### What is abstracted in HALO

* Addresses are small natural numbers and `>> MACROBLOCK_SIZE_BITS` is a division by
  `MACROBLOCK_SIZE`. Unsigned 64-bit wrap of an address is not modelled.
* `rand()` is a nondeterministic choice. `roulette` keeps which outcomes
  `rand() % 100` can select with the rounded-down cumulative percentages, because
  an index of small weight can have none.
* The retry loops of 500, 1000 and 10000 tries may miss (`GiveUp`, `FallbackMiss`, `ForceMaxReuse`, `MayMiss`):
  nothing bounds how often a wrong index is drawn. For the 10000 tries of case 9, uniform over the macroblocks, that
  is the `assert(0)` at 1716 by bad luck: one macroblock left to find among 4096 is missed with a probability of 9 %.
* `temp_reuse` is also overwritten in case 10, where its value is never read again;
  the model leaves it.
* `update_proxy` (248-257) is declared to return a value and returns none; no caller
  uses it, and it is modelled as returning normally.
* `most_freq_foll` is set by `print_entry` for valid entries only; the model sets it for all,
  and only valid ones are drawn from.
* `HaloAssumption` states what the values of lines 20-29 satisfy: `MAX_INIT_ELEMS < PHASE_LEN`,
  and `PHASE_LEN / 5` at most 95 % of `PHASE_LEN - 10`, which makes the early exit of
  case 11 (taken near the end of a phase only) unreachable: a miss there always asserts.

## Runs

| run | instance | what it asks |
|---|---|---|
| `halo_phases` | list of 2, phases of 20, two phases and the beginning of a third, three blocks | are the statistics what they are defined to be, in every phase; does the generator implement `HaloBudget`, and always have an access to draw; does it end |
| `halo_blocks` | list of 3 (no evictions), phases of 30 | do the statistics and assertions survive blocks and distances being used up |
| `halo_evict` | list of 1, prefix of 3, phases of 40 | the same with macroblocks leaving the list and coming back, and with a replayed prefix |
| `halo_replay_abort`, `halo_forced_abort`, `halo_stuck_abort` | list of 1 | findings 1, 2 and 3 |
| `trace_lists` | some 4700 traces of up to seven strides, of four kinds | is the trace that is left what the culling promises, is every list consistent, and does `audit` accept it |
| `parallel_calls` | three calls, two processes, a pipe of two chunks and a queue of three pieces | does the run return everything, show everything, and where may it stop |
| `regions` | two regions, all files of up to five lines | do both readers agree; does the JSON file hold what was dealt out |
| `profilers` | two branches, intervals of two instructions, a ring of two; two threads | do the tools' counts say what was executed |
| `threads_race` | two threads, two branches | finding 3 |
| `pipeline_steps` | three workloads, with a new trace, an old one and none; thirteen invocations | which files are as if each step had been waited for; what does not end |

### HALO

The shipped values are `MAX_DELTA = 7`, macroblocks of 4096 bytes, a list of 4096
macroblocks, phases of 100000 accesses and a prefix of 30. The runs shrink all of
them by the same idea: a macroblock has two addresses, so deltas are 0, 1 and -1;
histories have one or two deltas, enough for the tables to cascade and for
a history to lose its oldest element. A phase is a run over block 0 with short
visits of blocks 1 and 2, whose few accesses the fifth of the phase can use up.

Between them the passing runs take every action; `PickEvicted` needs evictions, cases 7, 8
and 10 need distances that are used up. A list of 1 to 3 macroblocks is enough for the three regimes that differ in
the code: no macroblock ever leaves, some do, all but one do.

The properties, and what could break them:

* `ReuseIsDistinctBlocksBetween`: the reuse distances, computed incrementally on a
  bounded list, equal their definition (distinct other blocks since the last touch).
* `TablesCountFollowers`: the tables hold, for every history up to `MAX_DELTA`, exactly what
  followed it in the phase.
* `CascadeKeepsPredictions`: dropping histories loses no prediction that a longer or
  shorter recorded suffix made.
* `DrawsWithoutReplacement`, `BudgetConserved`, `EnoughAccessesLeft`: what is left and what was generated
  add up to what the trace holds, and last for the share of the phase.
* `EndsEventually`: the nested retry loops end and so does the program.
* `WeightsInSync`: the hand-kept copies of the counts stay equal to them.
* `ListSound`, `NewBlocksFunded`: the list, and the accesses at the maximal distance
  against the blocks that are still new.
* `VisitedCanGoOn`, `AccessConsistent`: a generated block always has something to go
  on from, and no access is output outside its block.
* one property per family of assertions: `ReplayStaysInBlock` (935), `PrefixMeetsRecord` (1282),
  `ReinitSucceeds` (1090, 1100, 1149), `NeverStuck` (1803), `NewBlocksAreFirst` (422, 1334, 1839), `NothingRunsOut`
  (570, 1272, 1884, 1924). Of 1716, which bad luck can always reach, `NewBlockAvailable` says that its tries
  have a macroblock to find.

`NewBlocksFunded` is stated for a list that holds every macroblock, and as a bound: an unlucky `GiveUp` followed
by the repetition of a last address at the maximal distance (line 1627) spends that distance on a block that is not new.

### Lists

The shipped search range is 1024 locations, a cluster may drift by 4096, and a search has 500 passes. The run
has a range of 1, a drift of 3 and a gap of 2, so that lists of six nodes run out of places and begin
clusters on both sides; three passes are enough for an aggressive one, one that is not, and a marginal
one; the first threshold lets a move make things worse. The traces are of four kinds
(`MCTraces`): with strides of both signs, none, less than an entry and of neighbouring magnitudes, culled by
ratio or by a minimal stride; dense ones; ones worth optimizing; and ones that go back and forth and are
pruned until their lists are good.

* `StandsForOriginal`: whatever is culled, however often, the trace that is left spans what the original did, up to a
  delta that is known exactly; kept strides keep their sign and magnitude; nothing is lost from the count.
* `CullsEvenly`: rounded quotas, stride by stride, culling the smallest first and spreading each size evenly.
* `FollowsTrace`: the list is that of the strides left after pruning, and the drift that is kept allows a new cluster
  to begin in step with the trace.
* `ListSound`: locations and their dictionary are inverse, each stress and their sum are what a
  recomputation gives, links are in order, in both forms of a list.
* `TrialLeavesNoTrace`, `AcceptsWithinThreshold`: a tried move is undone completely, an exchange included, and the move
  that is made in the end is within the threshold of standing still, although it was judged on another state.
* `NeverAborts`: neither an assertion of `cull` or of `LLNode`, nor the cleanup, nor `audit` ends the program.

### Parallel run

Sizes are chosen for the places where the code can wait. The first and the third call have results larger than the
queue's pipe, all have more output than their pipes hold; the third has written half a line when its function returns
and the rest of it only at its exit; the first may raise at any moment. With three calls on two processes one starts
only when another has been reaped.

* `ShowsAllOutput`: lines are printed whole, and when the call returns all of them have been.
* `NothingMissing`: the exit at line 125 is never taken.
* `ReturnsAllOrFails`: the refinement of `ParallelRun`.
* `EndsOrWaits`: under the fairness below, the run ends or is caught in `WaitsForLine` or `WaitsForWorker`. Both are
  reached, each in all its forms: the worker whose line is half read is the one that fills the queue, or waits for the
  lock of one that does; the worker that is joined waits for room in the queue or in its own pipe. What the property
  excludes is every other wait, in particular any while poll finds no half line and no call has failed.

### Regions

Four macroblocks for two regions, so that there is an overflow region, and files with fewer, so that `resize()` pads
with macroblock 0; an int of four bits, which the widest stride does not fit in.

* `OverflowCounted`: what the first reader reports for the overflow is what the second puts there, except for head
  lines, and no other choice of regions would leave less. `StridesReplay`: each region's strides lead from each of its
  accesses to the next. The addresses of the run satisfy `ZeroIsAlone`, see the remarks. `JsonIsRegions`: the file
  holds each region's strides under its label, and is always made when there are more macroblocks than regions.

### Profilers

Five instructions in blocks of up to two, with intervals that end in a block and at its beginning; a ring of two outcomes
wraps twice; three branches in each of two threads.

* `BranchCountsExact`: each branch's counts are those of its own executions, the totals are their sums, and the other
  tool, with its own dictionary, agrees. `RingIsRegister`: the refinement of `BranchLookback`.
* `IntervalsAddUp`: intervals and what is open make up the totals, each branch is in a bucket, and an interval is off by
  less than a block at each end.
* `RacesOnlyLose`: threads lose counts, by writing back an old one, by counting in a `BranchStruct` that has been
  replaced and by inserting a branch twice; but no count ever exceeds the executions of its branch
  (`NeverOvercounts`), no node keeps a null pointer for `emit_stats` (236) to follow (`NoneIsNull`), and as long as no
  thread has entered the tool with another in it nothing is lost (`ExactOneByOne`).

### Pipeline

Three workloads: one with a new pinball and trace, one with the trimmed trace of an earlier experiment only, one with
nothing. The first nine invocations have one step left behind at a time, or with steps that wait, as `main` is
committed. Then come those that race: the group of the tutorial (551-554), in which each of `log_convert`,
`make_ll_json` and `make_linked_list` reads what the one before has been started to write; `perf_proxy` on a proxy
that `compile_proxy` may not have written; `make_JSON` of two workloads with one `sde-mix-out.txt`.

* `AsIfWaited`: when the processes of an invocation have ended, the files are `Waited`, what the steps make one after
  the other in the order of the script, except where `Waited` is "any". It is "any" of what a step makes that runs at
  the same time as one that writes a file it works with, or that shares `sde-mix-out.txt` with it (`Disturbed`), and of
  what is made of that later, until a step that is undisturbed makes it anew from known files. The property bounds
  what a race can spoil: for instance not another workload's files, nor a file that no racing step writes.
* `EndsOrLacksTrace`: all steps end, except `halo_trace` and `log_convert` (`while(!eof())`) if the file they read may
  be missing. The last invocation has one that is, and the processes that hang are the ones the property names.

## Fairness

HALO: `FairSpec` has weak fairness of `Step`, nothing finer: one thread that
never blocks keeps taking steps. In particular no fairness is assumed of `rand()`;
`EndsEventually` holds because every path from drawing a distance leads, within
a bounded number of moves, to an access or a failed assertion. The one loop that can repeat,
`PickEvicted` going back to its own state after cutting a history short, makes
the macroblock's history one for which a delta can then be drawn.

The parallel run: weak fairness of the parent and of each worker, processes that the operating system
schedules. No fairness is assumed of where output is cut or which worker gets the lock.

The pipeline: weak fairness of each process and of the script, whose user comes back.

## Findings

The first three are about `memory_profiler/proxy_rand_reuse_delta_v4.cpp`.

1. *Assertion 935 can fail* (`halo_replay_abort`). The forced case 9 (1691-1709)
   puts a macroblock back at its first address but, unlike `reinit_first_addr`,
   does not restore `first_N_deltas`. If some had been replayed already, the
   rest is replayed from the wrong address and can leave the macroblock:
   `assert((tA >> MACROBLOCK_SIZE_BITS) == temp_mb)`. It needs an eviction; with
   a list that holds every block (`halo_blocks`) it does not happen.
2. *The `assert(0)` at 1716 is reachable* (`halo_forced_abort`). Accesses at the maximal
   reuse distance may be left when every macroblock off the list is used up, because
   with evictions that distance counts returning blocks too. The 10000 tries are then made with nothing to find, and
   the assert is the only step that follows. It needs no unlucky miss of a retry loop: these runs use `PatientSpec`,
   in which a loop gives up only when there is nothing to find.
3. *The `assert(0)` at 1803 is reachable* (`halo_stuck_abort`). Reuse distances and macroblocks run out separately.
   Two short blocks, generated alternately through a list of one, use up the maximal distance together with their
   accesses; the block that has accesses left has never been generated, and the distance that would admit it is spent.
4. *Counts are lost between threads* (`threads_race`). The header of `branchconfigs-local.cpp` says "Handles an
   arbitrary number of threads using TLS for data storage and avoids locking" (35-36), but the map and the counters are
   globals that every thread searches, changes and increments. Two threads that execute a new branch both insert it: one
   `BranchStruct` replaces the other, with its count. Two increments at the same time count as one.

### Remarks

Behaviour of the code that the models have and the runs avoid by their constants, where it can be seen by changing
them; or that is in the runs and excepted by their properties.

* *A half line stops the parallel run* (`trace2ll.py:87-88`), in `parallel_calls`. The parent waits in `readline()` for
  the end of a line, the worker for the parent to take a result from the queue. The comment at 87 ("causes readline to
  block indefinitely for some reason") has met this wait; polling once per round does not rule it out.
* *A failed worker leaves the program hanging* (`trace2ll.py:108`), in `parallel_calls`. The exit joins the other workers
  while nobody reads the queue or their output.

* *Two calls that fail.* In `parallel_calls` one call may fail. A worker that has raised is modelled as ending with any
  part of its output written; with two of them, and more unread output than a pipe holds, the second would wait in its
  exit for a parent that joins it.
* *A list that is never good* (`trace2ll.py:849`). A tenth of up to four strides rounds to none: a trace of four that goes
  back and forth is laid out and rejected for ever.
* *Culling everything* (`trace2ll.py:790`). Parameters that ask for every stride end in an `IndexError`
  (`phase = "IndexError"`): the smallest remaining stride is looked up.
* *An address 0* (`trace_to_log_converter.cpp:185`) is taken for "no last address" of its region. `StridesReplay` fails for
  a trace that goes from address 0 to another of the same macroblock; `ZeroIsAlone` excludes it.
* *The overflow region's first stride* (`trace_to_log_converter.cpp:186`) is taken from what lies behind
  `last_addr`, if that is not 0; `StridesReplay` is therefore stated of the regions proper.
* *Head lines* are skipped when counting (60) and dealt out as accesses at address 0 when splitting.
* *Few macroblocks*: with no more than `NUM_REG`, a region stays empty, the labels of two regions share a line, and
  `ll_json_creator.py` fails.
* *The tutorial's steps* (`MindProx.py:551-554`), uncommented together, read files that are not written yet; and
  `make_JSON` for several names at once mixes up `sde-mix-out.txt`: in `pipeline_steps`.
* The error paths at 597 and 608 of `trace2ll.py` name `node.id`, which does not exist: they would raise instead of printing.

## Proofs

Every safety property of a passing run is a theorem. Each holds for every value of the constants that satisfies the
named assumptions of the module:

* `DeltaAssumption`, `HaloAssumption` (above);
* `InputsAssumption`, `PlacementAssumption`, `LinkedListAssumption`: strides are integers, parameters natural numbers, a
  gap, the number of passes and the length of the history positive;
* `CallsAssumption`: there is a call, a process, room in pipe and queue;
* `RegionsAssumption`: an int has an even number of values, at least two macroblocks' worth (2^32 and 2^12 in the code);
* `ProfilersAssumption`: finitely many branches and threads, positive lengths;
* `PipelineAssumption`: finitely many workloads, invocations that do something and no job twice, and no file that is
  cut to begin with.

A further hypothesis stands in the theorem itself, and is one that the code does not see to: `MAX_DELTA > 1`, a phase
with few macroblocks, `ZeroIsAlone`, and `Independent` (of `IndependentStepsAreExact` only). The runs have instances of
the first three, `MCRegions` lets TLC evaluate `ZeroIsAlone`, and the first nine invocations of `pipeline_steps` are as
`Independent` wants them.

### Sums (`SumTheorems`)

Many counts of this code are sums: accesses over macroblocks or distances, branches over a dictionary, threads or
intervals. The community modules define a sum by recursion over subsets, and the provers cannot do an induction whose
hypothesis is an operator. The theorems (`SumEmpty`, `SumAdd`, `SumRemove`, `SumChange`, `SumMonotone`, `SumOfParts`,
...) therefore argue by the smallest counterexample: among finite sets for which an equation fails there is one
without a proper subset among them (`SmallestSet`, from the well-foundedness of the subset ordering). That the
function chosen by the recursion exists at all, and does not depend on the order of elements, is proved in the same
way.

### HALO: its state (`HaloProofs`)

* `Invariance`: `Spec => []IInv`
* `TypeCorrect`: `Spec => []TypeOK`
* `ListStaysSound`: `Spec => []ListSound`
* `FirstAccessAsserts`: `Spec => []NewBlocksAreFirst`

None of the last three is inductive. To know that an action may look a macroblock up, one needs
`RecordInv`: whatever leads to a macroblock (the list, `unique_mbs`, the first addresses, `new_MBs`)
leads to a recorded one. `TablesInv` says that the entries of the tables can be drawn from. That
the list holds generated macroblocks only (`ListInv`) needs that an access to be output comes from a
generated macroblock or is at the maximal distance (`ChosenInv`), which is what
assertion 1839 says. Assertions 422 and 1334 need `TouchInv`: a macroblock not in `new_MBs`, and not
about to be, is unmarked and has all its first deltas, and during the prefix the converse.
`ControlInv` ties the control state to the counters (case 1 runs during the prefix
only, the others after it). The proof has one lemma per action, resting on lemmas
about the operators: `PositionOnList` and `UpdatedList` (the LRU list), `PushedHistory`
and `SuffixOfHistory`, `AccessedBlock`, `OutputBlock` and `ReinitBlock` (one
macroblock), `UpdatedTables`, `DrawnTables` and `CascadedTables`, `DrawnDelta` (what is drawn is an
integer, which needs the finite sets of followers to have least elements).

What HALO counts:

* `WeightsStayInSync`: `Spec => []WeightsInSync`
* `AccessesAreConserved`: `Spec => []BudgetConserved`
* `ImplementsBudget`: `Spec => DrawsWithoutReplacement`

All three rest on one division of the steps. Every step that selects an access is `Quiet`: whichever of the eleven
cases it belongs to, it leaves each number of accesses, weight and distance alone (`SelectIsQuiet`). What `Commit`
counts is `Counted`, one access of one macroblock at one distance (`CommitCounts`). `BudgetConserved` is made
inductive by `CountInv`, which adds that a phase is only generated when a whole number of phases has been read;
reading extends the phase by one index (`ReadExtendsPhase`). In the refinement reading is `Count`, a `Counted` step is
`Draw`, and the others stutter, clear the phase or end the program (`NextIsBudget`).

What a macroblock can go on from, evictions included:

* `AccessesStayConsistent`: `Spec => []AccessConsistent`
* `VisitedAlwaysGoOn`: `Spec => []VisitedCanGoOn`
* `ReinitNeverFails`: `Spec => []ReinitSucceeds`, the assertions 1090, 1100 and 1149

`HistoryInv` says that the first address of a macroblock and the one after it lie in it (`HomeInv`); that
only a macroblock of a single access has no first deltas (`OnceInv`, which needs that accesses are conserved);
and that a generated macroblock with accesses left has deltas to replay or a history, or is just about to get
one (`GoOnInv`). So what is replayed or drawn can always be tried again from the first address,
which is what `reinit_MB_delta` asserts. By contrast assertions 935, 1716 and 1803 can fail (findings 1 to 3).

What is left:

* `NothingEverRunsOut`: `Spec => []NothingRunsOut`, the assertions 570, 1272, 1884 and 1924
* `AccessesAreLeft`: `Spec => []EnoughAccessesLeft`

`FundInv` follows two sums through the phase (`SumsInv`): the accesses left over all macroblocks are those read less
those generated, and the distances left are at least that many, because a distance that is spent costs
nothing more. A fifth of a phase is generated, so neither sum reaches zero, and there is always something of a
positive weight to draw. For the prefix, `PrefixInv` says that what is left of the first addresses is the
rest of the beginning of the trace and that, until they are used up, each macroblock has been generated as often
as it was touched there, hence has the next access left.

### HALO: what it records (`HaloRecordProofs`)

* `ReuseIsMeasured`: `Spec => []ReuseIsDistinctBlocksBetween`. `ReuseInv` relates the list to the trace: the
  macroblock at a position has been followed by exactly those before it (`Stacked`), and one that is not on the list was
  pushed out by a full list of others (`ListedOrOut`). A position is then a number of distinct macroblocks, as the distance is.
* `PredictionsAreKept`: `Spec => []CascadeKeepsPredictions`. While recording, every suffix of a recorded history is recorded
  with its followers and maybe more (`Closed`). The longest kept suffix exists since suffixes of one delta are always
  kept, and a longer one that is dropped has, at the next shorter length, one with the same followers and the same
  certainty (`Cascaded`).
* `NewBlocksStayFunded`: `Spec => []NewBlocksFunded`
* `NewBlocksAreThere`, `ReplayStays`: in a phase that has no more macroblocks than the list holds, `NewBlockAvailable`
  (what the tries before 1716 need) and `ReplayStaysInBlock` (935). The hypothesis cannot be spared: findings 1 and 2
  are the phases that do not satisfy it.

  With such a list, those touched or generated are all on it (`FewInv`), so that the maximal distance is for new
  macroblocks and case 9 only ever takes one that has all its first deltas. That the first deltas lead from address to
  address within the macroblock is `FitInv`, with the path they lead along as a witness.
* `RecordIsMet`: `MAX_DELTA > 1 => (Spec => []PrefixMeetsRecord)`. While the first addresses of a phase are replayed,
  a macroblock must stay where the record has it; but after each access `reinit_MB_delta` looks for something to go on
  with, and starts the macroblock over from its first address if the tables have nothing. The next address would then
  not be at the recorded delta, and 1282 would fail. The invariant (`RecordedInv`) has as a witness the addresses of
  each macroblock in the order of the phase: together they give the trace (`InOrder`), what followed each history they
  make is counted in the tables (`Tabled`), and the history and the first deltas left of each macroblock are those at
  the place the replay has reached (`WhileReplaying`). A count is taken only by what is drawn from the tables, which
  the replay does not do; a suffix of the history that cascading has kept still leads on (`HistoryContinues`), so
  nothing is started over (`ReinitKeepsAll`). The hypothesis is needed: cascading drops histories of one delta that
  leave the next one open, and with `MAX_DELTA = 1` there are no others. The shipped value is 7.
* `FollowersAreCounted`: `Spec => []TablesCountFollowers`. The same witness, for the part of the phase that has been read
  (`FollowInv`): one more access of a macroblock is one more delta of its, which adds one occurrence to each history that
  ends before it, as `update_tables` does for each length. The definition picks a macroblock's addresses out of
  the trace by `SelectSeq`; that the witness is what it picks is shown by the rank of each access among those of its
  macroblock.

### Lists (`ListProofs`)

For every trace, every parameter of the command line, every range, drift, gap, threshold and number of passes:

* `ListInvariant`: `Spec => []ListInv`
* `CulledStandsForOriginal`: `Spec => []StandsForOriginal`
* `CullingIsEven`: `Spec => []CullsEvenly`
* `ListFollowsTrace`: `Spec => []FollowsTrace`
* `ListStaysSound`: `Spec => []ListSound`
* `TrialsAreUndone`: `Spec => []TrialLeavesNoTrace`
* `MovesWithinThreshold`: `Spec => AcceptsWithinThreshold`
* `ListNeverAborts`: `Spec => []NeverAborts`

The first lemmas are about the operators: that `Pow2` is the function its recursion describes and `Log2` its inverse
(`Pow2IsPower`, `Log2Unique`), that a stride of a magnitude has that magnitude (`NewStrideSound`), and that rounding
to a quota step by step takes the quota in the end (`RoundedSteps`).

*Culling.* `CullInv` says of every moment of a round what the code says of its end. `DeltaIsLead`: the difference that
`stride_delta` holds is that between the bytes of the strides left and of the original. `NothingLost`: strides left
and strides culled are those there were, size by size. `RoundOK`: of each size, what has been culled is the rounded
share of those met so far (`RoundStep`); at the end of the round all have been met. What `CullsEvenly` says of the
whole round follows by counting (`CountNext`, `CountAll`).

*A sound layout.* `SoundLayout` says that locations and `nodes_by_location` are inverse, that the kept stress of each
node is what a recomputation gives, and that `global_stress` is their sum. Each operator keeps it: a shift to a free
location and an exchange of two nodes, also of neighbours, whose stresses change each other's (`ShiftSound`,
`SwapSound`, `MoveSound`), and a new node, whose location is free whichever side it is put on (`InitLocationFree`,
`WithNodeSound`). The sum stays right because the code updates exactly the nodes whose neighbourhood changed
(`UpdateExact`, `SetExact`).

*Undone trials.* Locations determine everything else in a sound layout (`LocationsDetermine`), so a trial is undone when
its locations are (`MoveBack`): also when the move was an exchange. Hence `m = before` whenever a trial is not under way, and
what was judged was judged on the list that the move is made on (`BestMove`), which gives `MovesWithinThreshold`.

*No abort.* The cleanup moves the list as a whole, so that every node is as far from the one before it as it was
(`LoweredSound`), and its lowest location is then 0 (`LoweredToZero`); the walk of `audit` along the links meets each
node once and at its location (`HopsInOrder`, `AuditPasses`).

### The parallel run (`ParallelProofs`)

For any number of calls and processes, any output, any sizes of results and pipes:

* `Invariance`: `Spec => []IInv`
* `TypeCorrect`: `Spec => []TypeOK`
* `NothingIsMissing`: `Spec => []NothingMissing`
* `AllOutputIsShown`: `Spec => []ShowsAllOutput`
* `ImplementsParallelRun`: `Spec => ReturnsAllOrFails`

That nothing is missing rests on an argument over three places: a worker that has exited has sent all of its
message (`MessageInv`), the queue holds exactly what has been sent and not received, each message in order
(`QueueInv`), and the loop at 116 is entered only when every worker has been reaped with exit code 0 (`ControlInv`). So a
result that is not in `ret_data` has a piece in the queue, and `get` finds it. The refinement follows
from the same invariant: the parent fails only after a call has, and returns only with everything.

For the output, `OutputInv` orders what is shown, read by the parent and written by the worker; a worker
that has been reaped has shown all it wrote, because the parent reads its pipe to the end before it drops it.

### Regions (`RegionProofs`)

For any number of regions, any sizes, and files of any length:

* `RegionsInvariant`: `Spec => []RegionInv`
* `ReadersAgree`: `Spec => []OverflowCounted`
* `JsonHoldsRegions`: `Spec => []JsonIsRegions`
* `StridesReplayAddresses`: `ZeroIsAlone => (Spec => []StridesReplay)`

`RegionInv` says what each reader has: the first the number of lines of each macroblock (`CountInv`); the regions are
chosen macroblocks of highest count, in order, with 0 for those that are missing (`ChosenInv`); the second as many
strides in a region as lines were dealt to it (`DealtInv`). Both readers then count the same lines, and a sum of
counts is the number of lines counted (`SumOfCounts`). That no other choice leaves less is `GreatestSum`: a set of as
many macroblocks none of which has fewer. For the strides, `ReplayInv` says that `last_addr` is the address last dealt
to the region; a stride within a macroblock is less than its size and so survives the conversion to an int
(`StrideInt`, `SameBlock`). An empty region puts its label on the next one's line, so that two regions share a line
exactly if one of them has none of its own; `JsonInv` relates the printed lines to the file.

### Profilers

About each tool by itself, for any finite set of branches, and for the composition, in `ProfilerProofs`:

* `RingStaysARegister`: `Spec => RingIsRegister`, from `RingIsARegister` for every positive
  `BR_HISTORY_LEN`. Looking back `i` from the newest slot after one more outcome is looking back `i - 1` before it
  (`RememberShifts`), which comes down to a sum that is less than twice the modulus (`WrapsAround`).
* `BranchCountsAreExact`: `Spec => []BranchCountsExact`, from `StatsAreExact`. `StatsInv` adds to
  the counts that the last direction kept of a branch is that of its last execution (`LastRemembered`), without which the
  next transition would not be counted rightly. `ToolsAgree` carries the counts over to the other tool's dictionary.
* `IntervalsDoAddUp`: `Spec => []IntervalsAddUp`, from `WhatIsWrittenAddsUp`. `IntervalInv` says that every
  total is its acknowledged part and what the open interval has, that the dictionary of the interval sums to
  what is open, and by how much the temporary count and the blocks that are open can differ (`FillInv`). A ratio is below
  100, since the first execution of a branch is no transition (`BucketsHoldAll`).
* `RacesLoseOnly`: `Spec => []RacesOnlyLose`, from three theorems about `BranchThreads` by itself.
  `NoneIsOvercounted`: a count, and every value that a thread has read and is still to write back incremented, is at most
  the number of executions that have got past counting (`CountInv`), a number that only grows, and grows at the step that
  writes; this is also so of a `BranchStruct` that another has replaced meanwhile, and of a branch whose node was lost.
  `NoneStaysNull`: a node that has no `BranchStruct` yet belongs to a thread that is about to give it one
  (`DictionaryInv`). `ExactUnlessOverlapped`: as long as threads have been in the tool one at a time, each branch has one
  node, and every count is exact but for what the one thread in the tool is about to do (`ExactInv`).

### Pipeline (`PipelineProofs`)

* `StepsAsIfWaited`: `Spec => []AsIfWaited`, for any workloads, files and invocations, those that race included.
* `IndependentStepsAreExact`: `Independent => (Spec => [](idle => files = Waited[...]))`. `Independent` says what a user
  of the script has to see to for nothing to be "any": a step that is left behind neither writes what a later step of the
  same invocation works with, nor reads what one writes, nor shares `sde-mix-out.txt` with one (`IndependentIsKnown`).

`PipelineInv` compares the files with the serial execution of the jobs started so far. A running process is one
of these jobs. If it is `Sure`, undisturbed and with known inputs, what it has done of its job is what the serial
execution does at its place (`RunInv`, `PartDone`): its inputs have not been touched since, because one that runs beside
it and writes them would disturb it (`RunningDisturb`, `ReadsSerial`). Otherwise the serial execution has "any" where it
writes, and the invariant asks nothing of it. A file that no running process writes is as the serial execution leaves
it, or "any" there (`RestInv`); a job that ends hands its file over from `RunInv` to `RestInv` (`EndsAsExpected`), and
later jobs that write it too can only make it "any" (`SerialLater`). `SdeInv` says that `sde-mix-out.txt` is there only
for a process that is going to fetch it. When all processes have ended, `RestInv` is about all files, and the next
invocation begins with them.

### What the proof attempts turned up

* That there is always a macroblock to go on with (1803) had held in every run, and could not be proved: nothing
  relates the distances that are left to the macroblocks that have accesses left. A trace built from the failed
  step is finding 3.
* `NewBlocksFunded` had been stated as an equality, which the repetition at line 1627 breaks; the bound is what 1716 needs.
* `PrefixMeetsRecord`, checked with histories of two deltas, does not hold for histories of one delta.
* `StridesReplay` does not hold for a macroblock that has address 0 and others: see the remarks.
* `AsIfWaited` had been stated of all files, which needs `Independent` for a hypothesis and says nothing of the steps
  that race. It now says itself which files a race reaches, and holds of every invocation.
* That no branch is forgotten does not hold once the insertion into the map is taken apart: a node can be lost for good.
  What does hold is that nothing is counted that was not executed.
* What a step makes (`Made`) had overlapping cases, whose order TLA+ leaves open; it is now an ordered choice.

### Only model-checked

Liveness, which TLAPS does not handle here: `EndsEventually` of `halo_phases`, `EndsOrWaits` of `parallel_calls` and
`EndsOrLacksTrace` of `pipeline_steps`.

## Plan

What a continuation of this project would model next:

1. **Proxy memory**: what `make_header` lays out, and the walk over it that the generated code does.
2. **Code generator**: branch transition patterns and memory walks.

## Not modelled

* The code generator (`proxy_generator`): both plan items. The text it emits, instruction selection and register
  assignment are formatting of tables.
* Of the pin tools: instruction mix, footprint, stride and register profilers, which have the structure of
  `BranchIntervals` with other counters; `pin_replay_tools` holds near copies.
* Of `MindProx.py`: steps that start one external program each and feed nothing that is modelled.
* Of `trace2ll.py`: `make_header`, `make_json` and the plots.
* Plotting and one-shot scripts, obsolete versions, vendored workloads, generated proxies and collected data: they hold
  no logic of the system's own, and are nearly all of the repository's lines (`spec_workloads`, `spec_proxies`,
  `proxy_generator/outputs_regressions`).
