# TLA+ specifications of the SGF skeleton-graph fuzzer

SGF fuzzes concurrent programs under weak memory. Its inputs are not byte
strings but *skeleton execution graphs*: events of the target's threads with
reads-from (RF) and modification-order (MO) edges. A runtime library linked into
the target forces an execution to follow the graph it is given and reports, by
exit status and through shared memory, whether the graph can be instantiated
and which events could come next. The fuzzer mutates graphs, runs them, and
keeps the ones worth fuzzing further.

This directory holds TLA+ modules of the parts that carry this logic, TLC
configurations that check them on small instances, and TLAPS proofs.
`PROJECT.json` is the machine-readable index: the components, which source lines
each definition stands for, the runs with their mutants, the findings, the
hazards, and the theorems.

    tlc -config MCWmm_mp.cfg MCWmmScheduler     # one of the runs below
    tlapm WmmSchedulerProofs.tla                # one of the proof modules

From nothing, `tlapm` takes about a quarter of an hour for each of `QueueProofs` and
`GraphMutatorProofs`, less for the others.

Paths below are relative to `src/SGF/`; `rt/` is short for `src/wmm-runtime/` and
`fz/` for `main/src/`.

## 1. Inventory

| Component | State it keeps | Operations | What is hard | What makes it correct |
|---|---|---|---|---|
| Runtime scheduler (`rt/scheduler.c`, `rt/wmm_hooks.c`) | per-slot flags and three counters, covered nodes and RF edges, write history per address, tree of threads, `wmm_exiting`, the shared next-events block | a handler per store, load, RMW, compare-exchange and fence; wrappers of `pthread_create`/`join`; thread registration; deadlock detection; exit | threads interleave between critical sections; a thread waits on a condition variable for a write that may never come; every thread must be able to notice that all are stuck; several may decide to exit at once | status and published events depend only on graph and program; no hang; counters exact |
| Graph input (`rt/eg.c`) | the parsed graph | load and validate | malformed graphs | every read has a source that is a write |
| Bounded candidate queues (`fz/sgf-queue-*.c`) | a heap, or a heap, a sorted buffer and an overflow pile; a cached threshold | create, enqueue, dequeue | tiers must agree over long mixed sequences; rebuilds; leaf removal without sifting | behaves as a set of entries; arrays are never overrun |
| Loop and phases (`fz/sgf-fuzz.c`) | cycle number, counters of empty cycles and stagnant seeds, phase, pruning counters | next cycle, enter/leave pruning, skip or fuzz a seed | triggers are cached counters; pruning must end though nothing is found | droughts are real; pruning is bounded and ends |
| Skeleton stage (`fz/sgf-fuzz-one.c`, `fz/sgf-fuzz-run.c`) | mutation tree, candidate, chain, seen set, per-entry feedback and forbidden mutations | simulate a seed, mutate, chain, run, score, enqueue | shared memory written by one run and read by another; blame for a failed mutation | no duplicate, no entry without feedback, no valid event forbidden |
| Corpus and compaction (`fz/sgf-fuzz-queue.c`, `fz/skeleton_queue_pruning.cpp`) | `queue_buf`, mothers, pending counts, alias table bookkeeping, raw pointers in the bounded queue | select, fuzz, compact | entries are freed while others refer to them; ids double as indices | no edge, mother or count lost |
| Alias table (`fz/sgf-fuzz-queue.c`) | `alias_table`, `alias_probability`, two stacks in one pass | create, draw | unsigned indices wrap; weights change after the sum | draws by weight, never a disabled entry |
| Graph mutator (`fz/skeleton_graph_mutator.cpp`), consistency (`fz/consistency.cpp`), data races (`fz/data_race.cpp`), potential (`fz/skeleton_potential.cpp`) | a graph (events, po, rf, mo, sw, creation/join edges) and two caches carried from parent to child: potential and race pairs | add an event, rewire a read or a chain of RMWs, flip a CAS; the writes a read may take; the SC test; collecting and refreshing races | derived edges and caches must follow every edit; a removal cascades along four kinds of edges; each graph is the product of a long mix of edits | graphs are well formed and coherent; searches agree with the axioms; caches agree with recomputation |
| Seen-set hash table (`fz/sgf-fuzz-run.c`), event-pair map (`fz/event_pair_set.c`) | open-addressing arrays with a count; for pairs, one of arrays | insert, lookup, grow, clear | growth inside a call, wrap-around, the key that means empty, failing allocations, searches without a bound | a set of keys; exact counts; every call returns |
| Fork server (`fz/sgf-forkserver.c`) | pid, status and flags of the run, two pipes, the server's and the child's state | request, read pid, poll, time out, kill, stop, leave | four parties; a timeout races the answer; two words are told apart by order only; pids are used again | a graph is judged by its own run; only the awaited run's pid is signalled; runs return; nothing is left behind |
| Nearest-neighbour index (`fz/potential_nn.cpp`) | posting lists from writes to entries, epoch, cached scores | add, search, rescore, rebuild | raw addresses of entries that a compaction frees and the allocator reuses | names live entries; finds the nearest neighbour |
| Favored entries and bitmap scores | – | – | not modelled, see section 5 | – |
| Start-up, statistics, UI, AFL++ byte mutators and tools, LLVM instrumentation, benchmarks | – | – | not modelled | – |

**Interactions.** The loop (PhaseControl) picks an entry (CorpusQueue, drawing from
AliasTable or taking a candidate from SgfQueue) and hands it to the stage
(SkeletonStage), which runs the target. In the target, the scheduler
(WmmScheduler) reads the graph, and writes the next-events block and the exit status that the stage
reads, through a child of the fork server (ForkServer). The stage gets its
candidates from the mutator (GraphMutator), asks the hash table (SeenTable)
whether they are new, and adds entries to the corpus, the bounded queue and the
nearest-neighbour index (NoveltyIndex); the loop compacts the corpus after three phases.

The hazards of this code, each at its line with the properties that would catch
it, are in `PROJECT.json`.

## 2. Modules

| Module | Models | Lines of code as actions |
|---|---|---|
| `WmmScheduler` | scheduler and wrappers | one action per critical section of `sched_lock`; a handler is split only where `pthread_cond_wait` releases the lock, where the process may die, and around the real pthread calls |
| `WmmVerdict` | abstract: the outcome a graph and a program determine; the programs for which it is proved | a reference run without locks, flags or deadlock detection |
| `MCWmmScheduler` | target programs and graphs for TLC | – |
| `SgfHeap` | array heap, sorted insertion | operators |
| `MaxHeapQueue`, `ThresholdBucketQueue`, `RunnerUpQueue`, `MaxHeapBucketQueue` | the four queues | one action per enqueue and per path through dequeue |
| `CandidateQueue` | abstract: what `sgf-queue.h` promises | a set of entries |
| `SgfQueue` | `sgf-queue-dispatch.c`: one of the four, by name | composes the four with INSTANCE and maps their tiers to `CandidateQueue` |
| `PhaseControl` | the main loop | top of the loop, phase management, skip, fuzz |
| `SkeletonStage`, `MCSkeletonStage` | `fuzz_one`'s skeleton stage | simulate, mutate, chain, run, score/enqueue |
| `CorpusQueue` | corpus, selection, compaction | select, fuzz, compact |
| `SkeletonGraph` | `skeleton_graph.hpp`, `consistency.cpp`, `data_race.cpp` | operators on a graph |
| `GraphMutator` | `skeleton_graph_mutator.cpp`, `skeleton_potential.cpp` | add, rewire, rewire a chain, flip, and the assertions that stop the fuzzer |
| `GraphSoundness`, `MCGraphMutator` | reference: coherence as an axiom, SC as an interleaving, races as unordered accesses; programs for TLC | – |
| `SeenTable`, `Probing` | the seen-graph and crash-graph tables | one action per key moved and per search |
| `SeenSet` | abstract: a set of keys, answered in one step | – |
| `EventPairMap` | `event_pair_set.c` | increment and clear |
| `HashTables` | both tables side by side, for TLC | – |
| `ForkServer` | fuzzer, faux server, child, kernel | one action per system call that can block or be seen by another process |
| `NoveltyIndex` | `potential_nn.cpp` and its callers | add, rescore, compact |
| `AliasTable` | `create_alias_table`, `select_next_queue_entry` | one action per loop iteration |
| `WmmSchedulerProofs` | – | theorems about `WmmScheduler` and `WmmVerdict` |
| `ForkServerProofs` | – | theorems about `ForkServer` |
| `QueueProofs` | – | theorems about `SgfQueue` and `CorpusQueue` |
| `GraphMutatorProofs` | – | theorems about `GraphMutator` and `GraphSoundness` |
| `FuzzLoopProofs` | – | theorems about `PhaseControl` and `SkeletonStage` |
| `SelectionProofs` | – | theorems about `AliasTable` and `NoveltyIndex` |
| `HashTablesProofs` | – | theorems about `SeenTable` and `EventPairMap` |
| `DataLemmas` | – | induction over numbers and finite sets, sums, recursive functions: what the proofs about data rest on |

Definitions called "Mutant" in the modules are plausible bugs of the definition
below them. They are not part of any specification: each shows that a property
can fail.

### Abstractions

* *WmmScheduler.* The target is the constant `Prog`: per thread, a sequence of
  instructions. A graph is its nodes' types and the RF map; values are integers
  modulo `ValMod`; a read-modify-write is an addition. Byte-level mixed-size
  accesses, the recorder for non-atomic races, logging, and the limits on threads
  and nodes are left out. `MaxNext` is the room of the next-events block (128). Condition variables may wake spuriously.
* *WmmVerdict.* The reference run assumes that main joins the threads it starts
  and that creations succeed (`AllCreated`).
* *Queues.* An entry is its id and a score; ids are never enqueued twice. `update_score` has
  no caller and allocation failure is left out.
* *PhaseControl.* The corpus is its size. The cycle number is kept modulo its
  effect. Alternative selection (`-Z`), syncing and the unguided mode are left out.
* *SkeletonStage.* A graph is an opaque value, the mutator a relation between
  graphs; which accepted graph is interesting is a nondeterministic choice.
* *CorpusQueue.* A graph is its set of edges; perf_score may rank the entries in any order;
  the bounded queue is a set (SgfQueue has its order); a compaction may come at the
  top of any iteration (PhaseControl has when). An entry used after it was freed
  is a state of its own, from which nothing is assumed. A corpus in which a compaction
  left disabled entries only, because no enabled one had an edge, is not followed further
  (`StockChoice`). `fuzz_one` does not return early: every entry has its graph, and
  `non_instantiable` is set only for a seed, which ends the dry run.
* *GraphMutator.* An instruction of the program runs at most once, so an event is a
  thread and an index. Which mutation, candidate and write are chosen is a
  nondeterministic choice among those the code can pick. A step stands for a
  mutation the runtime accepted; a rejected one leaves no trace in a graph. What
  `ForbiddenMutations` has learnt of the graph is not part of the state: any set of rf
  edges may be forbidden, so that the chain of RMWs is tried also when other writes are
  left. The file of `SGF_POTENTIAL_LOCATIONS_FILE` is the campaign's `listed`. A failed
  assertion ends the fuzzer; `failed` says which.
  `marks` remembers which irregular steps a graph has in its past (a read added
  with a creation edge from the wrong event, `stray_tcj`, or with only one of its
  predecessors as parent, `lone_parent`; a flip that kept later events; a moved
  chain of RMWs): properties that the code loses there except them, and the
  configurations of section 3 show the loss.
* *SeenTable.* A hash is a number given per graph, so that collisions of slots and
  of keys are chosen by the instance. The products of the load test wrap at
  `U32`, as in the code, where `cap * 70` first does so at 2^26 slots (a table of
  512 MB); the runs stay below it. `LookupCorrect` and `TableIsSet` are proved with the
  wrap, since they do not depend on when the table grows.
* *ForkServer.* Only the faux server is modelled, which programs linked with the
  runtime use. A pid may be given again as soon as the child is reaped: to the next
  child, and, outside the model, to any process, which is why a signal to a reaped pid
  is recorded in `stray` ("reaped") beside one to a wrong pid ("other"). `NoStrayKill`
  is about the second only; the first happens (`NoReapedPidKilled`, section 3). `stray`
  follows `child_pid`, not the server's pid, which `at_exit` signals after
  `afl_fsrv_kill` may have reaped it. Targets may hang for ever; `fork` may fail.
  `SGF_KILL_SIGNAL` is not set, so that the child and, in `at_exit`, the server are
  killed by SIGKILL: with a signal they survive, a hung target outlives its timeout and
  the fuzzer waits for it (`RunsReturn`), and at the end the server goes only because
  its control pipe is closed. `SGF_FORK_SERVER_KILL_SIGNAL` may be (`HardKills`).
* *NoveltyIndex.* A potential is a set of occurrences, pairs of a place (a reading
  thread and a location) and a write: the same write may occur in several places, is then
  posted and ranked once for each, and makes entries candidates that keep it in other
  places. Locations that `get_interesting_locations` filters out, the same ones
  everywhere, are left out. The distance is the symmetric difference in whole per cent of
  the union, where the code keeps the fraction; addresses are used again.
* *AliasTable.* Doubles are exact multiples of 1/sum; `u32` is kept as arithmetic
  modulo `U32`, which is 8 in the run, more than any index.

## 3. Runs

### Passing

| Run | Checks | What it shows |
|---|---|---|
| `mp` | `VerdictCorrect`, `NextEventsComplete`, `ExitsUnlessOrphan` | message passing under *every* graph over its five events, with node types that fit and that do not: under all interleavings the status and the next events are the ones determined, and the process ends |
| `cas` | `ReadsFromExecuted`, `Code20Sound`, `VerdictCorrect`, `CountersExact`, `NextEventsComplete` | strong and weak compare-exchange and an increment under graphs that demand every outcome, with creations that may fail and a next-events block with room for one |
| `queues` | `ImplementsQueue`, `TiersSound` (of `PilesInShape`, `BadPileFits`, `RebuiltInTime`, `TiersOrdered`, `ThresholdExact`) | each implementation refines the abstract queue and keeps its arrays sound |
| `phase` | `CountersSound` (of `EmptyCyclesExact`, `PruningBounded`), `PruningOnlyWhenStuck`, `PruningEnds` | counting of empty cycles, entry to and exit from pruning |
| `stage` | `AddedOnce`, `AddedHasFeedback`, `ForbiddenIsDoomed` | the mutation tree with every result of a run |
| `corpus` | `QueueSound` (of `SeedFirst`, `MothersLive`, `EntryIndexExact`), `PendingCounts` (of `PendingExact`, `PendingDrains`), `CandidatesFresh`, `EdgesKept`, `TableCoversCorpus` | selection, fuzzing and compaction in any order |
| `alias` | `DrawsFair` (of `DrawsByWeight`, `DisabledNeverDrawn`), `TableIsMade` | all weights up to 3 of up to five entries |
| `mutator` | `WellFormed` (of `EdgesComplete`, `RmwExclusive`, `SwJustified`), `Coherent` (with `NoThinAir`), `ConsistentWritesExact`, `RacesExact`, `PotentialExact`, `ScCheckSound` | every graph that additions, rewirings and flips make of seven small programs is one an execution can have, and what the code computes of it is right |
| `tables` | `LookupExact`, `ImplementsSet`, `CallsReturn`, `CountsExact` (of `FrequenciesExact`, `EdgeCountExact`) | the seen table refines a set of keys, the pair map counts exactly |
| `forkserver` | `InStep`, `JudgedByOwnChild`, `NoStrayKill`, `EndsCleanly` (of `FatalOnlyWhenDead`, `NoneLeft`), `RunsReturn` | all interleavings of fuzzer, server, child and stop signals |
| `novelty` | `IndexLive`, `NoveltyExact` | the index through additions, rescoring and compactions that reuse addresses |

**Bounds.** `mp` and `cas` have a main thread and two workers, the least with
which two threads can each be stuck on the other while a third runs; `HistCap = 4`
is more than the writes of either program to one address, so nothing is evicted there. `queues` enqueues seven entries into
a good pile of 2 and a runner-up buffer of 2, so that all three tiers fill,
overflow and refill; `T = 5` puts rebuilds between operations, and `BadCap = 1`
makes the bad pile grow twice. `phase` adds at most four entries, with thresholds
of 2 and 4 and a cap of 4: each trigger, each exit condition and compaction
occur, and after the finds are used up the drought lasts for ever. `stage` has
one seed, two events and five graphs, of which two cannot be realised, and trees
of depth 2: chains, repeats and rejected runs occur. `corpus` has two seeds,
two edges and four entries with one entry kept per edge, so that compaction
frees entries that are mothers, favored, current or queued. `mutator` has
programs of up to nine instructions on four threads and two locations, which hold
two competing CAS, RMW chains, one of them at a join, release and acquire fences, joins
found with and without feedback and with a file of locations, and a thread whose creator goes on; the state space is all their graphs. `tables` starts from
four slots with nine graphs, so that the table grows twice, two keys are equal,
several collide and runs wrap; the pair map starts from two slots. `forkserver` has two
pids, so that one is used again, all four kinds of ends and three runs per seed: stray words
of a cut run have two more runs to do harm in. `novelty` has two seeds,
the address of one child, two places and two writes, so that a potential may have twice
as many occurrences as the two slots that are tried, and four
additions: the child is freed and its address reused with another potential; the seeds are those it is compared with, one of them possibly disabled.

**Deadlock** is checked except where the system may stop: in `stage` the program
exits when a seed has no feedback, in `corpus` nothing is modelled after the use
of freed memory or for a corpus without an enabled entry, the construction of `alias` ends, in `mutator` a graph can be
complete and an assertion can end the fuzzer, and `novelty` ends at its bound of additions.

**Fairness.** WmmScheduler assumes weak fairness of each thread's own steps: the operating
system schedules every runnable thread, a mutex is granted eventually, a signalled
waiter wakes. Nothing is assumed of spurious wake-ups and failing creations. PhaseControl
assumes weak fairness of the loop: a single thread that only waits for
target runs, which a timeout bounds. AliasTable's loops and those of a call to
SeenTable are one thread; nothing makes a call happen. ForkServer assumes weak
fairness of the fuzzer and of the server, both runnable processes, and of poll's timeout, none of
the target, which may hang, and none of signals.

### Disagreements between code and its documentation

One run, `stage_stale`, checks what comments say (quoted in `PROJECT.json`) and
finds it violated: `FeedbackIsOwn`. `ready` is set before it is tested and
rejected runs do not clear the segment, so a run's next events become another
graph's feedback (`fz/sgf-fuzz-run.c:1713`).

Where a documented property fails only under circumstances that can be named,
the passing run checks it outside of them. TLC refutes the general statement, under a
configuration of its own or, where the table names a run, under that run's
configuration with this property in place of the listed ones:

| Configuration (module) or run | Property refuted | What happens |
|---|---|---|
| `MCWmm_joinwindow` (MCWmmScheduler) | `VerdictCorrect` | main's joined thread has ended but `pthread_join` has not returned: main counts as blocked (`rt/scheduler.c:1248`), a waiting reader declares deadlock, and a graph that can be instantiated is reported with 21; line 1254 says "Any running thread prevents deadlock." |
| `MCWmm_joinwindow` | `SourcesComplete` | publication precedes the compare-and-swap on `wmm_exiting`; the first publisher prunes joined threads from the tree, a second overwrites the block with fewer sources (`rt/scheduler.c:737`) |
| `MCWmm_exitrace` | `VerdictCorrect` | with a detached thread, main may return and call `exit(0)` after another thread has set `wmm_exiting` to 21 (`rt/scheduler.c:1398`): a graph that cannot be instantiated gets status 0 |
| `MCWmm_orphan` (MCWmmScheduler) | `EventuallyExits` | `can_produce_write_locked` answers yes for a thread never started (`rt/scheduler.c:1164`), also when only the waiting thread would start it; the comment at 1151-1152 names this hang as what it prevents |
| `MCWmm_evict` | `VerdictCorrect` | 39 writes are kept per address (4096 / 104), not the "~85" of `rt/scheduler.c:375`; a read of the first of 40 ends with 21 |
| `MCWmm_createfail_unreg` | `FailedCreateUnregistered` | after a failed creation `rt/wmm_hooks.c:413` unregisters the creator, not the thread of the comment at 412 |
| `RunnerUpQueue_NoneDropped` | `NoneDropped` | a refill frees all but the best m (`fz/sgf-queue-runner-up.c:230`), while line 7 calls the bad pile an "unbounded overflow list" |
| `MaxHeapBucketQueue_ThresholdIsLowerBound` | `ThresholdIsLowerBound` | promotions in dequeue leave the threshold, "monotonic lower-bound on good_pile minimum" by line 8, above the minimum |
| `MaxHeapBucketQueue_RefillKeepsTop` | `RefillKeepsTop` | "Take top m from bad_pile" (line 225) keeps the worst m |
| `PhaseControl_compacted` | `EmptyCyclesExactAlways` | `fz/sgf-fuzz.c:3112` compares corpus sizes across a compaction; `docs/PRUNING_AND_DECAY.md:70` says "without new paths" |
| `PhaseControl_reentry` | `LeavingResetsTriggers` | leaving pruning (`fz/sgf-fuzz.c:3352`) leaves `cycles_wo_finds`; `docs/PRUNING_AND_DECAY.md:55` says "Reset counters" |
| run `stage` | `CorpusWithoutDuplicates` | the seen set does not know the seeds, so a copy of one may be added (`fz/sgf-fuzz-one.c:198`) |
| run `queues` | `GoodPileHoldsTop` | admission to a full good pile evicts the root of a *max*-heap (`fz/sgf-queue-maxheap-bucket.c:334`); line 5 says "MAX-heap of top m candidates" |
| run `corpus` | `SelectedIsLive` | compaction frees entries the bounded queue still holds and later hands out (`fz/sgf-fuzz.c:3315`); `sgf-queue.h:63` says "eviction is always safe" |
| run `corpus` | `EntryIndexExactAlways` | ids stop being indices at the first compaction (`fz/sgf-fuzz.c:3319`) |
| run `corpus` | `PendingDrainsAlways` | compaction counts disabled seeds as pending (`fz/skeleton_queue_pruning.cpp:184`) |
| run `mutator` | `ScCheckComplete` | an RMW overwrites what it reads, which `is_sc_consistent` takes for a from-read edge to itself (`fz/consistency.cpp:303`, `:600`): it rejects every graph with an RMW that has a source in mo, though `consistency.hpp` says "True if the graph is SC-consistent", and in SC mode its crash is dropped |
| run `mutator` | `NoDrift` | the first event of a thread whose creator went on: the potential is kept for the creator's last event, the search starts from the creator, and the assertion "Potential maintained write set drifted from graph consistency BFS" (`fz/skeleton_graph_mutator.cpp:401`) fails in a debug build |
| run `mutator` | `NoChainAbort` | rewiring a chain of RMWs at a join: the first may take the last write that no RMW has read, the second then finds none that all its parents allow, and the assertion "No consistent writes in intersection for join event" (`fz/skeleton_graph_mutator.cpp:451`, called at 1476) fails in a debug build |
| run `mutator` | `RmwAdjacent` | a new RMW goes to the end of mo (`add_new_node`), while the comment at `fz/skeleton_graph_mutator.cpp:728` says that "every other rmw-like write in this file relies on that adjacency" |
| run `mutator` | `FlipKeepsCoherence` | a failed CAS that is flipped to success keeps the later events, which may have read what it now overwrites; line 668 says it "Returns false" when "the flip would be inconsistent" |
| run `mutator` | `JoinKeepsCoherence` | `collect_enabled_events` gives an event after a join only the parent it was found from (`fz/skeleton_graph_mutator.cpp:1988`), though line 1954 knows that a "thread join has to ensure all the other incomming nodes are present": the read may take a write that another predecessor has overwritten |
| run `mutator` | `TcjJustified` | the creation edge of a thread is drawn from its parent's *last* event (`:1870`), not from its "thread creator" (`:279`) |
| run `mutator` | `RacesExactAlways` | rewiring a chain of RMWs moves several events and refreshes the races of one; `data_race.hpp:30` speaks of "the event that changed in the mutation" |
| `ForkServer_stop` | `JudgedWhileServed` | a run cut short by a stop signal returns `FSRV_RUN_OK` with the status of an earlier one and is judged by it; `fz/sgf-fuzz-one.c:239` says "We reach here only when run was successful" |
| run `forkserver` | `NoStrayKillAlways` | after such a cut the words on the pipe are out of step: a status is taken for a pid and signalled |
| run `forkserver` | `NoReapedPidKilled` | the timeout expires, the child ends, the server reaps it (`fz/sgf-forkserver.c:586`), and only then the fuzzer kills its pid (`:2202`), which any process may have by then; a stop signal does the same. "We kill the child", says the comment at `:2197` |
| run `forkserver` | `StopEnds` | after such a cut the fuzzer may also wait for a word that never comes, and a stop does not end it |
| run `novelty` | `NoveltyExactAlways` | a potential with more occurrences than `kRarestKeyCount`: the nearest entry shares only writes that are not tried, and the score calls the graph more novel than it is. A write kept for several threads takes a slot for each (`fz/potential_nn.cpp:117`), so that six slots may stand for two or three writes |
| run `novelty` | `NeighbourIsAnother` | `fz/sgf-fuzz-queue.c:1347` passes the graph data where `potential_nn.h` asks for the "owner pointer of the query entry (excluded from matches)": a rescored entry is its own nearest neighbour |

## 4. Proofs

All theorems hold for every value of the constants that satisfies the named
assumption of the module (`SchedulerAssumption`, `PhaseAssumption`,
`StageAssumption`, the four of ForkServer, `CorpusAssumption`, `QueueAssumption`,
`AliasAssumption`, `TableAssumption`, `PairAssumption`, `IndexAssumption`,
`GraphAssumption`, `CampaignAssumption`); TLC
evaluates these on the runs' instances. They ask for sizes that are not zero,
finitely many threads, edges and writes, hashes that are natural numbers, for
the alias table, fewer entries than `u32` counts and, for the mutator, a seed of writes
that writes every location a program reads. TLC checked every inductive
invariant before it was proved.

| Theorem | States | Inductive invariant |
|---|---|---|
| `TypeCorrect` | `Spec => []TypeOK` (WmmScheduler) | `TypeInv`: with the types, a thread inside a handler or wrapper is still at the instruction that entered it (`PcInv`); without it the instruction a waiter resumes has no type |
| `CountersCorrect` | `Spec => []CountersExact` | with `BlockedForGood`: a thread blocked at an unknown event never runs again, so `scheduler_thread_registered`, which clears a slot's blocked flag and not the counter, meets no such slot |
| `ReadsFromCorrect` | `Spec => []ReadsFromExecuted` | with `WaitingCovered`: a waiting reader's node is covered and of a kind its handler accepts, so that the wake-up may rely on what was checked before the wait |
| `Code20Correct` | `Spec => []Code20Sound` | `FutureUncovered` (edges of events still to come are uncovered) and `ExitInv` (who is about to exit, with what, and why that stays true) |
| `VerdictsCorrect`, `NextEventsCorrect` | `Spec => []VerdictCorrect`, `Spec => []NextEventsComplete`, if `ForkJoin` and `HistorySuffices` | `VerdictInv`: the scheduler follows the reference run; see below |
| `PhaseTypeCorrect`, `PruningCorrect` | `LoopTypeOK`, `PruningBounded` (PhaseControl) | `PruningInv`: the phase agrees with the flag everywhere but during phase management |
| `EmptyCyclesCorrect`, `LoopCountersCorrect`, `PruningEntryCorrect` | `EmptyCyclesExact`, `CountersSound`, `PruningOnlyWhenStuck` | `DroughtInv`: until a compaction the corpus differs from the last cycle's exactly when an entry was added; stagnant seeds never exceed the real drought |
| `StageTypeCorrect` | `TypeOK` (SkeletonStage) | `TypeInv`, in four parts so that an action disturbs few of them; `TreeTypes` adds that every index the tree holds is that of an entry |
| `AddedOnceCorrect` | `AddedOnce` | `SeenInv`: what was added is seen, and a candidate that ran is not |
| `FeedbackCorrect` | `AddedHasFeedback` | `FeedbackInv`: a simulated entry has feedback and an added entry is simulated |
| `ForbiddenCorrect` | `ForbiddenIsDoomed` | `DoomedInv`: the event noted with a candidate is the one whose addition to the parent's graph gave it |
| `ServerTypeCorrect`, `InStepCorrect`, `JudgedCorrect`, `KillCorrect`, `EndCorrect` | `TypeOK`, `InStep`, `JudgedByOwnChild`, `NoStrayKill`, `EndsCleanly` (ForkServer) | `Protocol`: until a run is cut short, where the fuzzer is, where the server is and what the pipes hold determine each other (one request or one answer under way, the pid that of the last child), and without a stop the child is alive or a zombie while it is awaited |
| `QueueCorrect`, `PendingCorrect`, `CandidatesCorrect` | `QueueSound`, `PendingCounts`, `CandidatesFresh` (CorpusQueue) | `Identity`: until a compaction the i-th entry has id i - 1; the current entry is live; disabled entries count as fuzzed. The count of pending entries follows from the cardinalities of the sets the actions change |
| `EdgesCorrect` | `Spec => EdgesKept` | the same; in a compaction of the holders of an edge with the best score the one with the least id survives, and a set of ids has a least one |
| `TableCorrect` | `Spec => TableCoversCorpus` | `TableInv`: unless a new table is due, the table is as long as the corpus or the corpus has grown since the last look at its length |
| `TiersCorrect` | `TiersSound` (SgfQueue) | `QueueInv`: ids are fresh, and per implementation what its arrays hold: a heap, a sorted buffer, a pile whose room is its capacity, no entry in two of them, and until the first dequeue no entry better than those of the tier before |
| `QueuesImplement` | `Spec => ImplementsQueue` | the same: sifting, sorting and rebuilding permute a tier or move entries between tiers, so that each call is a step of `CandidateQueue` |
| `LookupCorrect` | `LookupExact` (SeenTable) | `Reachable`: from the home slot of a stored key the probe sequence meets no empty slot before the key, in the table being filled as in the one being emptied; `Distinct`: no key is stored twice |
| `TableIsSet` | `Spec => ImplementsSet` | the same: every step of the table is a step of `SeenSet`, or leaves its variables alone while keys are moved |
| `CountsCorrect` | `TablesSpec => []CountsExact` (EventPairMap) | `PairInv`: in the table of sources and in each of destinations a search for a stored key ends at its slot, the size is the number of slots in use, and a frequency is what was counted; the edges counted are stored, one slot each, so that the sum of the sizes is their number |
| `AliasCorrect` | `DrawsFair` (AliasTable) | `StackInv`: an entry is on one of two stacks, which never meet; `MassInv`: what an entry still has and what it was given make up its weight times the number of entries, and those not settled have an even share on the average, so that the stacks run empty together |
| `IndexCorrect` | `IndexLive` (NoveltyIndex) | with the types: what is posted is exactly the potentials of the children in memory |
| `NoveltyCorrect` | `NoveltyExact` (NoveltyIndex) | the same; a potential that fits in the slots has all its writes tried, and two potentials without a common occurrence are at distance 100, so that an entry that is not compared is never nearer |
| `GraphSoundAlways` | `Spec => []GraphSound` (GraphMutator) | itself; see below |
| `WellFormedAlways`, `CoherentAlways`, `StoredRacesAlwaysExact` | `WellFormed`, `Coherent`, `RacesExact` | `GraphSound` |
| `PotentialExactAlways` | `PotentialExact` | with `GraphSound`: an addition extends what the search from an old event finds by the new write and nothing else |
| `ConsistentWritesExactAlways` | `ConsistentWritesExact` | `GraphSound` |
| `ScCheckSoundAlways` | `ScCheckSound` | `GraphSound` |

**The verdict.** `VerdictCorrect` compares the state in which the process ends with
the last state of a run without locks, flags or deadlock detection. The argument
has four parts.

1. *The reference run ends* (`RunEnds`): a round in which a thread can step moves one,
   so after as many rounds as the program has instructions none can; by induction
   each thread has carried out a prefix of its program and the stores are those of
   the instructions carried out (`RefSound`).
2. *The scheduler follows it* (`FollowsRef`, `OutcomeStep`, one lemma per action): no
   thread is ahead of the reference run, the history holds the stores it agrees on,
   coverage is what was executed or is waited for, and the flags of a thread match
   its control point.
3. *Deadlock detection is exact* (`Decision`): when `ShouldExit` holds, every thread is
   `Stuck`. A bound on positions that no thread can pass bounds the reference run too
   (`HeldBack`), so it has got no further than the threads have, but for joins of main,
   and `covered` and `nextEvents` are its own.
4. *Nothing changes on the way out* (`LeaveInv`): the chosen status and the published
   block stay verdicts of the reference run until the process has ended.

Two hypotheses about the program are needed, and `MCWmmScheduler` has TLC
evaluate that the programs of `mp` and `cas` satisfy them and those of the
refuting configurations do not:

* `ForkJoin`: main creates every other thread once and joins it, only main creates and joins, and
  its joins follow each other. If main stored something between two joins, a reader could
  declare deadlock while main leaves a join (`MCWmm_joinwindow`); a thread that is not
  joined may decide the status together with main (`MCWmm_exitrace`). Programs that
  fork, run and join their threads, as litmus tests do, are of this kind.
* `HistorySuffices`: an address is written at most `HistCap` times, so that no write is
  evicted (`MCWmm_evict`).

Failed creations are covered by `AllCreated`, which is part of both properties.

**The mutator.** `GraphSound` says that the graph is *good* (well typed; every read has
one source in the modification order of its location; no write has two rmw-like
readers, and such a reader follows its source; every sw edge has its reason; no
causal cycle; every read has a parent), that the campaign's seed is in it, that it is
coherent while `marks` is regular, and that its races are stored. A step adds one
event or cuts the graph down and puts one or two events back. The argument has five parts.

1. *Agreement.* After an edit there is a part of the graph that no edge enters from
   the rest, in the old graph as in the new. On it both have the same paths (`PlusInto`),
   happens-before, races (`AgreesRaces`), coherence (`CoherentAgrees`) and search
   results (`AgreesVisited`). Here it matters that `remove_po_rf_sw_successors` follows
   all four kinds of edges: without creation edges the part that stays would be entered.
2. *One more event.* A good part with an event that fits is good (`GoodExtends`), and
   coherent if the event reads nothing stale (`CoherentExtends`): its source is not
   overwritten by what comes before the reader.
3. *The edits.* Each of `add_new_node`, the two cases of `mutate_rf_edge` and the two of
   `flip_cas_outcome` leaves such a part and events that fit (`AddNodeMakes`,
   `MutateRfMakes`, `ChainMakes`, `FailMakes`, `SuccessMakes`). A flip to success
   keeps later events, so coherence is claimed only where there are none.
4. *The search.* What `find_consistent_writes` visits happens before its start or
   before a write seen from there (`VisitedBehind`). So a write it rejects would break
   coherence (`SearchComplete`) and one it offers does not (`SearchSound`). That there is always one to
   take is why the seed is part of the invariant: the last write in
   modification order is never stale, and never read by an rmw-like event (`WriteThere`).
   The same holds in the graph from which a mutation has taken the read, or the first of
   two chained RMWs (`DetachedFinds`, `ChainFinds`): none of the three calls in
   `mutate_rf_edge` fails its assertion but the last, which `ConsistentWritesExact` excepts.
5. *The SC test.* Kahn's loop takes out every event if and only if every set of events
   has a source (`KahnIs`). An interleaving is then built, or taken apart, from its end
   (`GroundedRuns`, `RunsGrounded`).

**Induction over data.** The library's induction theorems take an operator as a
parameter, which no installed prover instantiates. `DataLemmas` states them for
*sets* instead, from the well-foundedness of the naturals: a set of numbers that
has 0 and with a number its successor has all of them, likewise for strong
induction and for the subsets of a finite set. A property to be shown by induction
is turned into the set of what has it. A recursive function is a CHOOSE, of which
nothing is known until a solution exists; `Recursion` and `Iteration` give the
solution where the arguments fall or are counted, so that the definition may be
unfolded. On these rest sums over finite sets (`SumRemove`, `SumScale`, `SumLess`), the
sifting of heaps, the alias table's mass, the rehashing of the pair map.

**Only model-checked.**

Liveness (`ExitsUnlessOrphan`, `PruningEnds`, `TableIsMade`, `CallsReturn`,
`RunsReturn`): fairness is out of the prover's reach. Every safety property of the passing
runs is proved.

## 5. Not modelled, and the plan

Not modelled for good: reading directories, statistics and the user interface,
AFL++'s byte mutators and stand-alone tools, LLVM and SVF passes, JSON parsing,
benchmarks and third-party tools: text, I/O or out of TLC's reach.

The order followed: scheduler and its verdict first, since every other part
trusts the exit status; then the stage and its shared memory; the corpus and its
compaction; the loop; the queues; the alias table; then the mutator with its
consistency checks, the hash tables, the fork server and the index.

Most of the repository's lines are not its own logic: a JSON parser and xxHash
(33,000 lines of headers), two copies of another tool's allocator and atomics
(`src/pctwm`), AFL++'s tools, statistics and start-up code, test programs. They
are left out, and what is modelled is the part that decides which graphs are run
and kept.

`update_bitmap_score` and `cull_queue` are left out because the fuzzer runs
without coverage instrumentation (`-n`): `cull_queue` returns at once
(`fz/sgf-fuzz-queue.c:1036`), and `top_rated` stays empty.

Next:

1. Loops in the mutator's programs (visit counts), and the composition of
   GraphMutator with SkeletonStage, whose `Adds` and `Rewires` it would supply.
2. The runtime's recorder of non-atomic races (`rt/wmm.c`).
3. Alternative selection (`-Z`) and the schedule switches of the loop.
