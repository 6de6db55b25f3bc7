---------------------------- MODULE PhaseControl ----------------------------
(***************************************************************************)
(* The phases of a campaign (SGF/main/src/sgf-fuzz.c, main loop): queue    *)
(* cycles, the normal phases MO, RF and POTENTIAL, one per cycle, and the  *)
(* pruning phase that a drought of finds triggers.  The corpus is only its *)
(* size, queued_items; a compaction (skeleton_queue_pruning.cpp) leaves    *)
(* any number of entries.  Alternative seed selection (-Z), syncing with   *)
(* other instances and the mode without guidance are not modelled.         *)
(***************************************************************************)
EXTENDS Integers

CONSTANTS StagnantSeeds,     \* STAGNANT_SEEDS_PRUNE_THRESHOLD
          EmptyCycles,       \* CYCLES_WO_FINDS_PRUNE_THRESHOLD
          TargetItems,       \* PRUNING_TARGET_QUEUED_ITEMS
          TargetSeeds,       \* PRUNING_TARGET_PRODUCTIVE_SEEDS
          SafetyCap,         \* PRUNING_MAX_SEEDS_SAFETY_CAP
          MinPhaseRuns, GrowthReq, ClearAfterPhases,
          Seeds,             \* entries of the initial corpus
          MaxFinds,          \* bound: entries a campaign may add
          MaxKids            \* most entries one fuzz_one adds

ASSUME PhaseAssumption ==
  /\ StagnantSeeds \in Nat \ {0} /\ EmptyCycles \in Nat \ {0} /\ SafetyCap \in Nat \ {0}
  /\ TargetItems \in Nat \ {0} /\ TargetSeeds \in Nat \ {0}
  /\ GrowthReq \in Nat \ {0} /\ Seeds \in Nat \ {0}
  /\ MinPhaseRuns \in Nat /\ MaxFinds \in Nat /\ MaxKids \in Nat
  /\ ClearAfterPhases \in BOOLEAN

VARIABLES
  loopPc,            \* "top" of the loop, "phase" management, "fuzz" a seed
  queuedItems, queueCycle, prevQueued, cyclesWoFinds,
  runs,          \* runs_in_current_cycle; -1 is (u32)-1
  inPruning, pruningSeeds, pruningStart,
  stagnant, productive,          \* consecutive_*_seeds
  phase,
  finds,         \* entries added so far
  fresh,         \* history: an entry was added in this cycle
  idle,          \* history: empty cycles in a row, at most EmptyCycles
  drought,       \* history: seeds in a row that added nothing, at most StagnantSeeds
  compacted      \* history: the corpus was compacted

loopVars == <<loopPc, queuedItems, queueCycle, prevQueued, cyclesWoFinds, runs, inPruning,
          pruningSeeds, pruningStart, stagnant, productive, phase, finds, fresh, idle, drought,
          compacted>>

cycleVars == <<queueCycle, prevQueued, cyclesWoFinds, runs>>
pruningVars == <<inPruning, pruningSeeds, pruningStart, phase>>
seedVars == <<stagnant, productive>>
historyVars == <<fresh, idle, drought, compacted>>

CapAt(n, cap) == IF n < cap THEN n ELSE cap

LoopInit ==
  /\ loopPc = "top"
  /\ queuedItems = Seeds /\ queueCycle = 0 /\ prevQueued = 0 /\ cyclesWoFinds = 0
  /\ runs = -1
  /\ inPruning = FALSE /\ pruningSeeds = 0 /\ pruningStart = 0
  /\ stagnant = 0 /\ productive = 0
  /\ phase = "MO"
  /\ finds = 0 /\ fresh = TRUE /\ idle = 0 /\ drought = 0 /\ compacted = FALSE
-----------------------------------------------------------------------------
\* Whether the cycle is over; enough is whether it has had MinPhaseRuns executions.
CycleOver(enough) ==
  \/ runs = -1
  \/ /\ runs > queuedItems
     /\ runs >= MinPhaseRuns
     /\ MinPhaseRuns = 0 \/ enough \/ runs >= 10 * MinPhaseRuns

\* Only queue_cycle > 1 and (queue_cycle - 1) % 3 matter: 5 is the same as 2.
NextCycle == IF queueCycle = 4 THEN 2 ELSE queueCycle + 1

\* The corpus is compacted in every third cycle, if it has grown.
Compacts(cycle) ==
  /\ ClearAfterPhases /\ cycle > 1 /\ (cycle - 1) % 3 = 0
  /\ queuedItems >= GrowthReq /\ queuedItems > 1

\* Mutant: every cycle counts as empty.
CountEmptyAlways(n) == CapAt(cyclesWoFinds + 1, EmptyCycles)

\* cycles_wo_finds for a corpus of n entries; only its comparison with the
\* threshold matters, so it stops there.
CountEmpty(n) == IF n = prevQueued THEN CapAt(cyclesWoFinds + 1, EmptyCycles) ELSE 0

NewCycle(n) ==
  /\ queueCycle' = NextCycle
  /\ queuedItems' = n
  /\ cyclesWoFinds' = CountEmpty(n)
  /\ prevQueued' = n
  /\ runs' = 0
  /\ idle' = IF fresh THEN 0 ELSE CapAt(idle + 1, EmptyCycles)
  /\ fresh' = FALSE
  /\ UNCHANGED drought

\* The top of the loop: the cycle may roll over, with or without a compaction.
LoopTop ==
  /\ loopPc = "top" /\ loopPc' = "phase"
  /\ \E enough \in BOOLEAN :
       IF CycleOver(enough)
       THEN IF Compacts(NextCycle)
            THEN (\E n \in 1..queuedItems : NewCycle(n)) /\ compacted' = TRUE
            ELSE NewCycle(queuedItems) /\ UNCHANGED compacted
       ELSE /\ runs' = runs + 1
            /\ UNCHANGED <<queuedItems, queueCycle, prevQueued, cyclesWoFinds, historyVars>>
  /\ UNCHANGED <<pruningVars, seedVars, finds>>

NormalPhase ==
  LET i == IF queueCycle = 0 THEN 0 ELSE (queueCycle - 1) % 3
  IN  IF i = 0 THEN "MO" ELSE IF i = 1 THEN "RF" ELSE "POTENTIAL"

NewGraphs == IF queuedItems > pruningStart THEN queuedItems - pruningStart ELSE 0

\* Mutant: there is no safety cap.
SolvedWithoutCap(seeds) == NewGraphs >= TargetItems \/ productive >= TargetSeeds

\* The pruning phase ends after enough graphs, productive seeds, or seeds at all.
Solved(seeds) ==
  \/ NewGraphs >= TargetItems
  \/ productive >= TargetSeeds
  \/ seeds >= SafetyCap

Stuck == stagnant >= StagnantSeeds \/ cyclesWoFinds >= EmptyCycles

\* Mutant: the seeds of the pruning phase are not counted.
PruneOnUncounted ==
  /\ inPruning /\ ~Solved(pruningSeeds + 1)
  /\ phase' = "PRUNING"
  /\ UNCHANGED <<inPruning, pruningSeeds, pruningStart, seedVars>>

PruneOn ==
  /\ inPruning /\ ~Solved(pruningSeeds + 1)
  /\ pruningSeeds' = pruningSeeds + 1
  /\ phase' = "PRUNING"
  /\ UNCHANGED <<inPruning, pruningStart, seedVars>>

LeavePruning ==
  /\ inPruning /\ Solved(pruningSeeds + 1)
  /\ inPruning' = FALSE /\ pruningSeeds' = 0
  /\ stagnant' = 0 /\ productive' = 0
  /\ phase' = NormalPhase
  /\ UNCHANGED pruningStart

EnterPruning ==
  /\ ~inPruning /\ Stuck
  /\ inPruning' = TRUE /\ pruningSeeds' = 0
  /\ pruningStart' = queuedItems
  /\ stagnant' = 0 /\ productive' = 0
  /\ phase' = "PRUNING"

StayNormal ==
  /\ ~inPruning /\ ~Stuck
  /\ phase' = NormalPhase
  /\ UNCHANGED <<inPruning, pruningSeeds, pruningStart, seedVars>>

ManagePhase ==
  /\ loopPc = "phase" /\ loopPc' = "fuzz"
  /\ PruneOn \/ LeavePruning \/ EnterPruning \/ StayNormal
  /\ UNCHANGED <<cycleVars, queuedItems, finds, historyVars>>

\* fuzz_one skips the entry: the next one is chosen without a new run.
SkipSeed ==
  /\ loopPc = "fuzz" /\ loopPc' = "phase"
  /\ UNCHANGED <<queuedItems, cycleVars, pruningVars, seedVars, finds, historyVars>>

\* fuzz_one adds kids entries; add_to_queue resets cycles_wo_finds.
FuzzSeed(kids) ==
  /\ loopPc = "fuzz" /\ loopPc' = "top"
  /\ finds + kids <= MaxFinds
  /\ queuedItems' = queuedItems + kids
  /\ finds' = finds + kids
  /\ IF kids > 0
     THEN /\ stagnant' = 0 /\ productive' = productive + 1
          /\ cyclesWoFinds' = 0
          /\ fresh' = TRUE /\ idle' = 0 /\ drought' = 0
     ELSE /\ stagnant' = stagnant + 1 /\ productive' = 0
          /\ drought' = CapAt(drought + 1, StagnantSeeds)
          /\ UNCHANGED <<cyclesWoFinds, fresh, idle>>
  /\ UNCHANGED <<queueCycle, prevQueued, runs, pruningVars, compacted>>

LoopNext == LoopTop \/ ManagePhase \/ SkipSeed \/ \E kids \in 0..MaxKids : FuzzSeed(kids)

\* The loop is a single thread that never waits for anything but the target,
\* whose runs are bounded by a timeout.
LoopSpec == LoopInit /\ [][LoopNext]_loopVars /\ WF_loopVars(LoopNext)
-----------------------------------------------------------------------------
\* The counters of the loop stay natural numbers (runs_in_current_cycle starts
\* as (u32)-1) and the capped ones within their caps.
LoopTypeOK ==
  /\ loopPc \in {"top", "phase", "fuzz"}
  /\ queuedItems \in Nat /\ prevQueued \in Nat /\ finds \in Nat
  /\ pruningSeeds \in Nat /\ pruningStart \in Nat /\ stagnant \in Nat /\ productive \in Nat
  /\ queueCycle \in 0..4 /\ runs \in Nat \cup {-1}
  /\ cyclesWoFinds \in 0..EmptyCycles /\ idle \in 0..EmptyCycles /\ drought \in 0..StagnantSeeds
  /\ inPruning \in BOOLEAN /\ fresh \in BOOLEAN /\ compacted \in BOOLEAN
  /\ phase \in {"MO", "RF", "POTENTIAL", "PRUNING"}

\* The pruning phase never outlives the safety cap, and the mutator's phase
\* agrees with the pruning flag whenever a seed is about to be fuzzed.
PruningBounded ==
  /\ pruningSeeds < SafetyCap
  /\ loopPc = "fuzz" => (inPruning <=> phase = "PRUNING")

\* Every pruning phase ends, even when nothing is ever found again.
PruningEnds == inPruning ~> ~inPruning

\* Until the first compaction cycles_wo_finds is the number of cycles in a row that
\* added nothing, although it only compares sizes of the corpus.
EmptyCyclesExact == ~compacted => cyclesWoFinds = idle

\* What the loop decides by is right: the empty cycles are counted and the pruning phase
\* is capped, through finds, skipped seeds and phase changes in any order.
CountersSound == EmptyCyclesExact /\ PruningBounded

\* The same across compactions.
EmptyCyclesExactAlways == cyclesWoFinds = idle

\* Until then the pruning phase is entered only in a real drought: after StagnantSeeds seeds
\* in a row, or EmptyCycles cycles in a row, that added nothing.
PruningOnlyWhenStuck ==
  [][~compacted /\ ~inPruning /\ inPruning' => drought >= StagnantSeeds \/ idle >= EmptyCycles]_loopVars

\* Leaving the pruning phase resets the counters that triggered it.
LeavingResetsTriggers == [][inPruning /\ ~inPruning' => ~Stuck']_loopVars
=============================================================================
