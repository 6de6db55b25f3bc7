---------------------------- MODULE WmmScheduler ----------------------------
(***************************************************************************)
(* The runtime scheduler that is linked into a fuzzed program              *)
(* (SGF/src/wmm-runtime/scheduler.c and the pthread wrappers of            *)
(* wmm_hooks.c), in the mode that matters: an input execution graph has    *)
(* been loaded, and every load, store, RMW, compare-exchange and fence of  *)
(* the program calls a handler that forces the execution to follow it.     *)
(*                                                                         *)
(* A handler is one critical section of sched_lock and so one action; it   *)
(* is split exactly where pthread_cond_wait releases the lock, where the   *)
(* process may die, and around the real pthread calls.                     *)
(***************************************************************************)
EXTENDS Integers, Sequences, FiniteSets

CONSTANTS
  Thread,         \* thread slots (tid < MAX_THREADS)
  Main,           \* slot 0
  Event,          \* dynamic event identities <<tid, iid, vid>>
  Loc,            \* addresses
  ValMod,         \* values are integers modulo 2^(8 * access size)
  Prog,           \* [Thread -> Seq(Instr)]: what the target program does
  Graphs,         \* the input graphs; each passed the checks of eg.c
  HistCap,        \* writes kept per address (max_per_addr)
  MaxNext,        \* events the shared block holds (MAX_NEXT)
  CreateMayFail,  \* may pthread_create return an error?
  None

OK == 0                       \* normal return of main
INVALID_INPUT == 12
INSTANTIATED_BUT_NOT_DONE == 20
NOT_INSTANTIABLE == 21
Running == -1

ExitCodes == {OK, INVALID_INPUT, INSTANTIATED_BUT_NOT_DONE, NOT_INSTANTIABLE}

EventOps == {"store", "load", "rmw", "cas", "fence"}
ReadOps == {"load", "rmw", "cas"}

Val == 0..(ValMod - 1)

Instr == [op : EventOps \cup {"create", "join"}, ev : Event \cup {None},
          loc : Loc \cup {None}, val : Val, cmp : Val, weak : BOOLEAN,
          child : Thread \cup {None}]

NodeType == {"READ", "WRITE", "RMW", "FENCE", "CAS_SUCCESS", "CAS_FAIL"}

\* eg_is_write_like: the events that store, hence the legal rf sources.
WriteLike(ty) == ty \in {"WRITE", "RMW", "CAS_SUCCESS"}

ReadLike(ty) == ty \in {"READ", "RMW", "CAS_SUCCESS", "CAS_FAIL"}

\* Thread control points.  "rfwait" and "unknown" are inside pthread_cond_wait.
Control == {"none", "starting", "run", "creating", "mapping", "rfwait", "unknown",
            "join", "ended", "dead", "publish", "exiting", "paused", "returning",
            "dying", "dying0"}

\* <<thread, instruction, visit>>; instruction -1 before the first event.
EventId == Thread \X Int \X Int
Tid(e) == e[1]

\* An event carries the slot of the thread that executes it.
WellFormedInstr(t, o) ==
  /\ o.op \in EventOps => o.ev \in Event /\ Tid(o.ev) = t
  /\ o.op \in EventOps \ {"fence"} => o.loc \in Loc
  /\ o.op \in {"create", "join"} => o.child \in Thread \ {t, Main} /\ o.ev = None

\* What eg.c guarantees of a graph it accepts: every read-like node has a
\* source, and every source is a write-like node.
WellFormed(g) ==
  /\ DOMAIN g.type # {}
  /\ DOMAIN g.type \subseteq Event
  /\ \A e \in DOMAIN g.type : g.type[e] \in NodeType
  /\ DOMAIN g.rf = {e \in DOMAIN g.type : ReadLike(g.type[e])}
  /\ \A e \in DOMAIN g.rf : /\ g.rf[e] \in DOMAIN g.type
                            /\ WriteLike(g.type[g.rf[e]])

ASSUME SchedulerAssumption ==
  /\ IsFiniteSet(Thread)
  /\ Main \in Thread
  /\ None \notin Thread /\ None \notin Event
  /\ ValMod \in Nat \ {0} /\ MaxNext \in Nat \ {0}
  /\ Event \subseteq EventId
  /\ Prog \in [Thread -> Seq(Instr)]
  /\ \A t \in Thread : \A i \in DOMAIN Prog[t] : WellFormedInstr(t, Prog[t][i])
  /\ \A t \in Thread : \A i, j \in DOMAIN Prog[t] :   \* visits are numbered
        Prog[t][i].op \in EventOps /\ Prog[t][j].ev = Prog[t][i].ev => i = j
  /\ \A g \in Graphs : WellFormed(g)
  /\ HistCap \in Nat \ {0}
  /\ CreateMayFail \in BOOLEAN
-----------------------------------------------------------------------------
VARIABLES
  graph,              \* current_graph, read once by scheduler_init
  pc, st,             \* the program counter and control point of each thread
  woken,              \* threads whose pthread_cond_wait was signalled
  mapped,             \* slots present in __wmm_os_thread_map
  active, known, everStarted, blockedUnk, joinWait,  \* the *_status flags
  waiting,            \* waiting_status: the write a slot waits for
  activeThreads, aliveThreads, blockedUnkThreads,    \* the counters
  covered,            \* covered_node_ids
  coveredRf,          \* destinations of covered_rf_edges
  hist,               \* write history, oldest first, per address
  parent, lastExec, joined, atJoin, pruned,          \* all_threads tree
  nextEvents,         \* unknown events met, with the thread that met them
  lock,               \* holder of sched_lock across a publication, or None
  shm,                \* next-event block shared with the fuzzer
  exiting,            \* wmm_exiting
  proc                \* Running, or the exit status of the process

progVars  == <<pc, st, woken>>
flagVars  == <<active, known, everStarted, activeThreads, aliveThreads>>
unkVars   == <<blockedUnk, blockedUnkThreads, nextEvents>>
rfVars    == <<covered, coveredRf, hist>>
treeVars  == <<parent, joined, atJoin, pruned, mapped>>
exitVars  == <<lock, shm, exiting>>

vars == <<graph, progVars, flagVars, unkVars, joinWait, waiting, rfVars, treeVars,
          lastExec, exitVars, proc>>

Node == DOMAIN graph.type

\* The instruction a thread is about to execute.
AtOp(t, k) == pc[t] <= Len(Prog[t]) /\ Prog[t][pc[t]].op = k
Op(t) == Prog[t][pc[t]]
AtEnd(t) == pc[t] > Len(Prog[t])
-----------------------------------------------------------------------------
(* Write history.                                                          *)

\* find_write_in_history
InHistory(w) == \E l \in Loc : \E i \in DOMAIN hist[l] : hist[l][i].ev = w

HistLoc(w) == CHOOSE l \in Loc : \E i \in DOMAIN hist[l] : hist[l][i].ev = w

HistVal(w) ==
  LET l == HistLoc(w)
  IN  hist[l][CHOOSE i \in DOMAIN hist[l] : hist[l][i].ev = w].val

\* add_history_bytes: at the limit the oldest write of the address is evicted.
AddHistory(l, e, v) ==
  [hist EXCEPT ![l] = Append(IF Len(@) >= HistCap THEN Tail(@) ELSE @,
                             [ev |-> e, val |-> v])]
-----------------------------------------------------------------------------
(* Deadlock detection and the verdict on the graph.                        *)

Runnable(t) ==
  /\ t \in active
  /\ t \notin blockedUnk
  /\ t \notin joinWait
  /\ waiting[t] = None

\* can_produce_write_locked.  The frontier test of a thread that never started
\* always succeeds: w itself is an uncovered event of that thread.
CanProduce(w) ==
  \/ InHistory(w)
  \/ /\ w \in Node
     /\ WriteLike(graph.type[w])
     /\ w \notin covered
     /\ IF Tid(w) \in active THEN Runnable(Tid(w)) ELSE Tid(w) \notin everStarted

\* cmp_node_idx_for_thread_order: visit first, then node id.
Before(m, n) == m[3] < n[3] \/ (m[3] = n[3] /\ m[2] < n[2])

\* The first uncovered event of its thread (thread_frontier, which
\* mark_node_covered advances past every covered event).
IsFrontier(n) ==
  /\ n \in Node \ covered
  /\ \A m \in Node \ covered : Tid(m) = Tid(n) => ~Before(m, n)

\* is_node_producible_locked; an rf source is write-like, so the recursion of
\* the code ends there.
ProducibleWrite(n) ==
  \/ n \in covered
  \/ IsFrontier(n) /\ Runnable(Tid(n)) /\ WriteLike(graph.type[n])

Producible(n) ==
  \/ n \in covered
  \/ /\ IsFrontier(n)
     /\ Runnable(Tid(n))
     /\ \/ WriteLike(graph.type[n]) \/ graph.type[n] = "FENCE"
        \/ ProducibleWrite(graph.rf[n])

ExistsProducible == \E n \in Node \ covered : Producible(n)

\* Mutant: a running thread does not prevent the deadlock verdict.
AllStuckIgnoringRunners ==
  \A t \in active : \/ t \in blockedUnk \cup joinWait
                    \/ waiting[t] = None \/ ~CanProduce(waiting[t])

\* The loop over the slots: nobody runs and no waited write can still come.
AllStuck ==
  \A t \in active : \/ t \in blockedUnk \cup joinWait
                    \/ waiting[t] # None /\ ~CanProduce(waiting[t])

HasBlocked ==
  \E t \in active : waiting[t] # None \/ t \in blockedUnk \cup joinWait

\* Mutant: created but not yet registered threads are forgotten.
ShouldExitIgnoringAlive ==
  /\ activeThreads > 0
  /\ AllStuck
  /\ IF covered # Node THEN ~ExistsProducible ELSE HasBlocked

\* should_exit_deadlock_locked
ShouldExit ==
  /\ activeThreads > 0
  /\ ~(aliveThreads > activeThreads)
  /\ AllStuck
  /\ IF covered # Node THEN ~ExistsProducible ELSE HasBlocked

\* Mutant: executed events suffice.
InstantiatedWithoutRf == covered = Node

\* is_instantiated_but_not_done_locked
Instantiated == covered = Node /\ coveredRf = DOMAIN graph.rf

TerminalCode ==
  IF Instantiated THEN INSTANTIATED_BUT_NOT_DONE ELSE NOT_INSTANTIABLE
-----------------------------------------------------------------------------
(* Pieces shared by the handlers.                                          *)

\* pthread_cond_broadcast(&sched_cond)
Broadcast == woken' = {u \in Thread : st[u] \in {"rfwait", "unknown"}}

\* ensure_event_thread_active_locked
EnsureActive(t) ==
  /\ known' = known \cup {t}
  /\ everStarted' = everStarted \cup ({t} \ known)
  /\ aliveThreads' = IF t \in known THEN aliveThreads ELSE aliveThreads + 1
  /\ active' = active \cup {t}
  /\ activeThreads' = IF t \in active THEN activeThreads ELSE activeThreads + 1

\* Mutant: the second unregistration counts again.
UnregisterTwice(t) ==
  /\ waiting' = [waiting EXCEPT ![t] = None]
  /\ joinWait' = joinWait \ {t}
  /\ active' = active \ {t}
  /\ activeThreads' = IF t \in active THEN activeThreads - 1 ELSE activeThreads
  /\ known' = known \ {t}
  /\ aliveThreads' = aliveThreads - 1
  /\ blockedUnk' = blockedUnk \ {t}
  /\ blockedUnkThreads' = blockedUnkThreads
  /\ Broadcast
  /\ UNCHANGED <<everStarted, nextEvents>>

\* scheduler_thread_unregistered
Unregister(t) ==
  /\ waiting' = [waiting EXCEPT ![t] = None]
  /\ joinWait' = joinWait \ {t}
  /\ active' = active \ {t}
  /\ activeThreads' = IF t \in active THEN activeThreads - 1 ELSE activeThreads
  /\ known' = known \ {t}
  /\ aliveThreads' = IF t \in known THEN aliveThreads - 1 ELSE aliveThreads
  /\ blockedUnk' = blockedUnk \ {t}
  /\ blockedUnkThreads' = IF t \in blockedUnk /\ blockedUnkThreads > 0
                          THEN blockedUnkThreads - 1 ELSE blockedUnkThreads
  /\ Broadcast
  /\ UNCHANGED <<everStarted, nextEvents>>

\* The compare-and-swap on wmm_exiting: the loser pauses for ever.
CasExit(t, code) ==
  IF exiting = 0
  THEN exiting' = code /\ st' = [st EXCEPT ![t] = "exiting"]
  ELSE UNCHANGED exiting /\ st' = [st EXCEPT ![t] = "paused"]

\* scheduler_terminate_locked.  For code 20 it first publishes the next events
\* with the lock held: begin_update here, the rest in Publish.
Terminate(t, code) ==
  IF code = INSTANTIATED_BUT_NOT_DONE
  THEN /\ st' = [st EXCEPT ![t] = "publish"]
       /\ lock' = t
       /\ shm' = [ready |-> FALSE, events |-> {}]
       /\ UNCHANGED exiting
  ELSE CasExit(t, code) /\ UNCHANGED <<lock, shm>>

\* One turn of a waiting loop: leave through the deadlock exit or sleep.
\* Evaluated on the state the handler has already updated.
SleepOrExit(t, control) ==
  IF ShouldExit'
  THEN Terminate(t, TerminalCode')
  ELSE st' = [st EXCEPT ![t] = control] /\ UNCHANGED exitVars

Goto(t, control) == st' = [st EXCEPT ![t] = control]
Advance(t) == pc' = [pc EXCEPT ![t] = @ + 1] /\ Goto(t, "run")

\* A critical section can start: the process lives and sched_lock is free.
Free == proc = Running /\ lock = None

AtEvent(t, k) == Free /\ st[t] = "run" /\ AtOp(t, k)
Known(t) == Op(t).ev \in Node
-----------------------------------------------------------------------------
(* Thread creation, start, end and join (the wrappers of wmm_hooks.c).     *)

\* wmm_pthread_create up to the real call: scheduler_thread_created.
ThreadCreated(t) ==
  /\ AtEvent(t, "create")
  /\ LET c == Op(t).child
     IN  /\ known' = known \cup ({c} \ everStarted)
         /\ everStarted' = everStarted \cup {c}
         /\ aliveThreads' = IF c \in everStarted THEN aliveThreads ELSE aliveThreads + 1
         /\ IF c \in everStarted THEN UNCHANGED woken ELSE Broadcast
         /\ parent' = [parent EXCEPT ![c] = t]
         /\ lastExec' = [lastExec EXCEPT ![c] = lastExec[t]]
  /\ Goto(t, "creating")
  /\ UNCHANGED <<graph, pc, active, activeThreads, unkVars, joinWait, waiting, rfVars,
                 joined, atJoin, pruned, mapped, exitVars, proc>>

\* real_pthread_create succeeds: the child, in a slot of its own (the tid counter
\* only grows), may start at once.
PthreadCreateOk(t) ==
  /\ proc = Running /\ st[t] = "creating" /\ st[Op(t).child] = "none"
  /\ st' = [st EXCEPT ![t] = "mapping", ![Op(t).child] = "starting"]
  /\ UNCHANGED <<graph, pc, woken, flagVars, unkVars, joinWait, waiting, rfVars,
                 treeVars, lastExec, exitVars, proc>>

\* __wmm_os_thread_map[wrapper_arg->tid] = *thread.  A child that has already
\* ended has freed wrapper_arg: the index read is then arbitrary.
MapThread(t) ==
  /\ proc = Running /\ st[t] = "mapping"
  /\ LET c == Op(t).child
     IN  \/ mapped' = mapped \cup {c}
         \/ st[c] \in {"ended", "dead"} /\ UNCHANGED mapped
  /\ Advance(t)
  /\ UNCHANGED <<graph, woken, flagVars, unkVars, joinWait, waiting, rfVars,
                 parent, joined, atJoin, pruned, lastExec, exitVars, proc>>

\* real_pthread_create fails: the code unregisters the calling thread.
PthreadCreateFail(t) ==
  /\ CreateMayFail
  /\ Free /\ st[t] = "creating"
  /\ Unregister(t)
  /\ Advance(t)
  /\ UNCHANGED <<graph, rfVars, treeVars, lastExec, exitVars, proc>>

\* wmm_thread_start: scheduler_thread_registered.
ThreadRegistered(t) ==
  /\ Free /\ st[t] = "starting"
  /\ EnsureActive(t)
  /\ blockedUnk' = blockedUnk \ {t}
  /\ joinWait' = joinWait \ {t}
  /\ waiting' = [waiting EXCEPT ![t] = None]
  /\ Broadcast
  /\ Goto(t, "run")
  /\ UNCHANGED <<graph, pc, blockedUnkThreads, nextEvents, rfVars, treeVars, lastExec,
                 exitVars, proc>>

\* wmm_thread_end, when the start routine has returned.
ThreadEnd(t) ==
  /\ Free /\ st[t] = "run" /\ AtEnd(t) /\ t # Main
  /\ Unregister(t)
  /\ Goto(t, "ended")
  /\ UNCHANGED <<graph, pc, rfVars, treeVars, lastExec, exitVars, proc>>

\* The operating system thread finishes; the TLS destructor that the first
\* event installed unregisters the slot a second time.
ThreadExit(t) ==
  /\ Free /\ st[t] = "ended"
  /\ IF \E i \in DOMAIN Prog[t] : Prog[t][i].op \in EventOps
     THEN Unregister(t)
     ELSE UNCHANGED <<waiting, joinWait, flagVars, unkVars, woken>>
  /\ Goto(t, "dead")
  /\ UNCHANGED <<graph, pc, rfVars, treeVars, lastExec, exitVars, proc>>

\* Mutant: a thread that starts to wait in join does not tell the others.
JoinBeginSilently(t) ==
  /\ AtEvent(t, "join") /\ st[Op(t).child] # "none"
  /\ joinWait' = joinWait \cup {t} /\ waiting' = [waiting EXCEPT ![t] = None]
  /\ Goto(t, "join")
  /\ UNCHANGED <<graph, pc, woken, flagVars, unkVars, rfVars, treeVars, lastExec, exitVars,
                 proc>>

\* wmm_pthread_join up to the real call: scheduler_thread_join_wait_begin.
JoinBegin(t) ==
  /\ AtEvent(t, "join") /\ st[Op(t).child] # "none"
  /\ IF t \in active
     THEN joinWait' = joinWait \cup {t} /\ waiting' = [waiting EXCEPT ![t] = None]
     ELSE UNCHANGED <<joinWait, waiting>>
  /\ Broadcast
  /\ Goto(t, "join")
  /\ UNCHANGED <<graph, pc, flagVars, unkVars, rfVars, treeVars, lastExec, exitVars, proc>>

\* The program does not join a thread whose creation failed.
JoinSkip(t) ==
  /\ AtEvent(t, "join") /\ st[Op(t).child] = "none"
  /\ Advance(t)
  /\ UNCHANGED <<graph, woken, flagVars, unkVars, joinWait, waiting, rfVars, treeVars,
                 lastExec, exitVars, proc>>

\* real_pthread_join has returned: scheduler_thread_join_wait_end and, for a
\* child found in the thread map, thread_joined_mark_true.
JoinEnd(t) ==
  /\ Free /\ st[t] = "join"
  /\ LET c == Op(t).child
     IN  /\ st[c] = "dead"
         /\ IF c \in mapped \ pruned
            THEN /\ joined' = joined \cup {c}
                 /\ atJoin' = [atJoin EXCEPT ![c] = <<lastExec[t][2], lastExec[t][3]>>]
            ELSE UNCHANGED <<joined, atJoin>>
         /\ mapped' = mapped \ {c}
  /\ joinWait' = IF t \in active THEN joinWait \ {t} ELSE joinWait
  /\ Broadcast
  /\ Advance(t)
  /\ UNCHANGED <<graph, flagVars, unkVars, waiting, rfVars, parent, pruned, lastExec,
                 exitVars, proc>>
-----------------------------------------------------------------------------
(* Event handlers.                                                         *)

\* mark_node_covered and update_last_executed_event
Cover(t, e) ==
  /\ covered' = covered \cup {e}
  /\ lastExec' = [lastExec EXCEPT ![t] = e]

\* The node has a type this handler does not accept.
Mismatch(t) ==
  /\ Terminate(t, INVALID_INPUT)
  /\ UNCHANGED <<pc, woken, rfVars, lastExec, waiting>>

OnStore(t) ==
  /\ AtEvent(t, "store") /\ Known(t)
  /\ EnsureActive(t)
  /\ LET e == Op(t).ev
     IN  IF graph.type[e] \in {"WRITE", "RMW"}
         THEN /\ Cover(t, e)
              /\ hist' = AddHistory(Op(t).loc, e, Op(t).val)
              /\ Broadcast
              /\ Advance(t)
              /\ UNCHANGED <<coveredRf, waiting, exitVars>>
         ELSE Mismatch(t)
  /\ UNCHANGED <<graph, unkVars, joinWait, treeVars, proc>>

\* The fence handler wakes nobody.
OnFence(t) ==
  /\ AtEvent(t, "fence") /\ Known(t)
  /\ EnsureActive(t)
  /\ LET e == Op(t).ev
     IN  IF graph.type[e] = "FENCE"
         THEN /\ Cover(t, e)
              /\ Advance(t)
              /\ UNCHANGED <<coveredRf, hist, woken, waiting, exitVars>>
         ELSE Mismatch(t)
  /\ UNCHANGED <<graph, unkVars, joinWait, treeVars, proc>>

\* Mutant: a matching comparison always swaps.
CasDecisionIgnoringGraph(o, ty, old) == IF old = o.cmp THEN "swap" ELSE "keep"

\* The decision table of scheduler_on_cmpxchg_bytes_ex: does the exchange swap,
\* or can the outcome the graph demands not happen?
CasDecision(o, ty, old) ==
  LET matched == old = o.cmp
  IN  IF ty \notin {"CAS_SUCCESS", "CAS_FAIL"} THEN IF matched THEN "swap" ELSE "keep"
      ELSE IF o.weak
           THEN IF ty = "CAS_FAIL" THEN "keep" ELSE IF matched THEN "swap" ELSE "impossible"
           ELSE IF (ty = "CAS_SUCCESS") # matched THEN "impossible"
                ELSE IF matched THEN "swap" ELSE "keep"

\* mark_rf_edge_covered
MarkRfEdge(r) == coveredRf' = coveredRf \cup {r}

\* The rf source is in the history and overlaps: the value is handed over and
\* the rest of the handler runs.
ReadSatisfied(t, o, old) ==
  /\ MarkRfEdge(o.ev)
  /\ waiting' = [waiting EXCEPT ![t] = None]
  /\ CASE o.op = "load" ->
            /\ woken' = woken \ {t}
            /\ Advance(t)
            /\ UNCHANGED <<hist, exitVars>>
       [] o.op = "rmw" ->
            /\ hist' = AddHistory(o.loc, o.ev, (old + o.val) % ValMod)
            /\ Broadcast
            /\ Advance(t)
            /\ UNCHANGED exitVars
       [] o.op = "cas" ->
            LET d == CasDecision(o, graph.type[o.ev], old)
            IN  IF d = "impossible"
                THEN /\ Terminate(t, NOT_INSTANTIABLE)
                     /\ woken' = woken \ {t}
                     /\ UNCHANGED <<pc, hist>>
                ELSE /\ hist' = IF d = "swap" THEN AddHistory(o.loc, o.ev, o.val) ELSE hist
                     /\ Broadcast
                     /\ Advance(t)
                     /\ UNCHANGED exitVars

\* One turn of the loop that waits for the rf source.
RfTurn(t, o) ==
  LET w == graph.rf[o.ev]
  IN  IF ~InHistory(w)
      THEN /\ waiting' = [waiting EXCEPT ![t] = w]
           /\ woken' = woken \ {t}
           /\ UNCHANGED <<coveredRf, hist, pc>>
           /\ SleepOrExit(t, "rfwait")
      ELSE IF HistLoc(w) = o.loc
           THEN ReadSatisfied(t, o, HistVal(w))
           ELSE /\ waiting' = [waiting EXCEPT ![t] = w]   \* require_rf_overlap_locked
                /\ woken' = woken \ {t}
                /\ Terminate(t, NOT_INSTANTIABLE)
                /\ UNCHANGED <<coveredRf, hist, pc>>

AcceptedTypes(op) ==
  CASE op = "load" -> {"READ", "RMW"}
    [] op = "rmw"  -> {"RMW", "READ", "WRITE"}
    [] op = "cas"  -> {"RMW", "READ", "WRITE", "CAS_SUCCESS", "CAS_FAIL"}

\* The load, RMW and compare-exchange handlers.  The node is covered before the
\* thread waits for its source.
OnRead(t) ==
  /\ Free /\ st[t] = "run" /\ ~AtEnd(t) /\ Op(t).op \in ReadOps /\ Known(t)
  /\ UNCHANGED <<graph, unkVars, joinWait, treeVars, proc>>
  /\ LET o == Op(t)
     IN  IF graph.type[o.ev] \notin AcceptedTypes(o.op)
         THEN /\ IF o.op = "load" THEN UNCHANGED flagVars ELSE EnsureActive(t)
              /\ Mismatch(t)
         ELSE /\ Cover(t, o.ev)
              /\ IF o.ev \in DOMAIN graph.rf
                 THEN EnsureActive(t) /\ RfTurn(t, o)
                 ELSE /\ IF o.op = "load" THEN UNCHANGED flagVars ELSE EnsureActive(t)
                      /\ Terminate(t, INVALID_INPUT)   \* no rf_edges source write
                      /\ UNCHANGED <<pc, woken, coveredRf, hist, waiting>>

\* A reader wakes up in its waiting loop.
ReadRecheck(t) ==
  /\ Free /\ st[t] = "rfwait" /\ t \in woken
  /\ UNCHANGED <<graph, flagVars, unkVars, joinWait, covered, lastExec, treeVars, proc>>
  /\ RfTurn(t, Op(t))

\* An event that is not in the graph: it is remembered as a next event and its
\* thread blocks until the process ends (block_on_unknown_event_locked).
OnUnknown(t) ==
  /\ Free /\ st[t] = "run" /\ ~AtEnd(t) /\ Op(t).op \in EventOps /\ ~Known(t)
  /\ UNCHANGED <<graph, pc, joinWait, rfVars, lastExec, treeVars, proc>>
  /\ EnsureActive(t)
  /\ nextEvents' = nextEvents \cup {Op(t).ev}
  /\ IF t \in blockedUnk
     THEN UNCHANGED <<blockedUnk, blockedUnkThreads, waiting, woken>>
     ELSE /\ blockedUnk' = blockedUnk \cup {t}
          /\ blockedUnkThreads' = blockedUnkThreads + 1
          /\ waiting' = [waiting EXCEPT ![t] = None]
          /\ Broadcast
  /\ SleepOrExit(t, "unknown")

UnknownRecheck(t) ==
  /\ Free /\ st[t] = "unknown" /\ t \in woken
  /\ UNCHANGED <<graph, pc, flagVars, unkVars, joinWait, waiting, rfVars, lastExec,
                 treeVars, proc>>
  /\ woken' = woken \ {t}
  /\ SleepOrExit(t, "unknown")

\* pthread_cond_wait may return without a signal.
SpuriousWake(t) ==
  /\ proc = Running /\ st[t] \in {"rfwait", "unknown"} /\ t \notin woken
  /\ woken' = woken \cup {t}
  /\ UNCHANGED <<graph, pc, st, flagVars, unkVars, joinWait, waiting, rfVars, treeVars,
                 lastExec, exitVars, proc>>
-----------------------------------------------------------------------------
(* Publication of the next events and the end of the process.              *)

Depth == Cardinality(Thread)

\* The joined children of p linked in the all_threads tree, where "gone" are
\* the nodes that have been removed from it.
JoinedKids(p, gone) == {c \in joined \ gone : parent[c] = p}

\* A joined child is shielded when its parent executed an event after the join.
Unshielded(p, gone) ==
  {c \in JoinedKids(p, gone) : atJoin[c] = <<lastExec[p][2], lastExec[p][3]>>}

\* collect_and_prune_events n levels below thread p: a child stands for itself
\* only when nothing was collected below it.
CollectedBelow(gone) ==
  LET below[n \in 0..Depth, p \in Thread] ==
        IF n = 0 THEN {}
        ELSE UNION {IF below[n - 1, c] = {} THEN {c} ELSE below[n - 1, c]
                      : c \in Unshielded(p, gone)}
  IN  below

\* The threads whose last events are collected for t.
Collected(t, gone) == {c \in joined : c \in CollectedBelow(gone)[Depth, t]}

\* The joined threads below p, n levels deep, shielded ones included.
JoinedBelow(gone) ==
  LET below[n \in 0..Depth, p \in Thread] ==
        IF n = 0 THEN {}
        ELSE UNION {{c} \cup below[n - 1, c] : c \in JoinedKids(p, gone)}
  IN  below

\* The nodes that the collection for t removes from the tree.
PrunedFor(t) == {c \in joined : c \in JoinedBelow(pruned)[Depth, t]}

\* The source nodes of a next event of thread t: the last events of the threads
\* collected below it or else the thread's own.
Sources(t, gone) ==
  IF Collected(t, gone) = {} THEN {lastExec[t]}
  ELSE {lastExec[c] : c \in Collected(t, gone)}

\* Mutant: the last place of the block is left empty.
FitsButOne(reported) ==
  Cardinality(reported) = IF Cardinality(nextEvents) < MaxNext
                          THEN Cardinality(nextEvents) ELSE MaxNext - 1

\* The block holds the first MaxNext events of the list.  The list has the latest
\* first; their order is not kept here, any of them may be the latest.
Fits(reported) ==
  Cardinality(reported) = IF Cardinality(nextEvents) < MaxNext
                          THEN Cardinality(nextEvents) ELSE MaxNext

\* The loop over next_events, finish_update_c, and the exit.
Publish(t) ==
  /\ proc = Running /\ st[t] = "publish"
  /\ \E reported \in SUBSET nextEvents :
       /\ Fits(reported)
       /\ shm' = [ready |-> TRUE,
                  events |-> {[next |-> e, src |-> Sources(Tid(e), pruned)] : e \in reported}]
  /\ pruned' = pruned \cup UNION {PrunedFor(Tid(e)) : e \in nextEvents}
  /\ CasExit(t, INSTANTIATED_BUT_NOT_DONE)
  /\ lock' = None
  /\ UNCHANGED <<graph, pc, woken, flagVars, unkVars, joinWait, waiting, rfVars,
                 parent, joined, atJoin, mapped, lastExec, proc>>

\* main returns: exit(0).
MainReturn(t) ==
  /\ proc = Running /\ t = Main /\ st[t] = "run" /\ AtEnd(t)
  /\ Goto(t, "returning")
  /\ UNCHANGED <<graph, pc, woken, flagVars, unkVars, joinWait, waiting, rfVars,
                 treeVars, lastExec, exitVars, proc>>

\* scheduler_verify_atexit, run by every thread that calls exit.
VerifyAtexit(t) ==
  /\ Free /\ st[t] \in {"exiting", "returning"}
  /\ IF exiting # 0
     THEN /\ Goto(t, IF st[t] = "exiting" THEN "dying" ELSE "dying0")
          /\ UNCHANGED exiting
     ELSE IF Instantiated
          THEN Goto(t, "dying0") /\ UNCHANGED exiting
          ELSE Goto(t, "dying") /\ exiting' = NOT_INSTANTIABLE
  /\ UNCHANGED <<graph, pc, woken, flagVars, unkVars, joinWait, waiting, rfVars,
                 treeVars, lastExec, lock, shm, proc>>

ProcessExit(t) ==
  /\ proc = Running /\ st[t] \in {"dying", "dying0"}
  /\ proc' = IF st[t] = "dying" THEN exiting ELSE OK
  /\ UNCHANGED <<graph, progVars, flagVars, unkVars, joinWait, waiting, rfVars,
                 treeVars, lastExec, exitVars>>
-----------------------------------------------------------------------------
Init ==
  /\ graph \in Graphs
  /\ pc = [t \in Thread |-> 1]
  /\ st = [t \in Thread |-> IF t = Main THEN "run" ELSE "none"]
  /\ woken = {}
  /\ active = {Main} /\ known = {Main} /\ everStarted = {Main}
  /\ activeThreads = 1 /\ aliveThreads = 1
  /\ blockedUnk = {} /\ blockedUnkThreads = 0 /\ joinWait = {}
  /\ waiting = [t \in Thread |-> None]
  /\ covered = {} /\ coveredRf = {}
  /\ hist = [l \in Loc |-> <<>>]
  /\ parent = [t \in Thread |-> None]
  /\ lastExec = [t \in Thread |-> <<t, -1, -1>>]
  /\ joined = {} /\ pruned = {} /\ mapped = {}
  /\ atJoin = [t \in Thread |-> <<-1, -1>>]
  /\ nextEvents = {}
  /\ lock = None
  /\ shm = [ready |-> FALSE, events |-> {}]
  /\ exiting = 0 /\ proc = Running

\* What thread t does of its own accord.
ThreadStep(t) ==
  \/ ThreadCreated(t) \/ PthreadCreateOk(t) \/ MapThread(t) \/ ThreadRegistered(t)
  \/ ThreadEnd(t) \/ ThreadExit(t)
  \/ JoinBegin(t) \/ JoinSkip(t) \/ JoinEnd(t)
  \/ OnStore(t) \/ OnFence(t) \/ OnRead(t) \/ ReadRecheck(t)
  \/ OnUnknown(t) \/ UnknownRecheck(t)
  \/ Publish(t) \/ MainReturn(t) \/ VerifyAtexit(t) \/ ProcessExit(t)

\* What the environment may do to it.
Environment(t) == PthreadCreateFail(t) \/ SpuriousWake(t)

\* The process is gone.
Done == proc # Running /\ UNCHANGED vars

Next == (\E t \in Thread : ThreadStep(t) \/ Environment(t)) \/ Done

\* The operating system runs every thread that can run, and sched_lock is not
\* withheld for ever from a thread that wants it; wake-ups without a signal
\* and failing pthread_create calls need not happen.
Fairness == \A t \in Thread : WF_vars(ThreadStep(t))

Spec == Init /\ [][Next]_vars /\ Fairness
-----------------------------------------------------------------------------
(* Properties.                                                             *)

ProgType ==
  /\ pc \in [Thread -> Nat \ {0}]
  /\ st \in [Thread -> Control]
  /\ woken \subseteq Thread

FlagType ==
  /\ active \subseteq Thread /\ known \subseteq Thread /\ everStarted \subseteq Thread
  /\ blockedUnk \subseteq Thread /\ joinWait \subseteq Thread
  /\ waiting \in [Thread -> Event \cup {None}]
  /\ activeThreads \in Int /\ aliveThreads \in Int /\ blockedUnkThreads \in Int

CoverType ==
  /\ WellFormed(graph)
  /\ covered \subseteq Node
  /\ coveredRf \subseteq DOMAIN graph.rf
  /\ hist \in [Loc -> Seq([ev : Event, val : Val])]

TreeType ==
  /\ parent \in [Thread -> Thread \cup {None}]
  /\ lastExec \in [Thread -> EventId]
  /\ joined \subseteq Thread /\ pruned \subseteq Thread /\ mapped \subseteq Thread
  /\ atJoin \in [Thread -> Int \X Int]

ExitType ==
  /\ nextEvents \subseteq Event
  /\ lock \in Thread \cup {None}
  /\ shm.ready \in BOOLEAN
  /\ \A x \in shm.events : x.next \in Event /\ x.src \subseteq EventId
  /\ exiting \in ExitCodes
  /\ proc \in ExitCodes \cup {Running}

\* Every variable holds a value of its declared kind: the flags only name slots,
\* and coverage only names parts of the loaded graph.
TypeOK == ProgType /\ FlagType /\ CoverType /\ TreeType /\ ExitType

\* The counters that decide a deadlock are exactly the sizes of the flag sets
\* they summarise, whatever the order of registration, double unregistration
\* (thread end and TLS destructor) and failed creation.
CountersExact ==
  /\ activeThreads = Cardinality(active)
  /\ aliveThreads = Cardinality(known)
  /\ active \subseteq known /\ known \subseteq everStarted
  /\ blockedUnkThreads = Cardinality(blockedUnk)

\* A read is only ever satisfied by a store that has been executed, and a
\* compare-exchange that the graph says fails never leaves a store behind.
ReadsFromExecuted ==
  /\ \A r \in coveredRf : r \in covered /\ graph.rf[r] \in covered
  /\ \A l \in Loc : \A i \in DOMAIN hist[l] :
        /\ hist[l][i].ev \in covered
        /\ graph.type[hist[l][i].ev] # "CAS_FAIL"

\* Status 20 is claimed only for a graph all of whose events were executed with
\* all their rf edges, and only when the program has a further event to report.
Code20Sound ==
  (exiting = INSTANTIATED_BUT_NOT_DONE \/ proc = INSTANTIATED_BUT_NOT_DONE) =>
     /\ covered = Node
     /\ coveredRf = DOMAIN graph.rf
     /\ nextEvents # {}

\* A complete publication gives every next event all its source nodes: the last
\* events of the threads it comes after, each time the block is written.
SourcesComplete ==
  shm.ready => \A x \in shm.events : x.src = Sources(Tid(x.next), {})

\* A slot whose pthread_create failed is not counted among the live threads
\* once wmm_pthread_create has returned.
FailedCreateUnregistered ==
  \A c \in known : st[c] = "none" =>
     \E t \in Thread : st[t] = "creating" /\ Op(t).child = c

\* The process ends.
EventuallyExits == <>(proc # Running)
=============================================================================
