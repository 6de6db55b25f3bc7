------------------------- MODULE WmmSchedulerProofs -------------------------
(***************************************************************************)
(* Proofs about WmmScheduler and what WmmVerdict says of it, for every     *)
(* program, every set of graphs that eg.c accepts and every number of      *)
(* threads.  The last part shows that the reference run of WmmVerdict      *)
(* ends, that the scheduler follows it whatever the interleaving, and that *)
(* the exit status and the published next events are its own.              *)
(***************************************************************************)
EXTENDS WmmVerdict, TLAPS, FiniteSetTheorems, DataLemmas

\* A thread inside a handler or a pthread wrapper is still at the instruction
\* that entered it.
PcInv ==
  \A t \in Thread :
    /\ st[t] = "rfwait" => ~AtEnd(t) /\ Op(t).op \in ReadOps /\ Op(t).ev \in DOMAIN graph.rf
    /\ st[t] \in {"creating", "mapping"} => ~AtEnd(t) /\ Op(t).op = "create"
    /\ st[t] = "join" => ~AtEnd(t) /\ Op(t).op = "join"

TypeInv == TypeOK /\ PcInv

\* What the assumption on the program says of the instruction of a thread.
LEMMA OpType ==
  ASSUME TypeOK, NEW t \in Thread, ~AtEnd(t)
  PROVE  Op(t) \in Instr /\ WellFormedInstr(t, Op(t))
  BY SchedulerAssumption DEF TypeOK, ProgType, AtEnd, Op

\* The history stays a history when a write is added.
LEMMA AddHistoryType ==
  ASSUME TypeOK, NEW l \in Loc, NEW e \in Event, NEW v \in Val
  PROVE  AddHistory(l, e, v) \in [Loc -> Seq([ev : Event, val : Val])]
<1> DEFINE R == [ev : Event, val : Val]
<1> DEFINE kept == IF Len(hist[l]) >= HistCap THEN Tail(hist[l]) ELSE hist[l]
<1>1. hist[l] \in Seq(R) BY DEF TypeOK, CoverType
<1>2. kept \in Seq(R) BY <1>1, SchedulerAssumption
<1>3. [ev |-> e, val |-> v] \in R OBVIOUS
<1>4. Append(kept, [ev |-> e, val |-> v]) \in Seq(R) BY <1>2, <1>3
<1>5. hist \in [Loc -> Seq(R)] BY DEF TypeOK, CoverType
<1> QED BY <1>4, <1>5 DEF AddHistory

\* A write found in the history has an address and a value.
LEMMA HistValType ==
  ASSUME TypeOK, NEW w, InHistory(w)
  PROVE  HistLoc(w) \in Loc /\ HistVal(w) \in Val
<1> DEFINE R == [ev : Event, val : Val]
<1>1. HistLoc(w) \in Loc /\ \E i \in DOMAIN hist[HistLoc(w)] : hist[HistLoc(w)][i].ev = w
  BY DEF InHistory, HistLoc
<1> DEFINE h == hist[HistLoc(w)]
<1> DEFINE k == CHOOSE i \in DOMAIN h : h[i].ev = w
<1>2. h \in Seq(R) BY <1>1 DEF TypeOK, CoverType
<1>3. k \in DOMAIN h BY <1>1
<1>4. \A x \in R : x.val \in Val OBVIOUS
<1>5. HistVal(w) = h[k].val BY DEF HistVal
<1> HIDE DEF h, k, R
<1>6. h[k] \in R BY <1>2, <1>3
<1> QED BY <1>1, <1>4, <1>5, <1>6
-----------------------------------------------------------------------------
(* The pieces the handlers share.                                          *)

LEMMA EnsureActiveType ==
  ASSUME FlagType, NEW t \in Thread, EnsureActive(t)
  PROVE  /\ active' \subseteq Thread /\ known' \subseteq Thread /\ everStarted' \subseteq Thread
         /\ activeThreads' \in Int /\ aliveThreads' \in Int
  BY DEF FlagType, EnsureActive

LEMMA UnregisterType ==
  ASSUME FlagType, NEW t \in Thread, Unregister(t)
  PROVE  FlagType' /\ woken' \subseteq Thread /\ nextEvents' = nextEvents
  BY DEF FlagType, Unregister, Broadcast

LEMMA TerminateType ==
  ASSUME TypeOK, NEW t \in Thread, NEW code \in ExitCodes, Terminate(t, code)
  PROVE  /\ \E c \in {"publish", "exiting", "paused"} : st' = [st EXCEPT ![t] = c]
         /\ lock' \in Thread \cup {None}
         /\ shm'.ready \in BOOLEAN
         /\ \A x \in shm'.events : x.next \in Event /\ x.src \subseteq EventId
         /\ exiting' \in ExitCodes
<1>1. CASE code = INSTANTIATED_BUT_NOT_DONE
  <2>1. /\ st' = [st EXCEPT ![t] = "publish"] /\ lock' = t
        /\ shm' = [ready |-> FALSE, events |-> {}] /\ exiting' = exiting
    BY <1>1 DEF Terminate
  <2>2. shm'.ready \in BOOLEAN /\ shm'.events = {} BY <2>1
  <2> QED BY <2>1, <2>2 DEF TypeOK, ExitType
<1>2. CASE code # INSTANTIATED_BUT_NOT_DONE
  <2>1. CasExit(t, code) /\ UNCHANGED <<lock, shm>> BY <1>2 DEF Terminate
  <2>2. \E c \in {"publish", "exiting", "paused"} : st' = [st EXCEPT ![t] = c]
    BY <2>1 DEF CasExit
  <2>3. exiting' \in ExitCodes BY <2>1 DEF CasExit, TypeOK, ExitType
  <2> QED BY <2>1, <2>2, <2>3 DEF TypeOK, ExitType
<1> QED BY <1>1, <1>2

LEMMA SleepOrExitType ==
  ASSUME TypeOK, NEW t \in Thread, NEW control, SleepOrExit(t, control)
  PROVE  /\ \E c \in {"publish", "exiting", "paused", control} : st' = [st EXCEPT ![t] = c]
         /\ lock' \in Thread \cup {None}
         /\ shm'.ready \in BOOLEAN
         /\ \A x \in shm'.events : x.next \in Event /\ x.src \subseteq EventId
         /\ exiting' \in ExitCodes
<1>1. CASE ShouldExit'
  <2>1. TerminalCode' \in ExitCodes BY DEF TerminalCode, ExitCodes
  <2>2. Terminate(t, TerminalCode') BY <1>1 DEF SleepOrExit
  <2> HIDE DEF TerminalCode
  <2> QED BY <2>1, <2>2, TerminateType
<1>2. CASE ~ShouldExit'
  BY <1>2 DEF SleepOrExit, TypeOK, ExitType, exitVars
<1> QED BY <1>1, <1>2

\* One turn of the waiting loop of a thread that stands at a read.
LEMMA RfTurnType ==
  ASSUME TypeOK, NEW t \in Thread, ~AtEnd(t), Op(t).op \in ReadOps,
         Op(t).ev \in DOMAIN graph.rf, RfTurn(t, Op(t))
  PROVE  /\ pc' = pc \/ pc' = [pc EXCEPT ![t] = @ + 1]
         /\ \E c \in {"publish", "exiting", "paused", "rfwait", "run"} :
               /\ st' = [st EXCEPT ![t] = c]
               /\ c = "rfwait" => pc' = pc
         /\ woken' \subseteq Thread
         /\ waiting' \in [Thread -> Event \cup {None}]
         /\ coveredRf' \subseteq DOMAIN graph.rf
         /\ hist' \in [Loc -> Seq([ev : Event, val : Val])]
         /\ lock' \in Thread \cup {None}
         /\ shm'.ready \in BOOLEAN
         /\ \A x \in shm'.events : x.next \in Event /\ x.src \subseteq EventId
         /\ exiting' \in ExitCodes
<1> DEFINE o == Op(t)
<1> DEFINE w == graph.rf[o.ev]
<1>0. /\ o.ev \in Event /\ o.loc \in Loc /\ o.val \in Val
      /\ w \in Event
      /\ NOT_INSTANTIABLE \in ExitCodes
  BY OpType DEF WellFormedInstr, ReadOps, EventOps, TypeOK, CoverType, WellFormed, Instr, ExitCodes
<1>1. CASE ~InHistory(w)
  <2>1. SleepOrExit(t, "rfwait") BY <1>1 DEF RfTurn
  <2>2. /\ waiting' = [waiting EXCEPT ![t] = w]
        /\ woken' = woken \ {t}
        /\ UNCHANGED <<coveredRf, hist, pc>>
    BY <1>1 DEF RfTurn
  <2>3. PICK c \in {"publish", "exiting", "paused", "rfwait"} : st' = [st EXCEPT ![t] = c]
    BY <2>1, SleepOrExitType
  <2>4. waiting' \in [Thread -> Event \cup {None}]
    BY <1>0, <2>2 DEF TypeOK, FlagType
  <2> QED BY <2>1, <2>2, <2>3, <2>4, SleepOrExitType DEF TypeOK, ProgType, CoverType
<1>2. CASE InHistory(w) /\ HistLoc(w) # o.loc
  <2>1. /\ Terminate(t, NOT_INSTANTIABLE)
        /\ waiting' = [waiting EXCEPT ![t] = w]
        /\ woken' = woken \ {t}
        /\ UNCHANGED <<coveredRf, hist, pc>>
    BY <1>2 DEF RfTurn
  <2>2. waiting' \in [Thread -> Event \cup {None}]
    BY <1>0, <2>1 DEF TypeOK, FlagType
  <2> QED BY <1>0, <2>1, <2>2, TerminateType DEF TypeOK, ProgType, CoverType
<1>3. CASE InHistory(w) /\ HistLoc(w) = o.loc
  <2> DEFINE old == HistVal(w)
  <2>1. ReadSatisfied(t, o, old) BY <1>3 DEF RfTurn
  <2>2. old \in Val BY <1>3, HistValType
  <2>3. (old + o.val) % ValMod \in Val BY <1>0, <2>2, SchedulerAssumption DEF Val
  <2>4. /\ waiting' \in [Thread -> Event \cup {None}]
        /\ coveredRf' \subseteq DOMAIN graph.rf
    BY <2>1 DEF ReadSatisfied, MarkRfEdge, TypeOK, FlagType, CoverType
  <2>5. /\ AddHistory(o.loc, o.ev, (old + o.val) % ValMod) \in [Loc -> Seq([ev : Event, val : Val])]
        /\ AddHistory(o.loc, o.ev, o.val) \in [Loc -> Seq([ev : Event, val : Val])]
    BY <1>0, <2>3, AddHistoryType
  <2>6. hist \in [Loc -> Seq([ev : Event, val : Val])] /\ woken \subseteq Thread /\ ExitType
    BY DEF TypeOK, CoverType, ProgType
  <2> HIDE DEF o, old
  <2>7. CASE o.op = "load"
    BY <2>1, <2>4, <2>6, <2>7 DEF ReadSatisfied, Advance, Goto, exitVars, ExitType
  <2>8. CASE o.op = "rmw"
    BY <2>1, <2>4, <2>5, <2>6, <2>8 DEF ReadSatisfied, Advance, Goto, Broadcast, exitVars, ExitType
  <2>9. CASE o.op = "cas"
    <3> DEFINE d == CasDecision(o, graph.type[o.ev], old)
    <3>1. CASE d = "impossible"
      <4>1. /\ Terminate(t, NOT_INSTANTIABLE)
            /\ woken' = woken \ {t}
            /\ UNCHANGED <<pc, hist>>
        BY <2>1, <2>9, <3>1 DEF ReadSatisfied
      <4> QED BY <1>0, <2>4, <2>6, <4>1, TerminateType
    <3>2. CASE d # "impossible"
      <4>1. /\ hist' = (IF d = "swap" THEN AddHistory(o.loc, o.ev, o.val) ELSE hist)
            /\ Broadcast /\ Advance(t) /\ UNCHANGED exitVars
        BY <2>1, <2>9, <3>2 DEF ReadSatisfied
      <4>2. hist' \in [Loc -> Seq([ev : Event, val : Val])] BY <2>5, <2>6, <4>1
      <4> QED BY <2>4, <2>6, <4>1, <4>2 DEF Advance, Goto, Broadcast, exitVars, ExitType
    <3> QED BY <3>1, <3>2
  <2>10. o.op \in {"load", "rmw", "cas"} BY DEF o, ReadOps
  <2> QED BY <2>7, <2>8, <2>9, <2>10
<1> QED BY <1>1, <1>2, <1>3
-----------------------------------------------------------------------------
(* Type correctness is preserved by every action.                          *)

\* A thread that stays where it is keeps its part of PcInv.
LEMMA PcFrame ==
  ASSUME TypeInv, NEW t \in Thread, graph' = graph,
         \A u \in Thread \ {t} : /\ st'[u] = st[u] \/ st'[u] = "starting"
                                 /\ pc'[u] = pc[u],
         \/ st'[t] \notin {"rfwait", "creating", "mapping", "join"}
         \/ /\ pc'[t] = pc[t]
            /\ \/ st'[t] = st[t]
               \/ st'[t] = "mapping" /\ st[t] = "creating"
               \/ ~AtEnd(t) /\ (\/ st'[t] = "creating" /\ Op(t).op = "create"
                                \/ st'[t] = "join" /\ Op(t).op = "join"
                                \/ /\ st'[t] = "rfwait" /\ Op(t).op \in ReadOps
                                   /\ Op(t).ev \in DOMAIN graph.rf)
  PROVE  PcInv'
<1> SUFFICES ASSUME NEW u \in Thread
             PROVE  /\ st'[u] = "rfwait" =>
                         ~AtEnd(u)' /\ Op(u)'.op \in ReadOps /\ Op(u)'.ev \in DOMAIN graph.rf'
                    /\ st'[u] \in {"creating", "mapping"} => ~AtEnd(u)' /\ Op(u)'.op = "create"
                    /\ st'[u] = "join" => ~AtEnd(u)' /\ Op(u)'.op = "join"
  BY DEF PcInv
<1>1. CASE u # t BY <1>1 DEF TypeInv, PcInv, AtEnd, Op
<1>2. CASE u = t BY <1>2 DEF TypeInv, PcInv, AtEnd, Op
<1> QED BY <1>1, <1>2

LEMMA TypeStep ==
  ASSUME TypeInv, NEW t \in Thread, ThreadStep(t) \/ Environment(t)
  PROVE  TypeInv'
<1> USE DEF progVars, flagVars, unkVars, rfVars, treeVars, exitVars
<1>0. /\ TypeOK /\ PcInv
      /\ ProgType /\ FlagType /\ CoverType /\ TreeType /\ ExitType
  BY DEF TypeInv, TypeOK
<1>a. {INVALID_INPUT, NOT_INSTANTIABLE, INSTANTIATED_BUT_NOT_DONE} \subseteq ExitCodes
  BY DEF ExitCodes
<1>b. ASSUME UNCHANGED <<graph, rfVars>> PROVE CoverType'
  BY <1>0, <1>b DEF CoverType, Node
<1>c. ASSUME UNCHANGED <<treeVars, lastExec>> PROVE TreeType'
  BY <1>0, <1>c DEF TreeType
<1>d. ASSUME UNCHANGED <<nextEvents, exitVars, proc>> PROVE ExitType'
  BY <1>0, <1>d DEF ExitType
<1>e. ASSUME UNCHANGED <<flagVars, blockedUnk, blockedUnkThreads, joinWait, waiting>> PROVE FlagType'
  BY <1>0, <1>e DEF FlagType
<1> HIDE DEF TypeInv
<1> SUFFICES ProgType' /\ FlagType' /\ CoverType' /\ TreeType' /\ ExitType' /\ PcInv'
  BY DEF TypeInv, TypeOK
<1>1. ASSUME ThreadCreated(t)
      PROVE  ProgType' /\ FlagType' /\ CoverType' /\ TreeType' /\ ExitType' /\ PcInv'
  <2>0. ~AtEnd(t) /\ Op(t).op = "create" /\ Op(t).child \in Thread
    BY <1>1, <1>0, OpType DEF ThreadCreated, PcInv, WellFormedInstr, AtEvent, AtOp, AtEnd, Op, ProgType
  <2>1. ProgType'
    BY <1>1, <1>0 DEF ThreadCreated, Goto, Broadcast, ProgType, Control
  <2>2. FlagType'
    BY <1>1, <1>0, <2>0 DEF ThreadCreated, FlagType
  <2>3. CoverType' BY <1>1, <1>b DEF ThreadCreated
  <2>4. TreeType'
    BY <1>1, <1>0, <2>0 DEF ThreadCreated, TreeType
  <2>5. ExitType' BY <1>1, <1>d DEF ThreadCreated
  <2>6. PcInv'
    BY <1>1, <1>0, <2>0, PcFrame DEF ThreadCreated, Goto, ProgType
  <2> QED BY <2>1, <2>2, <2>3, <2>4, <2>5, <2>6
<1>2. ASSUME PthreadCreateOk(t)
      PROVE  ProgType' /\ FlagType' /\ CoverType' /\ TreeType' /\ ExitType' /\ PcInv'
  <2>0. ~AtEnd(t) /\ Op(t).op = "create" /\ Op(t).child \in Thread
    BY <1>2, <1>0, OpType DEF PthreadCreateOk, PcInv, WellFormedInstr, AtEvent, AtOp, AtEnd, Op, ProgType
  <2>1. ProgType'
    BY <1>2, <1>0, <2>0 DEF PthreadCreateOk, ProgType, Control
  <2>2. FlagType' BY <1>2, <1>e DEF PthreadCreateOk
  <2>3. CoverType' BY <1>2, <1>b DEF PthreadCreateOk
  <2>4. TreeType' BY <1>2, <1>c DEF PthreadCreateOk
  <2>5. ExitType' BY <1>2, <1>d DEF PthreadCreateOk
  <2>6. PcInv'
    BY <1>2, <1>0, <2>0, PcFrame DEF PthreadCreateOk, ProgType
  <2> QED BY <2>1, <2>2, <2>3, <2>4, <2>5, <2>6
<1>3. ASSUME MapThread(t)
      PROVE  ProgType' /\ FlagType' /\ CoverType' /\ TreeType' /\ ExitType' /\ PcInv'
  <2>0. ~AtEnd(t) /\ Op(t).op = "create" /\ Op(t).child \in Thread
    BY <1>3, <1>0, OpType DEF MapThread, PcInv, WellFormedInstr, AtEvent, AtOp, AtEnd, Op, ProgType
  <2>1. ProgType'
    BY <1>3, <1>0 DEF MapThread, Advance, Goto, ProgType, Control
  <2>2. FlagType' BY <1>3, <1>e DEF MapThread
  <2>3. CoverType' BY <1>3, <1>b DEF MapThread
  <2>4. TreeType'
    BY <1>3, <1>0, <2>0 DEF MapThread, TreeType
  <2>5. ExitType' BY <1>3, <1>d DEF MapThread
  <2>6. PcInv'
    BY <1>3, <1>0, PcFrame DEF MapThread, Advance, Goto, ProgType
  <2> QED BY <2>1, <2>2, <2>3, <2>4, <2>5, <2>6
<1>4. ASSUME PthreadCreateFail(t)
      PROVE  ProgType' /\ FlagType' /\ CoverType' /\ TreeType' /\ ExitType' /\ PcInv'
  <2>1. ProgType'
    BY <1>4, <1>0, UnregisterType DEF PthreadCreateFail, Advance, Goto, ProgType, Control
  <2>2. FlagType'
    BY <1>4, <1>0, UnregisterType DEF PthreadCreateFail
  <2>3. CoverType' BY <1>4, <1>b DEF PthreadCreateFail
  <2>4. TreeType' BY <1>4, <1>c DEF PthreadCreateFail
  <2>5. ExitType'
    BY <1>4, <1>0, <1>d, UnregisterType DEF PthreadCreateFail
  <2>6. PcInv'
    BY <1>4, <1>0, PcFrame DEF PthreadCreateFail, Advance, Goto, ProgType
  <2> QED BY <2>1, <2>2, <2>3, <2>4, <2>5, <2>6
<1>5. ASSUME ThreadRegistered(t)
      PROVE  ProgType' /\ FlagType' /\ CoverType' /\ TreeType' /\ ExitType' /\ PcInv'
  <2>1. ProgType'
    BY <1>5, <1>0 DEF ThreadRegistered, Goto, Broadcast, ProgType, Control
  <2>2. FlagType'
    BY <1>5, <1>0, EnsureActiveType DEF ThreadRegistered, FlagType
  <2>3. CoverType' BY <1>5, <1>b DEF ThreadRegistered
  <2>4. TreeType' BY <1>5, <1>c DEF ThreadRegistered
  <2>5. ExitType' BY <1>5, <1>d DEF ThreadRegistered
  <2>6. PcInv'
    BY <1>5, <1>0, PcFrame DEF ThreadRegistered, Goto, ProgType
  <2> QED BY <2>1, <2>2, <2>3, <2>4, <2>5, <2>6
<1>6. ASSUME ThreadEnd(t)
      PROVE  ProgType' /\ FlagType' /\ CoverType' /\ TreeType' /\ ExitType' /\ PcInv'
  <2>1. ProgType'
    BY <1>6, <1>0, UnregisterType DEF ThreadEnd, Goto, ProgType, Control
  <2>2. FlagType'
    BY <1>6, <1>0, UnregisterType DEF ThreadEnd
  <2>3. CoverType' BY <1>6, <1>b DEF ThreadEnd
  <2>4. TreeType' BY <1>6, <1>c DEF ThreadEnd
  <2>5. ExitType'
    BY <1>6, <1>0, <1>d, UnregisterType DEF ThreadEnd
  <2>6. PcInv'
    BY <1>6, <1>0, PcFrame DEF ThreadEnd, Goto, ProgType
  <2> QED BY <2>1, <2>2, <2>3, <2>4, <2>5, <2>6
<1>7. ASSUME ThreadExit(t)
      PROVE  ProgType' /\ FlagType' /\ CoverType' /\ TreeType' /\ ExitType' /\ PcInv'
  <2>1. ProgType'
    BY <1>7, <1>0, UnregisterType DEF ThreadExit, Goto, ProgType, Control
  <2>2. FlagType'
    BY <1>7, <1>0, <1>e, UnregisterType DEF ThreadExit
  <2>3. CoverType' BY <1>7, <1>b DEF ThreadExit
  <2>4. TreeType' BY <1>7, <1>c DEF ThreadExit
  <2>5. ExitType'
    BY <1>7, <1>0, <1>d, UnregisterType DEF ThreadExit
  <2>6. PcInv'
    BY <1>7, <1>0, PcFrame DEF ThreadExit, Goto, ProgType
  <2> QED BY <2>1, <2>2, <2>3, <2>4, <2>5, <2>6
<1>8. ASSUME JoinBegin(t)
      PROVE  ProgType' /\ FlagType' /\ CoverType' /\ TreeType' /\ ExitType' /\ PcInv'
  <2>1. ProgType'
    BY <1>8, <1>0 DEF JoinBegin, Goto, Broadcast, ProgType, Control
  <2>2. FlagType'
    BY <1>8, <1>0 DEF JoinBegin, FlagType
  <2>3. CoverType' BY <1>8, <1>b DEF JoinBegin
  <2>4. TreeType' BY <1>8, <1>c DEF JoinBegin
  <2>5. ExitType' BY <1>8, <1>d DEF JoinBegin
  <2>6. PcInv'
    BY <1>8, <1>0, PcFrame DEF JoinBegin, AtEvent, AtOp, AtEnd, Op, Goto, ProgType
  <2> QED BY <2>1, <2>2, <2>3, <2>4, <2>5, <2>6
<1>9. ASSUME JoinSkip(t)
      PROVE  ProgType' /\ FlagType' /\ CoverType' /\ TreeType' /\ ExitType' /\ PcInv'
  <2>1. ProgType'
    BY <1>9, <1>0 DEF JoinSkip, Advance, Goto, ProgType, Control
  <2>2. FlagType' BY <1>9, <1>e DEF JoinSkip
  <2>3. CoverType' BY <1>9, <1>b DEF JoinSkip
  <2>4. TreeType' BY <1>9, <1>c DEF JoinSkip
  <2>5. ExitType' BY <1>9, <1>d DEF JoinSkip
  <2>6. PcInv'
    BY <1>9, <1>0, PcFrame DEF JoinSkip, Advance, Goto, ProgType
  <2> QED BY <2>1, <2>2, <2>3, <2>4, <2>5, <2>6
<1>10. ASSUME JoinEnd(t)
      PROVE  ProgType' /\ FlagType' /\ CoverType' /\ TreeType' /\ ExitType' /\ PcInv'
  <2>0. ~AtEnd(t) /\ Op(t).op = "join" /\ Op(t).child \in Thread
    BY <1>10, <1>0, OpType DEF JoinEnd, PcInv, WellFormedInstr, AtEvent, AtOp, AtEnd, Op, ProgType
  <2>1. ProgType'
    BY <1>10, <1>0 DEF JoinEnd, Advance, Goto, Broadcast, ProgType, Control
  <2>2. FlagType'
    BY <1>10, <1>0 DEF JoinEnd, FlagType
  <2>3. CoverType' BY <1>10, <1>b DEF JoinEnd
  <2>4. TreeType'
    BY <1>10, <1>0, <2>0 DEF JoinEnd, TreeType, EventId
  <2>5. ExitType' BY <1>10, <1>d DEF JoinEnd
  <2>6. PcInv'
    BY <1>10, <1>0, PcFrame DEF JoinEnd, Advance, Goto, ProgType
  <2> QED BY <2>1, <2>2, <2>3, <2>4, <2>5, <2>6
<1>f. ASSUME NEW code \in ExitCodes, Terminate(t, code), EnsureActive(t) \/ UNCHANGED flagVars,
             waiting' \in [Thread -> Event \cup {None}],
             UNCHANGED <<graph, unkVars, joinWait, treeVars, proc, pc>>, woken' \subseteq Thread,
             CoverType', lastExec' \in [Thread -> EventId]
      PROVE  ProgType' /\ FlagType' /\ CoverType' /\ TreeType' /\ ExitType' /\ PcInv'
  <2>1. PICK c \in {"publish", "exiting", "paused"} : st' = [st EXCEPT ![t] = c]
    BY <1>0, <1>f, TerminateType
  <2>2. ProgType' BY <1>0, <1>f, <2>1 DEF ProgType, Control
  <2>3. FlagType' BY <1>0, <1>f, EnsureActiveType DEF FlagType
  <2>4. TreeType' BY <1>0, <1>f DEF TreeType
  <2>5. ExitType' BY <1>0, <1>f, TerminateType DEF ExitType
  <2>6. PcInv' BY <1>0, <1>f, <2>1, PcFrame DEF ProgType
  <2> QED BY <1>f, <2>2, <2>3, <2>4, <2>5, <2>6
<1>11. ASSUME OnStore(t)
      PROVE  ProgType' /\ FlagType' /\ CoverType' /\ TreeType' /\ ExitType' /\ PcInv'
  <2>0. /\ Op(t).ev \in Event /\ Op(t).ev \in Node /\ Op(t).loc \in Loc /\ Op(t).val \in Val
        /\ UNCHANGED <<graph, unkVars, joinWait, treeVars, proc>>
    <3>1. ~AtEnd(t) /\ Op(t).op = "store" /\ Op(t).ev \in Node
      BY <1>11, <1>0 DEF OnStore, AtEvent, AtOp, AtEnd, Op, Known, ProgType
    <3>2. Op(t) \in Instr /\ WellFormedInstr(t, Op(t)) BY <1>0, <3>1, OpType
    <3> QED BY <1>11, <3>1, <3>2 DEF OnStore, WellFormedInstr, EventOps, Instr
  <2>1. CASE graph.type[Op(t).ev] \in {"WRITE", "RMW"}
    <3>1. ProgType' /\ PcInv'
      BY <1>11, <1>0, <2>1, PcFrame DEF OnStore, Advance, Goto, Broadcast, ProgType, Control
    <3>2. CoverType'
      <4>0. hist' = AddHistory(Op(t).loc, Op(t).ev, Op(t).val) BY <1>11, <2>1 DEF OnStore
      <4>1. hist' \in [Loc -> Seq([ev : Event, val : Val])]
        BY <1>0, <2>0, <4>0, AddHistoryType
      <4>2. covered' \subseteq Node /\ UNCHANGED <<graph, coveredRf>>
        BY <1>11, <1>0, <2>0, <2>1 DEF OnStore, Cover, CoverType
      <4> QED BY <1>0, <4>1, <4>2 DEF CoverType, Node
    <3>3. FlagType'
      BY <1>11, <1>0, <2>0, <2>1, EnsureActiveType DEF OnStore, FlagType
    <3>4. TreeType'
      BY <1>11, <1>0, <2>0, <2>1, SchedulerAssumption DEF OnStore, Cover, TreeType
    <3>5. ExitType'
      BY <1>11, <1>0, <1>d, <2>0, <2>1 DEF OnStore
    <3> QED BY <3>1, <3>2, <3>3, <3>4, <3>5
  <2>2. CASE ~(graph.type[Op(t).ev] \in {"WRITE", "RMW"})
    <3>1. /\ Terminate(t, INVALID_INPUT) /\ EnsureActive(t)
          /\ UNCHANGED <<graph, pc, woken, rfVars, lastExec, waiting>>
      BY <1>11, <2>0, <2>2 DEF OnStore, Mismatch
    <3> QED BY <1>0, <1>a, <1>b, <2>0, <3>1, <1>f DEF FlagType, TreeType, ProgType
  <2> QED BY <2>1, <2>2
<1>12. ASSUME OnFence(t)
      PROVE  ProgType' /\ FlagType' /\ CoverType' /\ TreeType' /\ ExitType' /\ PcInv'
  <2>0. /\ Op(t).ev \in Event /\ Op(t).ev \in Node 
        /\ UNCHANGED <<graph, unkVars, joinWait, treeVars, proc>>
    <3>1. ~AtEnd(t) /\ Op(t).op = "fence" /\ Op(t).ev \in Node
      BY <1>12, <1>0 DEF OnFence, AtEvent, AtOp, AtEnd, Op, Known, ProgType
    <3>2. Op(t) \in Instr /\ WellFormedInstr(t, Op(t)) BY <1>0, <3>1, OpType
    <3> QED BY <1>12, <3>1, <3>2 DEF OnFence, WellFormedInstr, EventOps, Instr
  <2>1. CASE graph.type[Op(t).ev] = "FENCE"
    <3>1. ProgType' /\ PcInv'
      BY <1>12, <1>0, <2>1, PcFrame DEF OnFence, Advance, Goto, Broadcast, ProgType, Control
    <3>2. CoverType'
      BY <1>12, <1>0, <2>0, <2>1 DEF OnFence, Cover, CoverType, Node
    <3>3. FlagType'
      BY <1>12, <1>0, <2>0, <2>1, EnsureActiveType DEF OnFence, FlagType
    <3>4. TreeType'
      BY <1>12, <1>0, <2>0, <2>1, SchedulerAssumption DEF OnFence, Cover, TreeType
    <3>5. ExitType'
      BY <1>12, <1>0, <1>d, <2>0, <2>1 DEF OnFence
    <3> QED BY <3>1, <3>2, <3>3, <3>4, <3>5
  <2>2. CASE ~(graph.type[Op(t).ev] = "FENCE")
    <3>1. /\ Terminate(t, INVALID_INPUT) /\ EnsureActive(t)
          /\ UNCHANGED <<graph, pc, woken, rfVars, lastExec, waiting>>
      BY <1>12, <2>0, <2>2 DEF OnFence, Mismatch
    <3> QED BY <1>0, <1>a, <1>b, <2>0, <3>1, <1>f DEF FlagType, TreeType, ProgType
  <2> QED BY <2>1, <2>2
<1>g. ASSUME ~AtEnd(t), Op(t).op \in ReadOps, Op(t).ev \in DOMAIN graph.rf, RfTurn(t, Op(t)),
             EnsureActive(t) \/ UNCHANGED flagVars,
             covered' \subseteq Node, lastExec' \in [Thread -> EventId],
             UNCHANGED <<graph, unkVars, joinWait, treeVars, proc>>
      PROVE  ProgType' /\ FlagType' /\ CoverType' /\ TreeType' /\ ExitType' /\ PcInv'
  <2>1. PICK c \in {"publish", "exiting", "paused", "rfwait", "run"} :
               /\ st' = [st EXCEPT ![t] = c]
               /\ c = "rfwait" => pc' = pc
    BY <1>0, <1>g, RfTurnType
  <2>2. ProgType'
    <3>1. pc' \in [Thread -> Nat \ {0}] /\ woken' \subseteq Thread
      BY <1>0, <1>g, RfTurnType DEF ProgType
    <3> QED BY <1>0, <2>1, <3>1 DEF ProgType, Control
  <2>3. FlagType' BY <1>0, <1>g, EnsureActiveType, RfTurnType DEF FlagType
  <2>4. CoverType' BY <1>0, <1>g, RfTurnType DEF CoverType, Node
  <2>5. TreeType' BY <1>0, <1>g DEF TreeType
  <2>6. ExitType' BY <1>0, <1>g, RfTurnType DEF ExitType
  <2>7. PcInv'
    <3>1. pc' = pc \/ pc' = [pc EXCEPT ![t] = @ + 1] BY <1>0, <1>g, RfTurnType
    <3> QED BY <1>0, <1>g, <2>1, <3>1, PcFrame DEF ProgType
  <2> QED BY <2>2, <2>3, <2>4, <2>5, <2>6, <2>7
<1>13. ASSUME OnRead(t)
      PROVE  ProgType' /\ FlagType' /\ CoverType' /\ TreeType' /\ ExitType' /\ PcInv'
  <2>0. /\ ~AtEnd(t) /\ Op(t).op \in ReadOps
        /\ Op(t).ev \in Event /\ Op(t).ev \in Node
        /\ UNCHANGED <<graph, unkVars, joinWait, treeVars, proc>>
    BY <1>13, <1>0, OpType DEF OnRead, Known, WellFormedInstr, EventOps, ReadOps
  <2>1. CASE graph.type[Op(t).ev] \notin AcceptedTypes(Op(t).op)
    <3>1. /\ Terminate(t, INVALID_INPUT) /\ (EnsureActive(t) \/ UNCHANGED flagVars)
          /\ UNCHANGED <<graph, pc, woken, rfVars, lastExec, waiting>>
      BY <1>13, <2>0, <2>1 DEF OnRead, Mismatch
    <3> QED BY <1>0, <1>a, <1>b, <2>0, <3>1, <1>f DEF FlagType, TreeType, ProgType
  <2>2. CASE graph.type[Op(t).ev] \in AcceptedTypes(Op(t).op)
    <3>1. Cover(t, Op(t).ev) BY <1>13, <2>2 DEF OnRead
    <3>2. covered' \subseteq Node /\ lastExec' \in [Thread -> EventId]
      BY <1>0, <2>0, <3>1, SchedulerAssumption DEF Cover, CoverType, TreeType
    <3>3. CASE Op(t).ev \in DOMAIN graph.rf
      <4>1. EnsureActive(t) /\ RfTurn(t, Op(t)) BY <1>13, <2>2, <3>3 DEF OnRead
      <4> QED BY <1>g, <2>0, <3>2, <3>3, <4>1
    <3>4. CASE Op(t).ev \notin DOMAIN graph.rf
      <4>1. /\ Terminate(t, INVALID_INPUT) /\ (EnsureActive(t) \/ UNCHANGED flagVars)
            /\ UNCHANGED <<pc, woken, coveredRf, hist, waiting>>
        BY <1>13, <2>2, <3>4 DEF OnRead
      <4>2. CoverType' BY <1>0, <2>0, <3>2, <4>1 DEF CoverType, Node
      <4> QED BY <1>0, <1>a, <1>f, <2>0, <3>2, <4>1, <4>2 DEF FlagType, ProgType
    <3> QED BY <3>3, <3>4
  <2> QED BY <2>1, <2>2
<1>14. ASSUME ReadRecheck(t)
      PROVE  ProgType' /\ FlagType' /\ CoverType' /\ TreeType' /\ ExitType' /\ PcInv'
  <2>1. ~AtEnd(t) /\ Op(t).op \in ReadOps /\ Op(t).ev \in DOMAIN graph.rf
    BY <1>14, <1>0 DEF ReadRecheck, PcInv
  <2>2. covered' \subseteq Node /\ lastExec' \in [Thread -> EventId]
    BY <1>14, <1>0 DEF ReadRecheck, CoverType, TreeType
  <2> QED BY <1>14, <1>g, <2>1, <2>2 DEF ReadRecheck
<1>h. ASSUME SleepOrExit(t, "unknown"), FlagType', nextEvents' \subseteq Event, woken' \subseteq Thread,
             UNCHANGED <<graph, pc, rfVars, lastExec, treeVars, proc>>
      PROVE  ProgType' /\ FlagType' /\ CoverType' /\ TreeType' /\ ExitType' /\ PcInv'
  <2>1. PICK c \in {"publish", "exiting", "paused", "unknown"} : st' = [st EXCEPT ![t] = c]
    BY <1>0, <1>h, SleepOrExitType
  <2>2. ProgType' BY <1>0, <1>h, <2>1 DEF ProgType, Control
  <2>3. ExitType' BY <1>0, <1>h, SleepOrExitType DEF ExitType
  <2>4. PcInv' BY <1>0, <1>h, <2>1, PcFrame DEF ProgType
  <2> QED BY <1>b, <1>c, <1>h, <2>2, <2>3, <2>4
<1>15. ASSUME OnUnknown(t)
      PROVE  ProgType' /\ FlagType' /\ CoverType' /\ TreeType' /\ ExitType' /\ PcInv'
  <2>1. Op(t).ev \in Event
    BY <1>15, <1>0, OpType DEF OnUnknown, WellFormedInstr
  <2>2. FlagType' BY <1>15, <1>0, EnsureActiveType DEF OnUnknown, FlagType
  <2>3. woken' \subseteq Thread /\ nextEvents' \subseteq Event
    BY <1>15, <1>0, <2>1 DEF OnUnknown, Broadcast, ProgType, ExitType
  <2> QED BY <1>15, <1>h, <2>2, <2>3 DEF OnUnknown
<1>16. ASSUME UnknownRecheck(t)
      PROVE  ProgType' /\ FlagType' /\ CoverType' /\ TreeType' /\ ExitType' /\ PcInv'
  <2>1. FlagType' /\ woken' \subseteq Thread /\ nextEvents' \subseteq Event
    BY <1>16, <1>0, <1>e DEF UnknownRecheck, ProgType, ExitType
  <2> QED BY <1>16, <1>h, <2>1 DEF UnknownRecheck
<1>17. ASSUME Publish(t)
      PROVE  ProgType' /\ FlagType' /\ CoverType' /\ TreeType' /\ ExitType' /\ PcInv'
  <2>1. PICK c \in {"exiting", "paused"} : st' = [st EXCEPT ![t] = c]
    BY <1>17 DEF Publish, CasExit
  <2>2. ProgType' BY <1>17, <1>0, <2>1 DEF Publish, ProgType, Control
  <2>3. FlagType' /\ CoverType' BY <1>17, <1>b, <1>e DEF Publish
  <2>4. TreeType'
    <3>1. pruned' \subseteq Thread
      <4>1. \A u : PrunedFor(u) \subseteq joined BY DEF PrunedFor
      <4> HIDE DEF PrunedFor
      <4> QED BY <1>17, <1>0, <4>1 DEF Publish, TreeType
    <3> QED BY <1>17, <1>0, <3>1 DEF Publish, TreeType
  <2>5. ExitType'
    <3>1. \A x \in shm'.events : x.next \in Event /\ x.src \subseteq EventId
      <4>1. \A u : Collected(u, pruned) \subseteq joined BY DEF Collected
      <4>2. \A u \in Thread : Sources(u, pruned) \subseteq EventId
        <5> HIDE DEF Collected
        <5> QED BY <1>0, <4>1 DEF Sources, TreeType
      <4>3. \A e \in nextEvents : e \in Event /\ Tid(e) \in Thread
        BY <1>0, SchedulerAssumption DEF ExitType, EventId, Tid
      <4> HIDE DEF Sources
      <4>4. PICK reported \in SUBSET nextEvents :
              shm'.events = {[next |-> e, src |-> Sources(Tid(e), pruned)] : e \in reported}
        BY <1>17 DEF Publish
      <4> QED BY <4>2, <4>3, <4>4
    <3>2. shm'.ready = TRUE BY <1>17 DEF Publish
    <3>3. exiting' \in ExitCodes BY <1>17, <1>0, <1>a DEF Publish, CasExit, ExitType
    <3> QED BY <1>17, <1>0, <3>1, <3>2, <3>3 DEF Publish, ExitType
  <2>6. PcInv' BY <1>17, <1>0, <2>1, PcFrame DEF Publish, ProgType
  <2> QED BY <2>2, <2>3, <2>4, <2>5, <2>6
<1>18. ASSUME MainReturn(t)
      PROVE  ProgType' /\ FlagType' /\ CoverType' /\ TreeType' /\ ExitType' /\ PcInv'
  <2>1. ProgType' BY <1>18, <1>0 DEF MainReturn, Goto, ProgType, Control
  <2>2. FlagType' /\ CoverType' /\ TreeType' BY <1>18, <1>b, <1>c, <1>e DEF MainReturn
  <2>3. ExitType' BY <1>18, <1>d DEF MainReturn
  <2>4. PcInv' BY <1>18, <1>0, PcFrame DEF MainReturn, Goto, ProgType
  <2> QED BY <2>1, <2>2, <2>3, <2>4
<1>19. ASSUME VerifyAtexit(t)
      PROVE  ProgType' /\ FlagType' /\ CoverType' /\ TreeType' /\ ExitType' /\ PcInv'
  <2>1. ProgType' BY <1>19, <1>0 DEF VerifyAtexit, Goto, ProgType, Control
  <2>2. FlagType' /\ CoverType' /\ TreeType' BY <1>19, <1>b, <1>c, <1>e DEF VerifyAtexit
  <2>3. ExitType' BY <1>19, <1>0, <1>a DEF VerifyAtexit, ExitType
  <2>4. PcInv' BY <1>19, <1>0, PcFrame DEF VerifyAtexit, Goto, ProgType
  <2> QED BY <2>1, <2>2, <2>3, <2>4
<1>20. ASSUME ProcessExit(t)
      PROVE  ProgType' /\ FlagType' /\ CoverType' /\ TreeType' /\ ExitType' /\ PcInv'
  <2>1. ProgType' BY <1>20, <1>0 DEF ProcessExit, ProgType, Control
  <2>2. FlagType' /\ CoverType' /\ TreeType' BY <1>20, <1>b, <1>c, <1>e DEF ProcessExit
  <2>3. ExitType' BY <1>20, <1>0 DEF ProcessExit, ExitType, ExitCodes
  <2>4. PcInv' BY <1>20, <1>0, PcFrame DEF ProcessExit, ProgType
  <2> QED BY <2>1, <2>2, <2>3, <2>4
<1>21. ASSUME SpuriousWake(t)
      PROVE  ProgType' /\ FlagType' /\ CoverType' /\ TreeType' /\ ExitType' /\ PcInv'
  <2>1. ProgType' BY <1>21, <1>0 DEF SpuriousWake, ProgType, Control
  <2>2. FlagType' /\ CoverType' /\ TreeType' BY <1>21, <1>b, <1>c, <1>e DEF SpuriousWake
  <2>3. ExitType' BY <1>21, <1>d DEF SpuriousWake
  <2>4. PcInv' BY <1>21, <1>0, PcFrame DEF SpuriousWake, ProgType
  <2> QED BY <2>1, <2>2, <2>3, <2>4
<1> QED BY <1>1, <1>2, <1>3, <1>4, <1>5, <1>6, <1>7, <1>8, <1>9, <1>10, <1>11, <1>12, <1>13,
         <1>14, <1>15, <1>16, <1>17, <1>18, <1>19, <1>20, <1>21 DEF ThreadStep, Environment

LEMMA TypeInit == Init => TypeInv
<1> SUFFICES ASSUME Init PROVE TypeInv OBVIOUS
<1> USE SchedulerAssumption DEF Init
<1>1. ProgType /\ PcInv BY DEF ProgType, PcInv, Control
<1>2. FlagType BY DEF FlagType
<1>3. CoverType BY DEF CoverType, Node
<1>4. TreeType BY DEF TreeType, EventId
<1>5. ExitType BY DEF ExitType, ExitCodes, OK
<1> QED BY <1>1, <1>2, <1>3, <1>4, <1>5 DEF TypeInv, TypeOK

LEMMA TypeStutter == TypeInv /\ UNCHANGED vars => TypeInv'
<1> SUFFICES ASSUME TypeInv, UNCHANGED vars PROVE TypeInv' OBVIOUS
<1>1. ProgType' BY DEF TypeInv, TypeOK, ProgType, vars, progVars
<1>2. FlagType' BY DEF TypeInv, TypeOK, FlagType, vars, flagVars, unkVars
<1>3. CoverType' BY DEF TypeInv, TypeOK, CoverType, Node, vars, rfVars
<1>4. TreeType' BY DEF TypeInv, TypeOK, TreeType, vars, treeVars
<1>5. ExitType'
  <2>1. UNCHANGED <<nextEvents, lock, shm, exiting, proc>>
    BY DEF vars, unkVars, exitVars
  <2>2. ExitType BY DEF TypeInv, TypeOK
  <2> QED BY <2>1, <2>2 DEF ExitType
<1>6. PcInv' BY DEF TypeInv, PcInv, AtEnd, Op, vars, progVars
<1> QED BY <1>1, <1>2, <1>3, <1>4, <1>5, <1>6 DEF TypeInv, TypeOK

\* Every behaviour of the scheduler is type correct, and a thread inside a
\* handler or wrapper stands at the instruction that entered it.
THEOREM TypeCorrect == Spec => []TypeOK
<1>1. TypeInv /\ [Next]_vars => TypeInv'
  BY TypeStep, TypeStutter DEF Next, Done
<1>2. TypeInv => TypeOK BY DEF TypeInv
<1> QED BY <1>1, <1>2, TypeInit, PTL DEF Spec
-----------------------------------------------------------------------------

(* The counters that deadlock detection relies on.                         *)

\* A flag that is set for one more slot, or for a slot that has it already.
LEMMA AddSlot ==
  ASSUME NEW S \in SUBSET Thread, NEW t \in Thread
  PROVE  Cardinality(S \cup {t}) = IF t \in S THEN Cardinality(S) ELSE Cardinality(S) + 1
<1>1. IsFiniteSet(S) BY SchedulerAssumption, FS_Subset
<1>2. t \in S => S \cup {t} = S OBVIOUS
<1> QED BY <1>1, <1>2, FS_AddElement

LEMMA RemoveSlot ==
  ASSUME NEW S \in SUBSET Thread, NEW t \in Thread
  PROVE  /\ Cardinality(S \ {t}) = IF t \in S THEN Cardinality(S) - 1 ELSE Cardinality(S)
         /\ Cardinality(S) \in Nat
         /\ t \in S => Cardinality(S) > 0
<1>1. IsFiniteSet(S) BY SchedulerAssumption, FS_Subset
<1>2. Cardinality(S) \in Nat BY <1>1, FS_CardinalityType
<1>3. CASE t \notin S
  <2>1. S \ {t} = S BY <1>3
  <2> QED BY <1>2, <1>3, <2>1
<1>4. CASE t \in S
  <2>1. Cardinality(S \ {t}) = Cardinality(S) - 1 BY <1>1, <1>4, FS_RemoveElement
  <2>2. IsFiniteSet(S \ {t}) BY <1>1, FS_Subset
  <2>3. Cardinality(S \ {t}) \in Nat BY <2>2, FS_CardinalityType
  <2> QED BY <1>2, <1>4, <2>1, <2>3
<1> QED BY <1>3, <1>4

LEMMA EnsureActiveCounts ==
  ASSUME FlagType, CountersExact, NEW t \in Thread, EnsureActive(t),
         blockedUnkThreads' = Cardinality(blockedUnk')
  PROVE  CountersExact'
<1>1. active \in SUBSET Thread /\ known \in SUBSET Thread BY DEF FlagType
<1>2. /\ Cardinality(active \cup {t}) =
           IF t \in active THEN Cardinality(active) ELSE Cardinality(active) + 1
      /\ Cardinality(known \cup {t}) =
           IF t \in known THEN Cardinality(known) ELSE Cardinality(known) + 1
  BY <1>1, AddSlot
<1>3. activeThreads' = Cardinality(active') /\ aliveThreads' = Cardinality(known')
  BY <1>2 DEF EnsureActive, CountersExact
<1>4. active' \subseteq known' /\ known' \subseteq everStarted'
  BY DEF EnsureActive, CountersExact
<1> QED BY <1>3, <1>4 DEF CountersExact

LEMMA UnregisterCounts ==
  ASSUME FlagType, CountersExact, NEW t \in Thread, Unregister(t)
  PROVE  CountersExact'
<1>1. active \in SUBSET Thread /\ known \in SUBSET Thread /\ blockedUnk \in SUBSET Thread
  BY DEF FlagType
<1>2. /\ Cardinality(active \ {t}) =
           IF t \in active THEN Cardinality(active) - 1 ELSE Cardinality(active)
      /\ Cardinality(known \ {t}) =
           IF t \in known THEN Cardinality(known) - 1 ELSE Cardinality(known)
      /\ Cardinality(blockedUnk \ {t}) =
           IF t \in blockedUnk THEN Cardinality(blockedUnk) - 1 ELSE Cardinality(blockedUnk)
      /\ t \in blockedUnk => Cardinality(blockedUnk) > 0
  BY <1>1, RemoveSlot
<1>3. /\ activeThreads' = Cardinality(active') /\ aliveThreads' = Cardinality(known')
      /\ blockedUnkThreads' = Cardinality(blockedUnk')
  BY <1>2 DEF Unregister, CountersExact
<1>4. active' \subseteq known' /\ known' \subseteq everStarted'
  BY DEF Unregister, CountersExact
<1> QED BY <1>3, <1>4 DEF CountersExact

\* A thread blocked on an event the graph does not have never runs again:
\* scheduler_thread_registered, which clears the flag of a slot and leaves the
\* counter alone, meets no such slot.
UnknownPoints == {"unknown", "publish", "exiting", "paused", "dying", "dying0"}
BlockedForGood == \A t \in blockedUnk : st[t] \in UnknownPoints

LEMMA BlockedFrame ==
  ASSUME BlockedForGood, NEW t \in Thread, blockedUnk' \subseteq blockedUnk \cup {t},
         \A u \in Thread \ {t} : st'[u] = st[u] \/ st[u] = "none",
         st'[t] \in UnknownPoints \/ t \notin blockedUnk', blockedUnk \subseteq Thread
  PROVE  BlockedForGood'
<1> SUFFICES ASSUME NEW u \in blockedUnk' PROVE st'[u] \in UnknownPoints
  BY DEF BlockedForGood, UnknownPoints
<1>1. CASE u = t BY <1>1
<1>2. CASE u # t BY <1>2 DEF BlockedForGood, UnknownPoints
<1> QED BY <1>1, <1>2

LEMMA BlockedStep ==
  ASSUME TypeInv, BlockedForGood, NEW t \in Thread, ThreadStep(t) \/ Environment(t)
  PROVE  BlockedForGood'
<1> USE DEF progVars, flagVars, unkVars, rfVars, treeVars, exitVars
<1>0. /\ TypeOK /\ PcInv /\ st \in [Thread -> Control] /\ blockedUnk \subseteq Thread
      /\ INVALID_INPUT \in ExitCodes
  BY DEF TypeInv, TypeOK, ProgType, FlagType, ExitCodes
<1>a. ASSUME NEW c, st' = [st EXCEPT ![t] = c], blockedUnk' \subseteq blockedUnk,
             c \in UnknownPoints \/ st[t] \notin UnknownPoints
      PROVE  BlockedForGood'
  <2>1. \A u \in Thread \ {t} : st'[u] = st[u] BY <1>0, <1>a
  <2>2. st'[t] \in UnknownPoints \/ t \notin blockedUnk'
    BY <1>0, <1>a DEF BlockedForGood
  <2> QED BY <1>0, <1>a, <2>1, <2>2, BlockedFrame
<1>b. ASSUME NEW code \in ExitCodes, Terminate(t, code), blockedUnk' \subseteq blockedUnk
      PROVE  BlockedForGood'
  <2>1. PICK c \in {"publish", "exiting", "paused"} : st' = [st EXCEPT ![t] = c]
    BY <1>0, <1>b, TerminateType
  <2> QED BY <1>a, <1>b, <2>1 DEF UnknownPoints
<1>1. ASSUME ThreadCreated(t) PROVE BlockedForGood'
  BY <1>a, <1>1 DEF ThreadCreated, AtEvent, Goto, UnknownPoints
<1>2. ASSUME PthreadCreateOk(t) PROVE BlockedForGood'
  <2>1. Op(t).child \in Thread \ {t}
    BY <1>0, <1>2, OpType DEF PthreadCreateOk, PcInv, WellFormedInstr
  <2>2. /\ \A u \in Thread \ {t} : st'[u] = st[u] \/ st[u] = "none"
        /\ blockedUnk' = blockedUnk /\ st[t] = "creating"
    BY <1>0, <1>2, <2>1 DEF PthreadCreateOk
  <2>3. t \notin blockedUnk BY <2>2 DEF BlockedForGood, UnknownPoints
  <2> QED BY <1>0, <2>2, <2>3, BlockedFrame
<1>3. ASSUME MapThread(t) PROVE BlockedForGood'
  BY <1>a, <1>3 DEF MapThread, Advance, Goto, UnknownPoints
<1>4. ASSUME PthreadCreateFail(t) PROVE BlockedForGood'
  BY <1>a, <1>4 DEF PthreadCreateFail, Unregister, Advance, Goto, UnknownPoints
<1>5. ASSUME ThreadRegistered(t) PROVE BlockedForGood'
  BY <1>a, <1>5 DEF ThreadRegistered, Goto, UnknownPoints
<1>6. ASSUME ThreadEnd(t) PROVE BlockedForGood'
  BY <1>a, <1>6 DEF ThreadEnd, Unregister, Goto, UnknownPoints
<1>7. ASSUME ThreadExit(t) PROVE BlockedForGood'
  BY <1>a, <1>7 DEF ThreadExit, Unregister, Goto, UnknownPoints
<1>8. ASSUME JoinBegin(t) PROVE BlockedForGood'
  BY <1>a, <1>8 DEF JoinBegin, AtEvent, Goto, UnknownPoints
<1>9. ASSUME JoinSkip(t) PROVE BlockedForGood'
  BY <1>a, <1>9 DEF JoinSkip, AtEvent, Advance, Goto, UnknownPoints
<1>10. ASSUME JoinEnd(t) PROVE BlockedForGood'
  BY <1>a, <1>10 DEF JoinEnd, Advance, Goto, UnknownPoints
<1>11. ASSUME OnStore(t) PROVE BlockedForGood'
  <2>1. st[t] = "run" /\ blockedUnk' = blockedUnk BY <1>11 DEF OnStore, AtEvent
  <2>2. st' = [st EXCEPT ![t] = "run"] \/ Terminate(t, INVALID_INPUT)
    BY <1>11 DEF OnStore, Advance, Goto, Mismatch
  <2> QED BY <1>0, <1>a, <1>b, <2>1, <2>2 DEF UnknownPoints
<1>12. ASSUME OnFence(t) PROVE BlockedForGood'
  <2>1. st[t] = "run" /\ blockedUnk' = blockedUnk BY <1>12 DEF OnFence, AtEvent
  <2>2. st' = [st EXCEPT ![t] = "run"] \/ Terminate(t, INVALID_INPUT)
    BY <1>12 DEF OnFence, Advance, Goto, Mismatch
  <2> QED BY <1>0, <1>a, <1>b, <2>1, <2>2 DEF UnknownPoints
<1>13. ASSUME OnRead(t) PROVE BlockedForGood'
  <2>1. /\ st[t] = "run" /\ blockedUnk' = blockedUnk
        /\ ~AtEnd(t) /\ Op(t).op \in ReadOps
    BY <1>13 DEF OnRead
  <2>2. \/ Terminate(t, INVALID_INPUT)
        \/ Op(t).ev \in DOMAIN graph.rf /\ RfTurn(t, Op(t))
    BY <1>13 DEF OnRead, Mismatch
  <2>3. CASE Op(t).ev \in DOMAIN graph.rf /\ RfTurn(t, Op(t))
    <3>1. PICK c : st' = [st EXCEPT ![t] = c] BY <1>0, <2>1, <2>3, RfTurnType
    <3> QED BY <1>a, <2>1, <3>1 DEF UnknownPoints
  <2> QED BY <1>0, <1>b, <2>1, <2>2, <2>3
<1>14. ASSUME ReadRecheck(t) PROVE BlockedForGood'
  <2>1. st[t] = "rfwait" /\ blockedUnk' = blockedUnk /\ RfTurn(t, Op(t))
    BY <1>14 DEF ReadRecheck
  <2>2. ~AtEnd(t) /\ Op(t).op \in ReadOps /\ Op(t).ev \in DOMAIN graph.rf
    BY <1>0, <2>1 DEF PcInv
  <2>3. PICK c : st' = [st EXCEPT ![t] = c] BY <1>0, <2>1, <2>2, RfTurnType
  <2> QED BY <1>a, <2>1, <2>3 DEF UnknownPoints
<1>15. ASSUME OnUnknown(t) PROVE BlockedForGood'
  <2>1. SleepOrExit(t, "unknown") /\ blockedUnk' \subseteq blockedUnk \cup {t}
    BY <1>15 DEF OnUnknown
  <2>2. PICK c \in {"publish", "exiting", "paused", "unknown"} : st' = [st EXCEPT ![t] = c]
    BY <1>0, <2>1, SleepOrExitType
  <2>3. st'[t] \in UnknownPoints /\ \A u \in Thread \ {t} : st'[u] = st[u]
    BY <1>0, <2>2 DEF UnknownPoints
  <2> QED BY <1>0, <2>1, <2>3, BlockedFrame
<1>16. ASSUME UnknownRecheck(t) PROVE BlockedForGood'
  <2>1. SleepOrExit(t, "unknown") /\ blockedUnk' = blockedUnk BY <1>16 DEF UnknownRecheck
  <2>2. PICK c \in {"publish", "exiting", "paused", "unknown"} : st' = [st EXCEPT ![t] = c]
    BY <1>0, <2>1, SleepOrExitType
  <2> QED BY <1>a, <2>1, <2>2 DEF UnknownPoints
<1>17. ASSUME Publish(t) PROVE BlockedForGood'
  BY <1>a, <1>17 DEF Publish, CasExit, UnknownPoints
<1>18. ASSUME MainReturn(t) PROVE BlockedForGood'
  BY <1>a, <1>18 DEF MainReturn, Goto, UnknownPoints
<1>19. ASSUME VerifyAtexit(t) PROVE BlockedForGood'
  BY <1>a, <1>19 DEF VerifyAtexit, Goto, UnknownPoints
<1>20. ASSUME ProcessExit(t) \/ SpuriousWake(t) PROVE BlockedForGood'
  BY <1>20 DEF ProcessExit, SpuriousWake, BlockedForGood
<1> QED BY <1>1, <1>2, <1>3, <1>4, <1>5, <1>6, <1>7, <1>8, <1>9, <1>10, <1>11, <1>12, <1>13,
         <1>14, <1>15, <1>16, <1>17, <1>18, <1>19, <1>20 DEF ThreadStep, Environment

\* The counters stay exact in every step of every thread.
LEMMA CountersStep ==
  ASSUME TypeInv, BlockedForGood, CountersExact, NEW t \in Thread, ThreadStep(t) \/ Environment(t)
  PROVE  CountersExact'
<1> USE DEF progVars, flagVars, unkVars, rfVars, treeVars, exitVars
<1>0. TypeOK /\ FlagType BY DEF TypeInv, TypeOK
<1>a. ASSUME UNCHANGED <<flagVars, blockedUnk, blockedUnkThreads>> PROVE CountersExact'
  BY <1>a DEF CountersExact
<1>b. ASSUME EnsureActive(t), UNCHANGED <<blockedUnk, blockedUnkThreads>> PROVE CountersExact'
  BY <1>0, <1>b, EnsureActiveCounts DEF CountersExact
<1>1. ASSUME ThreadCreated(t) PROVE CountersExact'
  <2> DEFINE c == Op(t).child
  <2>1. c \in Thread
    BY <1>0, <1>1, OpType DEF ThreadCreated, WellFormedInstr, AtEvent, AtOp, AtEnd, Op, TypeOK, ProgType
  <2>2. /\ known' = known \cup ({c} \ everStarted)
        /\ everStarted' = everStarted \cup {c}
        /\ aliveThreads' = (IF c \in everStarted THEN aliveThreads ELSE aliveThreads + 1)
        /\ UNCHANGED <<active, activeThreads, blockedUnk, blockedUnkThreads>>
    BY <1>1 DEF ThreadCreated
  <2> HIDE DEF c
  <2>3. known \in SUBSET Thread /\ known \subseteq everStarted
    BY <1>0 DEF FlagType, CountersExact
  <2>4. CASE c \in everStarted
    BY <2>2, <2>4 DEF CountersExact
  <2>5. CASE c \notin everStarted
    <3>1. Cardinality(known \cup {c}) = Cardinality(known) + 1 BY <2>1, <2>3, <2>5, AddSlot
    <3>2. known' = known \cup {c} BY <2>2, <2>5
    <3>3. aliveThreads' = Cardinality(known') BY <2>2, <2>5, <3>1, <3>2 DEF CountersExact
    <3> QED BY <2>2, <3>2, <3>3 DEF CountersExact
  <2> QED BY <2>4, <2>5
<1>2. ASSUME PthreadCreateFail(t) \/ ThreadEnd(t) PROVE CountersExact'
  BY <1>0, <1>2, UnregisterCounts DEF PthreadCreateFail, ThreadEnd
<1>3. ASSUME ThreadExit(t) PROVE CountersExact'
  BY <1>0, <1>3, <1>a, UnregisterCounts DEF ThreadExit
<1>4. ASSUME ThreadRegistered(t) PROVE CountersExact'
  <2>1. /\ st[t] = "starting" /\ EnsureActive(t)
        /\ blockedUnk' = blockedUnk \ {t} /\ blockedUnkThreads' = blockedUnkThreads
    BY <1>4 DEF ThreadRegistered
  <2>2. blockedUnk' = blockedUnk BY <2>1 DEF BlockedForGood, UnknownPoints
  <2> QED BY <1>b, <2>1, <2>2
<1>5. ASSUME OnStore(t) \/ OnFence(t) PROVE CountersExact'
  BY <1>5, <1>b DEF OnStore, OnFence
<1>6. ASSUME OnRead(t) PROVE CountersExact'
  <2>1. UNCHANGED flagVars \/ EnsureActive(t) BY <1>6 DEF OnRead
  <2>2. UNCHANGED <<blockedUnk, blockedUnkThreads>> BY <1>6 DEF OnRead
  <2> QED BY <1>a, <1>b, <2>1, <2>2
<1>7. ASSUME OnUnknown(t) PROVE CountersExact'
  <2>1. EnsureActive(t) BY <1>7 DEF OnUnknown
  <2>2. \/ t \in blockedUnk /\ UNCHANGED <<blockedUnk, blockedUnkThreads>>
        \/ /\ t \notin blockedUnk
           /\ blockedUnk' = blockedUnk \cup {t}
           /\ blockedUnkThreads' = blockedUnkThreads + 1
    BY <1>7 DEF OnUnknown
  <2>3. Cardinality(blockedUnk \cup {t}) =
          IF t \in blockedUnk THEN Cardinality(blockedUnk) ELSE Cardinality(blockedUnk) + 1
    BY <1>0, AddSlot DEF FlagType
  <2>4. blockedUnkThreads' = Cardinality(blockedUnk') BY <2>2, <2>3 DEF CountersExact
  <2> QED BY <1>0, <2>1, <2>4, EnsureActiveCounts
<1>8. ASSUME \/ PthreadCreateOk(t) \/ MapThread(t) \/ JoinBegin(t) \/ JoinSkip(t) \/ JoinEnd(t)
             \/ ReadRecheck(t) \/ UnknownRecheck(t) \/ Publish(t) \/ MainReturn(t)
             \/ VerifyAtexit(t) \/ ProcessExit(t) \/ SpuriousWake(t)
      PROVE  CountersExact'
  BY <1>8, <1>a DEF PthreadCreateOk, MapThread, JoinBegin, JoinSkip, JoinEnd, ReadRecheck,
     UnknownRecheck, Publish, MainReturn, VerifyAtexit, ProcessExit, SpuriousWake
<1> QED BY <1>1, <1>2, <1>3, <1>4, <1>5, <1>6, <1>7, <1>8 DEF ThreadStep, Environment

LEMMA CountersInit == Init => CountersExact
<1> SUFFICES ASSUME Init PROVE CountersExact OBVIOUS
<1>1. Cardinality({Main}) = 1 /\ Cardinality({}) = 0 BY FS_Singleton, FS_EmptySet
<1> QED BY <1>1 DEF Init, CountersExact

\* The counters that should_exit_deadlock_locked compares are exact in every
\* behaviour: a slot registered or unregistered twice is counted once.
THEOREM CountersCorrect == Spec => []CountersExact
<1> DEFINE Inv == TypeInv /\ BlockedForGood /\ CountersExact
<1>1. Init => Inv BY TypeInit, CountersInit DEF Init, BlockedForGood
<1>2. Inv /\ [Next]_vars => Inv'
  <2>1. CASE UNCHANGED vars
    BY <2>1, TypeStutter DEF CountersExact, BlockedForGood, vars, progVars, flagVars, unkVars
  <2>2. ASSUME Inv, NEW t \in Thread, ThreadStep(t) \/ Environment(t) PROVE Inv'
    BY <2>2, TypeStep, BlockedStep, CountersStep
  <2> QED BY <2>1, <2>2 DEF Next, Done
<1>3. Inv => CountersExact OBVIOUS
<1> QED BY <1>1, <1>2, <1>3, PTL DEF Spec
-----------------------------------------------------------------------------
(* Reads-from: what is covered has been executed.                          *)

\* What one turn of the waiting loop does to coverage, history and control.
LEMMA RfTurnEffect ==
  ASSUME NEW t \in Thread, Op(t).op \in ReadOps, RfTurn(t, Op(t))
  PROVE  \/ /\ UNCHANGED <<coveredRf, hist, pc>>
            /\ SleepOrExit(t, "rfwait") \/ Terminate(t, NOT_INSTANTIABLE)
         \/ /\ InHistory(graph.rf[Op(t).ev])
            /\ coveredRf' = coveredRf \cup {Op(t).ev}
            /\ \/ hist' = hist
               \/ /\ \E v : hist' = AddHistory(Op(t).loc, Op(t).ev, v)
                  /\ \/ Op(t).op = "rmw"
                     \/ /\ Op(t).op = "cas"
                        /\ \E old : CasDecision(Op(t), graph.type[Op(t).ev], old) = "swap"
            /\ \/ Advance(t) /\ UNCHANGED exitVars
               \/ pc' = pc /\ Terminate(t, NOT_INSTANTIABLE)
<1> DEFINE o == Op(t)
<1> DEFINE w == graph.rf[o.ev]
<1>1. CASE ~InHistory(w) BY <1>1 DEF RfTurn
<1>2. CASE InHistory(w) /\ HistLoc(w) # o.loc BY <1>2 DEF RfTurn
<1>3. CASE InHistory(w) /\ HistLoc(w) = o.loc
  <2> DEFINE old == HistVal(w)
  <2>1. ReadSatisfied(t, o, old) BY <1>3 DEF RfTurn
  <2>2. coveredRf' = coveredRf \cup {o.ev} BY <2>1 DEF ReadSatisfied, MarkRfEdge
  <2> HIDE DEF o, old
  <2>3. CASE o.op = "load"
    <3>1. hist' = hist /\ Advance(t) /\ UNCHANGED exitVars BY <2>1, <2>3 DEF ReadSatisfied
    <3> QED BY <1>3, <2>2, <3>1 DEF o
  <2>4. CASE o.op = "rmw"
    <3>1. /\ hist' = AddHistory(o.loc, o.ev, (old + o.val) % ValMod)
          /\ Advance(t) /\ UNCHANGED exitVars
      BY <2>1, <2>4 DEF ReadSatisfied
    <3> QED BY <1>3, <2>2, <2>4, <3>1 DEF o
  <2>5. CASE o.op = "cas"
    <3> DEFINE d == CasDecision(o, graph.type[o.ev], old)
    <3>1. CASE d = "impossible"
      <4>1. Terminate(t, NOT_INSTANTIABLE) /\ UNCHANGED <<pc, hist>>
        BY <2>1, <2>5, <3>1 DEF ReadSatisfied
      <4> QED BY <1>3, <2>2, <4>1 DEF o
    <3>2. CASE d # "impossible"
      <4>1. /\ hist' = (IF d = "swap" THEN AddHistory(o.loc, o.ev, o.val) ELSE hist)
            /\ Advance(t) /\ UNCHANGED exitVars
        BY <2>1, <2>5, <3>2 DEF ReadSatisfied
      <4> QED BY <1>3, <2>2, <2>5, <4>1 DEF o
    <3> QED BY <3>1, <3>2
  <2>6. o.op \in {"load", "rmw", "cas"} BY DEF o, ReadOps
  <2> QED BY <2>3, <2>4, <2>5, <2>6
<1> QED BY <1>1, <1>2, <1>3

\* The decision table never swaps for a compare-exchange that must fail.
LEMMA NoSwapOnFail ==
  ASSUME NEW o, NEW ty, NEW old, CasDecision(o, ty, old) = "swap"
  PROVE  ty # "CAS_FAIL"
  BY DEF CasDecision

\* A history whose writes all belong to a set still does when one more of that
\* set is added, eviction or not.
LEMMA AddHistoryWithin ==
  ASSUME TypeOK, NEW G, NEW l \in Loc, NEW e \in G, NEW v,
         \A k \in Loc : \A i \in DOMAIN hist[k] : hist[k][i].ev \in G
  PROVE  \A k \in Loc : \A i \in DOMAIN AddHistory(l, e, v)[k] : AddHistory(l, e, v)[k][i].ev \in G
<1> DEFINE R == [ev : Event, val : Val]
<1> DEFINE x == [ev |-> e, val |-> v]
<1> DEFINE kept == IF Len(hist[l]) >= HistCap THEN Tail(hist[l]) ELSE hist[l]
<1>1. hist \in [Loc -> Seq(R)] /\ hist[l] \in Seq(R) BY DEF TypeOK, CoverType
<1>2. AddHistory(l, e, v) = [hist EXCEPT ![l] = Append(kept, x)] BY <1>1 DEF AddHistory
<1>3. x.ev = e OBVIOUS
<1>4. kept \in Seq(R) /\ \A i \in DOMAIN kept : kept[i].ev \in G
  <2>1. CASE Len(hist[l]) >= HistCap
    <3>1. Len(hist[l]) > 0 BY <1>1, <2>1, SchedulerAssumption
    <3>2. kept = Tail(hist[l]) BY <2>1
    <3>3. hist[l] # <<>> BY <1>1, <3>1
    <3>4. /\ Tail(hist[l]) \in Seq(R)
          /\ \A i \in DOMAIN Tail(hist[l]) :
               i + 1 \in DOMAIN hist[l] /\ Tail(hist[l])[i] = hist[l][i + 1]
      BY <1>1, <3>3
    <3> QED BY <3>2, <3>4
  <2>2. CASE ~(Len(hist[l]) >= HistCap) BY <1>1, <2>2
  <2> QED BY <2>1, <2>2
<1> HIDE DEF x, kept, R
<1>5. \A i \in DOMAIN Append(kept, x) : Append(kept, x)[i].ev \in G
  <2>1. SUFFICES ASSUME NEW i \in DOMAIN Append(kept, x) PROVE Append(kept, x)[i].ev \in G
    OBVIOUS
  <2>2. kept \in Seq(R \cup {x}) BY <1>4
  <2>3. i \in 1..(Len(kept) + 1) BY <2>2
  <2>4. CASE i = Len(kept) + 1 BY <1>3, <2>2, <2>4
  <2>5. CASE i # Len(kept) + 1
    <3>1. i \in DOMAIN kept /\ Append(kept, x)[i] = kept[i] BY <2>2, <2>3, <2>5
    <3> QED BY <1>4, <3>1
  <2> QED BY <2>4, <2>5
<1> SUFFICES ASSUME NEW k \in Loc, NEW i \in DOMAIN AddHistory(l, e, v)[k]
             PROVE  AddHistory(l, e, v)[k][i].ev \in G
  OBVIOUS
<1>6. CASE k = l
  <2>1. AddHistory(l, e, v)[k] = Append(kept, x) BY <1>1, <1>2, <1>6
  <2> QED BY <1>5, <2>1
<1>7. CASE k # l
  <2>1. AddHistory(l, e, v)[k] = hist[k] BY <1>1, <1>2, <1>7
  <2> QED BY <2>1
<1> QED BY <1>6, <1>7

\* A reader that waits has been covered, and its node is of a kind its handler
\* accepts.
WaitingCovered ==
  \A t \in Thread : st[t] = "rfwait" =>
     Op(t).ev \in covered /\ graph.type[Op(t).ev] \in AcceptedTypes(Op(t).op)

LEMMA WaitingFrame ==
  ASSUME WaitingCovered, NEW t \in Thread, graph' = graph, covered \subseteq covered',
         \A u \in Thread \ {t} : /\ st'[u] = st[u] \/ st'[u] = "starting"
                                 /\ pc'[u] = pc[u],
         \/ st'[t] # "rfwait"
         \/ pc'[t] = pc[t] /\ st[t] = "rfwait"
         \/ /\ pc'[t] = pc[t] /\ Op(t).ev \in covered'
            /\ graph.type[Op(t).ev] \in AcceptedTypes(Op(t).op)
  PROVE  WaitingCovered'
<1> SUFFICES ASSUME NEW u \in Thread, st'[u] = "rfwait"
             PROVE  /\ Op(u)'.ev \in covered'
                    /\ graph'.type[Op(u)'.ev] \in AcceptedTypes(Op(u)'.op)
  BY DEF WaitingCovered, AcceptedTypes
<1>1. Op(u)' = Op(u) BY DEF Op
<1>2. CASE u = t BY <1>1, <1>2 DEF WaitingCovered
<1>3. CASE u # t BY <1>1, <1>3 DEF WaitingCovered
<1> QED BY <1>2, <1>3

\* A turn of the waiting loop whose node is covered keeps the property.
LEMMA RfTurnReads ==
  ASSUME TypeOK, ReadsFromExecuted, NEW t \in Thread, ~AtEnd(t), Op(t).op \in ReadOps,
         Op(t).ev \in DOMAIN graph.rf, RfTurn(t, Op(t)), graph' = graph,
         covered \subseteq covered', Op(t).ev \in covered',
         graph.type[Op(t).ev] \in AcceptedTypes(Op(t).op)
  PROVE  ReadsFromExecuted'
<1> DEFINE o == Op(t)
<1> DEFINE G == {e \in covered' : graph.type[e] # "CAS_FAIL"}
<1>0. o.loc \in Loc BY OpType DEF WellFormedInstr, ReadOps, EventOps
<1>1. \A l \in Loc : \A i \in DOMAIN hist[l] : hist[l][i].ev \in G
  BY DEF ReadsFromExecuted
<1>2. \A r \in coveredRf' : r \in covered' /\ graph.rf[r] \in covered'
  <2>1. InHistory(graph.rf[o.ev]) => graph.rf[o.ev] \in covered'
    BY DEF InHistory, ReadsFromExecuted
  <2>2. \/ coveredRf' = coveredRf
        \/ InHistory(graph.rf[o.ev]) /\ coveredRf' = coveredRf \cup {o.ev}
    BY RfTurnEffect
  <2> QED BY <2>1, <2>2 DEF ReadsFromExecuted
<1>3. \/ hist' = hist
      \/ o.ev \in G /\ \E v : hist' = AddHistory(o.loc, o.ev, v)
  <2>1. CASE UNCHANGED hist BY <2>1
  <2>2. CASE /\ \E v : hist' = AddHistory(o.loc, o.ev, v)
             /\ \/ o.op = "rmw"
                \/ \E old : CasDecision(o, graph.type[o.ev], old) = "swap"
    <3>1. o.op = "rmw" => graph.type[o.ev] # "CAS_FAIL" BY DEF AcceptedTypes
    <3> QED BY <2>2, <3>1, NoSwapOnFail
  <2> QED BY <2>1, <2>2, RfTurnEffect
<1> HIDE DEF G, o
<1>4. \A l \in Loc : \A i \in DOMAIN hist'[l] : hist'[l][i].ev \in G
  <2>1. CASE hist' = hist BY <1>1, <2>1
  <2>2. CASE o.ev \in G /\ \E v : hist' = AddHistory(o.loc, o.ev, v)
    <3>1. PICK v : hist' = AddHistory(o.loc, o.ev, v) BY <2>2
    <3> QED BY <1>0, <1>1, <2>2, <3>1, AddHistoryWithin
  <2> QED BY <1>3, <2>1, <2>2
<1> QED BY <1>2, <1>4 DEF ReadsFromExecuted, G

LEMMA ReadsStep ==
  ASSUME TypeInv, ReadsFromExecuted, WaitingCovered, NEW t \in Thread,
         ThreadStep(t) \/ Environment(t)
  PROVE  ReadsFromExecuted' /\ WaitingCovered'
<1> USE DEF progVars, flagVars, unkVars, rfVars, treeVars, exitVars
<1>0. /\ TypeOK /\ PcInv /\ st \in [Thread -> Control] /\ pc \in [Thread -> Nat \ {0}]
      /\ INVALID_INPUT \in ExitCodes
  BY DEF TypeInv, TypeOK, ProgType, ExitCodes
<1>a. ASSUME UNCHANGED <<graph, rfVars>> PROVE ReadsFromExecuted'
  BY <1>a DEF ReadsFromExecuted
<1>b. ASSUME NEW c, st' = [st EXCEPT ![t] = c], c # "rfwait",
             pc' = pc \/ pc' = [pc EXCEPT ![t] = @ + 1], graph' = graph,
             covered \subseteq covered'
      PROVE  WaitingCovered'
  BY <1>0, <1>b, WaitingFrame
<1>c. ASSUME Terminate(t, INVALID_INPUT), graph' = graph, covered \subseteq covered', pc' = pc
      PROVE  WaitingCovered'
  <2>1. PICK c \in {"publish", "exiting", "paused"} : st' = [st EXCEPT ![t] = c]
    BY <1>0, <1>c, TerminateType
  <2> QED BY <1>b, <1>c, <2>1
<1>d. ASSUME Mismatch(t), graph' = graph PROVE ReadsFromExecuted' /\ WaitingCovered'
  BY <1>a, <1>c, <1>d DEF Mismatch
<1>1. ASSUME ThreadCreated(t) \/ MapThread(t) \/ PthreadCreateFail(t)
      PROVE  ReadsFromExecuted' /\ WaitingCovered'
  BY <1>a, <1>b, <1>1 DEF ThreadCreated, MapThread, PthreadCreateFail, Advance, Goto
<1>2. ASSUME PthreadCreateOk(t) PROVE ReadsFromExecuted' /\ WaitingCovered'
  <2>1. Op(t).child \in Thread \ {t}
    BY <1>0, <1>2, OpType DEF PthreadCreateOk, PcInv, WellFormedInstr
  <2>2. /\ \A u \in Thread \ {t} : st'[u] = st[u] \/ st'[u] = "starting"
        /\ st'[t] = "mapping" /\ UNCHANGED <<graph, pc, rfVars>>
    BY <1>0, <1>2, <2>1 DEF PthreadCreateOk
  <2> QED BY <1>a, <2>2, WaitingFrame
<1>3. ASSUME ThreadRegistered(t) \/ ThreadEnd(t) \/ ThreadExit(t)
      PROVE  ReadsFromExecuted' /\ WaitingCovered'
  BY <1>a, <1>b, <1>3 DEF ThreadRegistered, ThreadEnd, ThreadExit, Goto
<1>4. ASSUME JoinBegin(t) \/ JoinSkip(t) \/ JoinEnd(t)
      PROVE  ReadsFromExecuted' /\ WaitingCovered'
  BY <1>a, <1>b, <1>4 DEF JoinBegin, JoinSkip, JoinEnd, Advance, Goto
<1>5. ASSUME OnStore(t) PROVE ReadsFromExecuted' /\ WaitingCovered'
  <2> DEFINE e == Op(t).ev
  <2>1. graph' = graph BY <1>5 DEF OnStore
  <2>2. CASE graph.type[e] \in {"WRITE", "RMW"}
    <3>1. /\ covered' = covered \cup {e} /\ coveredRf' = coveredRf
          /\ hist' = AddHistory(Op(t).loc, e, Op(t).val)
          /\ Advance(t)
      BY <1>5, <2>2 DEF OnStore, Cover
    <3> DEFINE G == {x \in covered' : graph.type[x] # "CAS_FAIL"}
    <3>2. \A l \in Loc : \A i \in DOMAIN hist[l] : hist[l][i].ev \in G
      BY <3>1 DEF ReadsFromExecuted
    <3>3. Op(t).loc \in Loc
      BY <1>0, <1>5, OpType DEF OnStore, AtEvent, AtOp, AtEnd, Op, WellFormedInstr, EventOps
    <3>4. e \in G BY <2>2, <3>1
    <3> HIDE DEF G, e
    <3>5. \A l \in Loc : \A i \in DOMAIN hist'[l] : hist'[l][i].ev \in G
      BY <1>0, <3>1, <3>2, <3>3, <3>4, AddHistoryWithin
    <3>6. \A r \in coveredRf' : r \in covered' /\ graph.rf[r] \in covered'
      BY <3>1 DEF ReadsFromExecuted
    <3>7. ReadsFromExecuted' BY <2>1, <3>5, <3>6 DEF ReadsFromExecuted, G
    <3>8. WaitingCovered' BY <1>b, <2>1, <3>1 DEF Advance, Goto
    <3> QED BY <3>7, <3>8
  <2>3. CASE graph.type[e] \notin {"WRITE", "RMW"}
    BY <1>5, <1>d, <2>1, <2>3 DEF OnStore
  <2> QED BY <2>2, <2>3
<1>6. ASSUME OnFence(t) PROVE ReadsFromExecuted' /\ WaitingCovered'
  <2>1. graph' = graph BY <1>6 DEF OnFence
  <2>2. CASE graph.type[Op(t).ev] = "FENCE"
    <3>1. covered' = covered \cup {Op(t).ev} /\ UNCHANGED <<coveredRf, hist>> /\ Advance(t)
      BY <1>6, <2>2 DEF OnFence, Cover
    <3>2. ReadsFromExecuted' BY <2>1, <3>1 DEF ReadsFromExecuted
    <3> QED BY <1>b, <2>1, <3>1, <3>2 DEF Advance, Goto
  <2>3. CASE graph.type[Op(t).ev] # "FENCE" BY <1>6, <1>d, <2>1, <2>3 DEF OnFence
  <2> QED BY <2>2, <2>3
<1>7. ASSUME OnRead(t) PROVE ReadsFromExecuted' /\ WaitingCovered'
  <2> DEFINE o == Op(t)
  <2>1. graph' = graph /\ ~AtEnd(t) /\ o.op \in ReadOps BY <1>7 DEF OnRead
  <2>2. CASE graph.type[o.ev] \notin AcceptedTypes(o.op) BY <1>7, <1>d, <2>1, <2>2 DEF OnRead
  <2>3. CASE graph.type[o.ev] \in AcceptedTypes(o.op) /\ o.ev \in DOMAIN graph.rf
    <3>1. covered' = covered \cup {o.ev} /\ RfTurn(t, o) BY <1>7, <2>3 DEF OnRead, Cover
    <3>2. ReadsFromExecuted' BY <1>0, <2>1, <2>3, <3>1, RfTurnReads
    <3>3. PICK c : st' = [st EXCEPT ![t] = c] /\ (c = "rfwait" => pc' = pc)
                   /\ (pc' = pc \/ pc' = [pc EXCEPT ![t] = @ + 1])
      BY <1>0, <2>1, <2>3, <3>1, RfTurnType
    <3>4. WaitingCovered' BY <1>0, <2>1, <2>3, <3>1, <3>3, WaitingFrame
    <3> QED BY <3>2, <3>4
  <2>4. CASE graph.type[o.ev] \in AcceptedTypes(o.op) /\ o.ev \notin DOMAIN graph.rf
    <3>1. /\ covered' = covered \cup {o.ev} /\ Terminate(t, INVALID_INPUT)
          /\ UNCHANGED <<pc, coveredRf, hist>>
      BY <1>7, <2>4 DEF OnRead, Cover
    <3>2. ReadsFromExecuted' BY <2>1, <3>1 DEF ReadsFromExecuted
    <3> QED BY <1>c, <2>1, <3>1, <3>2
  <2> QED BY <2>2, <2>3, <2>4
<1>8. ASSUME ReadRecheck(t) PROVE ReadsFromExecuted' /\ WaitingCovered'
  <2> DEFINE o == Op(t)
  <2>1. st[t] = "rfwait" /\ graph' = graph /\ covered' = covered /\ RfTurn(t, o)
    BY <1>8 DEF ReadRecheck
  <2>2. /\ ~AtEnd(t) /\ o.op \in ReadOps /\ o.ev \in DOMAIN graph.rf
        /\ o.ev \in covered /\ graph.type[o.ev] \in AcceptedTypes(o.op)
    BY <1>0, <2>1 DEF PcInv, WaitingCovered
  <2>3. ReadsFromExecuted' BY <1>0, <2>1, <2>2, RfTurnReads
  <2>4. PICK c : st' = [st EXCEPT ![t] = c] /\ (c = "rfwait" => pc' = pc)
                 /\ (pc' = pc \/ pc' = [pc EXCEPT ![t] = @ + 1])
    BY <1>0, <2>1, <2>2, RfTurnType
  <2>5. WaitingCovered' BY <1>0, <2>1, <2>2, <2>4, WaitingFrame
  <2> QED BY <2>3, <2>5
<1>9. ASSUME OnUnknown(t) \/ UnknownRecheck(t) PROVE ReadsFromExecuted' /\ WaitingCovered'
  <2>1. SleepOrExit(t, "unknown") /\ UNCHANGED <<graph, pc, rfVars>>
    BY <1>9 DEF OnUnknown, UnknownRecheck
  <2>2. PICK c \in {"publish", "exiting", "paused", "unknown"} : st' = [st EXCEPT ![t] = c]
    BY <1>0, <2>1, SleepOrExitType
  <2> QED BY <1>a, <1>b, <2>1, <2>2
<1>10. ASSUME Publish(t) \/ MainReturn(t) \/ VerifyAtexit(t)
       PROVE  ReadsFromExecuted' /\ WaitingCovered'
  BY <1>a, <1>b, <1>10 DEF Publish, CasExit, MainReturn, VerifyAtexit, Goto
<1>11. ASSUME ProcessExit(t) \/ SpuriousWake(t) PROVE ReadsFromExecuted' /\ WaitingCovered'
  BY <1>11, <1>a DEF ProcessExit, SpuriousWake, WaitingCovered, Op
<1> QED BY <1>1, <1>2, <1>3, <1>4, <1>5, <1>6, <1>7, <1>8, <1>9, <1>10, <1>11
        DEF ThreadStep, Environment

\* In every behaviour an rf edge is only ever satisfied by a store that has been
\* executed, and a compare-exchange that must fail never stores.
THEOREM ReadsFromCorrect == Spec => []ReadsFromExecuted
<1> DEFINE Inv == TypeInv /\ ReadsFromExecuted /\ WaitingCovered
<1>1. Init => Inv BY TypeInit DEF Init, ReadsFromExecuted, WaitingCovered
<1>2. Inv /\ [Next]_vars => Inv'
  <2>1. CASE UNCHANGED vars
    BY <2>1, TypeStutter DEF ReadsFromExecuted, WaitingCovered, Op, vars, progVars, rfVars
  <2>2. ASSUME Inv, NEW t \in Thread, ThreadStep(t) \/ Environment(t) PROVE Inv'
    BY <2>2, TypeStep, ReadsStep
  <2> QED BY <2>1, <2>2 DEF Next, Done
<1>3. Inv => ReadsFromExecuted OBVIOUS
<1> QED BY <1>1, <1>2, <1>3, PTL DEF Spec
-----------------------------------------------------------------------------
(* The verdict "instantiated but not done".                                *)

\* The control points of a thread that has entered scheduler_terminate_locked.
Leaving == {"publish", "exiting", "paused", "dying", "dying0"}

\* The rf edge of an event that a thread has yet to execute is not covered:
\* a reader about to wait, or waiting, can never find the graph instantiated.
FutureUncovered ==
  \A t \in Thread : \A i \in DOMAIN Prog[t] :
     /\ Prog[t][i].op \in EventOps
     /\ i > pc[t] \/ (i = pc[t] /\ st[t] \notin Leaving)
     => Prog[t][i].ev \notin coveredRf

\* Status 20 is decided by a thread whose event is among the next events.
Publishable == Instantiated /\ nextEvents # {}
ExitInv ==
  /\ exiting = INSTANTIATED_BUT_NOT_DONE => Publishable
  /\ \A t \in Thread : st[t] = "publish" => Publishable
  /\ \A t \in Thread : st[t] = "unknown" => nextEvents # {}
  /\ proc = INSTANTIATED_BUT_NOT_DONE => exiting = INSTANTIATED_BUT_NOT_DONE

\* Coverage and next events only grow.
Grows ==
  /\ graph' = graph
  /\ covered \subseteq covered' /\ coveredRf \subseteq coveredRf'
  /\ nextEvents \subseteq nextEvents'

LEMMA GrowsStep ==
  ASSUME TypeInv, NEW t \in Thread, ThreadStep(t) \/ Environment(t)
  PROVE  Grows
<1> USE DEF progVars, flagVars, unkVars, rfVars, treeVars, exitVars, Grows
<1>1. ASSUME \/ ThreadCreated(t) \/ PthreadCreateOk(t) \/ MapThread(t) \/ PthreadCreateFail(t)
             \/ ThreadRegistered(t) \/ ThreadEnd(t) \/ ThreadExit(t)
      PROVE  Grows
  BY <1>1 DEF ThreadCreated, PthreadCreateOk, MapThread, PthreadCreateFail, ThreadRegistered,
     ThreadEnd, ThreadExit, Unregister
<1>2. ASSUME \/ JoinBegin(t) \/ JoinSkip(t) \/ JoinEnd(t) \/ UnknownRecheck(t) \/ Publish(t)
             \/ MainReturn(t) \/ VerifyAtexit(t) \/ ProcessExit(t) \/ SpuriousWake(t)
      PROVE  Grows
  BY <1>2 DEF JoinBegin, JoinSkip, JoinEnd, UnknownRecheck, Publish, MainReturn, VerifyAtexit,
     ProcessExit, SpuriousWake
<1>3. ASSUME OnStore(t) \/ OnFence(t) PROVE Grows
  BY <1>3 DEF OnStore, OnFence, Cover, Mismatch
<1>4. ASSUME OnUnknown(t) PROVE Grows
  BY <1>4 DEF OnUnknown
<1>5. ASSUME OnRead(t) PROVE Grows
  <2>1. graph' = graph /\ nextEvents' = nextEvents /\ Op(t).op \in ReadOps
        /\ covered \subseteq covered'
    BY <1>5 DEF OnRead, Cover, Mismatch
  <2>2. UNCHANGED coveredRf \/ RfTurn(t, Op(t)) BY <1>5 DEF OnRead, Mismatch
  <2>3. coveredRf \subseteq coveredRf' BY <2>1, <2>2, RfTurnEffect
  <2> QED BY <2>1, <2>3
<1>6. ASSUME ReadRecheck(t) PROVE Grows
  <2>1. graph' = graph /\ nextEvents' = nextEvents /\ covered' = covered /\ RfTurn(t, Op(t))
    BY <1>6 DEF ReadRecheck
  <2>2. Op(t).op \in ReadOps BY <1>6 DEF ReadRecheck, TypeInv, PcInv
  <2> QED BY <2>1, <2>2, RfTurnEffect
<1> QED BY <1>1, <1>2, <1>3, <1>4, <1>5, <1>6 DEF ThreadStep, Environment

\* Once the whole graph is covered it stays covered.
LEMMA PublishableStays ==
  ASSUME TypeInv, TypeInv', Grows, Publishable
  PROVE  Publishable'
<1>1. /\ covered' \subseteq DOMAIN graph'.type /\ coveredRf' \subseteq DOMAIN graph'.rf
  BY DEF TypeInv, TypeOK, CoverType, Node
<1>2. covered = DOMAIN graph.type /\ coveredRf = DOMAIN graph.rf /\ nextEvents # {}
  BY DEF Publishable, Instantiated, Node
<1>3. covered' = DOMAIN graph'.type /\ coveredRf' = DOMAIN graph'.rf /\ nextEvents' # {}
  BY <1>1, <1>2 DEF Grows
<1> QED BY <1>3 DEF Publishable, Instantiated, Node

\* A step of t that enters no publication and claims no status 20.
LEMMA ExitFrame ==
  ASSUME TypeInv, TypeInv', Grows, ExitInv, NEW t \in Thread,
         \A u \in Thread \ {t} : st'[u] = st[u] \/ st'[u] = "starting",
         st'[t] = "publish" => st[t] = "publish" \/ Publishable',
         st'[t] = "unknown" => st[t] = "unknown" \/ nextEvents' # {},
         exiting' = INSTANTIATED_BUT_NOT_DONE =>
            exiting = INSTANTIATED_BUT_NOT_DONE \/ st[t] = "publish",
         exiting = INSTANTIATED_BUT_NOT_DONE => exiting' = exiting,
         proc' = INSTANTIATED_BUT_NOT_DONE =>
            proc = INSTANTIATED_BUT_NOT_DONE \/ exiting' = INSTANTIATED_BUT_NOT_DONE
  PROVE  ExitInv'
<1>1. Publishable => Publishable' BY PublishableStays
<1>2. exiting' = INSTANTIATED_BUT_NOT_DONE => Publishable' BY <1>1 DEF ExitInv
<1>3. \A u \in Thread : st'[u] = "publish" => Publishable' BY <1>1 DEF ExitInv
<1>4. \A u \in Thread : st'[u] = "unknown" => nextEvents' # {} BY DEF ExitInv, Grows
<1>5. proc' = INSTANTIATED_BUT_NOT_DONE => exiting' = INSTANTIATED_BUT_NOT_DONE BY DEF ExitInv
<1> HIDE DEF INSTANTIATED_BUT_NOT_DONE, Publishable
<1> QED BY <1>2, <1>3, <1>4, <1>5 DEF ExitInv

\* An exit with a rejecting status.
LEMMA RejectingExit ==
  ASSUME NEW t \in Thread, NEW code \in {INVALID_INPUT, NOT_INSTANTIABLE}, Terminate(t, code)
  PROVE  /\ \E c \in {"exiting", "paused"} : st' = [st EXCEPT ![t] = c]
         /\ exiting' = INSTANTIATED_BUT_NOT_DONE <=> exiting = INSTANTIATED_BUT_NOT_DONE
<1>1. code # INSTANTIATED_BUT_NOT_DONE
  BY DEF INVALID_INPUT, NOT_INSTANTIABLE, INSTANTIATED_BUT_NOT_DONE
<1>2. CasExit(t, code) BY <1>1 DEF Terminate
<1>3. 0 # INSTANTIATED_BUT_NOT_DONE BY DEF INSTANTIATED_BUT_NOT_DONE
<1> QED BY <1>1, <1>2, <1>3 DEF CasExit

\* A thread that waits for its rf source rejects the graph or goes to sleep.
LEMMA WaitingRejects ==
  ASSUME TypeOK, FutureUncovered, NEW t \in Thread, ~AtEnd(t), Op(t).op \in ReadOps,
         Op(t).ev \in DOMAIN graph.rf, st[t] \notin Leaving, graph' = graph,
         coveredRf' = coveredRf, SleepOrExit(t, "rfwait")
  PROVE  /\ \E c \in {"exiting", "paused", "rfwait"} : st' = [st EXCEPT ![t] = c]
         /\ exiting' = INSTANTIATED_BUT_NOT_DONE <=> exiting = INSTANTIATED_BUT_NOT_DONE
<1>1. Op(t).ev \notin coveredRf
  <2>1. pc[t] \in DOMAIN Prog[t] /\ Op(t).op \in EventOps
    BY SchedulerAssumption DEF TypeOK, ProgType, AtEnd, ReadOps, EventOps
  <2> QED BY <2>1 DEF FutureUncovered, Op
<1>2. ~Instantiated' BY <1>1 DEF Instantiated
<1>3. TerminalCode' = NOT_INSTANTIABLE BY <1>2 DEF TerminalCode
<1>4. CASE ShouldExit'
  <2>1. Terminate(t, NOT_INSTANTIABLE) BY <1>3, <1>4 DEF SleepOrExit
  <2> QED BY <2>1, RejectingExit
<1>5. CASE ~ShouldExit' BY <1>5 DEF SleepOrExit, exitVars
<1> QED BY <1>4, <1>5

LEMMA RfTurnExit ==
  ASSUME TypeOK, FutureUncovered, NEW t \in Thread, ~AtEnd(t), Op(t).op \in ReadOps,
         Op(t).ev \in DOMAIN graph.rf, st[t] \notin Leaving, graph' = graph, RfTurn(t, Op(t))
  PROVE  /\ \E c \in {"exiting", "paused", "rfwait", "run"} : st' = [st EXCEPT ![t] = c]
         /\ exiting' = INSTANTIATED_BUT_NOT_DONE <=> exiting = INSTANTIATED_BUT_NOT_DONE
  BY RfTurnEffect, WaitingRejects, RejectingExit DEF Advance, Goto, exitVars

LEMMA FutureFrame ==
  ASSUME FutureUncovered, NEW t \in Thread, coveredRf' = coveredRf,
         pc \in [Thread -> Nat \ {0}],
         \A u \in Thread \ {t} : pc'[u] = pc[u] /\ (st'[u] = st[u] \/ st[u] = "none"),
         \/ pc'[t] = pc[t] /\ (st'[t] \in Leaving \/ st[t] \notin Leaving)
         \/ pc'[t] = pc[t] + 1
  PROVE  FutureUncovered'
<1> SUFFICES ASSUME NEW u \in Thread, NEW i \in DOMAIN Prog[u], Prog[u][i].op \in EventOps,
                    i > pc'[u] \/ (i = pc'[u] /\ st'[u] \notin Leaving)
             PROVE  Prog[u][i].ev \notin coveredRf
  BY DEF FutureUncovered, EventOps, Leaving
<1>0. i \in Nat BY SchedulerAssumption
<1>1. i > pc[u] \/ (i = pc[u] /\ st[u] \notin Leaving)
  <2>1. CASE u # t BY <2>1 DEF Leaving
  <2>2. CASE u = t BY <1>0, <2>2
  <2> QED BY <2>1, <2>2
<1> QED BY <1>1 DEF FutureUncovered

LEMMA RfTurnFuture ==
  ASSUME TypeOK, FutureUncovered, NEW t \in Thread, ~AtEnd(t), Op(t).op \in ReadOps,
         Op(t).ev \in DOMAIN graph.rf, st[t] \notin Leaving, graph' = graph, RfTurn(t, Op(t))
  PROVE  FutureUncovered'
<1>0. /\ pc \in [Thread -> Nat \ {0}] /\ st \in [Thread -> Control]
      /\ pc[t] \in DOMAIN Prog[t] /\ Op(t).op \in EventOps
  BY SchedulerAssumption DEF TypeOK, ProgType, AtEnd, ReadOps, EventOps
<1>1. PICK c : /\ st' = [st EXCEPT ![t] = c]
               /\ c \in {"exiting", "paused", "rfwait", "run"}
  BY RfTurnExit
<1>2. pc' = pc \/ pc' = [pc EXCEPT ![t] = @ + 1] BY RfTurnType
<1>3. CASE coveredRf' = coveredRf
  BY <1>0, <1>1, <1>2, <1>3, FutureFrame
<1>4. CASE coveredRf' = coveredRf \cup {Op(t).ev} /\ (Advance(t) \/ (pc' = pc /\ st'[t] \in Leaving))
  <2> SUFFICES ASSUME NEW u \in Thread, NEW i \in DOMAIN Prog[u], Prog[u][i].op \in EventOps,
                      i > pc'[u] \/ (i = pc'[u] /\ st'[u] \notin Leaving)
               PROVE  Prog[u][i].ev \notin coveredRf'
    BY DEF FutureUncovered, EventOps, Leaving
  <2>0. i \in Nat BY SchedulerAssumption
  <2>1. CASE u # t
    <3>1. Prog[u][i].ev \notin coveredRf
      BY <1>0, <1>1, <1>2, <2>1 DEF FutureUncovered
    <3>2. WellFormedInstr(u, Prog[u][i]) /\ WellFormedInstr(t, Prog[t][pc[t]])
      BY <1>0, SchedulerAssumption
    <3>3. Tid(Prog[u][i].ev) = u /\ Tid(Op(t).ev) = t
      BY <1>0, <3>2 DEF WellFormedInstr, Op
    <3> QED BY <1>4, <2>1, <3>1, <3>3
  <2>2. CASE u = t
    <3>1. i > pc[t] BY <1>0, <1>4, <2>0, <2>2 DEF Advance
    <3>2. Prog[t][i].ev \notin coveredRf BY <2>2, <3>1 DEF FutureUncovered
    <3>3. Prog[t][i].ev # Prog[t][pc[t]].ev
      <4>1. i # pc[t] BY <1>0, <2>0, <3>1
      <4> QED BY <1>0, <2>2, <4>1, SchedulerAssumption DEF Op
    <3> QED BY <1>4, <2>2, <3>2, <3>3 DEF Op
  <2> QED BY <2>1, <2>2
<1>5. \/ coveredRf' = coveredRf
      \/ /\ coveredRf' = coveredRf \cup {Op(t).ev}
         /\ Advance(t) \/ (pc' = pc /\ Terminate(t, NOT_INSTANTIABLE))
  BY RfTurnEffect
<1>6. Terminate(t, NOT_INSTANTIABLE) => st'[t] \in Leaving
  <2> SUFFICES ASSUME Terminate(t, NOT_INSTANTIABLE) PROVE st'[t] \in Leaving OBVIOUS
  <2>1. PICK k \in {"exiting", "paused"} : st' = [st EXCEPT ![t] = k] BY RejectingExit
  <2> QED BY <1>0, <2>1 DEF Leaving
<1> QED BY <1>3, <1>4, <1>5, <1>6

LEMMA ExitStep ==
  ASSUME TypeInv, FutureUncovered, ExitInv, NEW t \in Thread, ThreadStep(t) \/ Environment(t)
  PROVE  FutureUncovered' /\ ExitInv'
<1> USE DEF progVars, flagVars, unkVars, rfVars, treeVars, exitVars
<1>0. /\ TypeOK /\ PcInv /\ st \in [Thread -> Control] /\ pc \in [Thread -> Nat \ {0}]
      /\ {INVALID_INPUT, NOT_INSTANTIABLE} \subseteq ExitCodes
      /\ TypeInv' /\ Grows
      /\ INSTANTIATED_BUT_NOT_DONE \notin {0, OK, NOT_INSTANTIABLE, Running}
  BY TypeStep, GrowsStep DEF TypeInv, TypeOK, ProgType, ExitCodes, INSTANTIATED_BUT_NOT_DONE,
     OK, NOT_INSTANTIABLE, Running
<1> DEFINE Quiet == /\ exiting' = INSTANTIATED_BUT_NOT_DONE <=> exiting = INSTANTIATED_BUT_NOT_DONE
                    /\ UNCHANGED proc
<1>a. ASSUME NEW c \in Control, st' = [st EXCEPT ![t] = c],
             coveredRf' = coveredRf,
             \/ pc' = pc /\ (c \in Leaving \/ st[t] \notin Leaving)
             \/ pc' = [pc EXCEPT ![t] = @ + 1]
      PROVE  FutureUncovered'
  BY <1>0, <1>a, FutureFrame
<1>b. ASSUME NEW c, st' = [st EXCEPT ![t] = c], c \notin {"publish", "unknown"}, Quiet
      PROVE  ExitInv'
  <2> HIDE DEF INSTANTIATED_BUT_NOT_DONE
  <2> QED BY <1>0, <1>b, ExitFrame
<1>c. ASSUME Terminate(t, INVALID_INPUT), UNCHANGED <<coveredRf, pc, proc>>
      PROVE  FutureUncovered' /\ ExitInv'
  <2>1. PICK c \in {"exiting", "paused"} : st' = [st EXCEPT ![t] = c]
    BY <1>c, RejectingExit
  <2>2. Quiet BY <1>c, RejectingExit
  <2>3. c \in Leaving /\ c \in Control /\ c \notin {"publish", "unknown"}
    BY <2>1 DEF Leaving, Control
  <2> QED BY <1>a, <1>b, <1>c, <2>1, <2>2, <2>3
<1>1. ASSUME \/ ThreadCreated(t) \/ MapThread(t) \/ PthreadCreateFail(t) \/ ThreadRegistered(t)
             \/ ThreadEnd(t) \/ ThreadExit(t) \/ JoinBegin(t) \/ JoinSkip(t) \/ JoinEnd(t)
             \/ MainReturn(t)
      PROVE  FutureUncovered' /\ ExitInv'
  <2>1. Quiet /\ UNCHANGED coveredRf
    BY <1>1 DEF ThreadCreated, MapThread, PthreadCreateFail, ThreadRegistered, ThreadEnd, ThreadExit,
       JoinBegin, JoinSkip, JoinEnd, MainReturn
  <2>2. \E c \in {"creating", "run", "ended", "dead", "join", "returning"} :
           st' = [st EXCEPT ![t] = c]
    BY <1>1 DEF ThreadCreated, MapThread, PthreadCreateFail, ThreadRegistered, ThreadEnd, ThreadExit,
       JoinBegin, JoinSkip, JoinEnd, MainReturn, Advance, Goto
  <2>3. PICK c \in {"creating", "run", "ended", "dead", "join", "returning"} :
           st' = [st EXCEPT ![t] = c]
    BY <2>2
  <2>4. st[t] \in {"run", "mapping", "creating", "starting", "ended", "join"}
    BY <1>1 DEF ThreadCreated, MapThread, PthreadCreateFail, ThreadRegistered, ThreadEnd, ThreadExit,
       JoinBegin, JoinSkip, JoinEnd, MainReturn, AtEvent
  <2>5. pc' = pc \/ pc' = [pc EXCEPT ![t] = @ + 1]
    BY <1>1 DEF ThreadCreated, MapThread, PthreadCreateFail, ThreadRegistered, ThreadEnd, ThreadExit,
       JoinBegin, JoinSkip, JoinEnd, MainReturn, Advance
  <2>6. c \in Control /\ c \notin {"publish", "unknown"} /\ st[t] \notin Leaving
    BY <2>3, <2>4 DEF Control, Leaving
  <2> QED BY <1>a, <1>b, <2>1, <2>3, <2>5, <2>6
<1>2. ASSUME PthreadCreateOk(t) PROVE FutureUncovered' /\ ExitInv'
  <2>1. Op(t).child \in Thread \ {t}
    BY <1>0, <1>2, OpType DEF PthreadCreateOk, PcInv, WellFormedInstr
  <2>2. /\ \A u \in Thread \ {t} : \/ st'[u] = st[u]
                                   \/ st[u] = "none" /\ st'[u] = "starting"
        /\ st[t] = "creating" /\ st'[t] = "mapping"
        /\ UNCHANGED <<pc, coveredRf, exiting, proc>>
    BY <1>0, <1>2, <2>1 DEF PthreadCreateOk
  <2>3. FutureUncovered' BY <1>0, <2>2, FutureFrame DEF Leaving
  <2>4. ExitInv' BY <1>0, <2>2, ExitFrame
  <2> QED BY <2>3, <2>4
<1>3. ASSUME OnStore(t) PROVE FutureUncovered' /\ ExitInv'
  <2>1. st[t] = "run" /\ UNCHANGED proc BY <1>3 DEF OnStore, AtEvent
  <2>2. CASE Advance(t) /\ UNCHANGED <<coveredRf, exitVars>>
    BY <1>a, <1>b, <2>1, <2>2 DEF Advance, Goto, Control
  <2>3. CASE Mismatch(t) BY <1>c, <2>1, <2>3 DEF Mismatch
  <2> QED BY <1>3, <2>2, <2>3 DEF OnStore
<1>4. ASSUME OnFence(t) PROVE FutureUncovered' /\ ExitInv'
  <2>1. st[t] = "run" /\ UNCHANGED proc BY <1>4 DEF OnFence, AtEvent
  <2>2. CASE Advance(t) /\ UNCHANGED <<coveredRf, exitVars>>
    BY <1>a, <1>b, <2>1, <2>2 DEF Advance, Goto, Control
  <2>3. CASE Mismatch(t) BY <1>c, <2>1, <2>3 DEF Mismatch
  <2> QED BY <1>4, <2>2, <2>3 DEF OnFence
<1>5. ASSUME RfTurn(t, Op(t)), ~AtEnd(t), Op(t).op \in ReadOps, Op(t).ev \in DOMAIN graph.rf,
             st[t] \in {"run", "rfwait"}, UNCHANGED <<graph, proc>>
      PROVE  FutureUncovered' /\ ExitInv'
  <2>1. st[t] \notin Leaving BY <1>5 DEF Leaving
  <2>2. FutureUncovered' BY <1>0, <1>5, <2>1, RfTurnFuture
  <2>3. /\ \E c \in {"exiting", "paused", "rfwait", "run"} : st' = [st EXCEPT ![t] = c]
        /\ exiting' = INSTANTIATED_BUT_NOT_DONE <=> exiting = INSTANTIATED_BUT_NOT_DONE
    BY <1>0, <1>5, <2>1, RfTurnExit
  <2>4. PICK c \in {"exiting", "paused", "rfwait", "run"} : st' = [st EXCEPT ![t] = c] BY <2>3
  <2>5. ExitInv' BY <1>b, <1>5, <2>3, <2>4
  <2> QED BY <2>2, <2>5
<1>6. ASSUME OnRead(t) PROVE FutureUncovered' /\ ExitInv'
  <2>1. st[t] = "run" /\ ~AtEnd(t) /\ Op(t).op \in ReadOps /\ UNCHANGED <<graph, proc>>
    BY <1>6 DEF OnRead
  <2>2. \/ Terminate(t, INVALID_INPUT) /\ UNCHANGED <<coveredRf, pc>>
        \/ Op(t).ev \in DOMAIN graph.rf /\ RfTurn(t, Op(t))
    BY <1>6 DEF OnRead, Mismatch
  <2> QED BY <1>c, <1>5, <2>1, <2>2
<1>7. ASSUME ReadRecheck(t) PROVE FutureUncovered' /\ ExitInv'
  <2>1. st[t] = "rfwait" /\ RfTurn(t, Op(t)) /\ UNCHANGED <<graph, proc>>
    BY <1>7 DEF ReadRecheck
  <2>2. ~AtEnd(t) /\ Op(t).op \in ReadOps /\ Op(t).ev \in DOMAIN graph.rf
    BY <1>0, <2>1 DEF PcInv
  <2> QED BY <1>5, <2>1, <2>2
<1>8. ASSUME SleepOrExit(t, "unknown"), nextEvents' # {}, st[t] \in {"run", "unknown"},
             UNCHANGED <<pc, coveredRf, proc>>
      PROVE  FutureUncovered' /\ ExitInv'
  <2>1. CASE ShouldExit' /\ Instantiated'
    <3>1. Terminate(t, INSTANTIATED_BUT_NOT_DONE)
      BY <1>8, <2>1 DEF SleepOrExit, TerminalCode
    <3>2. st' = [st EXCEPT ![t] = "publish"] /\ exiting' = exiting BY <3>1 DEF Terminate
    <3>3. Publishable' BY <1>8, <2>1 DEF Publishable
    <3>4. FutureUncovered' BY <1>a, <1>8, <3>2 DEF Leaving, Control
    <3>5. ExitInv' BY <1>0, <1>8, <3>2, <3>3, ExitFrame
    <3> QED BY <3>4, <3>5
  <2>2. CASE ShouldExit' /\ ~Instantiated'
    <3>1. Terminate(t, NOT_INSTANTIABLE)
      BY <1>8, <2>2 DEF SleepOrExit, TerminalCode
    <3>2. PICK c \in {"exiting", "paused"} : st' = [st EXCEPT ![t] = c] BY <3>1, RejectingExit
    <3>3. Quiet BY <1>8, <3>1, RejectingExit
    <3>4. c \in Leaving /\ c \in Control /\ c \notin {"publish", "unknown"}
      BY <3>2 DEF Leaving, Control
    <3> QED BY <1>a, <1>b, <1>8, <3>2, <3>3, <3>4
  <2>3. CASE ~ShouldExit'
    <3>1. st' = [st EXCEPT ![t] = "unknown"] /\ exiting' = exiting
      BY <1>8, <2>3 DEF SleepOrExit
    <3>2. FutureUncovered' BY <1>a, <1>8, <3>1 DEF Leaving, Control
    <3>3. ExitInv' BY <1>0, <1>8, <3>1, ExitFrame
    <3> QED BY <3>2, <3>3
  <2> QED BY <2>1, <2>2, <2>3
<1>9. ASSUME OnUnknown(t) PROVE FutureUncovered' /\ ExitInv'
  BY <1>8, <1>9 DEF OnUnknown
<1>10. ASSUME UnknownRecheck(t) PROVE FutureUncovered' /\ ExitInv'
  <2>1. nextEvents' # {} BY <1>10 DEF UnknownRecheck, ExitInv
  <2> QED BY <1>8, <1>10, <2>1 DEF UnknownRecheck
<1>11. ASSUME Publish(t) PROVE FutureUncovered' /\ ExitInv'
  <2>1. /\ st[t] = "publish" /\ CasExit(t, INSTANTIATED_BUT_NOT_DONE)
        /\ UNCHANGED <<pc, coveredRf, proc>>
    BY <1>11 DEF Publish
  <2>2. PICK c \in {"exiting", "paused"} : st' = [st EXCEPT ![t] = c] BY <2>1 DEF CasExit
  <2>3. exiting = INSTANTIATED_BUT_NOT_DONE => exiting' = exiting BY <1>0, <2>1 DEF CasExit
  <2>4. c \in Leaving /\ c \in Control BY <2>2 DEF Leaving, Control
  <2>5. FutureUncovered' BY <1>a, <2>1, <2>2, <2>4
  <2>6. ExitInv' BY <1>0, <2>1, <2>2, <2>3, ExitFrame
  <2> QED BY <2>5, <2>6
<1>12. ASSUME VerifyAtexit(t) PROVE FutureUncovered' /\ ExitInv'
  <2>1. /\ exiting' = exiting \/ (exiting = 0 /\ exiting' = NOT_INSTANTIABLE)
        /\ UNCHANGED <<pc, coveredRf, proc>>
    BY <1>12 DEF VerifyAtexit
  <2>2. \E c \in {"dying", "dying0"} : st' = [st EXCEPT ![t] = c] BY <1>12 DEF VerifyAtexit, Goto
  <2>3. PICK c \in {"dying", "dying0"} : st' = [st EXCEPT ![t] = c] BY <2>2
  <2>4. Quiet BY <1>0, <2>1
  <2>5. c \in Leaving /\ c \in Control /\ c \notin {"publish", "unknown"}
    BY <2>3 DEF Leaving, Control
  <2> QED BY <1>a, <1>b, <2>1, <2>3, <2>4, <2>5
<1>13. ASSUME ProcessExit(t) PROVE FutureUncovered' /\ ExitInv'
  <2>1. /\ proc' = exiting \/ proc' = OK
        /\ UNCHANGED <<progVars, coveredRf, exiting>>
    BY <1>13 DEF ProcessExit
  <2>2. FutureUncovered' BY <2>1 DEF FutureUncovered
  <2>3. ExitInv' BY <1>0, <2>1, ExitFrame
  <2> QED BY <2>2, <2>3
<1>14. ASSUME SpuriousWake(t) PROVE FutureUncovered' /\ ExitInv'
  <2>1. UNCHANGED <<pc, st, coveredRf, exiting, proc>> BY <1>14 DEF SpuriousWake
  <2>2. FutureUncovered' BY <2>1 DEF FutureUncovered
  <2>3. ExitInv' BY <1>0, <2>1, ExitFrame
  <2> QED BY <2>2, <2>3
<1> QED BY <1>1, <1>2, <1>3, <1>4, <1>6, <1>7, <1>9, <1>10, <1>11, <1>12, <1>13, <1>14
        DEF ThreadStep, Environment

\* In every behaviour status 20 is claimed only for a graph whose events were
\* all executed with all their rf edges, and never without a next event: the
\* verdict is always taken by a thread blocked on an event beyond the graph.
THEOREM Code20Correct == Spec => []Code20Sound
<1> DEFINE Inv == TypeInv /\ FutureUncovered /\ ExitInv
<1>1. Init => Inv
  BY TypeInit DEF Init, FutureUncovered, ExitInv, INSTANTIATED_BUT_NOT_DONE, Running
<1>2. Inv /\ [Next]_vars => Inv'
  <2>1. ASSUME Inv, UNCHANGED vars PROVE Inv'
    BY <2>1, TypeStutter DEF FutureUncovered, ExitInv, Publishable, Instantiated, Node, vars,
       progVars, rfVars, exitVars, unkVars
  <2>2. ASSUME Inv, NEW t \in Thread, ThreadStep(t) \/ Environment(t) PROVE Inv'
    BY <2>2, TypeStep, ExitStep
  <2> QED BY <2>1, <2>2 DEF Next, Done
<1>3. Inv => Code20Sound BY DEF ExitInv, Publishable, Instantiated, Code20Sound
<1> QED BY <1>1, <1>2, <1>3, PTL DEF Spec

-----------------------------------------------------------------------------
(* The reference run.                                                      *)

\* An instruction the reference run has carried out was fit for its node, had
\* its source, or its joined thread had ended.
Carried(g, s, o) ==
  /\ o.op \in EventOps => o.ev \in DOMAIN g.type /\ g.type[o.ev] \in RefTypes[o.op]
  /\ o.op \in ReadOps =>
       /\ o.ev \in DOMAIN g.rf /\ g.rf[o.ev] \in DOMAIN s.wr
       /\ s.wr[g.rf[o.ev]].loc = o.loc
       /\ o.op = "cas" => CasPossible(o, g.type[o.ev], s.wr[g.rf[o.ev]].val) # {}
  /\ o.op = "join" => RefEnded(s, o.child)

\* The store an instruction performs when it is carried out.
StoreOf(g, s, o) ==
  LET old == s.wr[g.rf[o.ev]].val
      Put(v) == {[ev |-> o.ev, loc |-> o.loc, val |-> v]}
  IN  CASE o.op = "store" -> Put(o.val)
        [] o.op = "rmw" -> Put((old + o.val) % ValMod)
        [] o.op = "cas" -> IF "succeeds" \in CasPossible(o, g.type[o.ev], old)
                           THEN Put(o.val) ELSE {}
        [] OTHER -> {}

\* The states of the reference run.
RefType == [pos : [Thread -> Nat \ {0}],
            wr : UNION {[D -> [loc : Loc, val : Val]] : D \in SUBSET Event}]

\* What holds of them: each thread has carried out a prefix of its program, and
\* the stores are those of the instructions carried out.
RefSound(g, s) ==
  /\ s \in RefType
  /\ \A t \in Thread : s.pos[t] <= Len(Prog[t]) + 1
  /\ \A t \in Thread : s.pos[t] > 1 => RefStarted(s, t)
  /\ \A t \in Thread : \A i \in 1..(s.pos[t] - 1) :
       /\ Carried(g, s, Prog[t][i])
       /\ \A x \in StoreOf(g, s, Prog[t][i]) :
            x.ev \in DOMAIN s.wr /\ s.wr[x.ev] = [loc |-> x.loc, val |-> x.val]
  /\ \A e \in DOMAIN s.wr : \E t \in Thread : \E i \in 1..(s.pos[t] - 1) :
       Prog[t][i].ev = e /\ Prog[t][i].op \in WritingOps
       /\ StoreOf(g, s, Prog[t][i]) # {}

\* One event, one instruction.
LEMMA SameInstr ==
  ASSUME NEW t \in Thread, NEW u \in Thread, NEW i \in DOMAIN Prog[t], NEW j \in DOMAIN Prog[u],
         Prog[t][i].op \in EventOps, Prog[u][j].op \in EventOps, Prog[t][i].ev = Prog[u][j].ev
  PROVE  t = u /\ i = j
<1>1. WellFormedInstr(t, Prog[t][i]) /\ WellFormedInstr(u, Prog[u][j]) BY SchedulerAssumption
<1>2. t = u BY <1>1 DEF WellFormedInstr
<1> QED BY <1>2, SchedulerAssumption

\* An instruction of the program.
LEMMA InstrType ==
  ASSUME NEW t \in Thread, NEW i, i \in DOMAIN Prog[t]
  PROVE  /\ i \in Nat /\ 1 <= i /\ i <= Len(Prog[t])
         /\ Prog[t][i] \in Instr /\ WellFormedInstr(t, Prog[t][i])
         /\ Prog[t][i].op \in EventOps \cup {"create", "join"}
<1>1. Prog[t] \in Seq(Instr) /\ WellFormedInstr(t, Prog[t][i]) BY SchedulerAssumption
<1>2. Prog[t][i] \in Instr /\ i \in 1..Len(Prog[t]) BY <1>1
<1> QED BY <1>1, <1>2 DEF Instr

\* The indices of the instructions before position k.
LEMMA IndexType ==
  ASSUME NEW t \in Thread, NEW k \in Nat, k <= Len(Prog[t]) + 1, NEW i \in 1..(k - 1)
  PROVE  i \in DOMAIN Prog[t] /\ i \in Nat /\ i < k
<1>1. Prog[t] \in Seq(Instr) BY SchedulerAssumption
<1> QED BY <1>1

\* The stores of a state of the reference run have an address and a value.
LEMMA RefWrType ==
  ASSUME NEW s \in RefType
  PROVE  /\ DOMAIN s.wr \subseteq Event
         /\ \A e \in DOMAIN s.wr : s.wr[e].loc \in Loc /\ s.wr[e].val \in Val
         /\ \A e \in DOMAIN s.wr : s.wr[e] = [loc |-> s.wr[e].loc, val |-> s.wr[e].val]
         /\ s.pos \in [Thread -> Nat \ {0}]
<1>1. PICK D \in SUBSET Event : s.wr \in [D -> [loc : Loc, val : Val]] BY DEF RefType
<1>2. \A e \in DOMAIN s.wr : s.wr[e] \in [loc : Loc, val : Val] BY <1>1
<1> QED BY <1>1, <1>2 DEF RefType

\* A thread of the reference run can step when it has been started, has not
\* ended and its instruction can be carried out.
LEMMA CanStep ==
  ASSUME NEW g, NEW s \in RefType, NEW t \in Thread, s.pos[t] <= Len(Prog[t]) + 1
  PROVE  RefCanStep(g, s, t) <=>
           RefStarted(s, t) /\ ~RefEnded(s, t) /\ Carried(g, s, RefOp(s, t))
<1> DEFINE o == RefOp(s, t)
<1> SUFFICES ASSUME RefStarted(s, t), ~RefEnded(s, t)
             PROVE  RefCanStep(g, s, t) <=> Carried(g, s, o)
  BY DEF RefCanStep
<1>1. s.pos[t] \in DOMAIN Prog[t]
  <2>1. Prog[t] \in Seq(Instr) /\ s.pos[t] \in Nat \ {0} BY SchedulerAssumption, RefWrType
  <2> QED BY <2>1 DEF RefEnded
<1>2. o \in Instr /\ o.op \in EventOps \cup {"create", "join"} BY <1>1, InstrType DEF RefOp
<1>3. RefCanStep(g, s, t) <=>
        \/ o.op = "create" \/ (o.op = "join" /\ RefEnded(s, o.child))
        \/ /\ AtNode(g, s, t) /\ RefFault(g, s, t) = 0
           /\ o.op \in ReadOps => g.rf[o.ev] \in DOMAIN s.wr
  BY DEF RefCanStep
<1>4. AtNode(g, s, t) <=> o.op \in EventOps /\ o.ev \in DOMAIN g.type BY DEF AtNode
<1>5. AtNode(g, s, t) => RefFault(g, s, t) =
        IF g.type[o.ev] \notin RefTypes[o.op] THEN INVALID_INPUT
        ELSE IF o.op \notin ReadOps THEN 0
        ELSE IF o.ev \notin DOMAIN g.rf THEN INVALID_INPUT
        ELSE IF g.rf[o.ev] \notin DOMAIN s.wr THEN 0
        ELSE IF s.wr[g.rf[o.ev]].loc # o.loc THEN NOT_INSTANTIABLE
        ELSE IF o.op = "cas" /\ CasPossible(o, g.type[o.ev], s.wr[g.rf[o.ev]].val) = {}
             THEN NOT_INSTANTIABLE ELSE 0
  BY DEF RefFault
<1> HIDE DEF o
<1>6. CASE o.op \in {"create", "join"}
  BY <1>3, <1>4, <1>6 DEF Carried, EventOps, ReadOps
<1>7. CASE o.op \in EventOps
  BY <1>3, <1>4, <1>5, <1>7 DEF Carried, EventOps, ReadOps, INVALID_INPUT, NOT_INSTANTIABLE
<1> QED BY <1>2, <1>6, <1>7

\* The store of an instruction: at most one, of its event, to its address.
LEMMA StoreOfType ==
  ASSUME NEW g, NEW s \in RefType, NEW t \in Thread, NEW i \in DOMAIN Prog[t],
         Carried(g, s, Prog[t][i]), NEW x \in StoreOf(g, s, Prog[t][i])
  PROVE  /\ x.ev = Prog[t][i].ev /\ x.loc = Prog[t][i].loc
         /\ x.ev \in Event /\ x.loc \in Loc /\ x.val \in Val
         /\ Prog[t][i].op \in WritingOps
         /\ \A y \in StoreOf(g, s, Prog[t][i]) : y = x
<1> DEFINE o == Prog[t][i]
           old == s.wr[g.rf[o.ev]].val
<1>1. o \in Instr /\ WellFormedInstr(t, o) BY InstrType
<1>2. o.op \in ReadOps => old \in Val BY RefWrType DEF Carried
<1>3. o.val \in Val BY <1>1 DEF Instr
<1> HIDE DEF old
<1>4. o.op = "rmw" => (old + o.val) % ValMod \in Val
  <2> HIDE DEF o
  <2>1. old \in Val /\ o.val \in Val => (old + o.val) % ValMod \in Val
    BY SchedulerAssumption DEF Val
  <2> QED BY <1>2, <1>3, <2>1 DEF ReadOps
<1>5. StoreOf(g, s, o) = CASE o.op = "store" -> {[ev |-> o.ev, loc |-> o.loc, val |-> o.val]}
        [] o.op = "rmw" -> {[ev |-> o.ev, loc |-> o.loc, val |-> (old + o.val) % ValMod]}
        [] o.op = "cas" -> (IF "succeeds" \in CasPossible(o, g.type[o.ev], old)
                            THEN {[ev |-> o.ev, loc |-> o.loc, val |-> o.val]} ELSE {})
        [] OTHER -> {}
  BY DEF StoreOf, old
<1>6. o.op \in WritingOps /\ \E v \in Val : StoreOf(g, s, o) = {[ev |-> o.ev, loc |-> o.loc, val |-> v]}
  <2>1. CASE o.op = "store" BY <1>3, <1>5, <2>1 DEF WritingOps
  <2>2. CASE o.op = "rmw" BY <1>4, <1>5, <2>2 DEF WritingOps
  <2>3. CASE o.op = "cas" BY <1>3, <1>5, <2>3 DEF WritingOps
  <2>4. CASE o.op \notin WritingOps BY <1>5, <2>4 DEF WritingOps
  <2> QED BY <2>1, <2>2, <2>3, <2>4 DEF WritingOps
<1>7. o.ev \in Event /\ o.loc \in Loc BY <1>1, <1>6 DEF WellFormedInstr, WritingOps, EventOps
<1> HIDE DEF o
<1>8. PICK v \in Val : StoreOf(g, s, o) = {[ev |-> o.ev, loc |-> o.loc, val |-> v]} BY <1>6
<1>9. x = [ev |-> o.ev, loc |-> o.loc, val |-> v] BY <1>8 DEF o
<1> QED BY <1>6, <1>7, <1>8, <1>9 DEF o
-----------------------------------------------------------------------------
\* The threads that step, and the stores they perform.
Steppers(g, s) == {t \in Thread : RefCanStep(g, s, t)}
Named(W) == {w.ev : w \in W}
StepWrites(g, s) == UNION {RefStore(g, s, t) : t \in Steppers(g, s)}
WriteNamed(W, e) == CHOOSE x \in W : x.ev = e

StepIs(s, r, T, W) ==
  /\ \A t \in Thread : r.pos[t] = s.pos[t] + IF t \in T THEN 1 ELSE 0
  /\ r.pos \in [Thread -> Nat \ {0}]
  /\ DOMAIN r.wr = DOMAIN s.wr \cup Named(W)
  /\ \A e \in DOMAIN r.wr : e \in DOMAIN s.wr => r.wr[e] = s.wr[e]
  /\ \A e \in DOMAIN r.wr : e \notin DOMAIN s.wr =>
       r.wr[e] = [loc |-> WriteNamed(W, e).loc, val |-> WriteNamed(W, e).val]
  /\ r.wr = [e \in DOMAIN r.wr |-> r.wr[e]]
  /\ r = [pos |-> r.pos, wr |-> r.wr]

\* A round moves the threads that can step and adds what they store.
LEMMA StepShape ==
  ASSUME NEW g, NEW s \in RefType
  PROVE  StepIs(s, RefStep(g, s), Steppers(g, s), StepWrites(g, s))
<1> DEFINE T == Steppers(g, s)
           W == StepWrites(g, s)
           r == RefStep(g, s)
<1> DEFINE P == [t \in Thread |-> s.pos[t] + IF t \in T THEN 1 ELSE 0]
           Q == [e \in DOMAIN s.wr \cup Named(W) |->
                   IF e \in DOMAIN s.wr THEN s.wr[e]
                   ELSE [loc |-> WriteNamed(W, e).loc, val |-> WriteNamed(W, e).val]]
<1>1. r = [pos |-> P, wr |-> Q]
  BY DEF RefStep, Steppers, StepWrites, WriteNamed, Named
<1> HIDE DEF r, T, W
<1>2. r.pos = P /\ r.wr = Q BY <1>1
<1>3. P \in [Thread -> Nat \ {0}] BY RefWrType
<1>4. StepIs(s, r, T, W) BY <1>1, <1>2, <1>3 DEF StepIs
<1> QED BY <1>4 DEF r, T, W

\* A thread that steps carries out the instruction it stands at.
LEMMA StepperAt ==
  ASSUME NEW g, NEW s, RefSound(g, s), NEW t \in Steppers(g, s)
  PROVE  /\ t \in Thread /\ s.pos[t] \in DOMAIN Prog[t] /\ s.pos[t] \in Nat \ {0}
         /\ RefOp(s, t) = Prog[t][s.pos[t]]
         /\ Carried(g, s, Prog[t][s.pos[t]])
         /\ RefStarted(s, t) /\ s.pos[t] <= Len(Prog[t])
         /\ RefStore(g, s, t) = StoreOf(g, s, Prog[t][s.pos[t]])
<1>1. t \in Thread /\ RefCanStep(g, s, t) BY DEF Steppers
<1>2. s \in RefType /\ s.pos[t] <= Len(Prog[t]) + 1 BY <1>1 DEF RefSound
<1>3. s.pos[t] \in Nat \ {0} /\ Prog[t] \in Seq(Instr) BY <1>1, <1>2, RefWrType, SchedulerAssumption
<1>4. RefStarted(s, t) /\ ~RefEnded(s, t) /\ Carried(g, s, RefOp(s, t)) BY <1>1, <1>2, CanStep
<1>5. RefStore(g, s, t) = StoreOf(g, s, RefOp(s, t)) BY DEF RefStore, StoreOf
<1>6. RefOp(s, t) = Prog[t][s.pos[t]] BY DEF RefOp
<1> HIDE DEF RefOp
<1> QED BY <1>1, <1>3, <1>4, <1>5, <1>6 DEF RefEnded

\* The stores of one step: new events, each with one value.
LEMMA StepStore ==
  ASSUME NEW g, NEW s, RefSound(g, s), NEW t \in Steppers(g, s), NEW x \in RefStore(g, s, t)
  PROVE  /\ x.ev \in Event /\ x.loc \in Loc /\ x.val \in Val
         /\ x.ev = Prog[t][s.pos[t]].ev /\ Prog[t][s.pos[t]].op \in WritingOps
         /\ x.ev \notin DOMAIN s.wr
         /\ \A y \in StepWrites(g, s) : y.ev = x.ev => y = x
<1> DEFINE o == Prog[t][s.pos[t]]
<1>0. s \in RefType BY DEF RefSound
<1>1. /\ t \in Thread /\ s.pos[t] \in DOMAIN Prog[t] /\ s.pos[t] \in Nat \ {0}
      /\ Carried(g, s, o) /\ RefStore(g, s, t) = StoreOf(g, s, o)
      /\ s.pos[t] <= Len(Prog[t])
  BY StepperAt
<1>2. /\ x.ev = o.ev /\ x.ev \in Event /\ x.loc \in Loc /\ x.val \in Val
      /\ o.op \in WritingOps /\ \A y \in StoreOf(g, s, o) : y = x
  <2> DEFINE k == s.pos[t]
  <2> HIDE DEF k
  <2>1. /\ x \in StoreOf(g, s, Prog[t][k]) /\ k \in DOMAIN Prog[t] /\ t \in Thread
        /\ Carried(g, s, Prog[t][k])
    BY <1>1 DEF k
  <2>2. /\ x.ev = Prog[t][k].ev /\ x.ev \in Event /\ x.loc \in Loc /\ x.val \in Val
        /\ Prog[t][k].op \in WritingOps /\ \A y \in StoreOf(g, s, Prog[t][k]) : y = x
    BY <1>0, <2>1, StoreOfType
  <2> QED BY <2>2 DEF k
<1>3. ASSUME x.ev \in DOMAIN s.wr PROVE FALSE
  <2>0. PICK u \in Thread : \E i \in 1..(s.pos[u] - 1) :
          Prog[u][i].ev = x.ev /\ Prog[u][i].op \in WritingOps
    BY <1>3 DEF RefSound
  <2>1. PICK i \in 1..(s.pos[u] - 1) : Prog[u][i].ev = x.ev /\ Prog[u][i].op \in WritingOps
    BY <2>0
  <2>2. s.pos[u] \in Nat /\ s.pos[u] <= Len(Prog[u]) + 1 BY <1>0, RefWrType DEF RefSound
  <2>3. i \in DOMAIN Prog[u] /\ i < s.pos[u] BY <2>2, IndexType
  <2>4. t = u /\ i = s.pos[t] BY <1>1, <1>2, <2>1, <2>3, SameInstr DEF WritingOps, EventOps
  <2> QED BY <1>1, <2>3, <2>4
<1>4. ASSUME NEW y \in StepWrites(g, s), y.ev = x.ev PROVE y = x
  <2>1. PICK u \in Steppers(g, s) : y \in RefStore(g, s, u) BY DEF StepWrites
  <2>2. /\ u \in Thread /\ s.pos[u] \in DOMAIN Prog[u]
        /\ Carried(g, s, Prog[u][s.pos[u]])
        /\ RefStore(g, s, u) = StoreOf(g, s, Prog[u][s.pos[u]])
    BY <2>1, StepperAt
  <2> DEFINE k == s.pos[u]
             j == s.pos[t]
  <2>a. k = s.pos[u] /\ j = s.pos[t] OBVIOUS
  <2> HIDE DEF k, j
  <2>c. y \in StoreOf(g, s, Prog[u][k]) /\ Carried(g, s, Prog[u][k]) /\ k \in DOMAIN Prog[u]
    BY <2>a, <2>1, <2>2
  <2>3. y.ev = Prog[u][k].ev /\ Prog[u][k].op \in WritingOps
    BY <1>0, <2>c, <2>2, StoreOfType
  <2>b. j \in DOMAIN Prog[t] /\ Prog[t][j].op \in WritingOps /\ x.ev = Prog[t][j].ev
        /\ k \in DOMAIN Prog[u]
    BY <1>1, <1>2, <2>a, <2>2
  <2>4. t = u BY <1>1, <1>4, <2>b, <2>2, <2>3, SameInstr DEF WritingOps, EventOps
  <2> QED BY <1>1, <1>2, <2>1, <2>4
<1> QED BY <1>1, <1>2, <1>3, <1>4

\* Nothing the reference run has done is undone.
Extends(s, r) ==
  /\ \A t \in Thread : s.pos[t] <= r.pos[t]
  /\ \A e \in DOMAIN s.wr : e \in DOMAIN r.wr /\ r.wr[e] = s.wr[e]

\* A round undoes nothing.
LEMMA StepExtends ==
  ASSUME NEW g, NEW s \in RefType, NEW r, r = RefStep(g, s)
  PROVE  Extends(s, r)
<1> DEFINE T == Steppers(g, s)
           W == StepWrites(g, s)
<1>1. StepIs(s, r, T, W) BY StepShape
<1> HIDE DEF T, W
<1>2. \A t \in Thread : s.pos[t] \in Nat BY RefWrType
<1>3. \A t \in Thread : s.pos[t] <= r.pos[t] BY <1>1, <1>2 DEF StepIs
<1>4. DOMAIN r.wr = DOMAIN s.wr \cup Named(W) BY <1>1 DEF StepIs
<1>5. \A e \in DOMAIN s.wr : e \in DOMAIN r.wr /\ r.wr[e] = s.wr[e]
  BY <1>1, <1>4 DEF StepIs
<1> QED BY <1>3, <1>5 DEF Extends

\* The stores of a round are new, one for an event.
LEMMA StepNamed ==
  ASSUME NEW g, NEW s, RefSound(g, s), NEW W, W = StepWrites(g, s), NEW w \in W
  PROVE  /\ w.ev \in Event /\ w.loc \in Loc /\ w.val \in Val
         /\ WriteNamed(W, w.ev) = w /\ w.ev \notin DOMAIN s.wr
<1>1. PICK t \in Steppers(g, s) : w \in RefStore(g, s, t) BY DEF StepWrites
<1>2. /\ w.ev \in Event /\ w.loc \in Loc /\ w.val \in Val /\ w.ev \notin DOMAIN s.wr
      /\ \A y \in W : y.ev = w.ev => y = w
  BY <1>1, StepStore
<1> QED BY <1>2 DEF WriteNamed

\* A round leads to a state of the reference run.
LEMMA StepType ==
  ASSUME NEW g, NEW s, RefSound(g, s), NEW r, r = RefStep(g, s)
  PROVE  r \in RefType
<1> DEFINE T == Steppers(g, s)
           W == StepWrites(g, s)
<1>0. s \in RefType /\ T = Steppers(g, s) /\ W = StepWrites(g, s) BY DEF RefSound
<1>a. StepIs(s, r, T, W) BY <1>0, StepShape
<1> HIDE DEF T, W
<1>1. \A w \in W : w.ev \in Event /\ w.loc \in Loc /\ w.val \in Val /\ WriteNamed(W, w.ev) = w
  BY <1>0, StepNamed
<1>2. DOMAIN r.wr = DOMAIN s.wr \cup Named(W) BY <1>a DEF StepIs
<1>3. DOMAIN r.wr \subseteq Event
  BY <1>0, <1>1, <1>2, RefWrType DEF Named
<1>4. \A e \in DOMAIN r.wr : r.wr[e] \in [loc : Loc, val : Val]
  <2> SUFFICES ASSUME NEW e \in DOMAIN r.wr PROVE r.wr[e] \in [loc : Loc, val : Val] OBVIOUS
  <2>1. CASE e \in DOMAIN s.wr
    <3>1. r.wr[e] = s.wr[e] BY <1>a, <2>1 DEF StepIs
    <3>2. s.wr[e] = [loc |-> s.wr[e].loc, val |-> s.wr[e].val] /\ s.wr[e].loc \in Loc /\ s.wr[e].val \in Val
      BY <1>0, <2>1, RefWrType
    <3> QED BY <3>1, <3>2
  <2>2. CASE e \notin DOMAIN s.wr
    <3>1. PICK w \in W : w.ev = e BY <1>2, <2>2 DEF Named
    <3>2. r.wr[e] = [loc |-> WriteNamed(W, e).loc, val |-> WriteNamed(W, e).val]
      BY <1>a, <2>2 DEF StepIs
    <3> QED BY <1>1, <3>1, <3>2
  <2> QED BY <2>1, <2>2
<1>5. /\ r.pos \in [Thread -> Nat \ {0}] /\ r = [pos |-> r.pos, wr |-> r.wr]
      /\ r.wr = [e \in DOMAIN r.wr |-> r.wr[e]]
  BY <1>a DEF StepIs
<1>6. r.wr \in [DOMAIN r.wr -> [loc : Loc, val : Val]] BY <1>4, <1>5
<1> QED BY <1>3, <1>5, <1>6 DEF RefType

\* What a later state says of an instruction carried out.
LEMMA CarriedStays ==
  ASSUME NEW g, NEW s \in RefType, NEW r \in RefType, Extends(s, r),
         NEW t \in Thread, NEW i \in DOMAIN Prog[t], Carried(g, s, Prog[t][i])
  PROVE  Carried(g, r, Prog[t][i]) /\ StoreOf(g, r, Prog[t][i]) = StoreOf(g, s, Prog[t][i])
<1> DEFINE o == Prog[t][i]
<1>1. o.op \in ReadOps => g.rf[o.ev] \in DOMAIN r.wr /\ r.wr[g.rf[o.ev]] = s.wr[g.rf[o.ev]]
  BY DEF Carried, Extends
<1>2. ASSUME o.op = "join" PROVE RefEnded(r, o.child)
  <2>1. o.child \in Thread BY <1>2, InstrType DEF WellFormedInstr
  <2>2. s.pos[o.child] \in Nat /\ r.pos[o.child] \in Nat BY <2>1, RefWrType
  <2>3. Prog[o.child] \in Seq(Instr) BY <2>1, SchedulerAssumption
  <2>4. s.pos[o.child] <= r.pos[o.child] BY <2>1 DEF Extends
  <2>5. s.pos[o.child] > Len(Prog[o.child]) BY <1>2 DEF Carried, RefEnded
  <2> HIDE DEF o
  <2> QED BY <2>2, <2>3, <2>4, <2>5 DEF RefEnded
<1> HIDE DEF o
<1>3. Carried(g, s, o) BY DEF o
<1>4. Carried(g, r, o) BY <1>1, <1>2, <1>3 DEF Carried
<1>5. StoreOf(g, r, o) = StoreOf(g, s, o)
  <2>1. CASE o.op \in ReadOps BY <1>1, <2>1 DEF StoreOf
  <2>2. CASE o.op \notin ReadOps BY <2>2 DEF StoreOf, ReadOps
  <2> QED BY <2>1, <2>2
<1> QED BY <1>4, <1>5 DEF o

\* A started thread stays started.
LEMMA StartedStays ==
  ASSUME NEW s \in RefType, NEW r \in RefType, Extends(s, r), NEW t \in Thread, RefStarted(s, t)
  PROVE  RefStarted(r, t)
<1>1. CASE t = Main BY <1>1 DEF RefStarted
<1>2. CASE t # Main
  <2>1. PICK u \in Thread : \E i \in 1..(s.pos[u] - 1) :
                 Prog[u][i].op = "create" /\ Prog[u][i].child = t
    BY <1>2 DEF RefStarted
  <2>2. s.pos[u] \in Nat /\ r.pos[u] \in Nat /\ s.pos[u] <= r.pos[u] BY RefWrType DEF Extends
  <2>3. \E i \in 1..(r.pos[u] - 1) : Prog[u][i].op = "create" /\ Prog[u][i].child = t
    BY <2>1, <2>2
  <2> QED BY <2>3 DEF RefStarted
<1> QED BY <1>1, <1>2

\* The prefix a thread has carried out, as a property of one instruction.
Prefix(s, t) == 1..(s.pos[t] - 1)
CarriedAt(g, s, t, i) ==
  /\ Carried(g, s, Prog[t][i])
  /\ \A x \in StoreOf(g, s, Prog[t][i]) :
       x.ev \in DOMAIN s.wr /\ s.wr[x.ev] = [loc |-> x.loc, val |-> x.val]
StoresAt(g, s, t, i, e) ==
  Prog[t][i].ev = e /\ Prog[t][i].op \in WritingOps /\ StoreOf(g, s, Prog[t][i]) # {}

\* Soundness in terms of the instructions before the positions.
LEMMA SoundIs ==
  ASSUME NEW g, NEW s
  PROVE  RefSound(g, s) <=>
           /\ s \in RefType
           /\ \A t \in Thread : s.pos[t] <= Len(Prog[t]) + 1
           /\ \A t \in Thread : s.pos[t] > 1 => RefStarted(s, t)
           /\ \A t \in Thread : \A i \in Prefix(s, t) : CarriedAt(g, s, t, i)
           /\ \A e \in DOMAIN s.wr : \E t \in Thread : \E i \in Prefix(s, t) : StoresAt(g, s, t, i, e)
  BY DEF RefSound, Prefix, CarriedAt, StoresAt

\* The instructions carried out are instructions of the program.
LEMMA PrefixType ==
  ASSUME NEW g, NEW s, RefSound(g, s), NEW t \in Thread
  PROVE  \A i \in Prefix(s, t) : i \in DOMAIN Prog[t] /\ i \in Nat \ {0} /\ i < s.pos[t]
<1>1. s.pos[t] \in Nat /\ s.pos[t] <= Len(Prog[t]) + 1 BY RefWrType DEF RefSound
<1> QED BY <1>1, IndexType DEF Prefix

\* A round preserves soundness.
LEMMA SoundStep ==
  ASSUME NEW g, NEW s, RefSound(g, s)
  PROVE  RefSound(g, RefStep(g, s))
<1> DEFINE r == RefStep(g, s)
           T == Steppers(g, s)
           W == StepWrites(g, s)
<1>0. /\ s \in RefType /\ r \in RefType /\ Extends(s, r) /\ StepIs(s, r, T, W)
      /\ T = Steppers(g, s) /\ W = StepWrites(g, s) /\ r = RefStep(g, s)
  BY StepType, StepExtends, StepShape DEF RefSound
<1> HIDE DEF r, T, W
<1>1. \A t \in Thread : s.pos[t] \in Nat \ {0} /\ r.pos[t] \in Nat \ {0} BY <1>0, RefWrType
<1>2. \A t \in T : /\ t \in Thread /\ s.pos[t] \in DOMAIN Prog[t] /\ RefStarted(s, t)
                   /\ s.pos[t] <= Len(Prog[t]) /\ Carried(g, s, Prog[t][s.pos[t]])
                   /\ RefStore(g, s, t) = StoreOf(g, s, Prog[t][s.pos[t]])
  BY <1>0, StepperAt
<1>3. \A t \in Thread : r.pos[t] = s.pos[t] + IF t \in T THEN 1 ELSE 0 BY <1>0 DEF StepIs
<1>4. \A t \in Thread : Len(Prog[t]) \in Nat BY SchedulerAssumption
<1>5. \A t \in Thread : r.pos[t] <= Len(Prog[t]) + 1
  <2> SUFFICES ASSUME NEW t \in Thread PROVE r.pos[t] <= Len(Prog[t]) + 1 OBVIOUS
  <2>1. s.pos[t] <= Len(Prog[t]) + 1 BY DEF RefSound
  <2>2. t \in T => s.pos[t] <= Len(Prog[t]) BY <1>2
  <2> QED BY <1>1, <1>3, <1>4, <2>1, <2>2
<1>6. \A t \in Thread : r.pos[t] > 1 => RefStarted(r, t)
  <2> SUFFICES ASSUME NEW t \in Thread, r.pos[t] > 1 PROVE RefStarted(r, t) OBVIOUS
  <2>1. RefStarted(s, t)
    <3>1. CASE t \in T BY <1>2, <3>1
    <3>2. CASE t \notin T BY <1>1, <1>3, <3>2 DEF RefSound
    <3> QED BY <3>1, <3>2
  <2> QED BY <1>0, <2>1, StartedStays
<1>7. ASSUME NEW t \in Thread, NEW i \in Prefix(r, t)
      PROVE  /\ i \in DOMAIN Prog[t] /\ Carried(g, s, Prog[t][i])
             /\ \/ i \in Prefix(s, t)
                \/ t \in T /\ i = s.pos[t] /\ StoreOf(g, s, Prog[t][i]) = RefStore(g, s, t)
  <2>1. CASE i \in Prefix(s, t)
    BY <2>1, PrefixType, SoundIs DEF CarriedAt
  <2>2. CASE i \notin Prefix(s, t)
    <3>1. t \in T /\ i = s.pos[t] BY <1>1, <1>3, <2>2 DEF Prefix
    <3> QED BY <1>2, <3>1
  <2> QED BY <2>1, <2>2
<1>8. ASSUME NEW t \in Thread, NEW i \in Prefix(r, t) PROVE CarriedAt(g, r, t, i)
  <2>1. i \in DOMAIN Prog[t] /\ Carried(g, s, Prog[t][i]) BY <1>7
  <2>2. Carried(g, r, Prog[t][i]) /\ StoreOf(g, r, Prog[t][i]) = StoreOf(g, s, Prog[t][i])
    BY <1>0, <2>1, CarriedStays
  <2>3. ASSUME NEW x \in StoreOf(g, s, Prog[t][i])
        PROVE  x.ev \in DOMAIN r.wr /\ r.wr[x.ev] = [loc |-> x.loc, val |-> x.val]
    <3>1. CASE i \in Prefix(s, t)
      <4>1. x.ev \in DOMAIN s.wr /\ s.wr[x.ev] = [loc |-> x.loc, val |-> x.val]
        BY <2>3, <3>1, SoundIs DEF CarriedAt
      <4> QED BY <1>0, <4>1 DEF Extends
    <3>2. CASE t \in T /\ StoreOf(g, s, Prog[t][i]) = RefStore(g, s, t)
      <4>1. x \in W BY <1>0, <2>3, <3>2 DEF StepWrites
      <4>2. WriteNamed(W, x.ev) = x /\ x.ev \notin DOMAIN s.wr BY <1>0, <4>1, StepNamed
      <4>3. x.ev \in DOMAIN r.wr BY <1>0, <4>1 DEF StepIs, Named
      <4> QED BY <1>0, <4>2, <4>3 DEF StepIs
    <3> QED BY <1>7, <3>1, <3>2
  <2> QED BY <2>2, <2>3 DEF CarriedAt
<1>9. ASSUME NEW e \in DOMAIN r.wr
      PROVE  \E t \in Thread : \E i \in Prefix(r, t) : StoresAt(g, r, t, i, e)
  <2>1. ASSUME NEW t \in Thread, NEW i \in Prefix(r, t), StoresAt(g, s, t, i, e)
        PROVE  StoresAt(g, r, t, i, e)
    <3>1. i \in DOMAIN Prog[t] /\ Carried(g, s, Prog[t][i]) BY <1>7
    <3>2. StoreOf(g, r, Prog[t][i]) = StoreOf(g, s, Prog[t][i]) BY <1>0, <3>1, CarriedStays
    <3> QED BY <2>1, <3>2 DEF StoresAt
  <2>2. CASE e \in DOMAIN s.wr
    <3>1. PICK t \in Thread : \E i \in Prefix(s, t) : StoresAt(g, s, t, i, e) BY <2>2, SoundIs
    <3>2. PICK i \in Prefix(s, t) : StoresAt(g, s, t, i, e) BY <3>1
    <3>3. i \in Prefix(r, t) BY <1>1, <1>3 DEF Prefix
    <3> QED BY <2>1, <3>2, <3>3
  <2>3. CASE e \notin DOMAIN s.wr
    <3>1. PICK w \in W : w.ev = e BY <1>0, <2>3 DEF StepIs, Named
    <3>2. PICK t \in T : w \in RefStore(g, s, t) BY <1>0, <3>1 DEF StepWrites
    <3> DEFINE k == s.pos[t]
    <3>3. t \in Thread /\ k \in Prefix(r, t) BY <1>1, <1>2, <1>3 DEF Prefix
    <3>4. w.ev = Prog[t][k].ev /\ Prog[t][k].op \in WritingOps BY <1>0, <3>2, StepStore
    <3>5. StoresAt(g, s, t, k, e) BY <1>2, <3>1, <3>2, <3>4 DEF StoresAt
    <3> HIDE DEF k
    <3> QED BY <2>1, <3>3, <3>5
  <2> QED BY <2>2, <2>3
<1>10. RefSound(g, r) BY <1>0, <1>5, <1>6, <1>8, <1>9, SoundIs
<1> QED BY <1>10 DEF r

\* The start of the reference run is sound.
LEMMA SoundInit == \A g : RefSound(g, RefInit)
<1> SUFFICES ASSUME NEW g PROVE RefSound(g, RefInit) OBVIOUS
<1>1. /\ RefInit.pos = [t \in Thread |-> 1] /\ RefInit.wr = <<>> /\ DOMAIN RefInit.wr = {}
      /\ RefInit = [pos |-> RefInit.pos, wr |-> RefInit.wr]
  BY DEF RefInit
<1>2. RefInit.wr \in [{} -> [loc : Loc, val : Val]] BY <1>1
<1>3. RefInit \in RefType
  <2>1. RefInit.wr \in UNION {[D -> [loc : Loc, val : Val]] : D \in SUBSET Event} BY <1>2
  <2>2. RefInit.pos \in [Thread -> Nat \ {0}] BY <1>1
  <2> DEFINE p == RefInit.pos
             w == RefInit.wr
  <2>3. RefInit = [pos |-> p, wr |-> w] BY <1>1
  <2> HIDE DEF p, w
  <2>4. p \in [Thread -> Nat \ {0}] /\ w \in UNION {[D -> [loc : Loc, val : Val]] : D \in SUBSET Event}
    BY <2>1, <2>2 DEF p, w
  <2> QED BY <2>3, <2>4 DEF RefType
<1>4. \A t \in Thread : Len(Prog[t]) \in Nat BY SchedulerAssumption
<1>5. \A t \in Thread : RefInit.pos[t] = 1 /\ Prefix(RefInit, t) = {} BY <1>1 DEF Prefix
<1> QED BY <1>1, <1>3, <1>4, <1>5, SoundIs

-----------------------------------------------------------------------------
(* The reference run ends: after as many rounds as the program has         *)
(* instructions no thread can step.                                        *)

\* The image of a finite set is finite.
LEMMA ImageFinite ==
  ASSUME NEW S, IsFiniteSet(S), NEW f
  PROVE  IsFiniteSet({f[x] : x \in S})
<1> DEFINE T == {f[x] : x \in S}
           m == [x \in S |-> f[x]]
<1>1. m \in [S -> T] /\ \A y \in T : \E x \in S : m[x] = y OBVIOUS
<1> HIDE DEF m, T
<1>2. m \in Surjection(S, T) BY <1>1 DEF Surjection
<1>3. IsFiniteSet(T) BY <1>2, FS_Surjection
<1> QED BY <1>3 DEF T

Instrs == UNION {{<<t, i>> : i \in DOMAIN Prog[t]} : t \in Thread}

\* The program has finitely many instructions, and Rounds counts them.
LEMMA InstrsFinite == IsFiniteSet(Instrs) /\ Rounds = Cardinality(Instrs) /\ Rounds \in Nat
<1> DEFINE Of(t) == {<<t, i>> : i \in DOMAIN Prog[t]}
<1>1. ASSUME NEW t \in Thread PROVE IsFiniteSet(Of(t))
  <2>1. DOMAIN Prog[t] = 1..Len(Prog[t]) /\ Len(Prog[t]) \in Nat BY SchedulerAssumption
  <2>2. IsFiniteSet(DOMAIN Prog[t]) BY <2>1, FS_Interval
  <2> DEFINE f == [i \in DOMAIN Prog[t] |-> <<t, i>>]
  <2>3. Of(t) = {f[i] : i \in DOMAIN Prog[t]} OBVIOUS
  <2> HIDE DEF f, Of
  <2> QED BY <2>2, <2>3, ImageFinite
<1>2. IsFiniteSet({Of(t) : t \in Thread})
  <2> DEFINE f == [t \in Thread |-> Of(t)]
  <2>1. {Of(t) : t \in Thread} = {f[t] : t \in Thread}
    <3> HIDE DEF Of
    <3> QED OBVIOUS
  <2>2. IsFiniteSet(Thread) BY SchedulerAssumption
  <2> HIDE DEF f, Of
  <2> QED BY <2>1, <2>2, ImageFinite
<1>3. \A S \in {Of(t) : t \in Thread} : IsFiniteSet(S) BY <1>1
<1> HIDE DEF Of
<1>4. IsFiniteSet(UNION {Of(t) : t \in Thread}) BY <1>2, <1>3, FS_UNION
<1>5. Instrs = UNION {Of(t) : t \in Thread} BY DEF Instrs, Of
<1>6. Rounds = Cardinality(Instrs) BY DEF Rounds, Instrs
<1> QED BY <1>4, <1>5, <1>6, FS_CardinalityType

RoundIs(g, run) == run[0] = RefInit /\ \A n \in 1..Rounds : run[n] = RefStep(g, run[n - 1])

\* The rounds of the reference run.
LEMMA RunExists ==
  ASSUME NEW g
  PROVE  \E run : /\ RoundIs(g, run) /\ RefRun(g) = run[Rounds]
                  /\ \A n \in 0..Rounds : RefSound(g, run[n])
<1> DEFINE X == {s \in RefType : RefSound(g, s)}
           F == [p \in (1..Rounds) \X X |-> RefStep(g, p[2])]
           Rec(run) == run = [n \in 0..Rounds |-> IF n = 0 THEN RefInit ELSE RefStep(g, run[n - 1])]
<1>1. \A s \in X : RefStep(g, s) \in X
  <2> SUFFICES ASSUME NEW s \in X PROVE RefStep(g, s) \in X OBVIOUS
  <2>1. RefSound(g, RefStep(g, s)) BY SoundStep
  <2> DEFINE r == RefStep(g, s)
  <2> HIDE DEF r
  <2>2. RefSound(g, r) /\ r \in RefType BY <2>1 DEF r, RefSound
  <2> QED BY <2>2 DEF r
<1>2. RefInit \in X BY SoundInit DEF RefSound
<1>3. Rounds \in Nat BY InstrsFinite
<1> HIDE DEF X
<1>4. F \in [(1..Rounds) \X X -> X] BY <1>1
<1> HIDE DEF F
<1>5. PICK f \in [0..Rounds -> X] : Iterates(f, Rounds, RefInit, F) BY <1>2, <1>3, <1>4, Iteration
<1>6. \A n \in 1..Rounds : f[n] = RefStep(g, f[n - 1])
  <2> SUFFICES ASSUME NEW n \in 1..Rounds PROVE f[n] = RefStep(g, f[n - 1]) OBVIOUS
  <2>1. n - 1 \in 0..Rounds /\ f[n - 1] \in X BY <1>3
  <2>2. f[n] = F[<<n, f[n - 1]>>] BY <1>5 DEF Iterates
  <2> QED BY <2>1, <2>2 DEF F
<1>7. f[0] = RefInit BY <1>5 DEF Iterates
<1>8. Rec(f)
  <2>1. \A n \in 0..Rounds : f[n] = IF n = 0 THEN RefInit ELSE RefStep(g, f[n - 1])
    BY <1>3, <1>6, <1>7
  <2> QED BY <2>1
<1> DEFINE h == CHOOSE run : Rec(run)
<1>9. Rec(h)
  <2> HIDE DEF Rec
  <2> QED BY <1>8
<1>10. RefRun(g) = h[Rounds] BY DEF RefRun
<1> HIDE DEF h
<1>11. \A n \in 0..Rounds : h[n] = IF n = 0 THEN RefInit ELSE RefStep(g, h[n - 1]) BY <1>9
<1>12. RoundIs(g, h) BY <1>3, <1>11 DEF RoundIs
<1>13. \A n \in 0..Rounds : RefSound(g, h[n])
  <2> DEFINE S == {n \in Nat : n <= Rounds => RefSound(g, h[n])}
  <2>1. 0 \in S BY <1>12, SoundInit DEF RoundIs
  <2>2. ASSUME NEW n \in Nat, n \in S PROVE n + 1 \in S
    <3>1. CASE n + 1 <= Rounds
      <4>1. n <= Rounds /\ n + 1 \in 1..Rounds /\ (n + 1) - 1 = n BY <1>3, <3>1
      <4>2. RefSound(g, h[n]) /\ h[n + 1] = RefStep(g, h[n]) BY <1>12, <2>2, <4>1 DEF RoundIs
      <4> QED BY <4>2, SoundStep
    <3>2. CASE ~(n + 1 <= Rounds) BY <3>2
    <3> QED BY <3>1, <3>2
  <2> HIDE DEF S
  <2>3. \A n \in Nat : n \in S BY <2>1, <2>2, SetInduction
  <2> QED BY <1>3, <2>3 DEF S
<1> QED BY <1>10, <1>12, <1>13

\* A round in which no thread steps changes nothing.
LEMMA IdleRound ==
  ASSUME NEW g, NEW s, RefSound(g, s), Steppers(g, s) = {}
  PROVE  RefStep(g, s) = s
<1> DEFINE r == RefStep(g, s)
           T == Steppers(g, s)
           W == StepWrites(g, s)
<1>1. /\ s \in RefType /\ StepIs(s, r, T, W) /\ r \in RefType
      /\ T = {} /\ W = {}
  BY StepType, StepShape DEF RefSound, StepWrites
<1> HIDE DEF r, T, W
<1>2. \A t \in Thread : s.pos[t] \in Nat BY <1>1, RefWrType
<1>3. s.pos \in [Thread -> Nat \ {0}] /\ r.pos \in [Thread -> Nat \ {0}] BY <1>1, RefWrType
<1>4. \A t \in Thread : r.pos[t] = s.pos[t] BY <1>1, <1>2 DEF StepIs
<1>5. r.pos = s.pos BY <1>3, <1>4
<1>6. DOMAIN r.wr = DOMAIN s.wr BY <1>1 DEF StepIs, Named
<1>7. \A e \in DOMAIN s.wr : r.wr[e] = s.wr[e] BY <1>1, <1>6 DEF StepIs
<1>8. s.wr = [e \in DOMAIN s.wr |-> s.wr[e]] BY <1>1 DEF RefType
<1>9. r.wr = [e \in DOMAIN r.wr |-> r.wr[e]] BY <1>1 DEF StepIs
<1>10. r.wr = s.wr BY <1>6, <1>7, <1>8, <1>9
<1>11. r = [pos |-> r.pos, wr |-> r.wr] BY <1>1 DEF StepIs
<1>12. s = [pos |-> s.pos, wr |-> s.wr] BY <1>1 DEF RefType
<1>13. r = s BY <1>5, <1>10, <1>11, <1>12
<1> QED BY <1>13 DEF r

Behind(s) == {p \in Instrs : p[2] < s.pos[p[1]]}

\* A round in which some thread steps carries out one more instruction.
LEMMA BusyRound ==
  ASSUME NEW g, NEW s, RefSound(g, s), Steppers(g, s) # {}
  PROVE  Cardinality(Behind(RefStep(g, s))) >= Cardinality(Behind(s)) + 1
<1> DEFINE r == RefStep(g, s)
           T == Steppers(g, s)
           W == StepWrites(g, s)
<1>1. s \in RefType /\ StepIs(s, r, T, W) /\ r \in RefType /\ T # {} /\ Extends(s, r)
  BY StepType, StepShape, StepExtends DEF RefSound
<1>2. PICK t \in T : TRUE BY <1>1
<1> DEFINE p == <<t, s.pos[t]>>
<1>3. t \in Thread /\ s.pos[t] \in DOMAIN Prog[t] /\ s.pos[t] \in Nat \ {0} BY StepperAt
<1> HIDE DEF r, T, W
<1>4. p \in Instrs /\ p[1] = t /\ p[2] = s.pos[t] BY <1>3 DEF Instrs
<1>5. r.pos[t] = s.pos[t] + 1 BY <1>1, <1>2, <1>3 DEF StepIs
<1>6. p \in Behind(r) /\ p \notin Behind(s) BY <1>3, <1>4, <1>5 DEF Behind
<1>7. \A q \in Instrs : q[1] \in Thread /\ q[2] \in Nat
  <2>1. \A u \in Thread : DOMAIN Prog[u] \subseteq Nat BY InstrType
  <2> QED BY <2>1 DEF Instrs
<1>8. Behind(s) \subseteq Behind(r)
  <2> SUFFICES ASSUME NEW q \in Behind(s) PROVE q \in Behind(r) OBVIOUS
  <2>1. q \in Instrs /\ q[1] \in Thread /\ q[2] \in Nat /\ q[2] < s.pos[q[1]] BY <1>7 DEF Behind
  <2>2. s.pos[q[1]] \in Nat /\ r.pos[q[1]] \in Nat /\ s.pos[q[1]] <= r.pos[q[1]]
    BY <1>1, <2>1, RefWrType DEF Extends
  <2> QED BY <2>1, <2>2 DEF Behind
<1> HIDE DEF p
<1>9. IsFiniteSet(Behind(s)) /\ IsFiniteSet(Behind(r))
  BY InstrsFinite, FS_Subset DEF Behind
<1>10. Cardinality(Behind(s) \cup {p}) = Cardinality(Behind(s)) + 1
  BY <1>6, <1>9, FS_AddElement
<1>11. Behind(s) \cup {p} \subseteq Behind(r) BY <1>6, <1>8
<1>12. Cardinality(Behind(s) \cup {p}) <= Cardinality(Behind(r)) BY <1>9, <1>11, FS_Subset
<1>13. Cardinality(Behind(s)) \in Nat /\ Cardinality(Behind(r)) \in Nat
  BY <1>9, FS_CardinalityType
<1>14. Cardinality(Behind(r)) >= Cardinality(Behind(s)) + 1 BY <1>10, <1>12, <1>13
<1> QED BY <1>14 DEF r

\* At the end of the reference run no thread can step.
LEMMA RunEnds ==
  ASSUME NEW g
  PROVE  RefSound(g, RefRun(g)) /\ Steppers(g, RefRun(g)) = {}
<1>1. PICK run : /\ RoundIs(g, run) /\ RefRun(g) = run[Rounds]
                 /\ \A n \in 0..Rounds : RefSound(g, run[n])
  BY RunExists
<1>2. Rounds \in Nat BY InstrsFinite
<1> DEFINE Far(n) == Steppers(g, run[n]) = {} \/ Cardinality(Behind(run[n])) >= n
           S == {n \in Nat : n <= Rounds => Far(n)}
<1>3. \A n \in 0..Rounds : IsFiniteSet(Behind(run[n])) /\ Cardinality(Behind(run[n])) \in Nat
  BY InstrsFinite, FS_Subset, FS_CardinalityType DEF Behind
<1>4. 0 \in S BY <1>2, <1>3
<1>5. ASSUME NEW n \in Nat, n \in S PROVE n + 1 \in S
  <2>1. CASE n + 1 <= Rounds
    <3>1. n \in 0..Rounds /\ n + 1 \in 1..Rounds /\ n + 1 \in 0..Rounds /\ (n + 1) - 1 = n
      BY <1>2, <2>1
    <3>2. Far(n) BY <1>5, <3>1
    <3>3. run[n + 1] = RefStep(g, run[n]) /\ RefSound(g, run[n]) BY <1>1, <3>1 DEF RoundIs
    <3>4. CASE Steppers(g, run[n]) = {}
      <4>1. run[n + 1] = run[n] BY <3>3, <3>4, IdleRound
      <4> QED BY <3>4, <4>1
    <3>5. CASE Steppers(g, run[n]) # {}
      <4>1. Cardinality(Behind(run[n])) >= n BY <3>2, <3>5
      <4>2. Cardinality(Behind(run[n + 1])) >= Cardinality(Behind(run[n])) + 1
        BY <3>3, <3>5, BusyRound
      <4>3. Cardinality(Behind(run[n + 1])) \in Nat /\ Cardinality(Behind(run[n])) \in Nat
        BY <1>3, <3>1
      <4> DEFINE a == Cardinality(Behind(run[n]))
                 b == Cardinality(Behind(run[n + 1]))
      <4> HIDE DEF a, b
      <4>4. b >= n + 1
        <5>1. a \in Nat /\ b \in Nat /\ a >= n /\ b >= a + 1 BY <4>1, <4>2, <4>3 DEF a, b
        <5> QED BY <5>1
      <4> QED BY <4>4 DEF b
    <3> QED BY <3>4, <3>5
  <2>2. CASE ~(n + 1 <= Rounds) BY <2>2
  <2> QED BY <2>1, <2>2
<1>6. Rounds \in S
  <2> HIDE DEF S
  <2> QED BY <1>2, <1>4, <1>5, SetInduction
<1>7. Far(Rounds) BY <1>2, <1>6
<1> DEFINE s == run[Rounds]
<1>8. RefSound(g, s) BY <1>1, <1>2
<1>9. ASSUME Cardinality(Behind(s)) >= Rounds, NEW t \in Steppers(g, s) PROVE FALSE
  <2>1. t \in Thread /\ s.pos[t] \in DOMAIN Prog[t] /\ s.pos[t] \in Nat \ {0}
    BY <1>8, StepperAt
  <2> DEFINE p == <<t, s.pos[t]>>
  <2>2. p \in Instrs /\ ~(p[2] < s.pos[p[1]]) BY <2>1 DEF Instrs
  <2>3. p \notin Behind(s) BY <2>2 DEF Behind
  <2>4. Behind(s) \subseteq Instrs BY DEF Behind
  <2>5. Cardinality(Behind(s)) <= Cardinality(Instrs) /\ Cardinality(Behind(s)) \in Nat
    BY <2>4, InstrsFinite, FS_Subset, FS_CardinalityType
  <2>6. Cardinality(Behind(s)) = Cardinality(Instrs)
    BY <1>2, <1>9, <2>5, InstrsFinite
  <2>7. Behind(s) = Instrs BY <2>4, <2>6, InstrsFinite, FS_Subset
  <2> QED BY <2>2, <2>3, <2>7
<1>10. Steppers(g, s) = {} BY <1>7, <1>9
<1> QED BY <1>1, <1>8, <1>10

\* Extension is transitive.
LEMMA ExtendsTrans ==
  ASSUME NEW s \in RefType, NEW r \in RefType, NEW q \in RefType, Extends(s, r), Extends(r, q)
  PROVE  Extends(s, q)
<1>1. \A t \in Thread : s.pos[t] \in Nat /\ r.pos[t] \in Nat /\ q.pos[t] \in Nat BY RefWrType
<1>2. \A t \in Thread : s.pos[t] <= q.pos[t] BY <1>1 DEF Extends
<1> QED BY <1>2 DEF Extends

\* Extension is reflexive.
LEMMA ExtendsSelf ==
  ASSUME NEW s \in RefType
  PROVE  Extends(s, s)
<1>1. \A t \in Thread : s.pos[t] \in Nat BY RefWrType
<1> QED BY <1>1 DEF Extends

\* A property of states that the first has and that every round keeps holds at
\* the end of the run; a round may use that the run ends beyond it.
LEMMA RunInduction ==
  ASSUME NEW g, NEW P, RefInit \in P,
         \A s \in P : RefSound(g, s) /\ Extends(s, RefRun(g)) => RefStep(g, s) \in P
  PROVE  RefRun(g) \in P
<1>1. PICK run : /\ RoundIs(g, run) /\ RefRun(g) = run[Rounds]
                 /\ \A n \in 0..Rounds : RefSound(g, run[n])
  BY RunExists
<1>2. Rounds \in Nat BY InstrsFinite
<1>3. \A n \in 0..Rounds : run[n] \in RefType BY <1>1 DEF RefSound
<1>4. \A n \in 0..Rounds : Extends(run[n], run[Rounds])
  <2> DEFINE S == {n \in Nat : n <= Rounds => \A m \in 0..n : Extends(run[m], run[n])}
  <2>1. 0 \in S
    <3>1. 0 \in 0..Rounds /\ 0..0 = {0} BY <1>2
    <3>2. Extends(run[0], run[0]) BY <1>3, <3>1, ExtendsSelf
    <3> QED BY <3>1, <3>2
  <2>2. ASSUME NEW n \in Nat, n \in S PROVE n + 1 \in S
    <3> SUFFICES ASSUME n + 1 <= Rounds, NEW m \in 0..(n + 1) PROVE Extends(run[m], run[n + 1])
      OBVIOUS
    <3>1. n \in 0..Rounds /\ n + 1 \in 0..Rounds /\ n + 1 \in 1..Rounds /\ (n + 1) - 1 = n /\ m \in 0..Rounds
      BY <1>2
    <3>2. run[n] \in RefType /\ run[n + 1] \in RefType /\ run[m] \in RefType BY <1>3, <3>1
    <3>3. run[n + 1] = RefStep(g, run[n]) BY <1>1, <3>1 DEF RoundIs
    <3>4. CASE m = n + 1 BY <3>2, <3>4, ExtendsSelf
    <3>5. CASE m # n + 1
      <4>1. m \in 0..n BY <3>5
      <4>2. Extends(run[m], run[n]) BY <2>2, <3>1, <4>1
      <4>3. Extends(run[n], run[n + 1]) BY <3>2, <3>3, StepExtends
      <4> QED BY <3>2, <4>2, <4>3, ExtendsTrans
    <3> QED BY <3>4, <3>5
  <2> HIDE DEF S
  <2>3. Rounds \in S BY <1>2, <2>1, <2>2, SetInduction
  <2> QED BY <1>2, <2>3 DEF S
<1> DEFINE S == {n \in Nat : n <= Rounds => run[n] \in P}
<1>5. 0 \in S BY <1>1 DEF RoundIs
<1>6. ASSUME NEW n \in Nat, n \in S PROVE n + 1 \in S
  <2> SUFFICES ASSUME n + 1 <= Rounds PROVE run[n + 1] \in P OBVIOUS
  <2>1. n \in 0..Rounds /\ n + 1 \in 1..Rounds /\ (n + 1) - 1 = n BY <1>2
  <2>2. run[n] \in P /\ RefSound(g, run[n]) /\ Extends(run[n], RefRun(g)) BY <1>1, <1>4, <1>6, <2>1
  <2>3. run[n + 1] = RefStep(g, run[n]) BY <1>1, <2>1 DEF RoundIs
  <2> QED BY <2>2, <2>3
<1> HIDE DEF S
<1>7. Rounds \in S BY <1>2, <1>5, <1>6, SetInduction
<1> QED BY <1>1, <1>2, <1>7 DEF S

-----------------------------------------------------------------------------
(* What the scheduler's state says of the reference run.                   *)

\* The end of the reference run on the graph that was loaded.
Ref == RefRun(graph)

\* Event e has been executed by an operation of kind K.
Executed(e, K) ==
  \E t \in Thread : \E i \in 1..(pc[t] - 1) : Prog[t][i].op \in K /\ Prog[t][i].ev = e

Gone == {"publish", "exiting", "paused", "returning", "dying", "dying0"}

\* A thread waits for its rf source.
Waits(t) ==
  /\ ~AtEnd(t) /\ Op(t).op \in ReadOps /\ Op(t).ev \in DOMAIN graph.rf
  /\ graph.type[Op(t).ev] \in AcceptedTypes(Op(t).op)
  /\ t \in active /\ t \notin blockedUnk \cup joinWait
  /\ waiting[t] = graph.rf[Op(t).ev]

\* A thread stands at an event that the graph does not have.
StandsUnknown(t) ==
  /\ ~AtEnd(t) /\ Op(t).op \in EventOps /\ Op(t).ev \notin Node
  /\ t \in blockedUnk /\ Op(t).ev \in nextEvents

\* A thread that deadlock detection cannot count as stuck.
Loud(t) ==
  /\ t \in active /\ t \notin blockedUnk \cup joinWait
  /\ waiting[t] = None \/ InHistory(waiting[t])

\* No thread is ahead of the reference run.
RefBound ==
  \A t \in Thread : pc[t] <= Ref.pos[t] /\ (st[t] # "none" => RefStarted(Ref, t))

\* The history holds the stores of the reference run that have been executed,
\* each once, with their addresses and values.
Recorded(l, i) ==
  /\ hist[l][i].ev \in DOMAIN Ref.wr
  /\ Ref.wr[hist[l][i].ev].loc = l /\ Ref.wr[hist[l][i].ev].val = hist[l][i].val
  /\ Executed(hist[l][i].ev, EventOps)
HistRef ==
  /\ \A l \in Loc : \A i \in DOMAIN hist[l] : Recorded(l, i)
  /\ \A l \in Loc : \A i, j \in DOMAIN hist[l] : hist[l][i].ev = hist[l][j].ev => i = j
  /\ \A e \in DOMAIN Ref.wr : Executed(e, EventOps) => InHistory(e)

\* Coverage is what has been executed, and the nodes of threads that wait for
\* their source or whose handler has rejected the graph.
Standing(t, e) == ~AtEnd(t) /\ Op(t).op \in EventOps /\ Op(t).ev = e
Rejected(t) == st[t] \in Gone /\ Loud(t)
CoverRef ==
  /\ \A e \in covered : \/ Executed(e, EventOps)
                        \/ \E t \in Thread : Standing(t, e) /\ (Waits(t) \/ Rejected(t))
  /\ \A e \in coveredRf : \/ Executed(e, ReadOps)
                          \/ \E t \in Thread : Standing(t, e) /\ Rejected(t)
  /\ \A e \in Event : /\ Executed(e, EventOps) => e \in covered
                      /\ Executed(e, ReadOps) => e \in coveredRf

NextRef == \A e \in nextEvents : \E t \in Thread : StandsUnknown(t) /\ Op(t).ev = e

\* The flags of a thread at each control point.
ControlAt(t) ==
  /\ st[t] \in {"run", "creating", "mapping"} => Runnable(t)
  /\ st[t] = "starting" => t \in known \ active
  /\ st[t] \in {"ended", "dead"} => t \notin active /\ AtEnd(t)
  /\ st[t] = "rfwait" => Waits(t)
  /\ st[t] = "unknown" => StandsUnknown(t)
  /\ st[t] = "join" => t \in active \ blockedUnk /\ waiting[t] = None
  /\ st[t] \in Gone => Loud(t) \/ Waits(t) \/ StandsUnknown(t)
  /\ st[t] = "returning" => t = Main /\ AtEnd(t) /\ Loud(t)
ControlRef == \A t \in Thread : ControlAt(t)

\* Threads exist when main has started them, and are over when main has joined them.
CreatedBy(c) ==
  \E i \in DOMAIN Prog[Main] :
     /\ Prog[Main][i].op = "create" /\ Prog[Main][i].child = c
     /\ i < pc[Main] \/ (i = pc[Main] /\ st[Main] = "mapping")
CreateRef ==
  /\ st[Main] \notin {"none", "starting", "ended", "dead"}
  /\ st[Main] = "creating" => Op(Main).child \in known \ active /\ st[Op(Main).child] = "none"
  /\ \A c \in Thread \ {Main} :
       /\ st[c] # "none" => CreatedBy(c)
       /\ c \in everStarted /\ st[c] = "none" => st[Main] = "creating" /\ Op(Main).child = c
JoinRef ==
  \A i \in DOMAIN Prog[Main] :
    Prog[Main][i].op = "join" /\ i < pc[Main] => st[Prog[Main][i].child] = "dead"

-----------------------------------------------------------------------------
\* The instruction of a thread, and the reference run at it.
LEMMA RefIs ==
  /\ RefSound(graph, Ref) /\ Steppers(graph, Ref) = {} /\ Ref \in RefType
  /\ \A t \in Thread : Ref.pos[t] \in Nat \ {0} /\ Ref.pos[t] <= Len(Prog[t]) + 1
<1>1. RefSound(graph, Ref) /\ Steppers(graph, Ref) = {} BY RunEnds DEF Ref
<1>2. Ref \in RefType BY <1>1 DEF RefSound
<1>3. \A t \in Thread : Ref.pos[t] <= Len(Prog[t]) + 1 BY <1>1 DEF RefSound
<1> QED BY <1>1, <1>2, <1>3, RefWrType

\* The position of a thread that has not ended is that of an instruction.
LEMMA OpAt ==
  ASSUME TypeOK, NEW t \in Thread
  PROVE  /\ pc[t] \in Nat \ {0}
         /\ Len(Prog[t]) \in Nat
         /\ ~AtEnd(t) => pc[t] \in DOMAIN Prog[t] /\ Op(t) = Prog[t][pc[t]]
         /\ pc[t] \in DOMAIN Prog[t] => ~AtEnd(t)
<1>1. pc[t] \in Nat \ {0} /\ Prog[t] \in Seq(Instr) BY SchedulerAssumption DEF TypeOK, ProgType
<1> QED BY <1>1 DEF AtEnd, Op

\* A thread can go on exactly when the reference run has gone on there.
LEMMA Ahead ==
  ASSUME TypeOK, RefBound, NEW t \in Thread, ~AtEnd(t), st[t] # "none"
  PROVE  /\ Carried(graph, Ref, Op(t)) => pc[t] < Ref.pos[t]
         /\ ~Carried(graph, Ref, Op(t)) =>
              /\ pc[t] = Ref.pos[t] /\ RefOp(Ref, t) = Op(t)
              /\ RefStarted(Ref, t) /\ ~RefEnded(Ref, t)
<1>0. /\ RefSound(graph, Ref) /\ Steppers(graph, Ref) = {} /\ Ref \in RefType
      /\ Ref.pos[t] \in Nat \ {0} /\ Ref.pos[t] <= Len(Prog[t]) + 1
      /\ pc[t] \in Nat \ {0} /\ Len(Prog[t]) \in Nat
      /\ pc[t] \in DOMAIN Prog[t] /\ Op(t) = Prog[t][pc[t]]
  BY RefIs, OpAt
<1>1. pc[t] <= Ref.pos[t] /\ RefStarted(Ref, t) BY DEF RefBound
<1>2. CASE pc[t] = Ref.pos[t]
  <2>1. RefOp(Ref, t) = Op(t) BY <1>2 DEF RefOp, Op
  <2>2. ~RefEnded(Ref, t) BY <1>0, <1>2 DEF RefEnded, AtEnd
  <2>3. ~RefCanStep(graph, Ref, t) BY <1>0 DEF Steppers
  <2>4. ~Carried(graph, Ref, Op(t)) BY <1>0, <1>1, <2>1, <2>2, <2>3, CanStep
  <2> QED BY <1>1, <1>2, <2>1, <2>2, <2>4
<1>3. CASE pc[t] # Ref.pos[t]
  <2>1. pc[t] \in Prefix(Ref, t) BY <1>0, <1>1, <1>3 DEF Prefix
  <2>2. CarriedAt(graph, Ref, t, pc[t]) BY <1>0, <2>1, SoundIs
  <2> QED BY <1>0, <1>1, <1>3, <2>2 DEF CarriedAt
<1> QED BY <1>2, <1>3

\* The history answers as the reference run does.
LEMMA HistLookup ==
  ASSUME TypeOK, HistRef, NEW w, InHistory(w)
  PROVE  /\ w \in DOMAIN Ref.wr /\ Executed(w, EventOps)
         /\ HistLoc(w) = Ref.wr[w].loc /\ HistVal(w) = Ref.wr[w].val
<1>1. /\ HistLoc(w) \in Loc
      /\ \E i \in DOMAIN hist[HistLoc(w)] : hist[HistLoc(w)][i].ev = w
  BY DEF InHistory, HistLoc
<1> DEFINE l == HistLoc(w)
           k == CHOOSE i \in DOMAIN hist[l] : hist[l][i].ev = w
<1>2. k \in DOMAIN hist[l] /\ hist[l][k].ev = w BY <1>1
<1>3. HistVal(w) = hist[l][k].val BY DEF HistVal
<1> HIDE DEF l, k
<1>4. l \in Loc BY <1>1 DEF l
<1>5. Recorded(l, k) BY <1>2, <1>4 DEF HistRef
<1> QED BY <1>2, <1>3, <1>5 DEF Recorded, l

\* The decision table of the handler is the C11 rule and the graph's demand.
LEMMA CasAgrees ==
  ASSUME NEW o, o.weak \in BOOLEAN, NEW ty, NEW old
  PROVE  /\ CasDecision(o, ty, old) = "impossible" <=> CasPossible(o, ty, old) = {}
         /\ CasDecision(o, ty, old) = "swap" <=> "succeeds" \in CasPossible(o, ty, old)
<1>1. CASE ty \notin {"CAS_SUCCESS", "CAS_FAIL"}
  <2>1. CasDemanded(ty) = {"succeeds", "fails"} BY <1>1 DEF CasDemanded
  <2>2. CasPossible(o, ty, old) = CasAllowed(o, old) BY <2>1 DEF CasPossible, CasAllowed
  <2> QED BY <1>1, <2>2 DEF CasDecision, CasAllowed
<1>2. CASE ty = "CAS_SUCCESS"
  <2>1. CasDemanded(ty) = {"succeeds"} BY <1>2 DEF CasDemanded
  <2> QED BY <1>2, <2>1 DEF CasDecision, CasAllowed, CasPossible
<1>3. CASE ty = "CAS_FAIL"
  <2>1. CasDemanded(ty) = {"fails"} BY <1>3 DEF CasDemanded
  <2> QED BY <1>3, <2>1 DEF CasDecision, CasAllowed, CasPossible
<1> QED BY <1>1, <1>2, <1>3

\* The node types that the handlers accept are those of the reference run.
LEMMA TypesAgree ==
  /\ RefTypes["store"] = {"WRITE", "RMW"}
  /\ RefTypes["fence"] = {"FENCE"}
  /\ \A k \in ReadOps : RefTypes[k] = AcceptedTypes(k)
<1>1. /\ RefTypes["store"] = {"WRITE", "RMW"} /\ RefTypes["fence"] = {"FENCE"}
      /\ RefTypes["load"] = {"READ", "RMW"}
      /\ RefTypes["rmw"] = {"READ", "WRITE", "RMW"}
      /\ RefTypes["cas"] = {"READ", "WRITE", "RMW", "CAS_SUCCESS", "CAS_FAIL"}
  BY DEF RefTypes
<1>2. /\ AcceptedTypes("load") = {"READ", "RMW"}
      /\ AcceptedTypes("rmw") = {"READ", "WRITE", "RMW"}
      /\ AcceptedTypes("cas") = {"READ", "WRITE", "RMW", "CAS_SUCCESS", "CAS_FAIL"}
  BY DEF AcceptedTypes
<1> QED BY <1>1, <1>2 DEF ReadOps

-----------------------------------------------------------------------------
(* One step of a thread, as the reference run sees it.                     *)

\* A step of t leaves the other threads alone, but may start one.
OthersStay(t) ==
  \A u \in Thread \ {t} :
    /\ pc'[u] = pc[u] /\ waiting'[u] = waiting[u]
    /\ (u \in active' <=> u \in active)
    /\ (u \in blockedUnk' <=> u \in blockedUnk)
    /\ (u \in joinWait' <=> u \in joinWait)
    /\ (u \in known => u \in known')
    /\ \/ st'[u] = st[u]
       \/ st[u] = "none" /\ st'[u] = "starting" /\ RefStarted(Ref, u) /\ u \in known' \ active'

\* t carries out its instruction, as the reference run has done.
MoveOn(t) ==
  /\ ~AtEnd(t) /\ pc' = [pc EXCEPT ![t] = @ + 1] /\ Carried(graph, Ref, Op(t))
  /\ Op(t).op \in EventOps => Op(t).ev \in covered'
  /\ Op(t).op \in ReadOps => Op(t).ev \in coveredRf'
  /\ st[t] \notin Gone
  /\ \/ hist' = hist /\ StoreOf(graph, Ref, Op(t)) = {}
     \/ \E x \in StoreOf(graph, Ref, Op(t)) : hist' = AddHistory(x.loc, x.ev, x.val)

\* t does not, and is covered only if it waits or rejects the graph.
StayAt(t) ==
  /\ pc' = pc /\ hist' = hist
  /\ ~AtEnd(t) /\ Op(t).op \in EventOps /\ Op(t).ev \in covered' => Waits(t)' \/ Rejected(t)'
  /\ ~AtEnd(t) /\ Op(t).op \in EventOps /\ Op(t).ev \in coveredRf' => Rejected(t)'

Outcome(t) ==
  /\ st[t] # "none" /\ st'[t] # "none"
  /\ Grows /\ OthersStay(t)
  /\ MoveOn(t) \/ StayAt(t)
  /\ \A e \in covered' \ covered : Standing(t, e)
  /\ \A e \in coveredRf' \ coveredRf : Standing(t, e) /\ Op(t).op \in ReadOps
  /\ StandsUnknown(t) => StandsUnknown(t)'
  /\ \A e \in nextEvents' \ nextEvents : StandsUnknown(t)' /\ Op(t)'.ev = e
  /\ ControlAt(t)'

\* What has been executed after the step.
LEMMA ExecutedStep ==
  ASSUME TypeOK, NEW t \in Thread, NEW K, NEW e,
         \A u \in Thread \ {t} : pc'[u] = pc[u],
         pc' = pc \/ (~AtEnd(t) /\ pc' = [pc EXCEPT ![t] = @ + 1])
  PROVE  /\ Executed(e, K) => Executed(e, K)'
         /\ Executed(e, K)' =>
              \/ Executed(e, K)
              \/ ~AtEnd(t) /\ pc' # pc /\ Op(t).op \in K /\ Op(t).ev = e
         /\ ~AtEnd(t) /\ pc' = [pc EXCEPT ![t] = @ + 1] /\ Op(t).op \in K /\ Op(t).ev = e
              => Executed(e, K)'
<1>1. pc \in [Thread -> Nat \ {0}] BY DEF TypeOK, ProgType
<1>2. CASE pc' = pc
  <2>1. ~(pc' = [pc EXCEPT ![t] = @ + 1]) BY <1>1, <1>2
  <2> QED BY <1>2, <2>1 DEF Executed
<1>3. CASE ~AtEnd(t) /\ pc' = [pc EXCEPT ![t] = @ + 1]
  <2>1. pc'[t] = pc[t] + 1 /\ pc[t] \in Nat \ {0} /\ pc' # pc BY <1>1, <1>3
  <2>2. \A u \in Thread : \A i \in 1..(pc[u] - 1) : i \in 1..(pc'[u] - 1) BY <1>1, <1>3
  <2>3. \A u \in Thread : \A i \in 1..(pc'[u] - 1) : i \in 1..(pc[u] - 1) \/ (u = t /\ i = pc[t])
    BY <1>1, <1>3
  <2>4. pc[t] \in 1..(pc'[t] - 1) BY <2>1
  <2>5. Executed(e, K) => Executed(e, K)' BY <2>2 DEF Executed
  <2>6. Executed(e, K)' => Executed(e, K) \/ (Op(t).op \in K /\ Op(t).ev = e)
    BY <2>3 DEF Executed, Op
  <2>7. Op(t).op \in K /\ Op(t).ev = e => Executed(e, K)' BY <2>4 DEF Executed, Op
  <2> QED BY <1>3, <2>1, <2>5, <2>6, <2>7
<1> QED BY <1>2, <1>3

\* The instruction a thread stands at has not been executed.
LEMMA NotExecuted ==
  ASSUME TypeOK, RefBound, NEW t \in Thread, ~AtEnd(t), Op(t).op \in EventOps
  PROVE  ~Executed(Op(t).ev, EventOps) /\ ~Executed(Op(t).ev, ReadOps)
<1>1. pc[t] \in DOMAIN Prog[t] /\ Op(t) = Prog[t][pc[t]] /\ pc[t] \in Nat \ {0} BY OpAt
<1>2. ASSUME NEW u \in Thread, NEW i \in 1..(pc[u] - 1), Prog[u][i].op \in EventOps,
             Prog[u][i].ev = Op(t).ev
      PROVE  FALSE
  <2>1. /\ pc[u] \in Nat \ {0} /\ pc[u] <= Ref.pos[u]
        /\ Ref.pos[u] \in Nat /\ Ref.pos[u] <= Len(Prog[u]) + 1 /\ Len(Prog[u]) \in Nat
    BY OpAt, RefIs DEF RefBound
  <2>2. i \in DOMAIN Prog[u] /\ i < pc[u]
    <3>1. pc[u] <= Len(Prog[u]) + 1 BY <2>1
    <3> QED BY <2>1, <3>1, IndexType
  <2>3. t = u /\ i = pc[t] BY <1>1, <1>2, <2>2, SameInstr
  <2> QED BY <2>2, <2>3
<1>3. ReadOps \subseteq EventOps BY DEF ReadOps, EventOps
<1> QED BY <1>2, <1>3 DEF Executed

\* A covered node at which a thread stands is one it waits at or has rejected.
LEMMA CoveredStands ==
  ASSUME TypeOK, RefBound, CoverRef, NEW t \in Thread, ~AtEnd(t), Op(t).op \in EventOps
  PROVE  /\ Op(t).ev \in covered => Waits(t) \/ Rejected(t)
         /\ Op(t).ev \in coveredRf => Rejected(t)
<1>1. ~Executed(Op(t).ev, EventOps) /\ ~Executed(Op(t).ev, ReadOps) BY NotExecuted
<1>2. \A u \in Thread : Standing(u, Op(t).ev) => u = t
  <2> SUFFICES ASSUME NEW u \in Thread, Standing(u, Op(t).ev) PROVE u = t OBVIOUS
  <2>1. /\ pc[t] \in DOMAIN Prog[t] /\ Op(t) = Prog[t][pc[t]]
        /\ pc[u] \in DOMAIN Prog[u] /\ Op(u) = Prog[u][pc[u]]
        /\ Op(u).op \in EventOps /\ Op(u).ev = Op(t).ev
    BY OpAt DEF Standing
  <2> QED BY <2>1, SameInstr
<1> QED BY <1>1, <1>2 DEF CoverRef
-----------------------------------------------------------------------------
(* The history.                                                            *)

\* The program writes finitely many events to an address.
LEMMA WritesFinite == \A l : IsFiniteSet(WritesAt(l))
<1> SUFFICES ASSUME NEW l PROVE IsFiniteSet(WritesAt(l)) OBVIOUS
<1> DEFINE f == [p \in Instrs |-> Prog[p[1]][p[2]].ev]
           S == {f[p] : p \in Instrs}
<1>1. IsFiniteSet(S)
  <2> HIDE DEF f
  <2> QED BY InstrsFinite, ImageFinite
<1>2. WritesAt(l) \subseteq S
  <2> SUFFICES ASSUME NEW e \in WritesAt(l) PROVE e \in S OBVIOUS
  <2>1. PICK t \in Thread : \E i \in DOMAIN Prog[t] : Prog[t][i].ev = e BY DEF WritesAt
  <2>2. PICK i \in DOMAIN Prog[t] : Prog[t][i].ev = e BY <2>1
  <2>3. <<t, i>> \in Instrs BY DEF Instrs
  <2>4. f[<<t, i>>] = e BY <2>2, <2>3
  <2> QED BY <2>3, <2>4
<1> HIDE DEF S
<1> QED BY <1>1, <1>2, FS_Subset

\* A store of the reference run, and the instruction that performs it.
LEMMA RefWrite ==
  ASSUME NEW e \in DOMAIN Ref.wr
  PROVE  \E t \in Thread : \E i \in DOMAIN Prog[t] :
           /\ i < Ref.pos[t] /\ Prog[t][i].ev = e /\ Prog[t][i].op \in WritingOps
           /\ Prog[t][i].loc = Ref.wr[e].loc /\ StoreOf(graph, Ref, Prog[t][i]) # {}
<1>1. RefSound(graph, Ref) /\ Ref \in RefType BY RefIs
<1>2. PICK t \in Thread : \E i \in Prefix(Ref, t) : StoresAt(graph, Ref, t, i, e) BY <1>1, SoundIs
<1>3. PICK i \in Prefix(Ref, t) : StoresAt(graph, Ref, t, i, e) BY <1>2
<1>4. i \in DOMAIN Prog[t] /\ i < Ref.pos[t] BY <1>1, PrefixType
<1>5. CarriedAt(graph, Ref, t, i) BY <1>1, SoundIs
<1>6. PICK x \in StoreOf(graph, Ref, Prog[t][i]) : TRUE BY <1>3 DEF StoresAt
<1>7. Ref.wr[x.ev].loc = x.loc
  <2>1. \A y \in StoreOf(graph, Ref, Prog[t][i]) : Ref.wr[y.ev] = [loc |-> y.loc, val |-> y.val]
    BY <1>5 DEF CarriedAt
  <2> DEFINE a == x.loc
             b == x.val
  <2>2. Ref.wr[x.ev] = [loc |-> a, val |-> b] BY <1>6, <2>1
  <2> HIDE DEF a, b
  <2>3. Ref.wr[x.ev].loc = a BY <2>2
  <2> QED BY <2>3 DEF a
<1>8. Carried(graph, Ref, Prog[t][i]) BY <1>5 DEF CarriedAt
<1>9. x.ev = Prog[t][i].ev /\ x.loc = Prog[t][i].loc BY <1>1, <1>4, <1>6, <1>8, StoreOfType
<1> QED BY <1>3, <1>4, <1>6, <1>7, <1>9 DEF StoresAt

\* There is room for the store of an instruction that is about to be executed.
LEMMA HistRoom ==
  ASSUME TypeOK, HistorySuffices, RefBound, HistRef, NEW t \in Thread, ~AtEnd(t),
         NEW l \in Loc, Op(t).op \in WritingOps, Op(t).loc = l
  PROVE  Len(hist[l]) < HistCap
<1> DEFINE h == hist[l]
           n == Len(h)
           E == WritesAt(l)
           D == E \ {Op(t).ev}
           m == [i \in 1..n |-> h[i].ev]
<1>1. /\ h \in Seq([ev : Event, val : Val]) /\ n \in Nat /\ DOMAIN h = 1..n
      /\ \A i \in 1..n : h[i].ev \in Event
  <2>1. h \in Seq([ev : Event, val : Val]) BY DEF TypeOK, CoverType
  <2> DEFINE R == [ev : Event, val : Val]
  <2>a. h \in Seq(R) /\ \A x \in R : x.ev \in Event BY <2>1
  <2> HIDE DEF h, R
  <2>2. Len(h) \in Nat /\ DOMAIN h = 1..Len(h) BY <2>a
  <2>3. \A i \in 1..Len(h) : h[i] \in R BY <2>a
  <2>4. \A i \in 1..Len(h) : h[i].ev \in Event BY <2>a, <2>3
  <2> QED BY <2>1, <2>2, <2>4
<1>2. IsFiniteSet(E) BY WritesFinite
<1>3. Op(t).ev \in E
  <2>1. pc[t] \in DOMAIN Prog[t] /\ Op(t) = Prog[t][pc[t]] BY OpAt
  <2>2. Op(t).ev \in Event BY OpType DEF WellFormedInstr, WritingOps, EventOps
  <2> QED BY <2>1, <2>2 DEF WritesAt
<1>4. \A i \in 1..n : h[i].ev \in D
  <2> SUFFICES ASSUME NEW i \in 1..n PROVE h[i].ev \in D OBVIOUS
  <2>1. Recorded(l, i) BY <1>1 DEF HistRef
  <2>2. h[i].ev \in DOMAIN Ref.wr /\ Ref.wr[h[i].ev].loc = l /\ Executed(h[i].ev, EventOps)
    BY <2>1 DEF Recorded
  <2> HIDE DEF h, n, D
  <2>3. h[i].ev \in Event BY <1>1
  <2>4. h[i].ev # Op(t).ev BY <2>2, NotExecuted DEF WritingOps, EventOps
  <2>5. h[i].ev \in E BY <2>2, <2>3, RefWrite DEF WritesAt
  <2> QED BY <2>4, <2>5 DEF D
<1>5. \A i, j \in 1..n : h[i].ev = h[j].ev => i = j BY <1>1 DEF HistRef
<1>6. Cardinality(E) <= HistCap BY DEF HistorySuffices
<1> HIDE DEF h, n, E
<1>7. IsFiniteSet(D) /\ Cardinality(D) = Cardinality(E) - 1
  BY <1>2, <1>3, FS_RemoveElement
<1> HIDE DEF D
<1>8. m \in Injection(1..n, D)
  <2>1. m \in [1..n -> D] BY <1>4
  <2>2. \A i, j \in 1..n : m[i] = m[j] => i = j BY <1>5
  <2> HIDE DEF m
  <2> QED BY <2>1, <2>2 DEF Injection, IsInjective
<1>9. Cardinality(1..n) <= Cardinality(D) BY <1>7, <1>8, FS_Injection
<1>10. Cardinality(1..n) = n
  <2>1. 1 \in Int /\ n \in Int BY <1>1
  <2>2. Cardinality(1..n) = IF 1 > n THEN 0 ELSE n - 1 + 1 BY <2>1, FS_Interval
  <2> QED BY <1>1, <2>2
<1>11. Cardinality(E) \in Nat /\ HistCap \in Nat BY <1>2, FS_CardinalityType, SchedulerAssumption
<1>12. n < HistCap BY <1>1, <1>6, <1>7, <1>9, <1>10, <1>11
<1> QED BY <1>12 DEF n, h

\* A history with room keeps what it has, and the new write comes last.
LEMMA HistAppend ==
  ASSUME TypeOK, NEW l \in Loc, NEW e, NEW v, Len(hist[l]) < HistCap
  PROVE  LET h == AddHistory(l, e, v)
         IN  /\ \A k \in Loc \ {l} : h[k] = hist[k]
             /\ DOMAIN h[l] = DOMAIN hist[l] \cup {Len(hist[l]) + 1}
             /\ Len(hist[l]) + 1 \notin DOMAIN hist[l]
             /\ \A i \in DOMAIN hist[l] : h[l][i] = hist[l][i]
             /\ h[l][Len(hist[l]) + 1].ev = e /\ h[l][Len(hist[l]) + 1].val = v
<1> DEFINE R == [ev : Event, val : Val]
           x == [ev |-> e, val |-> v]
           s == hist[l]
           n == Len(s)
           a == Append(s, x)
           h == AddHistory(l, e, v)
<1>1. hist \in [Loc -> Seq(R)] /\ s \in Seq(R) BY DEF TypeOK, CoverType
<1>2. x.ev = e /\ x.val = v OBVIOUS
<1>3. h = [hist EXCEPT ![l] = a]
  <2>1. ~(Len(hist[l]) >= HistCap) BY <1>1, SchedulerAssumption
  <2> QED BY <1>1, <2>1 DEF AddHistory
<1>4. h[l] = a /\ \A k \in Loc \ {l} : h[k] = hist[k] BY <1>1, <1>3
<1>5. n \in Nat /\ DOMAIN s = 1..n BY <1>1
<1> HIDE DEF R, x
<1>6. DOMAIN a = 1..(n + 1) /\ a[n + 1] = x /\ \A i \in 1..n : a[i] = s[i]
  <2>1. s \in Seq(R \cup {x}) BY <1>1
  <2> HIDE DEF s
  <2> QED BY <2>1
<1> HIDE DEF a, n, h, s
<1>7. 1..(n + 1) = (1..n) \cup {n + 1} /\ n + 1 \notin 1..n BY <1>5
<1>8. /\ \A k \in Loc \ {l} : h[k] = hist[k]
      /\ DOMAIN h[l] = DOMAIN s \cup {n + 1} /\ n + 1 \notin DOMAIN s
      /\ \A i \in DOMAIN s : h[l][i] = s[i]
      /\ h[l][n + 1].ev = e /\ h[l][n + 1].val = v
  BY <1>2, <1>4, <1>5, <1>6, <1>7
<1> QED BY <1>8 DEF h, s, n

\* The reference run depends on the graph alone.
LEMMA RefSame ==
  ASSUME graph' = graph
  PROVE  Ref' = Ref
BY DEF Ref

\* The positions of the others and of t after the step.
LEMMA Moves ==
  ASSUME TypeInv, NEW t \in Thread, Outcome(t)
  PROVE  /\ TypeOK /\ graph' = graph /\ Ref' = Ref
         /\ \A u \in Thread \ {t} : pc'[u] = pc[u]
         /\ pc' = pc \/ (~AtEnd(t) /\ pc' = [pc EXCEPT ![t] = @ + 1])
         /\ \A e, K : Executed(e, K) => Executed(e, K)'
<1>1. TypeOK /\ graph' = graph BY DEF TypeInv, Outcome, Grows
<1>2. Ref' = Ref BY <1>1, RefSame
<1>3. \A u \in Thread \ {t} : pc'[u] = pc[u] BY DEF Outcome, OthersStay
<1>4. pc' = pc \/ (~AtEnd(t) /\ pc' = [pc EXCEPT ![t] = @ + 1])
  BY DEF Outcome, MoveOn, StayAt
<1>5. \A e, K : Executed(e, K) => Executed(e, K)' BY <1>1, <1>3, <1>4, ExecutedStep
<1> QED BY <1>1, <1>2, <1>3, <1>4, <1>5

\* A step takes no thread past the reference run.
LEMMA BoundStep ==
  ASSUME TypeInv, RefBound, NEW t \in Thread, Outcome(t)
  PROVE  RefBound'
<1>1. /\ TypeOK /\ graph' = graph /\ Ref' = Ref
      /\ \A u \in Thread \ {t} : pc'[u] = pc[u]
  BY Moves
<1>2. st[t] # "none" /\ OthersStay(t) /\ (MoveOn(t) \/ StayAt(t)) BY DEF Outcome
<1>3. pc \in [Thread -> Nat \ {0}] BY <1>1 DEF TypeOK, ProgType
<1>4. pc'[t] <= Ref.pos[t]
  <2>1. CASE StayAt(t) BY <2>1 DEF StayAt, RefBound
  <2>2. CASE MoveOn(t)
    <3>1. pc[t] < Ref.pos[t] BY <1>1, <1>2, <2>2, Ahead DEF MoveOn
    <3>2. Ref.pos[t] \in Nat BY RefIs
    <3>3. pc'[t] = pc[t] + 1 BY <1>3, <2>2 DEF MoveOn
    <3> QED BY <1>3, <3>1, <3>2, <3>3
  <2> QED BY <1>2, <2>1, <2>2
<1>5. ASSUME NEW u \in Thread PROVE pc'[u] <= Ref.pos[u] /\ (st'[u] # "none" => RefStarted(Ref, u))
  <2>1. CASE u = t BY <1>2, <1>4, <2>1 DEF RefBound
  <2>2. CASE u # t BY <1>2, <2>2 DEF RefBound, OthersStay
  <2> QED BY <2>1, <2>2
<1>6. \A u \in Thread : RefStarted(Ref, u)' <=> RefStarted(Ref, u) BY <1>1 DEF RefStarted
<1> QED BY <1>1, <1>5, <1>6 DEF RefBound

\* A step keeps the history that of the reference run.
LEMMA HistStep ==
  ASSUME HistorySuffices, TypeInv, RefBound, HistRef, NEW t \in Thread, Outcome(t)
  PROVE  HistRef'
<1>1. /\ TypeOK /\ Ref' = Ref
      /\ \A u \in Thread \ {t} : pc'[u] = pc[u]
      /\ pc' = pc \/ (~AtEnd(t) /\ pc' = [pc EXCEPT ![t] = @ + 1])
      /\ \A e, K : Executed(e, K) => Executed(e, K)'
  BY Moves
<1>2. st[t] # "none" /\ (MoveOn(t) \/ StayAt(t)) BY DEF Outcome
<1>3. \A e : Executed(e, EventOps)' =>
        Executed(e, EventOps) \/ (~AtEnd(t) /\ pc' # pc /\ Op(t).op \in EventOps /\ Op(t).ev = e)
  BY <1>1, ExecutedStep
<1>4. CASE hist' = hist
  <2>1. ASSUME NEW e \in DOMAIN Ref.wr, Executed(e, EventOps)' PROVE Executed(e, EventOps)
    <3> SUFFICES ASSUME ~AtEnd(t), pc' # pc, Op(t).op \in EventOps, Op(t).ev = e PROVE FALSE
      BY <1>3, <2>1
    <3>1. MoveOn(t) BY <1>2 DEF StayAt
    <3>2. PICK u \in Thread : \E i \in DOMAIN Prog[u] :
             /\ i < Ref.pos[u] /\ Prog[u][i].ev = e /\ Prog[u][i].op \in WritingOps
             /\ StoreOf(graph, Ref, Prog[u][i]) # {}
      BY RefWrite
    <3>3. PICK i \in DOMAIN Prog[u] :
             /\ i < Ref.pos[u] /\ Prog[u][i].ev = e /\ Prog[u][i].op \in WritingOps
             /\ StoreOf(graph, Ref, Prog[u][i]) # {}
      BY <3>2
    <3>4. pc[t] \in DOMAIN Prog[t] /\ Op(t) = Prog[t][pc[t]] BY <1>1, OpAt
    <3>5. u = t /\ i = pc[t] BY <3>3, <3>4, SameInstr DEF WritingOps, EventOps
    <3>6. StoreOf(graph, Ref, Op(t)) # {} BY <3>3, <3>4, <3>5
    <3>7. PICK x \in StoreOf(graph, Ref, Op(t)) : hist' = AddHistory(x.loc, x.ev, x.val)
      BY <3>1, <3>6 DEF MoveOn
    <3>8. /\ Carried(graph, Ref, Op(t)) /\ x \in StoreOf(graph, Ref, Prog[t][pc[t]])
          /\ Carried(graph, Ref, Prog[t][pc[t]]) /\ Ref \in RefType
      BY <3>1, <3>4, <3>7, RefIs DEF MoveOn
    <3> DEFINE k == pc[t]
    <3>9. k \in DOMAIN Prog[t] /\ x \in StoreOf(graph, Ref, Prog[t][k]) /\ Carried(graph, Ref, Prog[t][k])
          /\ Op(t) = Prog[t][k]
      BY <3>4, <3>8
    <3> HIDE DEF k
    <3>10. x.loc = Prog[t][k].loc /\ x.loc \in Loc /\ Prog[t][k].op \in WritingOps BY <3>8, <3>9, StoreOfType
    <3>11. Len(hist[x.loc]) < HistCap BY <1>1, <3>9, <3>10, HistRoom
    <3>12. DOMAIN AddHistory(x.loc, x.ev, x.val)[x.loc] # DOMAIN hist[x.loc]
      BY <1>1, <3>10, <3>11, HistAppend
    <3> QED BY <1>4, <3>7, <3>12
  <2>2. \A l \in Loc : \A i \in DOMAIN hist[l] : Recorded(l, i)'
    BY <1>1, <1>4 DEF HistRef, Recorded
  <2>3. \A w : InHistory(w)' <=> InHistory(w) BY <1>4 DEF InHistory
  <2> QED BY <1>1, <1>4, <2>1, <2>2, <2>3 DEF HistRef
<1>5. CASE hist' # hist
  <2>1. MoveOn(t) /\ ~AtEnd(t) BY <1>2, <1>5 DEF StayAt, MoveOn
  <2>2. PICK x \in StoreOf(graph, Ref, Op(t)) : hist' = AddHistory(x.loc, x.ev, x.val)
    BY <1>5, <2>1 DEF MoveOn
  <2>3. pc[t] \in DOMAIN Prog[t] /\ Op(t) = Prog[t][pc[t]] BY <1>1, <2>1, OpAt
  <2> DEFINE k == pc[t]
             l == x.loc
             n == Len(hist[l]) + 1
  <2>4. /\ k \in DOMAIN Prog[t] /\ x \in StoreOf(graph, Ref, Prog[t][k])
        /\ Carried(graph, Ref, Prog[t][k]) /\ Ref \in RefType /\ Op(t) = Prog[t][k]
    BY <2>1, <2>2, <2>3, RefIs DEF MoveOn
  <2>5. k < Ref.pos[t] BY <1>1, <1>2, <2>1, Ahead DEF MoveOn
  <2> HIDE DEF k
  <2>6. /\ x.ev = Prog[t][k].ev /\ x.loc = Prog[t][k].loc /\ x.loc \in Loc /\ x.ev \in Event
        /\ Prog[t][k].op \in WritingOps
    BY <2>4, StoreOfType
  <2>7. Len(hist[l]) < HistCap BY <1>1, <2>1, <2>4, <2>6, HistRoom
  <2>8. x.ev \in DOMAIN Ref.wr /\ Ref.wr[x.ev] = [loc |-> x.loc, val |-> x.val]
    <3>1. RefSound(graph, Ref) BY RefIs
    <3>2. k \in Prefix(Ref, t)
      <4>1. k \in Nat /\ 1 <= k /\ Ref.pos[t] \in Nat BY <2>4, InstrType, RefIs
      <4> QED BY <2>5, <4>1 DEF Prefix
    <3>3. CarriedAt(graph, Ref, t, k) BY <3>1, <3>2, SoundIs
    <3> QED BY <2>4, <3>3 DEF CarriedAt
  <2>9. Ref.wr[x.ev].loc = l /\ Ref.wr[x.ev].val = x.val
    <3> DEFINE b == x.val
    <3>1. Ref.wr[x.ev] = [loc |-> l, val |-> b] BY <2>8
    <3> HIDE DEF l, b
    <3>2. Ref.wr[x.ev].loc = l /\ Ref.wr[x.ev].val = b BY <3>1
    <3> QED BY <3>2 DEF b
  <2>10. /\ \A j \in Loc \ {l} : hist'[j] = hist[j]
         /\ DOMAIN hist'[l] = DOMAIN hist[l] \cup {n} /\ n \notin DOMAIN hist[l]
         /\ \A i \in DOMAIN hist[l] : hist'[l][i] = hist[l][i]
         /\ hist'[l][n].ev = x.ev /\ hist'[l][n].val = x.val
    BY <1>1, <2>2, <2>6, <2>7, HistAppend
  <2>11. Executed(x.ev, EventOps)'
    <3>1. Op(t).op \in EventOps /\ Op(t).ev = x.ev BY <2>4, <2>6 DEF WritingOps, EventOps
    <3> QED BY <1>1, <2>1, <3>1, ExecutedStep DEF MoveOn
  <2>12. l \in Loc BY <2>6
  <2> HIDE DEF l, n
  <2>13. ASSUME NEW m \in Loc, NEW i \in DOMAIN hist'[m]
         PROVE  \/ i \in DOMAIN hist[m] /\ hist'[m][i] = hist[m][i]
                \/ m = l /\ i = n
    BY <2>10
  <2>14. \A m \in Loc : \A i \in DOMAIN hist'[m] : Recorded(m, i)'
    <3> SUFFICES ASSUME NEW m \in Loc, NEW i \in DOMAIN hist'[m] PROVE Recorded(m, i)' OBVIOUS
    <3>1. CASE i \in DOMAIN hist[m] /\ hist'[m][i] = hist[m][i]
      BY <1>1, <3>1 DEF HistRef, Recorded
    <3>2. CASE m = l /\ i = n
      BY <1>1, <2>8, <2>9, <2>10, <2>11, <3>2 DEF Recorded
    <3> QED BY <2>13, <3>1, <3>2
  <2>15. \A m \in Loc : \A i \in DOMAIN hist[m] : hist[m][i].ev # x.ev
    <3>1. ~Executed(x.ev, EventOps)
      BY <1>1, <2>1, <2>4, <2>6, NotExecuted DEF WritingOps, EventOps
    <3> QED BY <3>1 DEF HistRef, Recorded
  <2>16. \A m \in Loc : \A i, j \in DOMAIN hist'[m] : hist'[m][i].ev = hist'[m][j].ev => i = j
    <3> SUFFICES ASSUME NEW m \in Loc, NEW i \in DOMAIN hist'[m], NEW j \in DOMAIN hist'[m],
                        hist'[m][i].ev = hist'[m][j].ev
                 PROVE  i = j
      OBVIOUS
    <3>1. CASE i \in DOMAIN hist[m] /\ hist'[m][i] = hist[m][i]
               /\ j \in DOMAIN hist[m] /\ hist'[m][j] = hist[m][j]
      BY <3>1 DEF HistRef
    <3>2. CASE i \in DOMAIN hist[m] /\ hist'[m][i] = hist[m][i] /\ m = l /\ j = n
      BY <2>10, <2>15, <3>2
    <3>3. CASE j \in DOMAIN hist[m] /\ hist'[m][j] = hist[m][j] /\ m = l /\ i = n
      BY <2>10, <2>15, <3>3
    <3> QED BY <2>13, <3>1, <3>2, <3>3
  <2>17. \A w : InHistory(w) => InHistory(w)'
    <3> SUFFICES ASSUME NEW w, InHistory(w) PROVE InHistory(w)' OBVIOUS
    <3>1. PICK m \in Loc : \E i \in DOMAIN hist[m] : hist[m][i].ev = w BY DEF InHistory
    <3>2. PICK i \in DOMAIN hist[m] : hist[m][i].ev = w BY <3>1
    <3>3. i \in DOMAIN hist'[m] /\ hist'[m][i] = hist[m][i]
      BY <2>10
    <3> QED BY <3>2, <3>3 DEF InHistory
  <2>18. InHistory(x.ev)' BY <2>10, <2>12 DEF InHistory
  <2>19. \A e \in DOMAIN Ref.wr : Executed(e, EventOps)' => InHistory(e)'
    BY <1>3, <2>4, <2>6, <2>17, <2>18 DEF HistRef
  <2> QED BY <1>1, <2>14, <2>16, <2>19 DEF HistRef
<1> QED BY <1>4, <1>5

\* Whatever was in the history still is.
LEMMA HistGrows ==
  ASSUME HistorySuffices, TypeInv, RefBound, HistRef, NEW t \in Thread, Outcome(t)
  PROVE  \A w : InHistory(w) => InHistory(w)'
<1> SUFFICES ASSUME NEW w, InHistory(w) PROVE InHistory(w)' OBVIOUS
<1>1. w \in DOMAIN Ref.wr /\ Executed(w, EventOps) BY HistLookup DEF TypeInv
<1>2. Ref' = Ref /\ Executed(w, EventOps)' BY <1>1, Moves
<1>3. HistRef' BY HistStep
<1> QED BY <1>1, <1>2, <1>3 DEF HistRef

\* What is known of the other threads stays so.
LEMMA OthersKeep ==
  ASSUME HistorySuffices, TypeInv, RefBound, HistRef, ControlRef, NEW t \in Thread, Outcome(t),
         NEW u \in Thread \ {t}
  PROVE  /\ AtEnd(u)' <=> AtEnd(u)
         /\ Op(u)' = Op(u)
         /\ \A e : Standing(u, e)' <=> Standing(u, e)
         /\ Waits(u) => Waits(u)'
         /\ Loud(u) => Loud(u)'
         /\ Rejected(u) => Rejected(u)'
         /\ StandsUnknown(u) => StandsUnknown(u)'
         /\ ControlAt(u)'
<1>1. graph' = graph /\ nextEvents \subseteq nextEvents' BY DEF Outcome, Grows
<1>2. OthersStay(t) BY DEF Outcome
<1>3. \A w : InHistory(w) => InHistory(w)' BY HistGrows
<1>4. /\ pc'[u] = pc[u] /\ waiting'[u] = waiting[u]
      /\ (u \in active' <=> u \in active)
      /\ (u \in blockedUnk' <=> u \in blockedUnk)
      /\ (u \in joinWait' <=> u \in joinWait)
      /\ (u \in known => u \in known')
      /\ \/ st'[u] = st[u]
         \/ st[u] = "none" /\ st'[u] = "starting" /\ u \in known' \ active'
  BY <1>2 DEF OthersStay
<1>5. (AtEnd(u)' <=> AtEnd(u)) /\ Op(u)' = Op(u) BY <1>4 DEF AtEnd, Op
<1>6. \A e : Standing(u, e)' <=> Standing(u, e) BY <1>5 DEF Standing
<1>7. Waits(u) => Waits(u)' BY <1>1, <1>4, <1>5 DEF Waits
<1>8. Loud(u) => Loud(u)' BY <1>3, <1>4 DEF Loud
<1>9. Rejected(u) => Rejected(u)' BY <1>4, <1>8 DEF Rejected, Gone
<1>10. StandsUnknown(u) => StandsUnknown(u)' BY <1>1, <1>4, <1>5 DEF StandsUnknown, Node
<1>11. ControlAt(u) BY DEF ControlRef
<1>12. ControlAt(u)'
  <2>1. CASE st'[u] = st[u]
    <3>1. Runnable(u) => Runnable(u)' BY <1>4 DEF Runnable
    <3> QED BY <1>4, <1>5, <1>7, <1>8, <1>10, <1>11, <2>1, <3>1 DEF ControlAt
  <2>2. CASE st'[u] = "starting" /\ u \in known' \ active'
    BY <2>2 DEF ControlAt, Gone
  <2> QED BY <1>4, <2>1, <2>2
<1> QED BY <1>5, <1>6, <1>7, <1>8, <1>9, <1>10, <1>12

\* A step covers what it executes, waits for or rejects.
LEMMA CoverStep ==
  ASSUME HistorySuffices, TypeInv, RefBound, HistRef, ControlRef, CoverRef,
         NEW t \in Thread, Outcome(t)
  PROVE  CoverRef'
<1>1. /\ TypeOK
      /\ \A u \in Thread \ {t} : pc'[u] = pc[u]
      /\ pc' = pc \/ (~AtEnd(t) /\ pc' = [pc EXCEPT ![t] = @ + 1])
      /\ \A e, K : Executed(e, K) => Executed(e, K)'
  BY Moves
<1>2. \A u \in Thread \ {t} : /\ \A e : Standing(u, e)' <=> Standing(u, e)
                              /\ Waits(u) => Waits(u)'
                              /\ Rejected(u) => Rejected(u)'
  BY OthersKeep
<1>3. /\ MoveOn(t) \/ StayAt(t)
      /\ \A e \in covered' \ covered : Standing(t, e)
      /\ \A e \in coveredRf' \ coveredRf : Standing(t, e) /\ Op(t).op \in ReadOps
      /\ covered \subseteq covered' /\ coveredRf \subseteq coveredRf'
  BY DEF Outcome, Grows
<1>4. StayAt(t) => \A e : Standing(t, e)' <=> Standing(t, e)
  BY DEF StayAt, Standing, AtEnd, Op
<1>5. MoveOn(t) => \A e : Standing(t, e) => Executed(e, EventOps)'
                                            /\ (Op(t).op \in ReadOps => Executed(e, ReadOps)')
  <2> SUFFICES ASSUME MoveOn(t), NEW e, Standing(t, e)
               PROVE  Executed(e, EventOps)' /\ (Op(t).op \in ReadOps => Executed(e, ReadOps)')
    OBVIOUS
  <2>1. /\ ~AtEnd(t) /\ pc' = [pc EXCEPT ![t] = @ + 1] /\ Op(t).op \in EventOps /\ Op(t).ev = e
    BY DEF MoveOn, Standing
  <2> QED BY <1>1, <2>1, ExecutedStep
<1>6. ASSUME NEW e \in covered'
      PROVE  \/ Executed(e, EventOps)'
             \/ \E u \in Thread : Standing(u, e)' /\ (Waits(u)' \/ Rejected(u)')
  <2>1. CASE Standing(t, e)
    <3>1. CASE MoveOn(t) BY <1>5, <2>1, <3>1
    <3>2. CASE StayAt(t)
      <4>1. ~AtEnd(t) /\ Op(t).op \in EventOps /\ Op(t).ev \in covered' BY <1>6, <2>1 DEF Standing
      <4>2. Waits(t)' \/ Rejected(t)' BY <3>2, <4>1 DEF StayAt
      <4> QED BY <1>4, <2>1, <3>2, <4>2
    <3> QED BY <1>3, <3>1, <3>2
  <2>2. CASE ~Standing(t, e)
    <3>1. e \in covered BY <1>3, <1>6, <2>2
    <3>2. \/ Executed(e, EventOps)
          \/ \E u \in Thread : Standing(u, e) /\ (Waits(u) \/ Rejected(u))
      BY <3>1 DEF CoverRef
    <3> QED BY <1>1, <1>2, <2>2, <3>2
  <2> QED BY <2>1, <2>2
<1>7. ASSUME NEW e \in coveredRf'
      PROVE  \/ Executed(e, ReadOps)'
             \/ \E u \in Thread : Standing(u, e)' /\ Rejected(u)'
  <2>1. CASE e \in coveredRf
    <3>1. \/ Executed(e, ReadOps)
          \/ \E u \in Thread : Standing(u, e) /\ Rejected(u)
      BY <2>1 DEF CoverRef
    <3>2. CASE Executed(e, ReadOps) BY <1>1, <3>2
    <3>3. CASE \E u \in Thread : Standing(u, e) /\ Rejected(u)
      <4>1. PICK u \in Thread : Standing(u, e) /\ Rejected(u) BY <3>3
      <4>2. CASE u # t BY <1>2, <4>1, <4>2
      <4>3. CASE u = t
        <5>1. st[t] \in Gone BY <4>1, <4>3 DEF Rejected
        <5>2. StayAt(t) BY <1>3, <5>1 DEF MoveOn
        <5>3. ~AtEnd(t) /\ Op(t).op \in EventOps /\ Op(t).ev \in coveredRf'
          BY <1>7, <4>1, <4>3 DEF Standing
        <5>4. Rejected(t)' BY <5>2, <5>3 DEF StayAt
        <5> QED BY <1>4, <4>1, <4>3, <5>2, <5>4
      <4> QED BY <4>2, <4>3
    <3> QED BY <3>1, <3>2, <3>3
  <2>2. CASE e \notin coveredRf
    <3>1. Standing(t, e) /\ Op(t).op \in ReadOps BY <1>3, <1>7, <2>2
    <3>2. CASE MoveOn(t) BY <1>5, <3>1, <3>2
    <3>3. CASE StayAt(t)
      <4>1. ~AtEnd(t) /\ Op(t).op \in EventOps /\ Op(t).ev \in coveredRf'
        BY <1>7, <3>1 DEF Standing
      <4>2. Rejected(t)' BY <3>3, <4>1 DEF StayAt
      <4> QED BY <1>4, <3>1, <3>3, <4>2
    <3> QED BY <1>3, <3>2, <3>3
  <2> QED BY <2>1, <2>2
<1>8. ASSUME NEW e, Executed(e, EventOps)' PROVE e \in covered'
  <2>1. Executed(e, EventOps) => e \in covered
    <3>1. Executed(e, EventOps) => e \in Event
      <4> SUFFICES ASSUME NEW u \in Thread, NEW i \in 1..(pc[u] - 1),
                          Prog[u][i].op \in EventOps, Prog[u][i].ev = e
                   PROVE  e \in Event
        BY DEF Executed
      <4>1. /\ pc[u] \in Nat \ {0} /\ pc[u] <= Ref.pos[u]
            /\ Ref.pos[u] \in Nat /\ Ref.pos[u] <= Len(Prog[u]) + 1 /\ Len(Prog[u]) \in Nat
        BY <1>1, OpAt, RefIs DEF RefBound
      <4>2. i \in DOMAIN Prog[u]
        <5>1. pc[u] <= Len(Prog[u]) + 1 BY <4>1
        <5> QED BY <4>1, <5>1, IndexType
      <4> QED BY <4>2, InstrType DEF WellFormedInstr
    <3> QED BY <3>1 DEF CoverRef
  <2>2. \/ Executed(e, EventOps)
        \/ ~AtEnd(t) /\ pc' # pc /\ Op(t).op \in EventOps /\ Op(t).ev = e
    BY <1>1, <1>8, ExecutedStep
  <2> QED BY <1>3, <2>1, <2>2 DEF MoveOn, StayAt
<1>9. ASSUME NEW e, e \in Event, Executed(e, ReadOps)' PROVE e \in coveredRf'
  <2>1. \/ Executed(e, ReadOps)
        \/ ~AtEnd(t) /\ pc' # pc /\ Op(t).op \in ReadOps /\ Op(t).ev = e
    BY <1>1, <1>9, ExecutedStep
  <2> QED BY <1>3, <1>9, <2>1 DEF MoveOn, StayAt, CoverRef
<1> QED BY <1>6, <1>7, <1>8, <1>9 DEF CoverRef

\* The next events stay those of the threads that stand there.
LEMMA NextStep ==
  ASSUME HistorySuffices, TypeInv, RefBound, HistRef, ControlRef, NextRef,
         NEW t \in Thread, Outcome(t)
  PROVE  NextRef'
<1>1. \A u \in Thread \ {t} : Op(u)' = Op(u) /\ (StandsUnknown(u) => StandsUnknown(u)')
  BY OthersKeep
<1>2. /\ StandsUnknown(t) => StandsUnknown(t)'
      /\ \A e \in nextEvents' \ nextEvents : StandsUnknown(t)' /\ Op(t)'.ev = e
      /\ MoveOn(t) \/ StayAt(t)
  BY DEF Outcome
<1>3. StandsUnknown(t) => Op(t)' = Op(t)
  <2> SUFFICES ASSUME StandsUnknown(t) PROVE Op(t)' = Op(t) OBVIOUS
  <2>1. CASE StayAt(t) BY <2>1 DEF StayAt, Op
  <2>2. CASE MoveOn(t)
    <3>1. Op(t).op \in EventOps /\ Op(t).ev \notin Node BY DEF StandsUnknown
    <3> QED BY <2>2, <3>1 DEF MoveOn, Carried, Node
  <2> QED BY <1>2, <2>1, <2>2
<1> SUFFICES ASSUME NEW e \in nextEvents'
             PROVE  \E u \in Thread : StandsUnknown(u)' /\ Op(u)'.ev = e
  BY DEF NextRef
<1>4. CASE e \in nextEvents
  <2>1. PICK u \in Thread : StandsUnknown(u) /\ Op(u).ev = e BY <1>4 DEF NextRef
  <2> QED BY <1>1, <1>2, <1>3, <2>1
<1>5. CASE e \notin nextEvents BY <1>2, <1>5
<1> QED BY <1>4, <1>5

\* A step leaves the flags of every thread as its control point has them.
LEMMA ControlStep ==
  ASSUME HistorySuffices, TypeInv, RefBound, HistRef, ControlRef, NEW t \in Thread, Outcome(t)
  PROVE  ControlRef'
<1>1. \A u \in Thread \ {t} : ControlAt(u)' BY OthersKeep
<1>2. ControlAt(t)' BY DEF Outcome
<1> QED BY <1>1, <1>2 DEF ControlRef

\* The scheduler follows the reference run.
FollowsRef == RefBound /\ HistRef /\ CoverRef /\ NextRef /\ ControlRef

\* A step with an outcome keeps to the reference run.
LEMMA OutcomeStep ==
  ASSUME HistorySuffices, TypeInv, FollowsRef, NEW t \in Thread, Outcome(t)
  PROVE  FollowsRef'
BY BoundStep, HistStep, CoverStep, NextStep, ControlStep DEF FollowsRef

-----------------------------------------------------------------------------
(* What each action does, in those terms.                                  *)

Stands(t) == Waits(t) \/ StandsUnknown(t)

\* The part of a step that decides the exit status.
ExitOutcome(t) ==
  /\ proc = Running
  /\ nextEvents' = nextEvents \/ lock = None
  /\ \/ /\ UNCHANGED <<exiting, lock, shm, proc>>
        /\ \/ st'[t] = st[t]
           \/ {st[t], st'[t]} \cap {"publish", "exiting", "dying", "dying0"} = {}
     \/ /\ lock = None /\ st[t] \notin {"exiting", "dying"} /\ proc' = proc
        /\ \/ \E code \in Verdicts(graph) \ {0, INSTANTIATED_BUT_NOT_DONE} : Terminate(t, code)
           \/ ShouldExit' /\ Terminate(t, TerminalCode') /\ Stands(t)'
     \/ Publish(t) \/ VerifyAtexit(t) \/ ProcessExit(t)

\* A step that neither starts a thread nor ends main.
Plain(t) ==
  /\ \E c \in Control \ {"none", "starting", "creating", "mapping"} :
        st' = [st EXCEPT ![t] = c] /\ (t = Main => c \notin {"ended", "dead"})
  /\ st[t] \notin {"none", "creating", "mapping", "dead"}
  /\ everStarted' \subseteq everStarted \cup {t}
  /\ \/ pc' = pc
     \/ /\ ~AtEnd(t) /\ pc' = [pc EXCEPT ![t] = @ + 1]
        /\ Op(t).op = "join" => st[Op(t).child] = "dead"
ForkOutcome(t) == Plain(t) \/ ThreadCreated(t) \/ PthreadCreateOk(t) \/ MapThread(t)

\* No thread is past the end of its program.
PcBound == \A t \in Thread : pc[t] <= Len(Prog[t]) + 1

\* What holds before a step.
Context ==
  /\ ForkJoin /\ AllCreated
  /\ TypeInv /\ PcBound /\ CountersExact /\ BlockedForGood /\ WaitingCovered
  /\ FollowsRef /\ CreateRef /\ JoinRef

\* The context at a thread.
LEMMA ContextAt ==
  ASSUME Context, NEW t \in Thread
  PROVE  /\ TypeOK /\ PcInv /\ RefBound /\ CoverRef /\ HistRef /\ ControlAt(t)
         /\ pc \in [Thread -> Nat \ {0}] /\ st \in [Thread -> Control]
         /\ waiting \in [Thread -> Event \cup {None}]
         /\ active \subseteq Thread /\ known \subseteq Thread
         /\ (t \in blockedUnk => st[t] \in UnknownPoints)
BY DEF Context, FollowsRef, TypeInv, TypeOK, ProgType, FlagType, ControlRef, BlockedForGood

\* Only main creates and joins.
LEMMA OnlyMain ==
  ASSUME ForkJoin, TypeOK, NEW t \in Thread, ~AtEnd(t), Op(t).op \in {"create", "join"}
  PROVE  t = Main
<1>1. pc[t] \in DOMAIN Prog[t] /\ Op(t) = Prog[t][pc[t]] BY OpAt
<1> QED BY <1>1 DEF ForkJoin, EventOps

\* A step that changes nothing but the control point of t.
LEMMA IdleOutcome ==
  ASSUME Context, NEW t \in Thread, NEW c, c # "none", st' = [st EXCEPT ![t] = c], st[t] # "none",
         UNCHANGED <<graph, pc, hist, covered, coveredRf, nextEvents, active, blockedUnk, joinWait,
                     waiting>>,
         known \subseteq known',
         st[t] \in Gone => c \in Gone, ControlAt(t)'
  PROVE  Outcome(t)
<1>0. TypeOK /\ RefBound /\ CoverRef /\ st \in [Thread -> Control] BY ContextAt
<1>1. st'[t] = c /\ \A u \in Thread \ {t} : st'[u] = st[u] BY <1>0
<1>2. (AtEnd(t)' <=> AtEnd(t)) /\ Op(t)' = Op(t) BY DEF AtEnd, Op
<1>3. Waits(t) => Waits(t)' BY <1>2 DEF Waits
<1>4. Rejected(t) => Rejected(t)' BY <1>1 DEF Rejected, Loud, InHistory
<1>5. StandsUnknown(t) => StandsUnknown(t)' BY <1>2 DEF StandsUnknown, Node
<1>6. StayAt(t) BY <1>0, <1>3, <1>4, CoveredStands DEF StayAt
<1>7. Grows BY DEF Grows
<1>8. OthersStay(t) BY <1>1 DEF OthersStay
<1> QED BY <1>1, <1>5, <1>6, <1>7, <1>8 DEF Outcome

\* The same for a thread outside the event handlers.
LEMMA QuietOutcome ==
  ASSUME Context, NEW t \in Thread, NEW c, c # "none", st' = [st EXCEPT ![t] = c], st[t] # "none",
         UNCHANGED <<graph, pc, hist, covered, coveredRf, nextEvents>>,
         AtEnd(t) \/ Op(t).op \notin EventOps,
         active \ {t} = active' \ {t}, blockedUnk \ {t} = blockedUnk' \ {t},
         joinWait \ {t} = joinWait' \ {t}, known \ {t} \subseteq known',
         \A u \in Thread \ {t} : waiting'[u] = waiting[u],
         ControlAt(t)'
  PROVE  Outcome(t)
<1>0. TypeOK /\ st \in [Thread -> Control] BY ContextAt
<1>1. st'[t] = c /\ \A u \in Thread \ {t} : st'[u] = st[u] BY <1>0
<1>2. StayAt(t) BY DEF StayAt
<1>3. Grows BY DEF Grows
<1>4. OthersStay(t) BY <1>1 DEF OthersStay
<1>5. ~StandsUnknown(t) BY DEF StandsUnknown
<1> QED BY <1>1, <1>2, <1>3, <1>4, <1>5 DEF Outcome

\* The announcement of a new thread moves no thread.
LEMMA ThreadCreatedOutcome ==
  ASSUME Context, NEW t \in Thread, ThreadCreated(t)
  PROVE  Outcome(t) /\ ExitOutcome(t) /\ ForkOutcome(t)
<1> USE DEF progVars, flagVars, unkVars, rfVars, treeVars, exitVars
<1>0. ControlAt(t) /\ st \in [Thread -> Control] BY ContextAt
<1>1. /\ st[t] = "run" /\ st' = [st EXCEPT ![t] = "creating"] /\ proc = Running
      /\ UNCHANGED <<graph, pc, hist, covered, coveredRf, nextEvents, active, blockedUnk, joinWait,
                     waiting, exiting, lock, shm, proc>>
      /\ known \subseteq known'
  BY <1>0 DEF ThreadCreated, AtEvent, Free, Goto
<1>2. st'[t] = "creating" BY <1>0, <1>1
<1>3. Runnable(t)' BY <1>0, <1>1 DEF ControlAt, Runnable
<1>4. ControlAt(t)' BY <1>2, <1>3 DEF ControlAt, Gone
<1>5. Outcome(t) BY <1>1, <1>4, IdleOutcome DEF Gone
<1>6. ExitOutcome(t) BY <1>1, <1>2 DEF ExitOutcome
<1> QED BY <1>5, <1>6 DEF ForkOutcome

\* A successful pthread_create starts a thread that the reference run has started.
LEMMA PthreadCreateOkOutcome ==
  ASSUME Context, NEW t \in Thread, PthreadCreateOk(t)
  PROVE  Outcome(t) /\ ExitOutcome(t) /\ ForkOutcome(t)
<1> USE DEF progVars, flagVars, unkVars, rfVars, treeVars, exitVars
<1>0. TypeOK /\ PcInv /\ RefBound /\ ControlAt(t) /\ st \in [Thread -> Control]
      /\ pc \in [Thread -> Nat \ {0}]
  BY ContextAt
<1> DEFINE c == Op(t).child
<1>1. /\ st[t] = "creating" /\ proc = Running /\ st[c] = "none"
      /\ st' = [st EXCEPT ![t] = "mapping", ![c] = "starting"]
      /\ UNCHANGED <<graph, pc, hist, covered, coveredRf, nextEvents, active, blockedUnk, joinWait,
                     waiting, known, exiting, lock, shm, proc>>
  BY DEF PthreadCreateOk
<1>2. ~AtEnd(t) /\ Op(t).op = "create" BY <1>0, <1>1 DEF PcInv
<1>3. c \in Thread \ {t} BY <1>0, <1>2, OpType DEF WellFormedInstr
<1>4. t = Main BY <1>0, <1>2, OnlyMain DEF Context
<1>5. c \in known \ active BY <1>1, <1>4 DEF Context, CreateRef
<1>6. Carried(graph, Ref, Op(t)) BY <1>2 DEF Carried, EventOps, ReadOps
<1>7. RefStarted(Ref, c)
  <2>1. pc[t] < Ref.pos[t] BY <1>0, <1>1, <1>2, <1>6, Ahead
  <2>2. pc[t] \in Nat \ {0} /\ Ref.pos[t] \in Nat BY <1>0, RefIs
  <2>3. pc[t] \in 1..(Ref.pos[t] - 1) BY <2>1, <2>2
  <2> QED BY <1>2, <2>3 DEF RefStarted, Op
<1> HIDE DEF c
<1>8. st'[t] = "mapping" /\ \A u \in Thread \ {t} :
         st'[u] = st[u] \/ (u = c /\ st[u] = "none" /\ st'[u] = "starting")
  BY <1>0, <1>1, <1>3
<1>9. OthersStay(t) BY <1>1, <1>5, <1>7, <1>8 DEF OthersStay
<1>10. StayAt(t) BY <1>1, <1>2 DEF StayAt, EventOps
<1>11. Grows BY <1>1 DEF Grows
<1>12. ~StandsUnknown(t) BY <1>2 DEF StandsUnknown, EventOps
<1>13. ControlAt(t)'
  <2>1. Runnable(t)' BY <1>0, <1>1 DEF ControlAt, Runnable
  <2> QED BY <1>8, <2>1 DEF ControlAt, Gone
<1>14. Outcome(t) BY <1>1, <1>8, <1>9, <1>10, <1>11, <1>12, <1>13 DEF Outcome
<1>15. ExitOutcome(t) BY <1>1, <1>8 DEF ExitOutcome
<1> QED BY <1>14, <1>15 DEF ForkOutcome

\* An instruction that is not an event is carried out without a trace.
LEMMA NoStore ==
  ASSUME NEW t \in Thread, Op(t).op \notin WritingOps
  PROVE  StoreOf(graph, Ref, Op(t)) = {}
BY DEF StoreOf, WritingOps

\* The mapping of the new thread completes the create instruction.
LEMMA MapThreadOutcome ==
  ASSUME Context, NEW t \in Thread, MapThread(t)
  PROVE  Outcome(t) /\ ExitOutcome(t) /\ ForkOutcome(t)
<1> USE DEF progVars, flagVars, unkVars, rfVars, treeVars, exitVars
<1>0. TypeOK /\ PcInv /\ RefBound /\ ControlAt(t) /\ st \in [Thread -> Control]
      /\ pc \in [Thread -> Nat \ {0}]
  BY ContextAt
<1>1. /\ st[t] = "mapping" /\ proc = Running
      /\ st' = [st EXCEPT ![t] = "run"] /\ pc' = [pc EXCEPT ![t] = @ + 1]
      /\ UNCHANGED <<graph, hist, covered, coveredRf, nextEvents, active, blockedUnk, joinWait,
                     waiting, known, exiting, lock, shm, proc>>
  BY DEF MapThread, Advance, Goto
<1>2. ~AtEnd(t) /\ Op(t).op = "create" BY <1>0, <1>1 DEF PcInv
<1>3. Carried(graph, Ref, Op(t)) BY <1>2 DEF Carried, EventOps, ReadOps
<1>4. StoreOf(graph, Ref, Op(t)) = {} BY <1>2, NoStore DEF WritingOps
<1>5. st'[t] = "run" /\ \A u \in Thread \ {t} : st'[u] = st[u] /\ pc'[u] = pc[u] BY <1>0, <1>1
<1>6. OthersStay(t) BY <1>1, <1>5 DEF OthersStay
<1>7. MoveOn(t) BY <1>1, <1>2, <1>3, <1>4 DEF MoveOn, EventOps, ReadOps, Gone
<1>8. Grows BY <1>1 DEF Grows
<1>9. ~StandsUnknown(t) BY <1>2 DEF StandsUnknown, EventOps
<1>10. ControlAt(t)'
  <2>1. Runnable(t)' BY <1>0, <1>1 DEF ControlAt, Runnable
  <2> QED BY <1>5, <2>1 DEF ControlAt, Gone
<1>11. Outcome(t) BY <1>1, <1>5, <1>6, <1>7, <1>8, <1>9, <1>10 DEF Outcome
<1>12. ExitOutcome(t) BY <1>1, <1>5 DEF ExitOutcome
<1> QED BY <1>11, <1>12 DEF ForkOutcome

\* When a step is plain.
LEMMA PlainIs ==
  ASSUME NEW t \in Thread, NEW c \in Control \ {"none", "starting", "creating", "mapping"},
         st' = [st EXCEPT ![t] = c], t = Main => c \notin {"ended", "dead"},
         st[t] \notin {"none", "creating", "mapping", "dead"},
         everStarted' \subseteq everStarted \cup {t},
         \/ pc' = pc
         \/ /\ ~AtEnd(t) /\ pc' = [pc EXCEPT ![t] = @ + 1]
            /\ Op(t).op = "join" => st[Op(t).child] = "dead"
  PROVE  Plain(t)
BY DEF Plain

\* A new thread becomes active.
LEMMA ThreadRegisteredOutcome ==
  ASSUME Context, NEW t \in Thread, ThreadRegistered(t)
  PROVE  Outcome(t) /\ ExitOutcome(t) /\ ForkOutcome(t)
<1> USE DEF progVars, flagVars, unkVars, rfVars, treeVars, exitVars
<1>0. /\ TypeOK /\ RefBound /\ CoverRef /\ ControlAt(t) /\ st \in [Thread -> Control]
      /\ waiting \in [Thread -> Event \cup {None}]
      /\ (t \in blockedUnk => st[t] \in UnknownPoints)
  BY ContextAt
<1>1. /\ st[t] = "starting" /\ proc = Running
      /\ st' = [st EXCEPT ![t] = "run"]
      /\ active' = active \cup {t} /\ known' = known \cup {t}
      /\ everStarted' = everStarted \cup ({t} \ known)
      /\ blockedUnk' = blockedUnk \ {t} /\ joinWait' = joinWait \ {t}
      /\ waiting' = [waiting EXCEPT ![t] = None]
      /\ UNCHANGED <<graph, pc, hist, covered, coveredRf, nextEvents, exiting, lock, shm, proc>>
  BY DEF ThreadRegistered, Free, EnsureActive, Goto
<1>2. st'[t] = "run" /\ \A u \in Thread \ {t} : st'[u] = st[u] /\ waiting'[u] = waiting[u]
  BY <1>0, <1>1
<1>3. waiting'[t] = None BY <1>0, <1>1
<1>4. t \notin active BY <1>0, <1>1 DEF ControlAt
<1>5. ~Waits(t) /\ ~Rejected(t) BY <1>4 DEF Waits, Rejected, Loud
<1>6. StayAt(t) BY <1>0, <1>1, <1>5, CoveredStands DEF StayAt
<1>7. OthersStay(t) BY <1>1, <1>2 DEF OthersStay
<1>8. Grows BY <1>1 DEF Grows
<1>9. ~StandsUnknown(t) BY <1>0, <1>1 DEF StandsUnknown, UnknownPoints
<1>10. ControlAt(t)'
  <2>1. Runnable(t)' BY <1>1, <1>3 DEF Runnable
  <2> QED BY <1>2, <2>1 DEF ControlAt, Gone
<1>11. Outcome(t) BY <1>1, <1>2, <1>6, <1>7, <1>8, <1>9, <1>10 DEF Outcome
<1>12. ExitOutcome(t) BY <1>1, <1>2 DEF ExitOutcome
<1>13. Plain(t) BY <1>1, PlainIs DEF Control
<1> QED BY <1>11, <1>12, <1>13 DEF ForkOutcome

\* A thread at its end is done.
LEMMA ThreadEndOutcome ==
  ASSUME Context, NEW t \in Thread, ThreadEnd(t)
  PROVE  Outcome(t) /\ ExitOutcome(t) /\ ForkOutcome(t)
<1> USE DEF progVars, flagVars, unkVars, rfVars, treeVars, exitVars
<1>0. st \in [Thread -> Control] /\ waiting \in [Thread -> Event \cup {None}] BY ContextAt
<1>1. /\ st[t] = "run" /\ proc = Running /\ AtEnd(t) /\ t # Main
      /\ st' = [st EXCEPT ![t] = "ended"]
      /\ active' = active \ {t} /\ known' = known \ {t}
      /\ blockedUnk' = blockedUnk \ {t} /\ joinWait' = joinWait \ {t}
      /\ waiting' = [waiting EXCEPT ![t] = None]
      /\ UNCHANGED <<graph, pc, hist, covered, coveredRf, nextEvents, everStarted, exiting, lock,
                     shm, proc>>
  BY DEF ThreadEnd, Free, Unregister, Goto
<1>2. st'[t] = "ended" /\ \A u \in Thread \ {t} : waiting'[u] = waiting[u] BY <1>0, <1>1
<1>3. ControlAt(t)' BY <1>1, <1>2 DEF ControlAt, Gone, AtEnd
<1>4. Outcome(t) BY <1>1, <1>2, <1>3, QuietOutcome
<1>5. ExitOutcome(t) BY <1>1, <1>2 DEF ExitOutcome
<1>6. Plain(t) BY <1>1, PlainIs DEF Control
<1> QED BY <1>4, <1>5, <1>6 DEF ForkOutcome

\* A thread that exits leaves the flags.
LEMMA ThreadExitOutcome ==
  ASSUME Context, NEW t \in Thread, ThreadExit(t)
  PROVE  Outcome(t) /\ ExitOutcome(t) /\ ForkOutcome(t)
<1> USE DEF progVars, flagVars, unkVars, rfVars, treeVars, exitVars
<1>0. ControlAt(t) /\ st \in [Thread -> Control] /\ waiting \in [Thread -> Event \cup {None}]
  BY ContextAt
<1>1. /\ st[t] = "ended" /\ proc = Running
      /\ st' = [st EXCEPT ![t] = "dead"]
      /\ UNCHANGED <<graph, pc, hist, covered, coveredRf, nextEvents, everStarted, exiting, lock,
                     shm, proc>>
      /\ \/ UNCHANGED <<active, known, blockedUnk, joinWait, waiting>>
         \/ /\ active' = active \ {t} /\ known' = known \ {t}
            /\ blockedUnk' = blockedUnk \ {t} /\ joinWait' = joinWait \ {t}
            /\ waiting' = [waiting EXCEPT ![t] = None]
  BY DEF ThreadExit, Free, Unregister, Goto
<1>2. /\ st'[t] = "dead" /\ \A u \in Thread \ {t} : waiting'[u] = waiting[u]
      /\ AtEnd(t) /\ t \notin active /\ t # Main
  BY <1>0, <1>1 DEF ControlAt, Context, CreateRef
<1>3. ControlAt(t)' BY <1>1, <1>2 DEF ControlAt, Gone, AtEnd
<1>4. Outcome(t) BY <1>1, <1>2, <1>3, QuietOutcome
<1>5. ExitOutcome(t) BY <1>1, <1>2 DEF ExitOutcome
<1>6. Plain(t) BY <1>1, <1>2, PlainIs DEF Control
<1> QED BY <1>4, <1>5, <1>6 DEF ForkOutcome

\* A thread that begins a join is not stuck for deadlock detection.
LEMMA JoinBeginOutcome ==
  ASSUME Context, NEW t \in Thread, JoinBegin(t)
  PROVE  Outcome(t) /\ ExitOutcome(t) /\ ForkOutcome(t)
<1> USE DEF progVars, flagVars, unkVars, rfVars, treeVars, exitVars
<1>0. ControlAt(t) /\ st \in [Thread -> Control] /\ waiting \in [Thread -> Event \cup {None}]
  BY ContextAt
<1>1. Runnable(t) BY <1>0 DEF JoinBegin, AtEvent, ControlAt
<1>2. /\ st[t] = "run" /\ proc = Running /\ Op(t).op = "join"
      /\ st' = [st EXCEPT ![t] = "join"]
      /\ joinWait' = joinWait \cup {t}
      /\ waiting' = [waiting EXCEPT ![t] = None]
      /\ UNCHANGED <<graph, pc, hist, covered, coveredRf, nextEvents, active, known, blockedUnk,
                     everStarted, exiting, lock, shm, proc>>
  BY <1>1 DEF JoinBegin, AtEvent, AtOp, Op, Free, Goto, Runnable
<1>3. /\ st'[t] = "join" /\ waiting'[t] = None
      /\ \A u \in Thread \ {t} : waiting'[u] = waiting[u]
  BY <1>0, <1>2
<1>4. ControlAt(t)' BY <1>1, <1>2, <1>3 DEF ControlAt, Gone, Runnable
<1>5. Outcome(t) BY <1>2, <1>3, <1>4, QuietOutcome DEF EventOps
<1>6. ExitOutcome(t) BY <1>2, <1>3 DEF ExitOutcome
<1>7. Plain(t) BY <1>2, PlainIs DEF Control
<1> QED BY <1>5, <1>6, <1>7 DEF ForkOutcome

\* Whoever is joined exists.
LEMMA NoJoinSkip ==
  ASSUME Context, NEW t \in Thread, JoinSkip(t)
  PROVE  FALSE
<1>0. TypeOK BY ContextAt
<1>1. ~AtEnd(t) /\ Op(t).op = "join" /\ st[Op(t).child] = "none"
  <2>1. AtOp(t, "join") /\ st[Op(t).child] = "none" BY DEF JoinSkip, AtEvent
  <2>2. Len(Prog[t]) \in Nat /\ pc[t] \in Nat BY <1>0, OpAt
  <2> QED BY <2>1, <2>2 DEF AtOp, AtEnd, Op
<1>2. t = Main BY <1>0, <1>1, OnlyMain DEF Context
<1> DEFINE k == pc[Main]
<1>3. k \in DOMAIN Prog[Main] /\ Op(t) = Prog[Main][k] BY <1>0, <1>1, <1>2, OpAt
<1>4. PICK i \in 1..(k - 1) : Prog[Main][i].op = "create" /\ Prog[Main][i].child = Prog[Main][k].child
  <2> HIDE DEF k
  <2>1. Prog[Main][k].op = "join" BY <1>1, <1>3
  <2> QED BY <1>3, <2>1 DEF Context, ForkJoin
<1>5. st[Prog[Main][i].child] # "none" BY <1>2, <1>4 DEF Context, AllCreated
<1> QED BY <1>1, <1>3, <1>4, <1>5

\* A join ends when the reference run has ended the joined thread.
LEMMA JoinEndOutcome ==
  ASSUME Context, NEW t \in Thread, JoinEnd(t)
  PROVE  Outcome(t) /\ ExitOutcome(t) /\ ForkOutcome(t)
<1> USE DEF progVars, flagVars, unkVars, rfVars, treeVars, exitVars
<1>0. /\ TypeOK /\ PcInv /\ RefBound /\ ControlAt(t) /\ st \in [Thread -> Control]
      /\ pc \in [Thread -> Nat \ {0}] /\ (t \in blockedUnk => st[t] \in UnknownPoints)
  BY ContextAt
<1> DEFINE c == Op(t).child
<1>a. st[t] = "join" BY DEF JoinEnd
<1>b. t \in active \ blockedUnk /\ waiting[t] = None BY <1>0, <1>a DEF ControlAt
<1>1. /\ st[t] = "join" /\ proc = Running /\ st[c] = "dead"
      /\ st' = [st EXCEPT ![t] = "run"] /\ pc' = [pc EXCEPT ![t] = @ + 1]
      /\ joinWait' = joinWait \ {t}
      /\ UNCHANGED <<graph, hist, covered, coveredRf, nextEvents, active, blockedUnk, waiting, known,
                     everStarted, exiting, lock, shm, proc>>
  BY <1>b DEF JoinEnd, Free, Advance, Goto
<1>2. ~AtEnd(t) /\ Op(t).op = "join" BY <1>0, <1>1 DEF PcInv
<1>3. c \in Thread BY <1>0, <1>2, OpType DEF WellFormedInstr
<1>4. RefEnded(Ref, c)
  <2>1. AtEnd(c) BY <1>1, <1>3 DEF Context, FollowsRef, ControlRef, ControlAt
  <2>2. pc[c] <= Ref.pos[c] /\ pc[c] \in Nat /\ Ref.pos[c] \in Nat /\ Len(Prog[c]) \in Nat
    BY <1>0, <1>3, OpAt, RefIs DEF RefBound
  <2> HIDE DEF c
  <2> QED BY <2>1, <2>2 DEF AtEnd, RefEnded
<1>5. Carried(graph, Ref, Op(t)) BY <1>2, <1>4 DEF Carried, EventOps, ReadOps
<1>6. StoreOf(graph, Ref, Op(t)) = {} BY <1>2, NoStore DEF WritingOps
<1>7. st'[t] = "run" /\ \A u \in Thread \ {t} : st'[u] = st[u] /\ pc'[u] = pc[u] BY <1>0, <1>1
<1>8. OthersStay(t) BY <1>1, <1>7 DEF OthersStay
<1>9. MoveOn(t) BY <1>1, <1>2, <1>5, <1>6 DEF MoveOn, EventOps, ReadOps, Gone
<1>10. Grows BY <1>1 DEF Grows
<1>11. ~StandsUnknown(t) BY <1>2 DEF StandsUnknown, EventOps
<1>12. ControlAt(t)'
  <2>1. Runnable(t)' BY <1>1, <1>b DEF Runnable
  <2> QED BY <1>7, <2>1 DEF ControlAt, Gone
<1>13. Outcome(t) BY <1>1, <1>7, <1>8, <1>9, <1>10, <1>11, <1>12 DEF Outcome
<1>14. ExitOutcome(t) BY <1>1, <1>7 DEF ExitOutcome
<1>15. Plain(t) BY <1>1, <1>2, PlainIs DEF Control
<1> QED BY <1>13, <1>14, <1>15 DEF ForkOutcome

\* pthread_create fails: the thread that was to be started is missing.
LEMMA FailLeavesOut ==
  ASSUME Context, NEW t \in Thread, PthreadCreateFail(t)
  PROVE  ~AllCreated'
<1>0. TypeOK /\ PcInv /\ st \in [Thread -> Control] /\ pc \in [Thread -> Nat \ {0}] BY ContextAt
<1> DEFINE c == Op(t).child
           k == pc[t]
<1>1. /\ st[t] = "creating" /\ st' = [st EXCEPT ![t] = "run"]
      /\ pc' = [pc EXCEPT ![t] = @ + 1]
  BY DEF PthreadCreateFail, Advance, Goto
<1>2. ~AtEnd(t) /\ Op(t).op = "create" BY <1>0, <1>1 DEF PcInv
<1>3. t = Main BY <1>0, <1>2, OnlyMain DEF Context
<1>4. st[c] = "none" BY <1>1, <1>3 DEF Context, CreateRef
<1>5. c \in Thread \ {t} BY <1>0, <1>2, OpType DEF WellFormedInstr
<1>6. Op(t) = Prog[t][k] /\ k \in Nat \ {0} BY <1>0, <1>2, OpAt
<1>7. pc'[t] = k + 1 BY <1>0, <1>1
<1> HIDE DEF c, k
<1>8. st'[c] = "none" BY <1>0, <1>1, <1>4, <1>5
<1>9. k \in 1..(pc'[t] - 1) BY <1>6, <1>7
<1>10. Prog[t][k].op = "create" /\ st'[Prog[t][k].child] = "none" BY <1>2, <1>6, <1>8 DEF c
<1> QED BY <1>9, <1>10 DEF AllCreated

\* main returns at its end.
LEMMA MainReturnOutcome ==
  ASSUME Context, NEW t \in Thread, MainReturn(t)
  PROVE  Outcome(t) /\ ExitOutcome(t) /\ ForkOutcome(t)
<1> USE DEF progVars, flagVars, unkVars, rfVars, treeVars, exitVars
<1>0. ControlAt(t) /\ st \in [Thread -> Control] BY ContextAt
<1>1. /\ st[t] = "run" /\ proc = Running /\ t = Main /\ AtEnd(t)
      /\ st' = [st EXCEPT ![t] = "returning"]
      /\ UNCHANGED <<graph, pc, hist, covered, coveredRf, nextEvents, active, known, blockedUnk,
                     joinWait, waiting, everStarted, exiting, lock, shm, proc>>
  BY DEF MainReturn, Goto
<1>2. st'[t] = "returning" BY <1>0, <1>1
<1>3. Loud(t)' BY <1>0, <1>1 DEF ControlAt, Runnable, Loud
<1>4. ControlAt(t)' BY <1>1, <1>2, <1>3 DEF ControlAt, Gone, AtEnd
<1>5. Outcome(t) BY <1>1, <1>4, IdleOutcome DEF Gone
<1>6. ExitOutcome(t) BY <1>1, <1>2 DEF ExitOutcome
<1>7. Plain(t) BY <1>1, PlainIs DEF Control
<1> QED BY <1>5, <1>6, <1>7 DEF ForkOutcome

\* A wake-up without a signal changes nothing.
LEMMA SpuriousWakeOutcome ==
  ASSUME Context, NEW t \in Thread, SpuriousWake(t)
  PROVE  Outcome(t) /\ ExitOutcome(t) /\ ForkOutcome(t)
<1> USE DEF progVars, flagVars, unkVars, rfVars, treeVars, exitVars
<1>0. ControlAt(t) /\ st \in [Thread -> Control] BY ContextAt
<1>1. /\ st[t] \in {"rfwait", "unknown"} /\ proc = Running
      /\ UNCHANGED <<graph, pc, st, hist, covered, coveredRf, nextEvents, active, known, blockedUnk,
                     joinWait, waiting, everStarted, exiting, lock, shm, proc>>
  BY DEF SpuriousWake
<1> DEFINE c == st[t]
<1>2. st' = [st EXCEPT ![t] = c] BY <1>0, <1>1
<1>3. Op(t)' = Op(t) /\ (AtEnd(t)' <=> AtEnd(t)) BY <1>1 DEF Op, AtEnd
<1>4. Waits(t) => Waits(t)' BY <1>1, <1>3 DEF Waits
<1>5. StandsUnknown(t) => StandsUnknown(t)' BY <1>1, <1>3 DEF StandsUnknown, Node
<1>6. ControlAt(t)' BY <1>0, <1>1, <1>4, <1>5 DEF ControlAt, Gone
<1>7. c \in {"rfwait", "unknown"} BY <1>1
<1> HIDE DEF c
<1>8. Outcome(t)
  <2>1. st[t] # "none" /\ c # "none" /\ st[t] \notin Gone BY <1>1, <1>7 DEF Gone
  <2> QED BY <1>1, <1>2, <1>6, <2>1, IdleOutcome
<1>9. ExitOutcome(t) BY <1>1 DEF ExitOutcome
<1>10. Plain(t) BY <1>1, <1>2, <1>7, PlainIs DEF Control
<1> QED BY <1>8, <1>9, <1>10 DEF ForkOutcome

-----------------------------------------------------------------------------
(* The event handlers.                                                     *)

RefFaults == {RefFault(graph, Ref, t) : t \in Thread} \ {0}

\* A thread that can never go on decides the verdict.
LEMMA FaultVerdict ==
  ASSUME NEW t \in Thread, NEW c, RefFault(graph, Ref, t) = c, c # 0
  PROVE  c \in Verdicts(graph)
<1>1. c \in RefFaults BY DEF RefFaults
<1>2. Verdicts(graph) = IF RefFaults # {} THEN RefFaults ELSE Verdicts(graph)
  BY DEF Verdicts, RefFaults, Ref
<1> QED BY <1>1, <1>2

\* A thread whose handler finds its node unfit, without a source, or its source
\* elsewhere or with the wrong value.
Unfit(o) == graph.type[o.ev] \notin RefTypes[o.op]
Sourceless(o) == o.op \in ReadOps /\ o.ev \notin DOMAIN graph.rf
Contradicts(o) ==
  /\ o.op \in ReadOps /\ o.ev \in DOMAIN graph.rf
  /\ LET w == graph.rf[o.ev]
     IN  /\ w \in DOMAIN Ref.wr
         /\ \/ Ref.wr[w].loc # o.loc
            \/ o.op = "cas" /\ CasPossible(o, graph.type[o.ev], Ref.wr[w].val) = {}

\* An event that its node rejects is a fault of the reference run.
LEMMA Faulty ==
  ASSUME TypeOK, RefBound, NEW t \in Thread, ~AtEnd(t), st[t] # "none",
         Op(t).op \in EventOps, Op(t).ev \in Node
  PROVE  /\ Unfit(Op(t)) => INVALID_INPUT \in Verdicts(graph)
         /\ ~Unfit(Op(t)) /\ Sourceless(Op(t)) => INVALID_INPUT \in Verdicts(graph)
         /\ ~Unfit(Op(t)) /\ Contradicts(Op(t)) => NOT_INSTANTIABLE \in Verdicts(graph)
<1> DEFINE o == Op(t)
<1>1. ASSUME ~Carried(graph, Ref, o)
      PROVE  RefFault(graph, Ref, t) =
               IF graph.type[o.ev] \notin RefTypes[o.op] THEN INVALID_INPUT
               ELSE IF o.op \notin ReadOps THEN 0
               ELSE IF o.ev \notin DOMAIN graph.rf THEN INVALID_INPUT
               ELSE IF graph.rf[o.ev] \notin DOMAIN Ref.wr THEN 0
               ELSE IF Ref.wr[graph.rf[o.ev]].loc # o.loc THEN NOT_INSTANTIABLE
               ELSE IF o.op = "cas"
                       /\ CasPossible(o, graph.type[o.ev], Ref.wr[graph.rf[o.ev]].val) = {}
                    THEN NOT_INSTANTIABLE ELSE 0
  <2>1. RefOp(Ref, t) = o /\ RefStarted(Ref, t) /\ ~RefEnded(Ref, t) BY <1>1, Ahead
  <2>2. AtNode(graph, Ref, t) BY <2>1 DEF AtNode, Node
  <2> HIDE DEF o
  <2> QED BY <2>1, <2>2 DEF RefFault
<1>2. INVALID_INPUT # 0 /\ NOT_INSTANTIABLE # 0 BY DEF INVALID_INPUT, NOT_INSTANTIABLE
<1> HIDE DEF INVALID_INPUT, NOT_INSTANTIABLE
<1>3. Unfit(o) => ~Carried(graph, Ref, o) BY DEF Unfit, Carried
<1>4. Sourceless(o) => ~Carried(graph, Ref, o) BY DEF Sourceless, Carried
<1>5. Contradicts(o) => ~Carried(graph, Ref, o)
  <2> HIDE DEF o
  <2> QED BY DEF Contradicts, Carried
<1> HIDE DEF o
<1>6. Unfit(o) => RefFault(graph, Ref, t) = INVALID_INPUT BY <1>1, <1>3 DEF Unfit
<1>7. ~Unfit(o) /\ Sourceless(o) => RefFault(graph, Ref, t) = INVALID_INPUT
  BY <1>1, <1>4 DEF Unfit, Sourceless
<1>8. ~Unfit(o) /\ Contradicts(o) => RefFault(graph, Ref, t) = NOT_INSTANTIABLE
  BY <1>1, <1>5 DEF Unfit, Contradicts
<1> QED BY <1>2, <1>6, <1>7, <1>8, FaultVerdict DEF o

\* A handler that rejects the graph.
LEMMA RejectOutcome ==
  ASSUME Context, NEW t \in Thread, st[t] \in {"run", "rfwait"}, proc = Running, lock = None,
         ~AtEnd(t), Op(t).op \in EventOps, Op(t).ev \in Node,
         NEW code \in ExitCodes, code \in Verdicts(graph) \ {0, INSTANTIATED_BUT_NOT_DONE},
         Terminate(t, code),
         UNCHANGED <<graph, pc, hist, nextEvents, active, blockedUnk, joinWait, proc>>,
         known \subseteq known', everStarted' \subseteq everStarted \cup {t},
         \A u \in Thread \ {t} : waiting'[u] = waiting[u],
         Loud(t)',
         covered \subseteq covered', covered' \subseteq covered \cup {Op(t).ev},
         coveredRf \subseteq coveredRf',
         coveredRf' = coveredRf \/ (Op(t).op \in ReadOps /\ coveredRf' \subseteq coveredRf \cup {Op(t).ev})
  PROVE  Outcome(t) /\ ExitOutcome(t) /\ ForkOutcome(t)
<1>0. TypeOK /\ st \in [Thread -> Control] BY ContextAt
<1>1. PICK c \in {"publish", "exiting", "paused"} : st' = [st EXCEPT ![t] = c]
  BY <1>0, TerminateType
<1>2. st'[t] = c /\ \A u \in Thread \ {t} : st'[u] = st[u] BY <1>0, <1>1
<1>3. Rejected(t)' BY <1>2 DEF Rejected, Gone
<1>4. StayAt(t) BY <1>3 DEF StayAt
<1>5. OthersStay(t) BY <1>2 DEF OthersStay
<1>6. Grows BY DEF Grows
<1>7. ~StandsUnknown(t) BY DEF StandsUnknown
<1>8. ControlAt(t)' BY <1>1, <1>2 DEF ControlAt, Gone
<1>9. \A e \in covered' \ covered : Standing(t, e) BY DEF Standing
<1>10. \A e \in coveredRf' \ coveredRf : Standing(t, e) /\ Op(t).op \in ReadOps BY DEF Standing
<1>11. st[t] # "none" /\ st'[t] # "none" BY <1>1, <1>2
<1>12. Outcome(t) BY <1>4, <1>5, <1>6, <1>7, <1>8, <1>9, <1>10, <1>11 DEF Outcome
<1>13. ExitOutcome(t) BY DEF ExitOutcome
<1>14. Plain(t)
  <2>1. c \in Control \ {"none", "starting", "creating", "mapping"} /\ c \notin {"ended", "dead"}
    BY <1>1 DEF Control
  <2> QED BY <1>1, <2>1, PlainIs
<1> QED BY <1>12, <1>13, <1>14 DEF ForkOutcome

\* A handler that carries out its event.
LEMMA EventOutcome ==
  ASSUME Context, NEW t \in Thread, st[t] \in {"run", "rfwait"}, proc = Running,
         ~AtEnd(t), Op(t).op \in EventOps, Advance(t), Carried(graph, Ref, Op(t)),
         UNCHANGED <<graph, nextEvents, active, blockedUnk, joinWait, proc, exitVars>>,
         t \in active, t \notin blockedUnk \cup joinWait, waiting'[t] = None,
         known \subseteq known', everStarted' \subseteq everStarted \cup {t},
         \A u \in Thread \ {t} : waiting'[u] = waiting[u],
         covered' = covered \cup {Op(t).ev},
         IF Op(t).op \in ReadOps THEN coveredRf' = coveredRf \cup {Op(t).ev} ELSE coveredRf' = coveredRf,
         \/ hist' = hist /\ StoreOf(graph, Ref, Op(t)) = {}
         \/ \E x \in StoreOf(graph, Ref, Op(t)) : hist' = AddHistory(x.loc, x.ev, x.val)
  PROVE  Outcome(t) /\ ExitOutcome(t) /\ ForkOutcome(t)
<1>0. st \in [Thread -> Control] /\ pc \in [Thread -> Nat \ {0}] BY ContextAt
<1>1. st' = [st EXCEPT ![t] = "run"] /\ pc' = [pc EXCEPT ![t] = @ + 1] BY DEF Advance, Goto
<1>2. st'[t] = "run" /\ \A u \in Thread \ {t} : st'[u] = st[u] /\ pc'[u] = pc[u] BY <1>0, <1>1
<1>3. MoveOn(t) BY <1>1 DEF MoveOn, Gone
<1>4. OthersStay(t) BY <1>2 DEF OthersStay
<1>5. Grows BY DEF Grows
<1>6. ~StandsUnknown(t) BY DEF StandsUnknown
<1>7. ControlAt(t)'
  <2>1. Runnable(t)' BY DEF Runnable
  <2> QED BY <1>2, <2>1 DEF ControlAt, Gone
<1>8. \A e \in covered' \ covered : Standing(t, e) BY DEF Standing
<1>9. \A e \in coveredRf' \ coveredRf : Standing(t, e) /\ Op(t).op \in ReadOps BY DEF Standing
<1>10. Outcome(t) BY <1>2, <1>3, <1>4, <1>5, <1>6, <1>7, <1>8, <1>9 DEF Outcome
<1>11. ExitOutcome(t) BY <1>2 DEF ExitOutcome, exitVars
<1>12. Plain(t) BY <1>1, PlainIs DEF Control, EventOps
<1> QED BY <1>10, <1>11, <1>12 DEF ForkOutcome

\* The flags of a running thread that enters a handler.
LEMMA Entering ==
  ASSUME Context, NEW t \in Thread, st[t] = "run", UNCHANGED flagVars \/ EnsureActive(t)
  PROVE  /\ t \in active /\ t \notin blockedUnk \cup joinWait /\ waiting[t] = None
         /\ active' = active /\ known \subseteq known' /\ everStarted' \subseteq everStarted \cup {t}
<1>1. Runnable(t) BY ContextAt DEF ControlAt
<1> QED BY <1>1 DEF Runnable, EnsureActive, flagVars

\* The thread of a handler is at the instruction handled.
LEMMA OpHere ==
  ASSUME TypeOK, NEW t \in Thread, NEW k, AtEvent(t, k)
  PROVE  ~AtEnd(t) /\ Op(t).op = k /\ st[t] = "run" /\ proc = Running /\ lock = None
<1>1. Len(Prog[t]) \in Nat /\ pc[t] \in Nat BY OpAt
<1> QED BY <1>1 DEF AtEvent, AtOp, AtEnd, Op, Free

\* A handler that rejects the node exits with a verdict of the graph.
LEMMA MismatchOutcome ==
  ASSUME Context, NEW t \in Thread, st[t] = "run", proc = Running, lock = None,
         ~AtEnd(t), Op(t).op \in EventOps, Op(t).ev \in Node, Unfit(Op(t)), Mismatch(t),
         UNCHANGED flagVars \/ EnsureActive(t), UNCHANGED <<graph, unkVars, joinWait, proc>>
  PROVE  Outcome(t) /\ ExitOutcome(t) /\ ForkOutcome(t)
<1>0. TypeOK /\ RefBound BY ContextAt
<1>1. INVALID_INPUT \in Verdicts(graph) BY <1>0, Faulty
<1>2. INVALID_INPUT \in ExitCodes /\ INVALID_INPUT \notin {0, INSTANTIATED_BUT_NOT_DONE}
  BY DEF ExitCodes, INVALID_INPUT, INSTANTIATED_BUT_NOT_DONE
<1>3. /\ Terminate(t, INVALID_INPUT)
      /\ UNCHANGED <<graph, pc, hist, covered, coveredRf, waiting, nextEvents, blockedUnk, joinWait, proc>>
  BY DEF Mismatch, rfVars, unkVars
<1>4. /\ t \in active /\ t \notin blockedUnk \cup joinWait /\ waiting[t] = None
      /\ active' = active /\ known \subseteq known' /\ everStarted' \subseteq everStarted \cup {t}
  BY Entering
<1>5. Loud(t)' BY <1>3, <1>4 DEF Loud
<1> HIDE DEF INVALID_INPUT
<1> QED BY <1>1, <1>2, <1>3, <1>4, <1>5, RejectOutcome

\* A store that is a node of the graph is the store of the reference run.
LEMMA OnStoreOutcome ==
  ASSUME Context, NEW t \in Thread, OnStore(t)
  PROVE  Outcome(t) /\ ExitOutcome(t) /\ ForkOutcome(t)
<1> DEFINE o == Op(t)
<1>0. TypeOK /\ RefBound BY ContextAt
<1>1. /\ ~AtEnd(t) /\ o.op = "store" /\ st[t] = "run" /\ proc = Running /\ lock = None
      /\ o.ev \in Node /\ o.op \in EventOps /\ o.op \notin ReadOps
  BY <1>0, OpHere DEF OnStore, Known, EventOps, ReadOps
<1>2. EnsureActive(t) /\ UNCHANGED <<graph, unkVars, joinWait, proc>> BY DEF OnStore
<1>3. CASE graph.type[o.ev] \in {"WRITE", "RMW"}
  <2>1. /\ covered' = covered \cup {o.ev} /\ hist' = AddHistory(o.loc, o.ev, o.val)
        /\ Advance(t) /\ UNCHANGED <<coveredRf, waiting, exitVars>>
    BY <1>3 DEF OnStore, Cover
  <2>2. Carried(graph, Ref, o) BY <1>1, <1>3, TypesAgree DEF Carried, Node
  <2> DEFINE x == [ev |-> o.ev, loc |-> o.loc, val |-> o.val]
  <2>3. StoreOf(graph, Ref, o) = {x} BY <1>1 DEF StoreOf
  <2>4. \E y \in StoreOf(graph, Ref, o) : hist' = AddHistory(y.loc, y.ev, y.val)
    <3>1. x.ev = o.ev /\ x.loc = o.loc /\ x.val = o.val OBVIOUS
    <3> HIDE DEF x
    <3> QED BY <2>1, <2>3, <3>1
  <2> QED BY <1>1, <1>2, <2>1, <2>2, <2>4, Entering, EventOutcome DEF unkVars
<1>4. CASE graph.type[o.ev] \notin {"WRITE", "RMW"}
  <2>1. Mismatch(t) BY <1>4 DEF OnStore
  <2>2. Unfit(o) BY <1>1, <1>4, TypesAgree DEF Unfit
  <2> QED BY <1>1, <1>2, <2>1, <2>2, MismatchOutcome
<1> QED BY <1>3, <1>4

\* A fence.
LEMMA OnFenceOutcome ==
  ASSUME Context, NEW t \in Thread, OnFence(t)
  PROVE  Outcome(t) /\ ExitOutcome(t) /\ ForkOutcome(t)
<1> DEFINE o == Op(t)
<1>0. TypeOK /\ RefBound BY ContextAt
<1>1. /\ ~AtEnd(t) /\ o.op = "fence" /\ st[t] = "run" /\ proc = Running /\ lock = None
      /\ o.ev \in Node /\ o.op \in EventOps /\ o.op \notin ReadOps
  BY <1>0, OpHere DEF OnFence, Known, EventOps, ReadOps
<1>2. EnsureActive(t) /\ UNCHANGED <<graph, unkVars, joinWait, proc>> BY DEF OnFence
<1>3. CASE graph.type[o.ev] = "FENCE"
  <2>1. /\ covered' = covered \cup {o.ev} /\ Advance(t)
        /\ UNCHANGED <<coveredRf, hist, waiting, exitVars>>
    BY <1>3 DEF OnFence, Cover
  <2>2. Carried(graph, Ref, o) BY <1>1, <1>3, TypesAgree DEF Carried, Node
  <2>3. StoreOf(graph, Ref, o) = {} BY <1>1, NoStore DEF WritingOps
  <2> QED BY <1>1, <1>2, <2>1, <2>2, <2>3, Entering, EventOutcome DEF unkVars
<1>4. CASE graph.type[o.ev] # "FENCE"
  <2>1. Mismatch(t) BY <1>4 DEF OnFence
  <2>2. Unfit(o) BY <1>1, <1>4, TypesAgree DEF Unfit
  <2> QED BY <1>1, <1>2, <2>1, <2>2, MismatchOutcome
<1> QED BY <1>3, <1>4

\* A waiting thread goes to sleep or leaves through deadlock detection.
LEMMA SleepOutcome ==
  ASSUME Context, NEW t \in Thread, st[t] \in {"run", "rfwait", "unknown"}, proc = Running, lock = None,
         ~AtEnd(t), Op(t).op \in EventOps,
         NEW control \in {"rfwait", "unknown"}, SleepOrExit(t, control),
         control = "rfwait" => Waits(t)', control = "unknown" => StandsUnknown(t)',
         UNCHANGED <<graph, pc, hist, coveredRf, proc>>,
         \A u \in Thread \ {t} : /\ waiting'[u] = waiting[u]
                                 /\ (u \in active' <=> u \in active)
                                 /\ (u \in blockedUnk' <=> u \in blockedUnk)
                                 /\ (u \in joinWait' <=> u \in joinWait)
                                 /\ (u \in known => u \in known'),
         everStarted' \subseteq everStarted \cup {t},
         covered \subseteq covered', covered' \subseteq covered \cup {Op(t).ev},
         control = "unknown" => Op(t).ev \notin covered',
         nextEvents \subseteq nextEvents',
         \A e \in nextEvents' \ nextEvents : StandsUnknown(t)' /\ Op(t).ev = e,
         StandsUnknown(t) => StandsUnknown(t)'
  PROVE  Outcome(t) /\ ExitOutcome(t) /\ ForkOutcome(t)
<1>0. TypeOK /\ RefBound /\ CoverRef /\ st \in [Thread -> Control] BY ContextAt
<1>1. PICK c \in {"publish", "exiting", "paused", control} : st' = [st EXCEPT ![t] = c]
  BY <1>0, SleepOrExitType
<1>2. st'[t] = c /\ \A u \in Thread \ {t} : st'[u] = st[u] BY <1>0, <1>1
<1>3. Stands(t)' BY DEF Stands
<1>4. Op(t).ev \notin coveredRf BY <1>0, CoveredStands DEF Rejected, Gone
<1>5. StayAt(t) BY <1>4 DEF StayAt
<1>6. OthersStay(t) BY <1>2 DEF OthersStay
<1>7. Grows BY DEF Grows
<1>8. ControlAt(t)' BY <1>1, <1>2 DEF ControlAt, Gone
<1>9. \A e \in covered' \ covered : Standing(t, e) BY DEF Standing
<1>10. Op(t)' = Op(t) BY DEF Op
<1>11. st[t] # "none" /\ st'[t] # "none" BY <1>1, <1>2
<1>12. Outcome(t) BY <1>5, <1>6, <1>7, <1>8, <1>9, <1>10, <1>11 DEF Outcome
<1>13. ExitOutcome(t)
  <2>1. CASE ShouldExit'
    <3>1. Terminate(t, TerminalCode') BY <2>1 DEF SleepOrExit
    <3> QED BY <1>3, <2>1, <3>1 DEF ExitOutcome
  <2>2. CASE ~ShouldExit'
    <3>1. st' = [st EXCEPT ![t] = control] /\ UNCHANGED exitVars BY <2>2 DEF SleepOrExit
    <3>2. st'[t] = control BY <1>0, <3>1
    <3> QED BY <3>1, <3>2 DEF ExitOutcome, exitVars
  <2> QED BY <2>1, <2>2
<1>14. Plain(t)
  <2>1. c \in Control \ {"none", "starting", "creating", "mapping"} /\ c \notin {"ended", "dead"}
    BY <1>1 DEF Control
  <2> QED BY <1>1, <2>1, PlainIs
<1> QED BY <1>12, <1>13, <1>14 DEF ForkOutcome

\* One turn of the waiting loop.
LEMMA RfTurnOutcome ==
  ASSUME Context, NEW t \in Thread, st[t] \in {"run", "rfwait"}, proc = Running, lock = None,
         ~AtEnd(t), Op(t).op \in ReadOps, Op(t).ev \in DOMAIN graph.rf,
         graph.type[Op(t).ev] \in AcceptedTypes(Op(t).op),
         t \in active, t \notin blockedUnk \cup joinWait,
         UNCHANGED <<graph, nextEvents, active, blockedUnk, joinWait, proc>>,
         known \subseteq known', everStarted' \subseteq everStarted \cup {t},
         covered' = covered \cup {Op(t).ev}, RfTurn(t, Op(t))
  PROVE  Outcome(t) /\ ExitOutcome(t) /\ ForkOutcome(t)
<1> DEFINE o == Op(t)
           w == graph.rf[o.ev]
<1>0. /\ TypeOK /\ RefBound /\ HistRef /\ waiting \in [Thread -> Event \cup {None}]
      /\ NOT_INSTANTIABLE \in ExitCodes /\ NOT_INSTANTIABLE \notin {0, INSTANTIATED_BUT_NOT_DONE}
  BY ContextAt DEF ExitCodes, NOT_INSTANTIABLE, INSTANTIATED_BUT_NOT_DONE
<1> HIDE DEF NOT_INSTANTIABLE
<1>1. /\ o.op \in EventOps /\ o.ev \in Node /\ ~Unfit(o)
      /\ o.ev \in DOMAIN graph.type /\ graph.type[o.ev] \in RefTypes[o.op]
  BY <1>0, TypesAgree DEF ReadOps, EventOps, Unfit, Node, TypeOK, CoverType, WellFormed
<1>2. Op(t)' = Op(t) \/ pc' # pc BY DEF Op
<1>3. pc' = pc => (AtEnd(t)' <=> AtEnd(t)) BY DEF AtEnd
<1>4. CASE ~InHistory(w)
  <2>1. /\ waiting' = [waiting EXCEPT ![t] = w] /\ SleepOrExit(t, "rfwait")
        /\ UNCHANGED <<coveredRf, hist, pc>>
    BY <1>4 DEF RfTurn
  <2>2. waiting'[t] = w /\ \A u \in Thread \ {t} : waiting'[u] = waiting[u] BY <1>0, <2>1
  <2>3. Waits(t)' BY <1>2, <1>3, <2>1, <2>2 DEF Waits
  <2>4. ~StandsUnknown(t) BY <1>1 DEF StandsUnknown
  <2> DEFINE control == "rfwait"
  <2>5. control \in {"rfwait", "unknown"} /\ control # "unknown" /\ SleepOrExit(t, control) BY <2>1
  <2> HIDE DEF control
  <2> QED BY <1>1, <2>1, <2>2, <2>3, <2>4, <2>5, SleepOutcome
<1>5. CASE InHistory(w) /\ HistLoc(w) # o.loc
  <2>1. /\ waiting' = [waiting EXCEPT ![t] = w] /\ Terminate(t, NOT_INSTANTIABLE)
        /\ UNCHANGED <<coveredRf, hist, pc>>
    BY <1>5 DEF RfTurn
  <2>2. waiting'[t] = w /\ \A u \in Thread \ {t} : waiting'[u] = waiting[u] BY <1>0, <2>1
  <2>3. w \in DOMAIN Ref.wr /\ Ref.wr[w].loc # o.loc BY <1>0, <1>5, HistLookup
  <2>4. Contradicts(o) BY <2>3 DEF Contradicts
  <2>5. NOT_INSTANTIABLE \in Verdicts(graph) BY <1>0, <1>1, <2>4, Faulty
  <2>6. \A x : InHistory(x) => InHistory(x)' BY <2>1 DEF InHistory
  <2>7. Loud(t)'
    <3>1. PICK x : x = w OBVIOUS
    <3>2. waiting'[t] = x /\ InHistory(x)' BY <1>5, <2>2, <2>6, <3>1
    <3> HIDE DEF w
    <3>3. InHistory(waiting[t])' BY <3>2 DEF InHistory
    <3> QED BY <3>3 DEF Loud
  <2> QED BY <1>0, <1>1, <2>1, <2>2, <2>5, <2>7, RejectOutcome
<1>6. CASE InHistory(w) /\ HistLoc(w) = o.loc
  <2> DEFINE old == HistVal(w)
  <2>1. ReadSatisfied(t, o, old) BY <1>6 DEF RfTurn
  <2>2. w \in DOMAIN Ref.wr /\ Ref.wr[w].loc = o.loc /\ Ref.wr[w].val = old
    BY <1>0, <1>6, HistLookup
  <2>3. /\ coveredRf' = coveredRf \cup {o.ev} /\ waiting' = [waiting EXCEPT ![t] = None]
    BY <2>1 DEF ReadSatisfied, MarkRfEdge
  <2>4. waiting'[t] = None /\ \A u \in Thread \ {t} : waiting'[u] = waiting[u] BY <1>0, <2>3
  <2>5. ASSUME o.op = "cas" => CasPossible(o, graph.type[o.ev], old) # {}
        PROVE  Carried(graph, Ref, o)
    <3>1. o.op # "join" BY DEF ReadOps
    <3> HIDE DEF o, old
    <3> QED BY <1>1, <2>2, <2>5, <3>1 DEF Carried, o
  <2>6. StoreOf(graph, Ref, o) =
          CASE o.op = "store" -> {[ev |-> o.ev, loc |-> o.loc, val |-> o.val]}
            [] o.op = "rmw" -> {[ev |-> o.ev, loc |-> o.loc, val |-> (old + o.val) % ValMod]}
            [] o.op = "cas" -> (IF "succeeds" \in CasPossible(o, graph.type[o.ev], old)
                                THEN {[ev |-> o.ev, loc |-> o.loc, val |-> o.val]} ELSE {})
            [] OTHER -> {}
    BY <2>2 DEF StoreOf
  <2>a. \A v : LET x == [ev |-> o.ev, loc |-> o.loc, val |-> v]
               IN  x.ev = o.ev /\ x.loc = o.loc /\ x.val = v
    OBVIOUS
  <2>b. o.op \in {"load", "rmw", "cas"} BY DEF ReadOps
  <2>c. o.weak \in BOOLEAN BY <1>0, OpType DEF Instr
  <2> DEFINE d == CasDecision(o, graph.type[o.ev], old)
  <2>d. /\ d = "impossible" <=> CasPossible(o, graph.type[o.ev], old) = {}
        /\ d = "swap" <=> "succeeds" \in CasPossible(o, graph.type[o.ev], old)
    BY <2>c, CasAgrees
  <2> HIDE DEF o, old
  <2>7. CASE o.op = "cas" /\ d = "impossible"
    <3>1. Terminate(t, NOT_INSTANTIABLE) /\ UNCHANGED <<pc, hist>>
      BY <2>1, <2>7 DEF ReadSatisfied
    <3>2. Contradicts(o) BY <2>2, <2>7, <2>d DEF Contradicts, o
    <3>3. NOT_INSTANTIABLE \in Verdicts(graph) BY <1>0, <1>1, <3>2, Faulty DEF o
    <3>4. Loud(t)' BY <2>4 DEF Loud
    <3> QED BY <1>0, <1>1, <2>3, <2>4, <3>1, <3>3, <3>4, RejectOutcome DEF o
  <2>8. CASE ~(o.op = "cas" /\ d = "impossible")
    <3>1. Advance(t) /\ UNCHANGED exitVars
      <4>1. CASE o.op = "load" BY <2>1, <4>1 DEF ReadSatisfied
      <4>2. CASE o.op = "rmw" BY <2>1, <4>2 DEF ReadSatisfied
      <4>3. CASE o.op = "cas" BY <2>1, <2>8, <4>3 DEF ReadSatisfied
      <4> QED BY <2>b, <4>1, <4>2, <4>3
    <3>2. Carried(graph, Ref, o) BY <2>5, <2>8, <2>d
    <3>3. \/ hist' = hist /\ StoreOf(graph, Ref, o) = {}
          \/ \E x \in StoreOf(graph, Ref, o) : hist' = AddHistory(x.loc, x.ev, x.val)
      <4> DEFINE Put(v) == [ev |-> o.ev, loc |-> o.loc, val |-> v]
      <4>1. \A v : Put(v).ev = o.ev /\ Put(v).loc = o.loc /\ Put(v).val = v BY <2>a
      <4>2. StoreOf(graph, Ref, o) =
              CASE o.op = "store" -> {Put(o.val)}
                [] o.op = "rmw" -> {Put((old + o.val) % ValMod)}
                [] o.op = "cas" -> (IF d = "swap" THEN {Put(o.val)} ELSE {})
                [] OTHER -> {}
        BY <2>6, <2>d
      <4> HIDE DEF Put, d
      <4>3. CASE o.op = "load"
        <5>1. hist' = hist BY <2>1, <4>3 DEF ReadSatisfied
        <5> QED BY <4>2, <4>3, <5>1
      <4>4. CASE o.op = "rmw"
        <5> DEFINE v == (old + o.val) % ValMod
        <5>1. hist' = AddHistory(o.loc, o.ev, v) BY <2>1, <4>4 DEF ReadSatisfied
        <5>2. StoreOf(graph, Ref, o) = {Put(v)} BY <4>2, <4>4
        <5> HIDE DEF v
        <5> QED BY <4>1, <5>1, <5>2
      <4>5. CASE o.op = "cas"
        <5>1. hist' = (IF d = "swap" THEN AddHistory(o.loc, o.ev, o.val) ELSE hist)
          BY <2>1, <2>8, <4>5 DEF ReadSatisfied, d
        <5> QED BY <4>1, <4>2, <4>5, <5>1
      <4> QED BY <2>b, <4>3, <4>4, <4>5
    <3> QED BY <1>1, <2>3, <2>4, <3>1, <3>2, <3>3, EventOutcome DEF o
  <2> QED BY <2>7, <2>8
<1> QED BY <1>4, <1>5, <1>6

\* A read reads its source if it is there, and waits for it otherwise.
LEMMA OnReadOutcome ==
  ASSUME Context, NEW t \in Thread, OnRead(t)
  PROVE  Outcome(t) /\ ExitOutcome(t) /\ ForkOutcome(t)
<1> DEFINE o == Op(t)
<1>0. TypeOK /\ RefBound BY ContextAt
<1>1. /\ ~AtEnd(t) /\ o.op \in ReadOps /\ st[t] = "run" /\ proc = Running /\ lock = None
      /\ o.ev \in Node /\ o.op \in EventOps
      /\ UNCHANGED <<graph, unkVars, joinWait, proc>>
  BY DEF OnRead, Known, Free, ReadOps, EventOps
<1>2. CASE graph.type[o.ev] \notin AcceptedTypes(o.op)
  <2>1. Mismatch(t) /\ (UNCHANGED flagVars \/ EnsureActive(t)) BY <1>2 DEF OnRead
  <2>2. Unfit(o) BY <1>1, <1>2, TypesAgree DEF Unfit
  <2> QED BY <1>1, <2>1, <2>2, MismatchOutcome
<1>3. CASE graph.type[o.ev] \in AcceptedTypes(o.op) /\ o.ev \in DOMAIN graph.rf
  <2>1. covered' = covered \cup {o.ev} /\ EnsureActive(t) /\ RfTurn(t, o)
    BY <1>3 DEF OnRead, Cover
  <2>2. /\ t \in active /\ t \notin blockedUnk \cup joinWait
        /\ active' = active /\ known \subseteq known' /\ everStarted' \subseteq everStarted \cup {t}
    BY <1>1, <2>1, Entering
  <2> QED BY <1>1, <1>3, <2>1, <2>2, RfTurnOutcome DEF unkVars
<1>4. CASE graph.type[o.ev] \in AcceptedTypes(o.op) /\ o.ev \notin DOMAIN graph.rf
  <2>1. /\ covered' = covered \cup {o.ev} /\ Terminate(t, INVALID_INPUT)
        /\ UNCHANGED <<pc, coveredRf, hist, waiting>>
        /\ UNCHANGED flagVars \/ EnsureActive(t)
    BY <1>4 DEF OnRead, Cover
  <2>2. /\ t \in active /\ t \notin blockedUnk \cup joinWait /\ waiting[t] = None
        /\ active' = active /\ known \subseteq known' /\ everStarted' \subseteq everStarted \cup {t}
    BY <1>1, <2>1, Entering
  <2>3. ~Unfit(o) /\ Sourceless(o) BY <1>1, <1>4, TypesAgree DEF Unfit, Sourceless
  <2>4. INVALID_INPUT \in Verdicts(graph) BY <1>0, <1>1, <2>3, Faulty
  <2>5. INVALID_INPUT \in ExitCodes /\ INVALID_INPUT \notin {0, INSTANTIATED_BUT_NOT_DONE}
    BY DEF ExitCodes, INVALID_INPUT, INSTANTIATED_BUT_NOT_DONE
  <2>6. Loud(t)' BY <1>1, <2>1, <2>2 DEF Loud, unkVars
  <2> HIDE DEF INVALID_INPUT
  <2> QED BY <1>1, <2>1, <2>2, <2>4, <2>5, <2>6, RejectOutcome DEF unkVars
<1> QED BY <1>2, <1>3, <1>4

\* A woken read looks for its source again.
LEMMA ReadRecheckOutcome ==
  ASSUME Context, NEW t \in Thread, ReadRecheck(t)
  PROVE  Outcome(t) /\ ExitOutcome(t) /\ ForkOutcome(t)
<1> DEFINE o == Op(t)
<1>0. ControlAt(t) BY ContextAt
<1>1. /\ st[t] = "rfwait" /\ proc = Running /\ lock = None
      /\ UNCHANGED <<graph, flagVars, unkVars, joinWait, covered, proc>> /\ RfTurn(t, o)
  BY DEF ReadRecheck, Free
<1>2. Waits(t) BY <1>0, <1>1 DEF ControlAt
<1>3. o.ev \in covered BY <1>1 DEF Context, WaitingCovered
<1>4. covered' = covered \cup {o.ev} BY <1>1, <1>3
<1> QED BY <1>1, <1>2, <1>4, RfTurnOutcome DEF Waits, unkVars, flagVars

\* An event that is not a node becomes a next event.
LEMMA OnUnknownOutcome ==
  ASSUME Context, NEW t \in Thread, OnUnknown(t)
  PROVE  Outcome(t) /\ ExitOutcome(t) /\ ForkOutcome(t)
<1> DEFINE o == Op(t)
<1>0. TypeOK /\ waiting \in [Thread -> Event \cup {None}] BY ContextAt
<1>1. /\ ~AtEnd(t) /\ o.op \in EventOps /\ st[t] = "run" /\ proc = Running /\ lock = None
      /\ o.ev \notin Node /\ EnsureActive(t) /\ SleepOrExit(t, "unknown")
      /\ UNCHANGED <<graph, pc, joinWait, covered, coveredRf, hist, proc>>
      /\ nextEvents' = nextEvents \cup {o.ev}
  BY DEF OnUnknown, Known, Free, rfVars
<1>2. /\ t \in active /\ t \notin blockedUnk \cup joinWait
      /\ active' = active /\ known \subseteq known' /\ everStarted' \subseteq everStarted \cup {t}
  BY <1>1, Entering
<1>3. blockedUnk' = blockedUnk \cup {t} /\ waiting' = [waiting EXCEPT ![t] = None]
  BY <1>2 DEF OnUnknown
<1>4. \A u \in Thread \ {t} : waiting'[u] = waiting[u] BY <1>0, <1>3
<1>5. Op(t)' = Op(t) /\ (AtEnd(t)' <=> AtEnd(t)) BY <1>1 DEF Op, AtEnd
<1>6. StandsUnknown(t)' BY <1>1, <1>3, <1>5 DEF StandsUnknown, Node
<1>7. o.ev \notin covered' BY <1>0, <1>1 DEF TypeOK, CoverType
<1> DEFINE control == "unknown"
<1>8. control \in {"rfwait", "unknown"} /\ control # "rfwait" /\ SleepOrExit(t, control) BY <1>1
<1> HIDE DEF control
<1> QED BY <1>1, <1>2, <1>3, <1>4, <1>6, <1>7, <1>8, SleepOutcome

\* A woken unknown event is unknown still.
LEMMA UnknownRecheckOutcome ==
  ASSUME Context, NEW t \in Thread, UnknownRecheck(t)
  PROVE  Outcome(t) /\ ExitOutcome(t) /\ ForkOutcome(t)
<1> DEFINE o == Op(t)
<1>0. TypeOK /\ ControlAt(t) BY ContextAt
<1>1. /\ st[t] = "unknown" /\ proc = Running /\ lock = None /\ SleepOrExit(t, "unknown")
      /\ UNCHANGED <<graph, pc, active, known, everStarted, blockedUnk, nextEvents, waiting, joinWait,
                     covered, coveredRf, hist, proc>>
  BY DEF UnknownRecheck, Free, rfVars, flagVars, unkVars
<1>2. StandsUnknown(t) BY <1>0, <1>1 DEF ControlAt
<1>3. ~AtEnd(t) /\ o.op \in EventOps /\ o.ev \notin Node BY <1>2 DEF StandsUnknown
<1>4. Op(t)' = Op(t) /\ (AtEnd(t)' <=> AtEnd(t)) BY <1>1 DEF Op, AtEnd
<1>5. StandsUnknown(t)' BY <1>1, <1>2, <1>4 DEF StandsUnknown, Node
<1>6. o.ev \notin covered' BY <1>0, <1>1, <1>3 DEF TypeOK, CoverType
<1> DEFINE control == "unknown"
<1>7. control \in {"rfwait", "unknown"} /\ control # "rfwait" /\ SleepOrExit(t, control) BY <1>1
<1> HIDE DEF control
<1> QED BY <1>1, <1>3, <1>5, <1>6, <1>7, SleepOutcome

\* The steps of an exit move no thread.
LEMMA LeavingOutcome ==
  ASSUME Context, NEW t \in Thread, Publish(t) \/ VerifyAtexit(t) \/ ProcessExit(t)
  PROVE  Outcome(t) /\ ExitOutcome(t) /\ ForkOutcome(t)
<1> USE DEF progVars, flagVars, unkVars, rfVars, treeVars, exitVars
<1>0. ControlAt(t) /\ st \in [Thread -> Control] BY ContextAt
<1>1. /\ proc = Running
      /\ UNCHANGED <<graph, pc, hist, covered, coveredRf, nextEvents, active, known, blockedUnk,
                     joinWait, waiting, everStarted>>
  BY DEF Publish, VerifyAtexit, ProcessExit, Free
<1>2. \E c \in {"exiting", "paused", "dying", "dying0"} : st' = [st EXCEPT ![t] = c]
  <2>1. CASE Publish(t) BY <2>1 DEF Publish, CasExit
  <2>2. CASE VerifyAtexit(t) BY <2>2 DEF VerifyAtexit, Goto
  <2>3. CASE ProcessExit(t)
    <3>1. st' = st /\ st[t] \in {"dying", "dying0"} BY <2>3 DEF ProcessExit
    <3> DEFINE c == st[t]
    <3>2. st' = [st EXCEPT ![t] = c] BY <1>0, <3>1
    <3> QED BY <3>1, <3>2
  <2> QED BY <2>1, <2>2, <2>3
<1>3. st[t] \in {"publish", "exiting", "returning", "dying", "dying0"}
  BY DEF Publish, VerifyAtexit, ProcessExit
<1>4. PICK c \in {"exiting", "paused", "dying", "dying0"} : st' = [st EXCEPT ![t] = c] BY <1>2
<1>5. st'[t] = c BY <1>0, <1>4
<1>6. Op(t)' = Op(t) /\ (AtEnd(t)' <=> AtEnd(t)) BY <1>1 DEF Op, AtEnd
<1>7. Waits(t) => Waits(t)' BY <1>1, <1>6 DEF Waits
<1>8. StandsUnknown(t) => StandsUnknown(t)' BY <1>1, <1>6 DEF StandsUnknown, Node
<1>9. Loud(t) => Loud(t)' BY <1>1 DEF Loud, InHistory
<1>10. ControlAt(t)'
  <2>1. Loud(t)' \/ Waits(t)' \/ StandsUnknown(t)'
    BY <1>0, <1>3, <1>7, <1>8, <1>9 DEF ControlAt, Gone
  <2> QED BY <1>5, <2>1 DEF ControlAt, Gone
<1>11. Outcome(t)
  <2>1. c # "none" /\ st[t] # "none" /\ c \in Gone BY <1>3, <1>4 DEF Gone
  <2> QED BY <1>1, <1>4, <1>10, <2>1, IdleOutcome
<1>12. ExitOutcome(t) BY <1>1 DEF ExitOutcome
<1>13. Plain(t)
  <2>1. c \in Control \ {"none", "starting", "creating", "mapping"} /\ c \notin {"ended", "dead"}
    BY <1>4 DEF Control
  <2>2. st[t] \notin {"none", "creating", "mapping", "dead"} BY <1>3
  <2> QED BY <1>1, <1>4, <2>1, <2>2, PlainIs
<1> QED BY <1>11, <1>12, <1>13 DEF ForkOutcome

\* Every step after which all created threads exist.
LEMMA StepOutcome ==
  ASSUME Context, AllCreated', NEW t \in Thread, ThreadStep(t) \/ Environment(t)
  PROVE  Outcome(t) /\ ExitOutcome(t) /\ ForkOutcome(t)
BY ThreadCreatedOutcome, PthreadCreateOkOutcome, MapThreadOutcome, ThreadRegisteredOutcome,
   ThreadEndOutcome, ThreadExitOutcome, JoinBeginOutcome, NoJoinSkip, JoinEndOutcome,
   FailLeavesOut, MainReturnOutcome, SpuriousWakeOutcome, OnStoreOutcome, OnFenceOutcome,
   OnReadOutcome, ReadRecheckOutcome, OnUnknownOutcome, UnknownRecheckOutcome, LeavingOutcome
   DEF ThreadStep, Environment

\* A thread advances one instruction at a time, to the end of its program.
PcMoves(t) == pc' = pc \/ (~AtEnd(t) /\ pc' = [pc EXCEPT ![t] = @ + 1])

\* Only a successful pthread_create starts a thread.
NoneStays(t) == PcMoves(t) /\ \A u \in Thread : st[u] = "none" => st'[u] = "none"

\* Every step is an advance of one thread, and only pthread_create starts one.
LEMMA OnlyCreateStarts ==
  ASSUME TypeInv, NEW t \in Thread, ThreadStep(t) \/ Environment(t)
  PROVE  PcMoves(t) /\ (NoneStays(t) \/ PthreadCreateOk(t))
<1> USE DEF progVars, flagVars, unkVars, rfVars, treeVars, exitVars
<1>0. /\ TypeOK /\ PcInv /\ st \in [Thread -> Control] /\ pc \in [Thread -> Nat \ {0}]
      /\ INVALID_INPUT \in ExitCodes
  BY DEF TypeInv, TypeOK, ProgType, ExitCodes
<1>a. ASSUME NEW c, st' = [st EXCEPT ![t] = c], st[t] # "none",
             PcMoves(t)
      PROVE  NoneStays(t)
  BY <1>0, <1>a DEF NoneStays
<1>b. ASSUME NEW code \in ExitCodes, Terminate(t, code), pc' = pc, st[t] # "none"
      PROVE  NoneStays(t)
  <2>1. PICK c : st' = [st EXCEPT ![t] = c] BY <1>0, <1>b, TerminateType
  <2> QED BY <1>a, <1>b, <2>1 DEF PcMoves
<1>c. ASSUME NEW control, SleepOrExit(t, control), pc' = pc, st[t] # "none"
      PROVE  NoneStays(t)
  <2>1. PICK c : st' = [st EXCEPT ![t] = c] BY <1>0, <1>c, SleepOrExitType
  <2> QED BY <1>a, <1>c, <2>1 DEF PcMoves
<1>d. ASSUME ~AtEnd(t), Op(t).op \in ReadOps, Op(t).ev \in DOMAIN graph.rf, RfTurn(t, Op(t)),
             st[t] # "none"
      PROVE  NoneStays(t)
  <2>1. pc' = pc \/ pc' = [pc EXCEPT ![t] = @ + 1] BY <1>0, <1>d, RfTurnType
  <2>2. PICK c : st' = [st EXCEPT ![t] = c] BY <1>0, <1>d, RfTurnType
  <2> QED BY <1>a, <1>d, <2>1, <2>2 DEF PcMoves
<1>e. \A k : AtOp(t, k) => ~AtEnd(t)
  <2>1. pc[t] \in Nat /\ Len(Prog[t]) \in Nat BY <1>0, OpAt
  <2> QED BY <2>1 DEF AtOp, AtEnd
<1>1. ASSUME \/ ThreadCreated(t) \/ MapThread(t) \/ PthreadCreateFail(t)
             \/ ThreadRegistered(t) \/ ThreadEnd(t) \/ ThreadExit(t)
      PROVE  NoneStays(t)
  <2>1. CASE ThreadCreated(t) BY <1>a, <2>1 DEF ThreadCreated, AtEvent, Goto, PcMoves
  <2>2. CASE MapThread(t) BY <1>a, <1>0, <2>2 DEF MapThread, Advance, Goto, PcMoves, PcInv
  <2>3. CASE PthreadCreateFail(t) BY <1>a, <1>0, <2>3 DEF PthreadCreateFail, Advance, Goto, PcMoves, PcInv
  <2>4. CASE ThreadRegistered(t) BY <1>a, <2>4 DEF ThreadRegistered, Goto, PcMoves
  <2>5. CASE ThreadEnd(t) BY <1>a, <2>5 DEF ThreadEnd, Goto, PcMoves
  <2>6. CASE ThreadExit(t) BY <1>a, <2>6 DEF ThreadExit, Goto, PcMoves
  <2> QED BY <1>1, <2>1, <2>2, <2>3, <2>4, <2>5, <2>6
<1>2. ASSUME JoinBegin(t) \/ JoinSkip(t) \/ JoinEnd(t) PROVE NoneStays(t)
  <2>1. CASE JoinBegin(t) BY <1>a, <2>1 DEF JoinBegin, AtEvent, Goto, PcMoves
  <2>2. CASE JoinSkip(t) BY <1>a, <1>e, <2>2 DEF JoinSkip, AtEvent, Advance, Goto, PcMoves
  <2>3. CASE JoinEnd(t) BY <1>a, <1>0, <2>3 DEF JoinEnd, Advance, Goto, PcMoves, PcInv
  <2> QED BY <1>2, <2>1, <2>2, <2>3
<1>3. ASSUME OnStore(t) \/ OnFence(t) PROVE NoneStays(t)
  <2>1. st[t] = "run" /\ ~AtEnd(t) BY <1>e, <1>3 DEF OnStore, OnFence, AtEvent
  <2>2. \/ st' = [st EXCEPT ![t] = "run"] /\ pc' = [pc EXCEPT ![t] = @ + 1]
        \/ Terminate(t, INVALID_INPUT) /\ pc' = pc
    BY <1>3 DEF OnStore, OnFence, Advance, Goto, Mismatch
  <2> QED BY <1>0, <1>a, <1>b, <2>1, <2>2 DEF PcMoves
<1>4. ASSUME OnRead(t) PROVE NoneStays(t)
  <2>1. st[t] = "run" /\ ~AtEnd(t) /\ Op(t).op \in ReadOps BY <1>4 DEF OnRead
  <2>2. \/ Terminate(t, INVALID_INPUT) /\ pc' = pc
        \/ Op(t).ev \in DOMAIN graph.rf /\ RfTurn(t, Op(t))
    BY <1>4 DEF OnRead, Mismatch
  <2> QED BY <1>0, <1>b, <1>d, <2>1, <2>2
<1>5. ASSUME ReadRecheck(t) PROVE NoneStays(t)
  BY <1>0, <1>d, <1>5 DEF ReadRecheck, PcInv
<1>6. ASSUME OnUnknown(t) \/ UnknownRecheck(t) PROVE NoneStays(t)
  BY <1>c, <1>6 DEF OnUnknown, UnknownRecheck
<1>7. ASSUME Publish(t) \/ MainReturn(t) \/ VerifyAtexit(t) PROVE NoneStays(t)
  <2>1. CASE Publish(t) BY <1>a, <2>1 DEF Publish, CasExit, PcMoves
  <2>2. CASE MainReturn(t) BY <1>a, <2>2 DEF MainReturn, Goto, PcMoves
  <2>3. CASE VerifyAtexit(t) BY <1>a, <2>3 DEF VerifyAtexit, Goto, PcMoves
  <2> QED BY <1>7, <2>1, <2>2, <2>3
<1>8. ASSUME ProcessExit(t) \/ SpuriousWake(t) PROVE NoneStays(t)
  BY <1>0, <1>8 DEF ProcessExit, SpuriousWake, NoneStays, PcMoves
<1>9. ASSUME PthreadCreateOk(t) PROVE PcMoves(t) BY <1>9 DEF PthreadCreateOk, PcMoves
<1>10. NoneStays(t) \/ PthreadCreateOk(t)
  BY <1>1, <1>2, <1>3, <1>4, <1>5, <1>6, <1>7, <1>8 DEF ThreadStep, Environment
<1> QED BY <1>9, <1>10 DEF NoneStays

\* No thread passes the end of its program.
LEMMA PcBoundStep ==
  ASSUME TypeInv, PcBound, NEW t \in Thread, ThreadStep(t) \/ Environment(t)
  PROVE  PcBound'
<1>1. PcMoves(t) BY OnlyCreateStarts
<1>2. pc \in [Thread -> Nat \ {0}] BY DEF TypeInv, TypeOK, ProgType
<1>3. ASSUME NEW u \in Thread PROVE pc'[u] <= Len(Prog[u]) + 1
  <2>1. pc[u] <= Len(Prog[u]) + 1 /\ pc[u] \in Nat /\ Len(Prog[u]) \in Nat
    BY <1>2, OpAt DEF PcBound, TypeInv
  <2>2. pc'[u] = pc[u] \/ (u = t /\ ~AtEnd(t) /\ pc'[u] = pc[u] + 1) BY <1>1, <1>2 DEF PcMoves
  <2> QED BY <2>1, <2>2 DEF AtEnd
<1> QED BY <1>3 DEF PcBound

\* A thread that was missing is missing for good.
LEMMA CreatedBefore ==
  ASSUME ForkJoin, TypeInv, PcBound, AllCreated', NEW t \in Thread, ThreadStep(t) \/ Environment(t)
  PROVE  AllCreated
<1>0. /\ TypeOK /\ PcInv /\ st \in [Thread -> Control] /\ pc \in [Thread -> Nat \ {0}]
  BY DEF TypeInv, TypeOK, ProgType
<1> SUFFICES ASSUME NEW u \in Thread, NEW i \in 1..(pc[u] - 1), Prog[u][i].op = "create",
                    st[Prog[u][i].child] = "none"
             PROVE  FALSE
  BY DEF AllCreated
<1> DEFINE c == Prog[u][i].child
<1>1. /\ pc[u] <= Len(Prog[u]) + 1 /\ pc[u] \in Nat /\ Len(Prog[u]) \in Nat
      /\ i \in Nat \ {0} /\ i < pc[u] /\ i \in DOMAIN Prog[u]
  <2>1. pc[u] <= Len(Prog[u]) + 1 /\ pc[u] \in Nat BY <1>0 DEF PcBound
  <2> QED BY <2>1, IndexType, OpAt, <1>0
<1>2. c \in Thread BY <1>1, InstrType DEF WellFormedInstr
<1>3. st'[c] # "none"
  <2>1. pc'[u] \in Nat /\ pc[u] <= pc'[u]
    <3>1. PcMoves(t) BY OnlyCreateStarts
    <3> QED BY <1>0, <3>1 DEF PcMoves
  <2>2. i \in 1..(pc'[u] - 1) BY <1>1, <2>1
  <2> QED BY <2>2 DEF AllCreated
<1>4. PthreadCreateOk(t) BY <1>2, <1>3, OnlyCreateStarts DEF NoneStays
<1>5. ~AtEnd(t) /\ Op(t).op = "create" BY <1>0, <1>4 DEF PthreadCreateOk, PcInv
<1>6. t = Main /\ u = Main
  <2>1. t = Main BY <1>0, <1>5, OnlyMain
  <2>2. u = Main BY <1>1 DEF ForkJoin, EventOps
  <2> QED BY <2>1, <2>2
<1>7. c = Op(t).child
  <2> HIDE DEF c
  <2>1. st' = [st EXCEPT ![t] = "mapping", ![Op(t).child] = "starting"] /\ st[t] = "creating"
    BY <1>4 DEF PthreadCreateOk
  <2>2. st[c] = "none" BY DEF c
  <2> QED BY <1>0, <1>2, <1>3, <2>1, <2>2
<1>8. pc[t] \in DOMAIN Prog[t] /\ Op(t) = Prog[t][pc[t]] BY <1>0, <1>5, OpAt
<1>9. i = pc[t]
  <2> DEFINE j == pc[Main]
  <2> HIDE DEF j
  <2>1. j \in DOMAIN Prog[Main] /\ Prog[Main][j].op = "create" /\ Prog[Main][j].child = c
    BY <1>5, <1>6, <1>7, <1>8 DEF j
  <2>2. i \in DOMAIN Prog[Main] /\ Prog[Main][i].op = "create" /\ Prog[Main][i].child = c
    BY <1>1, <1>6
  <2>3. i = j BY <2>1, <2>2 DEF ForkJoin
  <2> QED BY <2>3, <1>6 DEF j
<1> QED BY <1>1, <1>6, <1>9

-----------------------------------------------------------------------------
(* Creation and joining.                                                   *)

\* The thread that main is about to create has not been seen before.
LEMMA ChildIsNew ==
  ASSUME Context, NEW t \in Thread, ThreadCreated(t)
  PROVE  /\ t = Main /\ ~AtEnd(t) /\ Op(t).op = "create"
         /\ Op(t).child \in Thread \ {Main}
         /\ st[Op(t).child] = "none" /\ Op(t).child \notin everStarted
<1>0. TypeOK /\ pc \in [Thread -> Nat \ {0}] BY ContextAt
<1> DEFINE c == Op(t).child
           k == pc[Main]
<1>1. st[t] = "run" /\ ~AtEnd(t) /\ Op(t).op = "create" BY <1>0, OpHere DEF ThreadCreated, AtEvent
<1>2. t = Main BY <1>0, <1>1, OnlyMain DEF Context
<1>3. c \in Thread \ {Main} BY <1>0, <1>1, OpType DEF WellFormedInstr
<1>4. k \in DOMAIN Prog[Main] /\ Op(t) = Prog[Main][k] BY <1>0, <1>1, <1>2, OpAt
<1>5. ~CreatedBy(c)
  <2> SUFFICES ASSUME CreatedBy(c) PROVE FALSE OBVIOUS
  <2>1. PICK i \in DOMAIN Prog[Main] : /\ Prog[Main][i].op = "create" /\ Prog[Main][i].child = c
                                       /\ i < k
    BY <1>1, <1>2 DEF CreatedBy
  <2> HIDE DEF k
  <2>2. Prog[Main][k].op = "create" /\ Prog[Main][k].child = c BY <1>1, <1>4
  <2> HIDE DEF c
  <2>3. i = k BY <1>4, <2>1, <2>2 DEF Context, ForkJoin
  <2>4. k \in Nat BY <1>0, SchedulerAssumption DEF k
  <2> QED BY <2>1, <2>3, <2>4
<1> HIDE DEF c
<1>6. st[c] = "none" BY <1>3, <1>5 DEF Context, CreateRef
<1>7. c \notin everStarted BY <1>1, <1>2, <1>3, <1>6 DEF Context, CreateRef
<1> QED BY <1>1, <1>2, <1>3, <1>6, <1>7 DEF c

\* The announcement of a new thread.
LEMMA CreatedStep ==
  ASSUME Context, NEW t \in Thread, ThreadCreated(t)
  PROVE  CreateRef' /\ JoinRef'
<1>0. TypeOK /\ st \in [Thread -> Control] BY ContextAt
<1> DEFINE c == Op(t).child
<1>1. /\ t = Main /\ c \in Thread \ {Main} /\ st[c] = "none" /\ c \notin everStarted
  BY ChildIsNew
<1>2. /\ pc' = pc /\ st' = [st EXCEPT ![t] = "creating"] /\ active' = active
      /\ known' = known \cup ({c} \ everStarted) /\ everStarted' = everStarted \cup {c}
      /\ st[t] = "run"
  BY DEF ThreadCreated, AtEvent, Goto
<1>3. Op(Main)' = Op(Main) BY <1>2 DEF Op
<1> HIDE DEF c
<1>4. st'[Main] = "creating" /\ \A u \in Thread \ {Main} : st'[u] = st[u] BY <1>0, <1>1, <1>2
<1>5. c \in known' \ active' BY <1>1, <1>2 DEF Context, CountersExact
<1>6. \A d : CreatedBy(d) => CreatedBy(d)' BY <1>1, <1>2 DEF CreatedBy
<1>7. CreateRef'
  <2>1. ASSUME NEW d \in Thread \ {Main}
        PROVE  /\ st'[d] # "none" => CreatedBy(d)'
               /\ d \in everStarted' /\ st'[d] = "none" => d = c
    BY <1>1, <1>2, <1>4, <1>6 DEF Context, CreateRef
  <2>2. Op(Main)'.child = c BY <1>1, <1>3 DEF c
  <2>3. st'[c] = "none" BY <1>1, <1>4
  <2> QED BY <1>4, <1>5, <2>1, <2>2, <2>3 DEF CreateRef
<1>8. JoinRef'
  <2>1. ASSUME NEW i \in DOMAIN Prog[Main], Prog[Main][i].op = "join", i < pc[Main]
        PROVE  st'[Prog[Main][i].child] = "dead"
    <3>1. Prog[Main][i].child \in Thread \ {Main}
      BY <2>1, InstrType, SchedulerAssumption DEF WellFormedInstr
    <3> QED BY <1>4, <2>1, <3>1 DEF Context, JoinRef
  <2> QED BY <1>2, <2>1 DEF JoinRef
<1> QED BY <1>7, <1>8

\* The children of main's joins.
LEMMA JoinChild ==
  \A i \in DOMAIN Prog[Main] : Prog[Main][i].op = "join" => Prog[Main][i].child \in Thread \ {Main}
BY InstrType, SchedulerAssumption DEF WellFormedInstr

\* The start of a thread is that of its only create instruction.
LEMMA PthreadCreateOkStep ==
  ASSUME Context, NEW t \in Thread, PthreadCreateOk(t)
  PROVE  CreateRef' /\ JoinRef'
<1>0. TypeOK /\ PcInv /\ st \in [Thread -> Control] /\ pc \in [Thread -> Nat \ {0}] BY ContextAt
<1> DEFINE c == Op(t).child
           k == pc[Main]
<1>1. /\ st[t] = "creating" /\ st[c] = "none"
      /\ st' = [st EXCEPT ![t] = "mapping", ![c] = "starting"]
      /\ UNCHANGED <<pc, active, known, everStarted>>
  BY DEF PthreadCreateOk, flagVars
<1>2. ~AtEnd(t) /\ Op(t).op = "create" BY <1>0, <1>1 DEF PcInv
<1>3. t = Main BY <1>0, <1>2, OnlyMain DEF Context
<1>4. c \in Thread \ {Main} BY <1>0, <1>2, OpType DEF WellFormedInstr
<1>5. k \in DOMAIN Prog[Main] /\ Prog[Main][k].op = "create" /\ Prog[Main][k].child = c
  BY <1>0, <1>2, <1>3, OpAt
<1> HIDE DEF c
<1>6. /\ st'[Main] = "mapping" /\ st'[c] = "starting"
      /\ \A u \in Thread \ {Main, c} : st'[u] = st[u]
  BY <1>0, <1>1, <1>3, <1>4
<1>7. \A d : d = c => CreatedBy(d)' BY <1>1, <1>5, <1>6 DEF CreatedBy
<1>8. \A d : CreatedBy(d) => CreatedBy(d)' BY <1>1, <1>3 DEF CreatedBy
<1>9. CreateRef'
  <2>1. ASSUME NEW d \in Thread \ {Main}
        PROVE  (st'[d] # "none" => CreatedBy(d)') /\ ~(d \in everStarted' /\ st'[d] = "none")
    <3>1. CASE d = c BY <1>6, <1>7, <3>1
    <3>2. CASE d # c
      <4>1. st'[d] = st[d] BY <1>6, <3>2
      <4>2. d \in everStarted /\ st[d] = "none" => c = d
        BY <1>3 DEF Context, CreateRef, c
      <4> QED BY <1>1, <1>8, <3>2, <4>1, <4>2 DEF Context, CreateRef
    <3> QED BY <3>1, <3>2
  <2> QED BY <1>6, <2>1 DEF CreateRef
<1>10. JoinRef'
  <2>1. ASSUME NEW i \in DOMAIN Prog[Main], Prog[Main][i].op = "join", i < pc[Main]
        PROVE  st'[Prog[Main][i].child] = "dead"
    <3>1. Prog[Main][i].child \in Thread \ {Main} BY <2>1, JoinChild
    <3>2. st[Prog[Main][i].child] = "dead" BY <2>1 DEF Context, JoinRef
    <3> QED BY <1>1, <1>6, <3>1, <3>2
  <2> QED BY <1>1, <2>1 DEF JoinRef
<1> QED BY <1>9, <1>10

\* The end of the create instruction.
LEMMA MapThreadStep ==
  ASSUME Context, NEW t \in Thread, MapThread(t)
  PROVE  CreateRef' /\ JoinRef'
<1>0. TypeOK /\ PcInv /\ st \in [Thread -> Control] /\ pc \in [Thread -> Nat \ {0}] BY ContextAt
<1>1. /\ st[t] = "mapping" /\ st' = [st EXCEPT ![t] = "run"]
      /\ pc' = [pc EXCEPT ![t] = @ + 1]
      /\ UNCHANGED <<active, known, everStarted>>
  BY DEF MapThread, Advance, Goto, flagVars
<1>2. ~AtEnd(t) /\ Op(t).op = "create" BY <1>0, <1>1 DEF PcInv
<1>3. t = Main BY <1>0, <1>2, OnlyMain DEF Context
<1>4. /\ st'[Main] = "run" /\ pc'[Main] = pc[Main] + 1 /\ pc[Main] \in Nat
      /\ Prog[Main][pc[Main]].op = "create"
      /\ \A u \in Thread \ {Main} : st'[u] = st[u]
  BY <1>0, <1>1, <1>2, <1>3, OpAt
<1>5. \A i \in DOMAIN Prog[Main] : i \in Nat BY SchedulerAssumption
<1>6. \A d : CreatedBy(d) => CreatedBy(d)'
  <2> SUFFICES ASSUME NEW d, CreatedBy(d) PROVE CreatedBy(d)' OBVIOUS
  <2>1. PICK i \in DOMAIN Prog[Main] : /\ Prog[Main][i].op = "create" /\ Prog[Main][i].child = d
                                       /\ i < pc[Main] \/ i = pc[Main]
    BY DEF CreatedBy
  <2>2. i < pc'[Main] BY <1>4, <1>5, <2>1
  <2> QED BY <2>1, <2>2 DEF CreatedBy
<1>7. CreateRef'
  <2>1. ASSUME NEW d \in Thread \ {Main}
        PROVE  (st'[d] # "none" => CreatedBy(d)') /\ ~(d \in everStarted' /\ st'[d] = "none")
    BY <1>1, <1>3, <1>4, <1>6 DEF Context, CreateRef
  <2> QED BY <1>4, <2>1 DEF CreateRef
<1>8. JoinRef'
  <2>1. ASSUME NEW i \in DOMAIN Prog[Main], Prog[Main][i].op = "join", i < pc'[Main]
        PROVE  st'[Prog[Main][i].child] = "dead"
    <3>1. Prog[Main][i].child \in Thread \ {Main} BY <2>1, JoinChild
    <3>2. i < pc[Main]
      <4>1. i # pc[Main] BY <1>4, <2>1
      <4> QED BY <1>4, <1>5, <2>1, <4>1
    <3>3. st[Prog[Main][i].child] = "dead" BY <2>1, <3>2 DEF Context, JoinRef
    <3> QED BY <1>4, <3>1, <3>3
  <2> QED BY <2>1 DEF JoinRef
<1> QED BY <1>7, <1>8

\* A plain step neither starts a thread nor passes a join too early.
LEMMA PlainStep ==
  ASSUME Context, NEW t \in Thread, Outcome(t), Plain(t)
  PROVE  CreateRef' /\ JoinRef'
<1>0. TypeOK /\ st \in [Thread -> Control] /\ pc \in [Thread -> Nat \ {0}] BY ContextAt
<1>1. PICK c \in Control \ {"none", "starting", "creating", "mapping"} :
         st' = [st EXCEPT ![t] = c] /\ (t = Main => c \notin {"ended", "dead"})
  BY DEF Plain
<1>2. /\ st[t] \notin {"none", "creating", "mapping", "dead"}
      /\ everStarted' \subseteq everStarted \cup {t}
      /\ \/ pc' = pc
         \/ /\ ~AtEnd(t) /\ pc' = [pc EXCEPT ![t] = @ + 1]
            /\ Op(t).op = "join" => st[Op(t).child] = "dead"
  BY DEF Plain
<1>3. st'[t] = c /\ \A u \in Thread \ {t} : st'[u] = st[u] /\ pc'[u] = pc[u] BY <1>0, <1>1, <1>2
<1>4. OthersStay(t) BY DEF Outcome
<1>5. \A i \in DOMAIN Prog[Main] : i \in Nat BY SchedulerAssumption
<1>6. Main \in Thread BY SchedulerAssumption
<1>7. pc[Main] \in Nat /\ pc'[Main] \in Nat /\ pc[Main] <= pc'[Main] BY <1>0, <1>2, <1>6
<1>8. \A d : CreatedBy(d) => CreatedBy(d)'
  <2> SUFFICES ASSUME NEW d, CreatedBy(d) PROVE CreatedBy(d)' OBVIOUS
  <2>1. PICK i \in DOMAIN Prog[Main] : /\ Prog[Main][i].op = "create" /\ Prog[Main][i].child = d
                                       /\ i < pc[Main] \/ (i = pc[Main] /\ st[Main] = "mapping")
    BY DEF CreatedBy
  <2>2. i < pc'[Main] \/ (i = pc'[Main] /\ st'[Main] = "mapping")
    BY <1>2, <1>3, <1>5, <1>6, <1>7, <2>1
  <2> QED BY <2>1, <2>2 DEF CreatedBy
<1>9. CreateRef'
  <2>1. st'[Main] \notin {"none", "starting", "ended", "dead"}
    BY <1>1, <1>3, <1>6 DEF Context, CreateRef
  <2>2. ASSUME st'[Main] = "creating"
        PROVE  /\ t # Main /\ Op(Main)' = Op(Main) /\ st[Main] = "creating"
               /\ Op(Main).child \in known' \ active' /\ st'[Op(Main).child] = "none"
    <3>1. t # Main BY <1>1, <1>3, <2>2
    <3>2. Op(Main)' = Op(Main) /\ st[Main] = "creating" BY <1>3, <1>6, <2>2, <3>1 DEF Op
    <3> DEFINE d == Op(Main).child
    <3>3. d \in known \ active /\ st[d] = "none" BY <3>2 DEF Context, CreateRef
    <3> HIDE DEF d
    <3>4. d \in Thread BY <1>0, <3>3 DEF TypeOK, FlagType
    <3>5. d # t BY <1>2, <3>3
    <3>6. d \in known' \ active' /\ st'[d] = "none" BY <1>3, <1>4, <3>3, <3>4, <3>5 DEF OthersStay
    <3> QED BY <3>1, <3>2, <3>6 DEF d
  <2>3. ASSUME NEW d \in Thread \ {Main}
        PROVE  /\ st'[d] # "none" => CreatedBy(d)'
               /\ d \in everStarted' /\ st'[d] = "none" =>
                    st'[Main] = "creating" /\ Op(Main)'.child = d
    <3>1. CASE d = t BY <1>1, <1>2, <1>3, <1>8, <3>1 DEF Context, CreateRef
    <3>2. CASE d # t
      <4>1. st'[d] = st[d] BY <1>3, <3>2
      <4>2. d \in everStarted' => d \in everStarted BY <1>2, <3>2
      <4>3. d \in everStarted /\ st[d] = "none" => st[Main] = "creating" /\ Op(Main).child = d
        BY DEF Context, CreateRef
      <4>4. st[Main] = "creating" => st'[Main] = "creating" /\ Op(Main)' = Op(Main)
        BY <1>2, <1>3, <1>6 DEF Op
      <4> QED BY <1>8, <4>1, <4>2, <4>3, <4>4 DEF Context, CreateRef
    <3> QED BY <3>1, <3>2
  <2> QED BY <2>1, <2>2, <2>3 DEF CreateRef
<1>10. JoinRef'
  <2>1. ASSUME NEW i \in DOMAIN Prog[Main], Prog[Main][i].op = "join", i < pc'[Main]
        PROVE  st'[Prog[Main][i].child] = "dead"
    <3> DEFINE c0 == Prog[Main][i].child
    <3>1. c0 \in Thread \ {Main} BY <2>1, JoinChild
    <3>2. st[c0] = "dead"
      <4>1. CASE i < pc[Main] BY <2>1, <4>1 DEF Context, JoinRef
      <4>2. CASE ~(i < pc[Main])
        <5>1. t = Main /\ i = pc[Main] /\ ~AtEnd(t) /\ (Op(t).op = "join" => st[Op(t).child] = "dead")
          BY <1>0, <1>2, <1>3, <1>5, <1>6, <1>7, <2>1, <4>2
        <5>2. Op(t) = Prog[Main][i] BY <5>1 DEF Op
        <5> QED BY <2>1, <5>1, <5>2
      <4> QED BY <4>1, <4>2
    <3> HIDE DEF c0
    <3>3. st'[c0] = "dead" BY <1>2, <1>3, <3>1, <3>2
    <3> QED BY <3>3 DEF c0
  <2> QED BY <2>1 DEF JoinRef
<1> QED BY <1>9, <1>10

\* Threads exist once created and are over once joined, after every step.
LEMMA ForkStep ==
  ASSUME Context, NEW t \in Thread, Outcome(t), ForkOutcome(t)
  PROVE  CreateRef' /\ JoinRef'
BY CreatedStep, PthreadCreateOkStep, MapThreadStep, PlainStep DEF ForkOutcome

-----------------------------------------------------------------------------
(* Where the threads stand when deadlock detection gives up.               *)

\* The context at all threads.
LEMMA ContextIs ==
  ASSUME Context
  PROVE  /\ TypeOK /\ PcInv /\ RefBound /\ HistRef /\ CoverRef /\ NextRef
         /\ pc \in [Thread -> Nat \ {0}] /\ st \in [Thread -> Control] /\ Main \in Thread
         /\ \A t \in Thread : /\ ControlAt(t)
                              /\ t \in blockedUnk => st[t] \in UnknownPoints
                              /\ Len(Prog[t]) \in Nat /\ pc[t] <= Len(Prog[t]) + 1
                              /\ Ref.pos[t] \in Nat \ {0} /\ Ref.pos[t] <= Len(Prog[t]) + 1
                              /\ pc[t] <= Ref.pos[t] /\ (st[t] # "none" => RefStarted(Ref, t))
<1>1. TypeOK /\ RefBound BY DEF Context, TypeInv, FollowsRef
<1>2. \A t \in Thread : Len(Prog[t]) \in Nat BY <1>1, OpAt
<1> QED BY <1>1, <1>2, RefIs, SchedulerAssumption
    DEF Context, TypeInv, FollowsRef, TypeOK, ProgType, ControlRef, BlockedForGood, PcBound, RefBound

\* Every thread is missing, over, waiting, at an unknown event, or main in a join.
Stuck(u) ==
  \/ st[u] = "none"
  \/ AtEnd(u) /\ u # Main
  \/ Waits(u) /\ ~InHistory(graph.rf[Op(u).ev])
  \/ StandsUnknown(u)
  \/ u = Main /\ st[u] = "join"

\* When deadlock detection gives up, every thread is stuck.
LEMMA NobodyLoud ==
  ASSUME Context, ShouldExit, NEW u \in Thread
  PROVE  ~Loud(u) /\ Stuck(u)
<1>0. /\ TypeOK /\ PcInv /\ ControlAt(u) /\ st[u] \in Control BY ContextIs
<1>1. known = active
  <2>1. /\ IsFiniteSet(known) /\ active \subseteq known
    BY <1>0, SchedulerAssumption, FS_Subset DEF TypeOK, FlagType, Context, CountersExact
  <2>2. /\ activeThreads = Cardinality(active) /\ aliveThreads = Cardinality(known)
        /\ ~(aliveThreads > activeThreads)
    BY DEF Context, CountersExact, ShouldExit
  <2>3. /\ Cardinality(active) \in Nat /\ Cardinality(known) \in Nat
        /\ Cardinality(active) <= Cardinality(known)
        /\ Cardinality(active) = Cardinality(known) => active = known
    BY <2>1, FS_Subset, FS_CardinalityType
  <2> QED BY <2>2, <2>3
<1>2. u \in active => u \in blockedUnk \cup joinWait \/ (waiting[u] # None /\ ~CanProduce(waiting[u]))
  BY DEF ShouldExit, AllStuck
<1>3. ~Loud(u) BY <1>2 DEF Loud, CanProduce
<1>4. ~Runnable(u) BY <1>3 DEF Runnable, Loud
<1>5. Waits(u) => ~InHistory(graph.rf[Op(u).ev]) BY <1>3 DEF Waits, Loud
<1>6. st[u] = "join" => u = Main
  <2>1. st[u] = "join" => ~AtEnd(u) /\ Op(u).op = "join" BY <1>0 DEF PcInv
  <2> QED BY <1>0, <2>1, OnlyMain DEF Context
<1>7. st[u] \in {"ended", "dead"} => u # Main BY DEF Context, CreateRef
<1> QED BY <1>0, <1>1, <1>3, <1>4, <1>5, <1>6, <1>7 DEF Stuck, ControlAt, Control, Gone

\* Bounds on the positions that hold the reference run back.
Holds(K, u) ==
  \/ K[u] = pc[u] /\ \/ st[u] = "none" /\ u # Main
                     \/ AtEnd(u)
                     \/ Waits(u) /\ ~InHistory(graph.rf[Op(u).ev])
                     \/ StandsUnknown(u)
  \/ /\ K[u] \in DOMAIN Prog[u] /\ Prog[u][K[u]].op = "join"
     /\ LET c == Prog[u][K[u]].child
        IN  c \in Thread /\ ~AtEnd(c) /\ K[c] = pc[c]

\* Bounds beyond which no thread can step are bounds on the reference run.
LEMMA HeldBack ==
  ASSUME Context, NEW K, K \in [Thread -> Nat], \A u \in Thread : pc[u] <= K[u],
         \A v \in Thread : \A i \in DOMAIN Prog[v] :
            i < K[v] => i < pc[v] \/ Prog[v][i].op = "join",
         \A u \in Thread : Holds(K, u)
  PROVE  \A u \in Thread : Ref.pos[u] <= K[u]
<1> DEFINE P == {s \in RefType : \A u \in Thread : s.pos[u] <= K[u]}
<1>0. TypeOK /\ PcInv /\ HistRef /\ pc \in [Thread -> Nat \ {0}] /\ AllCreated /\ ForkJoin
  BY ContextIs DEF Context
<1>1. RefInit \in P
  <2>1. RefInit \in RefType /\ \A u \in Thread : RefInit.pos[u] = 1
    BY SoundInit DEF RefSound, RefInit
  <2>2. \A u \in Thread : 1 <= K[u] BY <1>0
  <2> QED BY <2>1, <2>2
<1>2. ASSUME NEW s \in P, RefSound(graph, s), Extends(s, RefRun(graph))
      PROVE  RefStep(graph, s) \in P
  <2> DEFINE r == RefStep(graph, s)
  <2>1. s \in RefType /\ \A u \in Thread : s.pos[u] <= K[u] OBVIOUS
  <2>2. r \in RefType BY <1>2, SoundStep DEF RefSound
  <2>3. StepIs(s, r, Steppers(graph, s), StepWrites(graph, s)) BY <2>1, StepShape
  <2> HIDE DEF r, P
  <2>4. ASSUME NEW v \in Thread, NEW i \in Prefix(s, v)
        PROVE  i \in DOMAIN Prog[v] /\ i \in Nat \ {0} /\ (i < pc[v] \/ Prog[v][i].op = "join")
    <3>1. i \in DOMAIN Prog[v] /\ i \in Nat \ {0} /\ i < s.pos[v] BY <1>2, PrefixType
    <3>2. s.pos[v] \in Nat /\ s.pos[v] <= K[v] /\ K[v] \in Nat BY <2>1, RefWrType
    <3>3. i < K[v] BY <3>1, <3>2
    <3> QED BY <3>1, <3>3
  <2>5. ASSUME NEW u \in Thread, s.pos[u] = K[u] PROVE u \notin Steppers(graph, s)
    <3> SUFFICES ASSUME u \in Steppers(graph, s) PROVE FALSE OBVIOUS
    <3> DEFINE k == s.pos[u]
    <3>1. /\ k \in DOMAIN Prog[u] /\ Carried(graph, s, Prog[u][k]) /\ RefStarted(s, u)
          /\ k <= Len(Prog[u])
      BY <1>2, StepperAt
    <3>2. CASE K[u] = pc[u]
      <4>1. k = pc[u] /\ Op(u) = Prog[u][k] /\ ~AtEnd(u) BY <1>0, <2>5, <3>1, <3>2, OpAt
      <4>2. CASE st[u] = "none" /\ u # Main
        <5>1. PICK v \in Thread : \E i \in Prefix(s, v) : Prog[v][i].op = "create" /\ Prog[v][i].child = u
          BY <3>1, <4>2 DEF RefStarted, Prefix
        <5>2. PICK i \in Prefix(s, v) : Prog[v][i].op = "create" /\ Prog[v][i].child = u BY <5>1
        <5>3. i < pc[v] /\ i \in Nat \ {0} BY <2>4, <5>2
        <5>4. i \in 1..(pc[v] - 1) BY <1>0, <5>3
        <5> QED BY <1>0, <4>2, <5>2, <5>4 DEF AllCreated
      <4>3. CASE Waits(u) /\ ~InHistory(graph.rf[Op(u).ev])
        <5> DEFINE w == graph.rf[Op(u).ev]
        <5>1. Op(u).op \in ReadOps BY <4>3 DEF Waits
        <5>2. w \in DOMAIN s.wr BY <3>1, <4>1, <5>1 DEF Carried
        <5> HIDE DEF w
        <5>3. PICK v \in Thread : \E i \in Prefix(s, v) : StoresAt(graph, s, v, i, w)
          BY <1>2, <5>2, SoundIs
        <5>4. PICK i \in Prefix(s, v) : StoresAt(graph, s, v, i, w) BY <5>3
        <5>5. Prog[v][i].ev = w /\ Prog[v][i].op \in WritingOps BY <5>4 DEF StoresAt
        <5>6. i < pc[v] /\ i \in Nat \ {0} BY <2>4, <5>5 DEF WritingOps
        <5>7. i \in 1..(pc[v] - 1) BY <1>0, <5>6
        <5>8. Executed(w, EventOps) BY <5>5, <5>7 DEF Executed, WritingOps, EventOps
        <5>9. w \in DOMAIN Ref.wr BY <1>2, <5>2 DEF Extends, Ref
        <5>10. InHistory(w) BY <1>0, <5>8, <5>9 DEF HistRef
        <5> QED BY <4>3, <5>10 DEF w
      <4>4. CASE StandsUnknown(u)
        BY <3>1, <4>1, <4>4 DEF StandsUnknown, Carried, Node
      <4>5. CASE Prog[u][K[u]].op = "join" /\ LET c == Prog[u][K[u]].child
                                              IN  c \in Thread /\ ~AtEnd(c) /\ K[c] = pc[c]
        <5> DEFINE c == Prog[u][K[u]].child
        <5>1. RefEnded(s, c) BY <2>5, <3>1, <4>5 DEF Carried
        <5>2. c \in Thread /\ ~AtEnd(c) /\ K[c] = pc[c] BY <4>5
        <5> HIDE DEF c
        <5>3. s.pos[c] <= pc[c] /\ s.pos[c] \in Nat /\ pc[c] \in Nat /\ Len(Prog[c]) \in Nat
          BY <1>0, <2>1, <5>2, RefWrType, OpAt
        <5> QED BY <5>1, <5>2, <5>3 DEF RefEnded, AtEnd
      <4> QED BY <4>1, <4>2, <4>3, <4>4, <4>5 DEF Holds
    <3>3. CASE K[u] # pc[u]
      <4> DEFINE c == Prog[u][K[u]].child
      <4>1. Prog[u][K[u]].op = "join" /\ c \in Thread /\ ~AtEnd(c) /\ K[c] = pc[c]
        BY <3>3 DEF Holds
      <4>2. RefEnded(s, c) BY <2>5, <3>1, <4>1 DEF Carried
      <4> HIDE DEF c
      <4>3. s.pos[c] <= pc[c] /\ s.pos[c] \in Nat /\ pc[c] \in Nat /\ Len(Prog[c]) \in Nat
        BY <1>0, <2>1, <4>1, RefWrType, OpAt
      <4> QED BY <4>1, <4>2, <4>3 DEF RefEnded, AtEnd
    <3> QED BY <3>2, <3>3
  <2>6. ASSUME NEW u \in Thread PROVE r.pos[u] <= K[u]
    <3>1. r.pos[u] = s.pos[u] + IF u \in Steppers(graph, s) THEN 1 ELSE 0 BY <2>3 DEF StepIs
    <3>2. s.pos[u] \in Nat /\ s.pos[u] <= K[u] /\ K[u] \in Nat BY <2>1, RefWrType
    <3> QED BY <2>5, <3>1, <3>2
  <2> QED BY <2>2, <2>6 DEF r, P
<1> HIDE DEF P
<1>3. RefRun(graph) \in P BY <1>1, <1>2, RunInduction
<1> QED BY <1>3 DEF P, Ref

\* The instruction at which main stands or, in its joins, the join of thread s.
JoinsBefore(j) == \A i \in DOMAIN Prog[Main] : i < j => i < pc[Main] \/ Prog[Main][i].op = "join"
Target(s, j) ==
  /\ j \in Nat /\ pc[Main] <= j /\ JoinsBefore(j)
  /\ \/ st[Main] # "join" /\ j = pc[Main]
     \/ /\ st[Main] = "join" /\ s # Main
        /\ j \in DOMAIN Prog[Main] /\ Prog[Main][j].op = "join" /\ Prog[Main][j].child = s

\* Where the reference run can take main at most, while thread s stands.
LEMMA MainTarget ==
  ASSUME Context, NEW s \in Thread, Stands(s)
  PROVE  \E j : Target(s, j)
<1>0. /\ TypeOK /\ PcInv /\ Main \in Thread /\ pc[Main] \in Nat \ {0}
      /\ \A i \in DOMAIN Prog[Main] : i \in Nat
  BY ContextIs, InstrType
<1> DEFINE k == pc[Main]
<1>1. CASE st[Main] # "join"
  <2>1. Target(s, k) BY <1>0, <1>1 DEF Target, JoinsBefore
  <2> QED BY <2>1
<1>2. CASE st[Main] = "join"
  <2>1. /\ ~AtEnd(Main) /\ Op(Main).op = "join" BY <1>0, <1>2 DEF PcInv
  <2>2. k \in DOMAIN Prog[Main] /\ Prog[Main][k].op = "join" BY <1>0, <2>1, OpAt
  <2>3. ~AtEnd(s) /\ Op(s).op \in EventOps BY DEF Stands, Waits, StandsUnknown, ReadOps, EventOps
  <2>4. s # Main BY <2>1, <2>3 DEF EventOps
  <2>5. PICK j \in DOMAIN Prog[Main] : Prog[Main][j].op = "join" /\ Prog[Main][j].child = s
    BY <2>4 DEF Context, ForkJoin
  <2>6. st[s] # "dead"
    <3>1. ControlAt(s) BY ContextIs
    <3> QED BY <2>3, <3>1 DEF ControlAt
  <2>7. ~(j < pc[Main]) BY <2>5, <2>6 DEF Context, JoinRef
  <2>8. j \in Nat /\ k \in Nat /\ k <= j BY <1>0, <2>5, <2>7
  <2>9. JoinsBefore(j)
    <3> SUFFICES ASSUME NEW i \in DOMAIN Prog[Main], i < j, ~(i < pc[Main])
                 PROVE  Prog[Main][i].op = "join"
      BY DEF JoinsBefore
    <3>1. i = k \/ k < i BY <1>0, <2>8
    <3> HIDE DEF k
    <3>2. CASE k < i BY <2>2, <2>5, <3>2 DEF Context, ForkJoin
    <3> QED BY <2>2, <3>1, <3>2
  <2>10. Target(s, j) BY <1>2, <2>4, <2>5, <2>8, <2>9 DEF Target
  <2> QED BY <2>10
<1> QED BY <1>1, <1>2

\* What the reference run has carried out beyond the threads' positions.
OnlyJoins == \A v \in Thread : \A i \in Prefix(Ref, v) :
               i \in DOMAIN Prog[v] /\ i \in Nat \ {0} /\ (i < pc[v] \/ Prog[v][i].op = "join")

\* A source that no thread has stored is not stored in the reference run either.
LEMMA NoSource ==
  ASSUME Context, OnlyJoins, NEW w, ~InHistory(w)
  PROVE  w \notin DOMAIN Ref.wr
<1> SUFFICES ASSUME w \in DOMAIN Ref.wr PROVE FALSE OBVIOUS
<1>0. HistRef /\ pc \in [Thread -> Nat \ {0}] BY ContextIs
<1>1. PICK v \in Thread : \E i \in Prefix(Ref, v) : StoresAt(graph, Ref, v, i, w)
  BY RefIs, SoundIs
<1>2. PICK i \in Prefix(Ref, v) : StoresAt(graph, Ref, v, i, w) BY <1>1
<1>3. Prog[v][i].ev = w /\ Prog[v][i].op \in WritingOps BY <1>2 DEF StoresAt
<1>4. i < pc[v] /\ i \in Nat \ {0} BY <1>3 DEF OnlyJoins, WritingOps
<1>5. i \in 1..(pc[v] - 1) BY <1>0, <1>4
<1>6. Executed(w, EventOps) BY <1>3, <1>5 DEF Executed, WritingOps, EventOps
<1> QED BY <1>0, <1>6 DEF HistRef

\* A thread that does not exist is not started in the reference run either.
LEMMA NotStarted ==
  ASSUME Context, OnlyJoins, NEW u \in Thread, st[u] = "none"
  PROVE  u # Main /\ ~RefStarted(Ref, u)
<1>0. pc \in [Thread -> Nat \ {0}] /\ AllCreated BY ContextIs DEF Context
<1>1. u # Main BY DEF Context, CreateRef
<1>2. SUFFICES ASSUME RefStarted(Ref, u) PROVE FALSE BY <1>1
<1>3. PICK v \in Thread : \E i \in Prefix(Ref, v) : Prog[v][i].op = "create" /\ Prog[v][i].child = u
  BY <1>1, <1>2 DEF RefStarted, Prefix
<1>4. PICK i \in Prefix(Ref, v) : Prog[v][i].op = "create" /\ Prog[v][i].child = u BY <1>3
<1>5. i < pc[v] /\ i \in Nat \ {0} BY <1>4 DEF OnlyJoins
<1>6. i \in 1..(pc[v] - 1) BY <1>0, <1>5
<1> QED BY <1>0, <1>4, <1>6 DEF AllCreated

\* How the reference run stands at a stuck thread.
Halted(u) ==
  \/ u # Main /\ ~RefStarted(Ref, u)
  \/ u # Main /\ RefEnded(Ref, u)
  \/ Waits(u) /\ Ref.pos[u] = pc[u] /\ graph.rf[Op(u).ev] \notin DOMAIN Ref.wr
  \/ StandsUnknown(u) /\ Ref.pos[u] = pc[u]
  \/ u = Main /\ ~RefEnded(Ref, u) /\ RefOp(Ref, u).op = "join"

\* When every thread is stuck, the reference run gets no further than they are,
\* but for joins of main.
LEMMA StuckHalts ==
  ASSUME Context, NEW s \in Thread, Stands(s), \A u \in Thread : Stuck(u)
  PROVE  OnlyJoins /\ \A u \in Thread : Halted(u)
<1>0. /\ TypeOK /\ Main \in Thread /\ pc \in [Thread -> Nat \ {0}]
      /\ \A u \in Thread : /\ Len(Prog[u]) \in Nat /\ pc[u] <= Ref.pos[u]
                           /\ Ref.pos[u] \in Nat \ {0} /\ Ref.pos[u] <= Len(Prog[u]) + 1
      /\ \A v \in Thread : \A i \in DOMAIN Prog[v] : i \in Nat
  BY ContextIs, InstrType
<1>1. PICK j : Target(s, j) BY MainTarget
<1>2. j \in Nat /\ pc[Main] <= j BY <1>1 DEF Target
<1> DEFINE K == [pc EXCEPT ![Main] = j]
<1>3. /\ K \in [Thread -> Nat] /\ K[Main] = j /\ \A u \in Thread \ {Main} : K[u] = pc[u]
  BY <1>0, <1>2
<1> HIDE DEF K
<1>4. \A u \in Thread : pc[u] <= K[u] BY <1>0, <1>2, <1>3
<1>5. ASSUME NEW v \in Thread, NEW i \in DOMAIN Prog[v], i < K[v]
      PROVE  i < pc[v] \/ Prog[v][i].op = "join"
  BY <1>1, <1>3, <1>5 DEF Target, JoinsBefore
<1>6. ASSUME NEW u \in Thread PROVE Holds(K, u)
  <2>1. Stuck(u) OBVIOUS
  <2>2. st[Main] # "none" BY DEF Context, CreateRef
  <2>3. CASE u = Main /\ st[Main] = "join"
    <3>1. /\ j \in DOMAIN Prog[Main] /\ Prog[Main][j].op = "join" /\ Prog[Main][j].child = s
          /\ s # Main
      BY <1>1, <2>3 DEF Target
    <3>2. ~AtEnd(s) BY DEF Stands, Waits, StandsUnknown
    <3> QED BY <1>3, <2>3, <3>1, <3>2 DEF Holds
  <2>4. CASE ~(u = Main /\ st[Main] = "join")
    <3>1. K[u] = pc[u] BY <1>1, <1>3, <2>4 DEF Target
    <3> QED BY <2>1, <2>2, <2>4, <3>1 DEF Stuck, Holds
  <2> QED BY <2>3, <2>4
<1>7. \A u \in Thread : Ref.pos[u] <= K[u] BY <1>3, <1>4, <1>5, <1>6, HeldBack
<1>8. OnlyJoins
  <2> SUFFICES ASSUME NEW v \in Thread, NEW i \in Prefix(Ref, v)
               PROVE  i \in DOMAIN Prog[v] /\ i \in Nat \ {0} /\ (i < pc[v] \/ Prog[v][i].op = "join")
    BY DEF OnlyJoins
  <2>1. i \in DOMAIN Prog[v] /\ i \in Nat \ {0} /\ i < Ref.pos[v] BY RefIs, PrefixType
  <2>2. Ref.pos[v] \in Nat /\ K[v] \in Nat /\ Ref.pos[v] <= K[v] BY <1>0, <1>3, <1>7
  <2>3. i < K[v] BY <2>1, <2>2
  <2> QED BY <1>5, <2>1, <2>3
<1>9. ASSUME NEW u \in Thread PROVE Halted(u)
  <2>1. Stuck(u) OBVIOUS
  <2>2. CASE st[u] = "none" BY <1>8, <2>2, NotStarted DEF Halted
  <2>3. CASE AtEnd(u) /\ u # Main
    <3>1. RefEnded(Ref, u) BY <1>0, <2>3 DEF AtEnd, RefEnded
    <3> QED BY <2>3, <3>1 DEF Halted
  <2>4. CASE u = Main /\ st[u] = "join"
    <3>1. j \in DOMAIN Prog[Main] /\ Prog[Main][j].op = "join" BY <1>1, <2>4 DEF Target
    <3>2. j <= Len(Prog[Main]) /\ j \in Nat BY <1>0, <3>1, InstrType
    <3> DEFINE k == Ref.pos[Main]
    <3>3. k \in Nat /\ pc[Main] <= k /\ k <= j /\ k \in DOMAIN Prog[Main]
      <4>1. k \in Nat \ {0} /\ pc[Main] <= k /\ k <= j BY <1>0, <1>3, <1>7
      <4>2. Prog[Main] \in Seq(Instr) BY <1>0, SchedulerAssumption
      <4> HIDE DEF k
      <4> QED BY <3>2, <4>1, <4>2
    <3>4. Prog[Main][k].op = "join"
      <4> HIDE DEF k
      <4>1. pc[Main] \in Nat BY <1>0
      <4>2. k = j \/ k < j BY <3>2, <3>3
      <4>3. JoinsBefore(j) BY <1>1 DEF Target
      <4> QED BY <3>1, <3>3, <4>1, <4>2, <4>3 DEF JoinsBefore
    <3>5. ~RefEnded(Ref, Main) BY <3>2, <3>3, <1>0 DEF RefEnded
    <3> QED BY <2>4, <3>4, <3>5 DEF Halted, RefOp
  <2>5. CASE ~(u = Main /\ st[u] = "join") /\ (StandsUnknown(u) \/ (Waits(u) /\ ~InHistory(graph.rf[Op(u).ev])))
    <3>1. K[u] = pc[u] BY <1>1, <1>3, <2>5 DEF Target
    <3>2. Ref.pos[u] = pc[u] BY <1>0, <1>7, <3>1
    <3> QED BY <1>8, <2>5, <3>2, NoSource DEF Halted
  <2> QED BY <2>1, <2>2, <2>3, <2>4, <2>5 DEF Stuck
<1> QED BY <1>8, <1>9

-----------------------------------------------------------------------------
(* The verdict.                                                            *)

RefAll == DOMAIN graph.type \subseteq RefExecuted(Ref) /\ DOMAIN graph.rf \subseteq RefRealised(Ref)

\* The code marks as covered what the reference run has executed, or a thread
\* still waits and an rf edge is missing.
LEMMA InstantiatedIs ==
  ASSUME Context, OnlyJoins, \A t \in Thread : ~AtEnd(t) => ~Loud(t)
  PROVE  Instantiated <=> RefAll
<1>0. /\ TypeOK /\ CoverRef /\ RefBound /\ pc \in [Thread -> Nat \ {0}]
      /\ \A t \in Thread : pc[t] <= Ref.pos[t] /\ Ref.pos[t] \in Nat
      /\ None \notin Event
  BY ContextIs, SchedulerAssumption
<1>1. /\ Node \subseteq Event /\ DOMAIN graph.rf \subseteq Node /\ covered \subseteq Node
      /\ coveredRf \subseteq DOMAIN graph.rf
  BY <1>0 DEF TypeOK, CoverType, WellFormed, Node
<1>2. ASSUME NEW e \in Event
      PROVE  /\ e \in RefExecuted(Ref) <=> Executed(e, EventOps)
             /\ e \in RefRealised(Ref) <=> Executed(e, ReadOps)
  <2>1. ASSUME NEW t \in Thread, NEW i \in 1..(Ref.pos[t] - 1), Prog[t][i].ev = e
        PROVE  i \in 1..(pc[t] - 1) /\ Prog[t][i].op \in EventOps
    <3>1. i \in Prefix(Ref, t) BY DEF Prefix
    <3>2. i \in DOMAIN Prog[t] /\ i \in Nat \ {0} /\ (i < pc[t] \/ Prog[t][i].op = "join")
      BY <3>1 DEF OnlyJoins
    <3>3. Prog[t][i].op \in EventOps
      <4>1. /\ Prog[t][i].op \in EventOps \cup {"create", "join"}
            /\ WellFormedInstr(t, Prog[t][i])
        BY <3>2, InstrType
      <4> QED BY <1>0, <2>1, <4>1 DEF WellFormedInstr
    <3>4. i < pc[t] BY <3>2, <3>3 DEF EventOps
    <3> QED BY <1>0, <3>2, <3>3, <3>4
  <2>2. \A t \in Thread : \A i \in 1..(pc[t] - 1) : i \in 1..(Ref.pos[t] - 1) BY <1>0
  <2>3. e \in RefExecuted(Ref) <=> Executed(e, EventOps)
    BY <2>1, <2>2 DEF RefExecuted, Executed
  <2>4. e \in RefRealised(Ref) <=> Executed(e, ReadOps)
    BY <2>1, <2>2 DEF RefRealised, Executed
  <2> QED BY <2>3, <2>4
<1>3. \A e : \A t \in Thread : ~(Standing(t, e) /\ Rejected(t)) BY DEF Standing, Rejected
<1>4. \A e \in coveredRf : Executed(e, ReadOps) BY <1>0, <1>3 DEF CoverRef
<1>5. \A e : Executed(e, ReadOps) => Executed(e, EventOps) BY DEF Executed, ReadOps, EventOps
<1>6. \A e \in covered : Executed(e, EventOps) \/ \E t \in Thread : Standing(t, e) /\ Waits(t)
  BY <1>0, <1>3 DEF CoverRef
<1>7. ASSUME RefAll PROVE Instantiated
  <2>1. \A e \in Node : e \in covered BY <1>0, <1>1, <1>2, <1>7 DEF RefAll, CoverRef, Node
  <2>2. \A e \in DOMAIN graph.rf : e \in coveredRf
    BY <1>0, <1>1, <1>2, <1>7 DEF RefAll, CoverRef, Node
  <2> QED BY <1>1, <2>1, <2>2 DEF Instantiated
<1>8. ASSUME Instantiated PROVE RefAll
  <2>1. covered = Node /\ coveredRf = DOMAIN graph.rf BY <1>8 DEF Instantiated
  <2>2. ASSUME NEW e \in Node PROVE Executed(e, EventOps)
    <3>1. CASE \E t \in Thread : Standing(t, e) /\ Waits(t)
      <4>1. e \in DOMAIN graph.rf BY <3>1 DEF Standing, Waits
      <4> QED BY <1>4, <1>5, <2>1, <4>1
    <3> QED BY <1>6, <2>1, <3>1
  <2>3. DOMAIN graph.type \subseteq RefExecuted(Ref) BY <1>1, <1>2, <2>2 DEF Node
  <2>4. DOMAIN graph.rf \subseteq RefRealised(Ref) BY <1>1, <1>2, <1>4, <2>1
  <2> QED BY <2>3, <2>4 DEF RefAll
<1> QED BY <1>7, <1>8

\* Without a fault the verdict depends on what was executed and where main is.
LEMMA VerdictIs ==
  ASSUME \A t \in Thread : RefFault(graph, Ref, t) = 0
  PROVE  (IF ~RefAll THEN NOT_INSTANTIABLE
          ELSE IF RefEnded(Ref, Main) THEN OK ELSE INSTANTIATED_BUT_NOT_DONE) \in Verdicts(graph)
<1> HIDE DEF NOT_INSTANTIABLE, OK, INSTANTIATED_BUT_NOT_DONE
<1>1. RefFaults = {} BY DEF RefFaults
<1>2. Verdicts(graph) =
        IF RefFaults # {} THEN RefFaults
        ELSE IF ~RefAll THEN {NOT_INSTANTIABLE}
        ELSE IF RefEnded(Ref, Main) THEN {OK} ELSE {INSTANTIATED_BUT_NOT_DONE}
  BY DEF Verdicts, RefFaults, RefAll, Ref
<1> QED BY <1>1, <1>2

\* The reference run at a thread whose position it shares.
LEMMA HaltedAt ==
  ASSUME Context, NEW u \in Thread, Waits(u) \/ StandsUnknown(u), Ref.pos[u] = pc[u]
  PROVE  /\ RefOp(Ref, u) = Op(u) /\ RefStarted(Ref, u) /\ ~RefEnded(Ref, u)
         /\ Op(u).op \in EventOps
         /\ Waits(u) => Op(u).ev \in Node
<1>1. RefOp(Ref, u) = Op(u) BY DEF RefOp, Op
<1>2. ~AtEnd(u) /\ Op(u).op \in EventOps BY DEF Waits, StandsUnknown, ReadOps, EventOps
<1>3. ~RefEnded(Ref, u) BY <1>2 DEF RefEnded, AtEnd
<1>4. st[u] # "none"
  <2>1. CASE Waits(u)
    <3>1. u \in active /\ u \in Thread BY <2>1 DEF Waits
    <3>2. u \in known /\ u \in everStarted BY <3>1 DEF Context, CountersExact
    <3> SUFFICES ASSUME st[u] = "none" PROVE FALSE OBVIOUS
    <3>3. st[Main] = "creating" /\ Op(Main).child = u BY <3>2 DEF Context, CreateRef
    <3> QED BY <3>1, <3>3 DEF Context, CreateRef
  <2>2. CASE StandsUnknown(u)
    <3>1. st[u] \in UnknownPoints BY <2>2, ContextIs DEF StandsUnknown
    <3> QED BY <3>1 DEF UnknownPoints
  <2> QED BY <2>1, <2>2
<1>5. RefStarted(Ref, u) BY <1>4, ContextIs
<1>6. Waits(u) => Op(u).ev \in Node
  BY ContextIs DEF Waits, TypeOK, CoverType, WellFormed, Node
<1> QED BY <1>1, <1>2, <1>3, <1>5, <1>6

\* A stuck thread is no fault of the reference run.
LEMMA NoFault ==
  ASSUME Context, NEW u \in Thread, Halted(u)
  PROVE  /\ RefFault(graph, Ref, u) = 0
         /\ AtNode(graph, Ref, u) \/ ~RefStarted(Ref, u) \/ RefEnded(Ref, u)
            \/ RefOp(Ref, u).op \notin EventOps
            \/ (StandsUnknown(u) /\ RefOp(Ref, u) = Op(u))
         /\ u = Main => ~RefEnded(Ref, u)
<1>1. CASE u # Main /\ (~RefStarted(Ref, u) \/ RefEnded(Ref, u)) BY <1>1 DEF RefFault, AtNode
<1>2. CASE u = Main /\ ~RefEnded(Ref, u) /\ RefOp(Ref, u).op = "join"
  BY <1>2 DEF RefFault, AtNode, EventOps
<1>3. CASE StandsUnknown(u) /\ Ref.pos[u] = pc[u]
  <2>1. RefOp(Ref, u) = Op(u) /\ ~RefEnded(Ref, u) BY <1>3, HaltedAt
  <2>2. ~AtNode(graph, Ref, u) BY <1>3, <2>1 DEF AtNode, StandsUnknown, Node
  <2> QED BY <1>3, <2>1, <2>2 DEF RefFault
<1>4. CASE Waits(u) /\ Ref.pos[u] = pc[u] /\ graph.rf[Op(u).ev] \notin DOMAIN Ref.wr
  <2> DEFINE o == Op(u)
  <2>1. /\ RefOp(Ref, u) = o /\ RefStarted(Ref, u) /\ ~RefEnded(Ref, u)
        /\ o.op \in EventOps /\ o.ev \in Node
    BY <1>4, HaltedAt
  <2>2. AtNode(graph, Ref, u) BY <2>1 DEF AtNode, Node
  <2>3. /\ o.op \in ReadOps /\ o.ev \in DOMAIN graph.rf /\ graph.type[o.ev] \in RefTypes[o.op]
        /\ graph.rf[o.ev] \notin DOMAIN Ref.wr
    BY <1>4, TypesAgree DEF Waits
  <2> HIDE DEF o
  <2>4. RefFault(graph, Ref, u) = 0 BY <2>1, <2>2, <2>3 DEF RefFault
  <2> QED BY <2>1, <2>2, <2>4
<1> QED BY <1>1, <1>2, <1>3, <1>4 DEF Halted

\* Deadlock detection is right: the exit it takes is the verdict of the reference
\* run, and the next events it knows are all that the reference run wants.
LEMMA Decision ==
  ASSUME Context, ShouldExit, NEW s \in Thread, Stands(s)
  PROVE  TerminalCode \in Verdicts(graph) /\ nextEvents = RefNext(graph)
<1>1. \A u \in Thread : ~Loud(u) /\ Stuck(u) BY NobodyLoud
<1>2. OnlyJoins /\ \A u \in Thread : Halted(u) BY <1>1, StuckHalts
<1>3. Main \in Thread /\ NextRef BY ContextIs
<1>4. TerminalCode \in Verdicts(graph)
  <2>1. Instantiated <=> RefAll BY <1>1, <1>2, InstantiatedIs
  <2>2. \A u \in Thread : RefFault(graph, Ref, u) = 0 BY <1>2, NoFault
  <2>3. ~RefEnded(Ref, Main) BY <1>2, <1>3, NoFault
  <2> QED BY <2>1, <2>2, <2>3, VerdictIs DEF TerminalCode
<1>5. RefNext(graph) =
        {RefOp(Ref, t).ev : t \in {u \in Thread : /\ RefStarted(Ref, u) /\ ~RefEnded(Ref, u)
                                                  /\ RefOp(Ref, u).op \in EventOps
                                                  /\ ~AtNode(graph, Ref, u)}}
  BY DEF RefNext, Ref
<1>6. ASSUME NEW e \in RefNext(graph) PROVE e \in nextEvents
  <2>1. PICK u \in Thread : /\ RefStarted(Ref, u) /\ ~RefEnded(Ref, u)
                            /\ RefOp(Ref, u).op \in EventOps /\ ~AtNode(graph, Ref, u)
                            /\ e = RefOp(Ref, u).ev
    BY <1>5, <1>6
  <2>2. StandsUnknown(u) /\ RefOp(Ref, u) = Op(u) BY <1>2, <2>1, NoFault
  <2> QED BY <2>1, <2>2 DEF StandsUnknown
<1>7. ASSUME NEW e \in nextEvents PROVE e \in RefNext(graph)
  <2>1. PICK u \in Thread : StandsUnknown(u) /\ Op(u).ev = e BY <1>3 DEF NextRef
  <2>2. ~AtEnd(u) /\ Op(u).op \in EventOps /\ Op(u).ev \notin Node BY <2>1 DEF StandsUnknown
  <2>3. Ref.pos[u] = pc[u]
    <3>1. st[u] # "none"
      <4>1. st[u] \in UnknownPoints BY <2>1, ContextIs DEF StandsUnknown
      <4> QED BY <4>1 DEF UnknownPoints
    <3>2. ~Carried(graph, Ref, Op(u)) BY <2>2 DEF Carried, Node
    <3> QED BY <2>2, <3>1, <3>2, Ahead, ContextIs
  <2>4. RefOp(Ref, u) = Op(u) /\ RefStarted(Ref, u) /\ ~RefEnded(Ref, u)
    BY <2>1, <2>3, HaltedAt
  <2>5. ~AtNode(graph, Ref, u) BY <2>2, <2>4 DEF AtNode, Node
  <2> QED BY <1>5, <2>1, <2>2, <2>4, <2>5
<1> QED BY <1>4, <1>6, <1>7

-----------------------------------------------------------------------------
(* The exit.                                                               *)

\* Whoever leaves leaves with a verdict of the reference run.
LeaveAt(t) ==
  /\ st[t] = "publish" => /\ INSTANTIATED_BUT_NOT_DONE \in Verdicts(graph)
                          /\ lock = t /\ nextEvents = RefNext(graph)
  /\ st[t] \in {"exiting", "dying"} => exiting # 0
  /\ st[t] = "dying0" => OK \in Verdicts(graph)

LeaveInv ==
  /\ exiting # 0 => exiting \in Verdicts(graph) /\ \E t \in Thread : st[t] \in {"exiting", "dying"}
  /\ proc # Running => proc \in Verdicts(graph)
  /\ \A t \in Thread : LeaveAt(t)
  /\ NextEventsComplete

\* main returns last, so its exit status rests on what was executed.
LEMMA MainLast ==
  ASSUME Context, LeaveInv, st[Main] = "returning"
  PROVE  /\ exiting = 0
         /\ (IF Instantiated THEN OK ELSE NOT_INSTANTIABLE) \in Verdicts(graph)
<1>0. /\ Main \in Thread /\ ControlAt(Main) /\ TypeOK /\ pc \in [Thread -> Nat \ {0}]
      /\ \A t \in Thread : /\ ControlAt(t) /\ Len(Prog[t]) \in Nat /\ pc[t] <= Len(Prog[t]) + 1
                           /\ Ref.pos[t] \in Nat \ {0} /\ Ref.pos[t] <= Len(Prog[t]) + 1
                           /\ pc[t] <= Ref.pos[t]
  BY ContextIs
<1>1. AtEnd(Main) BY <1>0 DEF ControlAt
<1>2. ASSUME NEW t \in Thread \ {Main} PROVE st[t] = "dead"
  <2>1. PICK j \in DOMAIN Prog[Main] : Prog[Main][j].op = "join" /\ Prog[Main][j].child = t
    BY DEF Context, ForkJoin
  <2>2. j \in Nat /\ j <= Len(Prog[Main]) BY <1>0, InstrType
  <2>3. j < pc[Main] BY <1>0, <1>1, <2>2 DEF AtEnd
  <2> QED BY <2>1, <2>3 DEF Context, JoinRef
<1>3. \A t \in Thread : AtEnd(t) BY <1>0, <1>1, <1>2 DEF ControlAt
<1>4. exiting = 0
  <2>1. \A t \in Thread : st[t] \notin {"exiting", "dying"} BY <1>2
  <2> QED BY <2>1 DEF LeaveInv
<1>5. \A t \in Thread : pc[t] = Ref.pos[t] /\ RefEnded(Ref, t) BY <1>0, <1>3 DEF AtEnd, RefEnded
<1>6. OnlyJoins
  <2> SUFFICES ASSUME NEW v \in Thread, NEW i \in Prefix(Ref, v)
               PROVE  i \in DOMAIN Prog[v] /\ i \in Nat \ {0} /\ i < pc[v]
    BY DEF OnlyJoins
  <2> QED BY <1>5, RefIs, PrefixType
<1>7. Instantiated <=> RefAll BY <1>3, <1>6, InstantiatedIs
<1>8. \A t \in Thread : RefFault(graph, Ref, t) = 0 BY <1>5 DEF RefFault, AtNode
<1> QED BY <1>0, <1>4, <1>5, <1>7, <1>8, VerdictIs

\* The block is filled with next events of the reference run.
LEMMA PublishComplete ==
  ASSUME Context, LeaveInv, NEW t \in Thread, Publish(t)
  PROVE  NextEventsComplete'
<1>0. TypeOK /\ NextRef /\ pc \in [Thread -> Nat \ {0}] BY ContextIs
<1>1. graph' = graph /\ nextEvents = RefNext(graph)
  BY DEF Publish, LeaveInv, LeaveAt
<1>2. PICK reported \in SUBSET nextEvents :
         /\ Fits(reported)
         /\ shm' = [ready |-> TRUE,
                    events |-> {[next |-> e, src |-> Sources(Tid(e), pruned)] : e \in reported}]
  BY DEF Publish
<1>3. {x.next : x \in shm'.events} = reported
  <2> DEFINE rec(e) == [next |-> e, src |-> Sources(Tid(e), pruned)]
  <2>1. \A e : rec(e).next = e OBVIOUS
  <2>2. shm'.events = {rec(e) : e \in reported} BY <1>2
  <2> HIDE DEF rec
  <2> QED BY <2>1, <2>2
<1>4. IsFiniteSet(nextEvents)
  <2> DEFINE f == [u \in Thread |-> Op(u).ev]
  <2>1. \A u \in Thread : f[u] = Op(u).ev OBVIOUS
  <2> HIDE DEF f
  <2>a. IsFiniteSet(Thread) BY SchedulerAssumption
  <2>2. IsFiniteSet({f[u] : u \in Thread}) BY <2>a, ImageFinite, Zenon
  <2>3. nextEvents \subseteq {f[u] : u \in Thread} BY <1>0, <2>1 DEF NextRef
  <2> QED BY <2>2, <2>3, FS_Subset
<1>5. reported = nextEvents \/ Cardinality(reported) = MaxNext
  <2>1. Cardinality(reported) = Cardinality(nextEvents) => reported = nextEvents
    BY <1>4, FS_Subset
  <2> QED BY <1>2, <2>1 DEF Fits
<1>6. RefNext(graph)' = RefNext(graph) BY <1>1
<1> QED BY <1>1, <1>3, <1>5, <1>6 DEF NextEventsComplete

\* A step of t leaves the others on their way out alone.
LEMMA LeaveFrame ==
  ASSUME Context, LeaveInv, NEW t \in Thread, Outcome(t),
         nextEvents' = nextEvents \/ lock = None,
         lock' = lock \/ lock \in {None, t},
         exiting # 0 => exiting' = exiting,
         exiting' # 0 => /\ exiting' \in Verdicts(graph)
                         /\ exiting = 0 => st'[t] \in {"exiting", "dying"},
         st[t] \in {"exiting", "dying"} => st'[t] \in {"exiting", "dying"},
         proc' # Running => proc' \in Verdicts(graph),
         LeaveAt(t)', NextEventsComplete'
  PROVE  LeaveInv'
<1>1. /\ graph' = graph
      /\ \A u \in Thread \ {t} : st'[u] = st[u] \/ (st[u] = "none" /\ st'[u] = "starting")
  BY DEF Outcome, Grows, OthersStay
<1>2. None \notin Thread BY SchedulerAssumption
<1>3. ASSUME NEW u \in Thread \ {t} PROVE LeaveAt(u)'
  <2>1. LeaveAt(u) BY DEF LeaveInv
  <2>2. CASE st'[u] = "starting" BY <2>2 DEF LeaveAt
  <2>3. CASE st'[u] = st[u] BY <1>1, <1>2, <2>1, <2>3 DEF LeaveAt
  <2> QED BY <1>1, <2>2, <2>3
<1>4. exiting' # 0 => \E u \in Thread : st'[u] \in {"exiting", "dying"}
  <2>1. CASE exiting = 0 BY <2>1
  <2>2. CASE exiting # 0
    <3>1. PICK u \in Thread : st[u] \in {"exiting", "dying"} BY <2>2 DEF LeaveInv
    <3>2. st'[u] \in {"exiting", "dying"} BY <1>1, <3>1
    <3> QED BY <3>2
  <2> QED BY <2>1, <2>2
<1> QED BY <1>1, <1>3, <1>4 DEF LeaveInv

\* A block that is not written stays complete.
LEMMA SameBlock ==
  ASSUME Context, LeaveInv, graph' = graph, shm' = shm \/ shm' = [ready |-> FALSE, events |-> {}]
  PROVE  NextEventsComplete'
<1>1. RefNext(graph)' = RefNext(graph) OBVIOUS
<1>2. NextEventsComplete /\ AllCreated BY DEF Context, LeaveInv
<1>3. CASE shm' = shm BY <1>1, <1>2, <1>3 DEF NextEventsComplete
<1>4. CASE shm' = [ready |-> FALSE, events |-> {}] BY <1>4 DEF NextEventsComplete
<1> QED BY <1>3, <1>4

\* A handler decides the exit status.
LEMMA TerminateLeaves ==
  ASSUME Context, LeaveInv, NEW t \in Thread, Outcome(t), lock = None, proc' = proc,
         st[t] \notin {"exiting", "dying"}, NEW code \in Verdicts(graph) \ {0}, Terminate(t, code),
         code = INSTANTIATED_BUT_NOT_DONE => nextEvents' = RefNext(graph)
  PROVE  LeaveInv'
<1>0. st \in [Thread -> Control] /\ graph' = graph BY ContextIs DEF Outcome, Grows
<1>a. proc' # Running => proc' \in Verdicts(graph) BY DEF LeaveInv
<1>1. CASE code = INSTANTIATED_BUT_NOT_DONE
  <2> HIDE DEF INSTANTIATED_BUT_NOT_DONE
  <2>1. /\ st' = [st EXCEPT ![t] = "publish"] /\ lock' = t /\ exiting' = exiting
        /\ shm' = [ready |-> FALSE, events |-> {}]
    BY <1>1 DEF Terminate
  <2>2. st'[t] = "publish" BY <1>0, <2>1
  <2>3. LeaveAt(t)' BY <1>0, <1>1, <2>1, <2>2 DEF LeaveAt
  <2>4. NextEventsComplete' BY <1>0, <2>1, SameBlock
  <2>5. exiting # 0 => exiting \in Verdicts(graph) BY DEF LeaveInv
  <2> QED BY <1>0, <1>a, <2>1, <2>2, <2>3, <2>4, <2>5, LeaveFrame
<1>2. CASE code # INSTANTIATED_BUT_NOT_DONE
  <2> HIDE DEF INSTANTIATED_BUT_NOT_DONE
  <2>1. CasExit(t, code) /\ lock' = lock /\ shm' = shm BY <1>2 DEF Terminate
  <2>2. NextEventsComplete' BY <1>0, <2>1, SameBlock
  <2>3. CASE exiting = 0
    <3>1. exiting' = code /\ st' = [st EXCEPT ![t] = "exiting"] BY <2>1, <2>3 DEF CasExit
    <3>2. st'[t] = "exiting" BY <1>0, <3>1
    <3>3. LeaveAt(t)' BY <3>1, <3>2 DEF LeaveAt
    <3> QED BY <1>a, <2>1, <2>2, <2>3, <3>1, <3>2, <3>3, LeaveFrame
  <2>4. CASE exiting # 0
    <3>1. exiting' = exiting /\ st' = [st EXCEPT ![t] = "paused"] BY <2>1, <2>4 DEF CasExit
    <3>2. st'[t] = "paused" BY <1>0, <3>1
    <3>3. LeaveAt(t)' BY <3>2 DEF LeaveAt
    <3>4. exiting \in Verdicts(graph) BY <2>4 DEF LeaveInv
    <3> QED BY <1>a, <2>1, <2>2, <2>4, <3>1, <3>3, <3>4, LeaveFrame
  <2> QED BY <2>3, <2>4
<1> QED BY <1>1, <1>2

\* The thread that publishes publishes the next events of the reference run.
LEMMA PublishLeaves ==
  ASSUME Context, LeaveInv, NEW t \in Thread, Outcome(t), Publish(t)
  PROVE  LeaveInv'
<1>0. st \in [Thread -> Control] /\ graph' = graph BY ContextIs DEF Outcome, Grows
<1>1. /\ st[t] = "publish" /\ lock' = None /\ CasExit(t, INSTANTIATED_BUT_NOT_DONE)
      /\ UNCHANGED <<nextEvents, proc>>
  BY DEF Publish, unkVars
<1>2. lock = t /\ INSTANTIATED_BUT_NOT_DONE \in Verdicts(graph) BY <1>1 DEF LeaveInv, LeaveAt
<1>3. NextEventsComplete' BY PublishComplete
<1>4. proc' # Running => proc' \in Verdicts(graph) BY <1>1 DEF LeaveInv
<1>5. CASE exiting = 0
  <2>1. exiting' = INSTANTIATED_BUT_NOT_DONE /\ st' = [st EXCEPT ![t] = "exiting"]
    BY <1>1, <1>5 DEF CasExit
  <2>2. st'[t] = "exiting" /\ exiting' # 0 BY <1>0, <2>1 DEF INSTANTIATED_BUT_NOT_DONE
  <2>3. LeaveAt(t)' BY <2>2 DEF LeaveAt
  <2> HIDE DEF INSTANTIATED_BUT_NOT_DONE
  <2> QED BY <1>1, <1>2, <1>3, <1>4, <1>5, <2>1, <2>2, <2>3, LeaveFrame
<1>6. CASE exiting # 0
  <2>1. exiting' = exiting /\ st' = [st EXCEPT ![t] = "paused"] BY <1>1, <1>6 DEF CasExit
  <2>2. st'[t] = "paused" BY <1>0, <2>1
  <2>3. LeaveAt(t)' BY <2>2 DEF LeaveAt
  <2>4. exiting \in Verdicts(graph) BY <1>6 DEF LeaveInv
  <2> QED BY <1>1, <1>2, <1>3, <1>4, <1>6, <2>1, <2>3, <2>4, LeaveFrame
<1> QED BY <1>5, <1>6

\* The atexit check of main has the verdict.
LEMMA VerifyLeaves ==
  ASSUME Context, LeaveInv, NEW t \in Thread, Outcome(t), VerifyAtexit(t)
  PROVE  LeaveInv'
<1>0. /\ st \in [Thread -> Control] /\ graph' = graph /\ ControlAt(t)
  BY ContextIs DEF Outcome, Grows
<1>1. /\ st[t] \in {"exiting", "returning"} /\ lock' = lock /\ shm' = shm
      /\ UNCHANGED <<nextEvents, proc>>
  BY DEF VerifyAtexit, unkVars
<1>2. NextEventsComplete' BY <1>0, <1>1, SameBlock
<1>3. proc' # Running => proc' \in Verdicts(graph) BY <1>1 DEF LeaveInv
<1>4. CASE st[t] = "exiting"
  <2>1. exiting # 0 /\ exiting \in Verdicts(graph) BY <1>4 DEF LeaveInv, LeaveAt
  <2>2. exiting' = exiting /\ st' = [st EXCEPT ![t] = "dying"]
    BY <1>4, <2>1 DEF VerifyAtexit, Goto
  <2>3. st'[t] = "dying" BY <1>0, <2>2
  <2>4. LeaveAt(t)' BY <2>1, <2>2, <2>3 DEF LeaveAt
  <2> QED BY <1>1, <1>2, <1>3, <2>1, <2>2, <2>3, <2>4, LeaveFrame
<1>5. CASE st[t] = "returning"
  <2>1. t = Main BY <1>0, <1>5 DEF ControlAt
  <2>2. exiting = 0 /\ (IF Instantiated THEN OK ELSE NOT_INSTANTIABLE) \in Verdicts(graph)
    BY <1>5, <2>1, MainLast
  <2>3. CASE Instantiated
    <3>1. exiting' = exiting /\ st' = [st EXCEPT ![t] = "dying0"]
      BY <2>2, <2>3 DEF VerifyAtexit, Goto
    <3>2. st'[t] = "dying0" BY <1>0, <3>1
    <3>3. LeaveAt(t)' BY <1>0, <2>2, <2>3, <3>2 DEF LeaveAt
    <3> QED BY <1>1, <1>2, <1>3, <1>5, <2>2, <3>1, <3>3, LeaveFrame
  <2>4. CASE ~Instantiated
    <3>1. exiting' = NOT_INSTANTIABLE /\ st' = [st EXCEPT ![t] = "dying"]
      BY <2>2, <2>4 DEF VerifyAtexit, Goto
    <3>2. st'[t] = "dying" BY <1>0, <3>1
    <3>3. LeaveAt(t)' BY <3>1, <3>2 DEF LeaveAt, NOT_INSTANTIABLE
    <3> HIDE DEF NOT_INSTANTIABLE
    <3> QED BY <1>1, <1>2, <1>3, <2>2, <2>4, <3>1, <3>2, <3>3, LeaveFrame
  <2> QED BY <2>3, <2>4
<1> QED BY <1>1, <1>4, <1>5

\* The process ends with the status that was chosen.
LEMMA ExitLeaves ==
  ASSUME Context, LeaveInv, NEW t \in Thread, Outcome(t), ProcessExit(t)
  PROVE  LeaveInv'
<1>0. graph' = graph BY DEF Outcome, Grows
<1>1. /\ st[t] \in {"dying", "dying0"}
      /\ proc' = (IF st[t] = "dying" THEN exiting ELSE OK)
      /\ UNCHANGED <<st, exiting, lock, shm, nextEvents>>
  BY DEF ProcessExit, progVars, exitVars, unkVars
<1>2. LeaveAt(t) BY DEF LeaveInv
<1>3. proc' \in Verdicts(graph) BY <1>1, <1>2 DEF LeaveInv, LeaveAt
<1>4. LeaveAt(t)' BY <1>0, <1>1, <1>2 DEF LeaveAt
<1>5. NextEventsComplete' BY <1>0, <1>1, SameBlock
<1>6. exiting # 0 => exiting \in Verdicts(graph) BY DEF LeaveInv
<1> QED BY <1>1, <1>3, <1>4, <1>5, <1>6, LeaveFrame

\* A step that neither exits nor publishes.
LEMMA QuietLeaves ==
  ASSUME Context, LeaveInv, NEW t \in Thread, Outcome(t), UNCHANGED <<exiting, lock, shm, proc>>,
         nextEvents' = nextEvents \/ lock = None,
         \/ st'[t] = st[t]
         \/ {st[t], st'[t]} \cap {"publish", "exiting", "dying", "dying0"} = {}
  PROVE  LeaveInv'
<1>0. graph' = graph /\ None \notin Thread BY SchedulerAssumption DEF Outcome, Grows
<1>1. LeaveAt(t) BY DEF LeaveInv
<1>2. LeaveAt(t)'
  <2>1. CASE st'[t] = st[t] BY <1>0, <1>1, <2>1 DEF LeaveAt
  <2>2. CASE st'[t] \notin {"publish", "exiting", "dying", "dying0"} BY <2>2 DEF LeaveAt
  <2> QED BY <2>1, <2>2
<1>3. NextEventsComplete' BY <1>0, SameBlock
<1>4. exiting # 0 => exiting \in Verdicts(graph) BY DEF LeaveInv
<1>5. proc' # Running => proc' \in Verdicts(graph) BY DEF LeaveInv
<1>6. st[t] \in {"exiting", "dying"} => st'[t] \in {"exiting", "dying"} OBVIOUS
<1> QED BY <1>2, <1>3, <1>4, <1>5, <1>6, LeaveFrame

\* The decision of deadlock detection, in one formula.
LEMMA DecisionIs ==
  Context /\ ShouldExit /\ (\E s \in Thread : Stands(s))
  => TerminalCode \in Verdicts(graph) /\ nextEvents = RefNext(graph)
BY Decision

\* Every step of the exit keeps to the verdicts.
LEMMA VerdictStep ==
  ASSUME Context, Context', LeaveInv, NEW t \in Thread, Outcome(t), ExitOutcome(t)
  PROVE  LeaveInv'
<1>0. graph' = graph BY DEF Outcome, Grows
<1>1. CASE /\ UNCHANGED <<exiting, lock, shm, proc>>
           /\ \/ st'[t] = st[t]
              \/ {st[t], st'[t]} \cap {"publish", "exiting", "dying", "dying0"} = {}
  <2>1. nextEvents' = nextEvents \/ lock = None BY DEF ExitOutcome
  <2> QED BY <1>1, <2>1, QuietLeaves
<1>2. ASSUME lock = None, st[t] \notin {"exiting", "dying"}, proc' = proc,
             NEW code \in Verdicts(graph) \ {0, INSTANTIATED_BUT_NOT_DONE}, Terminate(t, code)
      PROVE  LeaveInv'
  <2> HIDE DEF INSTANTIATED_BUT_NOT_DONE
  <2> QED BY <1>2, TerminateLeaves
<1>3. CASE /\ lock = None /\ st[t] \notin {"exiting", "dying"} /\ proc' = proc
           /\ ShouldExit' /\ Terminate(t, TerminalCode') /\ Stands(t)'
  <2>1. (Context /\ ShouldExit /\ (\E s \in Thread : Stands(s))
         => TerminalCode \in Verdicts(graph) /\ nextEvents = RefNext(graph))'
    BY DecisionIs, PTL
  <2>2. TerminalCode' \in Verdicts(graph) /\ nextEvents' = RefNext(graph)
    <3>1. (\E s \in Thread : Stands(s))' BY <1>3
    <3>2. Verdicts(graph)' = Verdicts(graph) /\ RefNext(graph)' = RefNext(graph) BY <1>0
    <3> QED BY <1>3, <2>1, <3>1, <3>2
  <2>3. TerminalCode' \in {INSTANTIATED_BUT_NOT_DONE, NOT_INSTANTIABLE} BY DEF TerminalCode
  <2>4. PICK code : code = TerminalCode' OBVIOUS
  <2>5. code \in Verdicts(graph) \ {0} /\ Terminate(t, code)
    <3>1. code # 0 BY <2>3, <2>4 DEF INSTANTIATED_BUT_NOT_DONE, NOT_INSTANTIABLE
    <3>2. Terminate(t, code) BY <1>3, <2>4 DEF Terminate, CasExit
    <3> QED BY <2>2, <2>4, <3>1, <3>2
  <2> QED BY <1>3, <2>2, <2>5, TerminateLeaves
<1>4. CASE Publish(t) \/ VerifyAtexit(t) \/ ProcessExit(t)
  BY <1>4, PublishLeaves, VerifyLeaves, ExitLeaves
<1> QED BY <1>1, <1>2, <1>3, <1>4 DEF ExitOutcome

\* The inductive invariant.
VerdictInv ==
  /\ TypeInv /\ PcBound /\ CountersExact /\ BlockedForGood
  /\ ReadsFromExecuted /\ WaitingCovered
  /\ AllCreated => FollowsRef /\ CreateRef /\ JoinRef /\ LeaveInv

\* The invariant is inductive.
LEMMA VerdictInvStep ==
  ASSUME ForkJoin, HistorySuffices, VerdictInv, NEW t \in Thread, ThreadStep(t) \/ Environment(t)
  PROVE  VerdictInv'
<1>1. TypeInv' BY TypeStep DEF VerdictInv
<1>2. PcBound' BY PcBoundStep DEF VerdictInv
<1>3. CountersExact' /\ BlockedForGood' BY CountersStep, BlockedStep DEF VerdictInv
<1>4. ReadsFromExecuted' /\ WaitingCovered' BY ReadsStep DEF VerdictInv
<1>5. ASSUME AllCreated' PROVE (FollowsRef /\ CreateRef /\ JoinRef /\ LeaveInv)'
  <2>1. AllCreated BY <1>5, CreatedBefore DEF VerdictInv
  <2>2. Context /\ LeaveInv BY <2>1 DEF VerdictInv, Context
  <2>3. Outcome(t) /\ ExitOutcome(t) /\ ForkOutcome(t) BY <1>5, <2>2, StepOutcome
  <2>4. FollowsRef' BY <2>2, <2>3, OutcomeStep DEF Context
  <2>5. CreateRef' /\ JoinRef' BY <2>2, <2>3, ForkStep DEF VerdictInv
  <2>6. Context' BY <1>1, <1>2, <1>3, <1>4, <1>5, <2>4, <2>5 DEF Context, ForkJoin
  <2>7. LeaveInv' BY <2>2, <2>3, <2>6, VerdictStep
  <2> QED BY <2>4, <2>5, <2>7
<1> QED BY <1>1, <1>2, <1>3, <1>4, <1>5 DEF VerdictInv

\* It holds at the start.
LEMMA VerdictInvInit == Init => VerdictInv
<1> SUFFICES ASSUME Init PROVE VerdictInv OBVIOUS
<1>1. TypeInv /\ CountersExact BY TypeInit, CountersInit
<1>2. /\ \A t \in Thread : pc[t] = 1 /\ st[t] = (IF t = Main THEN "run" ELSE "none") /\ waiting[t] = None
      /\ active = {Main} /\ blockedUnk = {} /\ joinWait = {} /\ known = {Main} /\ everStarted = {Main}
      /\ covered = {} /\ coveredRf = {} /\ nextEvents = {} /\ \A l \in Loc : hist[l] = <<>>
      /\ exiting = 0 /\ proc = Running /\ shm.ready = FALSE
      /\ Main \in Thread
  BY SchedulerAssumption DEF Init
<1>3. PcBound
  <2>1. \A t \in Thread : Len(Prog[t]) \in Nat BY <1>1, OpAt DEF TypeInv
  <2> QED BY <1>2, <2>1 DEF PcBound
<1>4. BlockedForGood /\ ReadsFromExecuted /\ WaitingCovered
  BY <1>2 DEF BlockedForGood, ReadsFromExecuted, WaitingCovered
<1>5. \A e, K : ~Executed(e, K) BY <1>2 DEF Executed
<1>6. RefBound
  <2>1. \A t \in Thread : Ref.pos[t] \in Nat \ {0} BY RefIs
  <2>2. RefStarted(Ref, Main) BY DEF RefStarted
  <2> QED BY <1>2, <2>1, <2>2 DEF RefBound
<1>7. HistRef /\ CoverRef /\ NextRef BY <1>2, <1>5 DEF HistRef, CoverRef, NextRef
<1>8. ControlRef
  <2>1. ASSUME NEW t \in Thread PROVE ControlAt(t)
    <3>1. CASE t = Main BY <1>2, <3>1 DEF ControlAt, Runnable, Gone
    <3>2. CASE t # Main BY <1>2, <3>2 DEF ControlAt, Gone
    <3> QED BY <3>1, <3>2
  <2> QED BY <2>1 DEF ControlRef
<1>9. CreateRef BY <1>2 DEF CreateRef
<1>10. JoinRef
  <2>1. \A i \in DOMAIN Prog[Main] : i \in Nat /\ 1 <= i BY <1>2, InstrType
  <2> QED BY <1>2, <2>1 DEF JoinRef
<1>11. LeaveInv BY <1>2 DEF LeaveInv, LeaveAt, NextEventsComplete
<1> QED BY <1>1, <1>3, <1>4, <1>6, <1>7, <1>8, <1>9, <1>10, <1>11 DEF VerdictInv, FollowsRef

\* It depends on the variables alone.
LEMMA VerdictInvStutter == VerdictInv /\ UNCHANGED vars => VerdictInv'
<1> SUFFICES ASSUME VerdictInv, UNCHANGED vars PROVE VerdictInv' OBVIOUS
<1>1. UNCHANGED <<graph, pc, st, active, known, everStarted, blockedUnk, joinWait, waiting,
                  activeThreads, aliveThreads, blockedUnkThreads, covered, coveredRf, hist,
                  nextEvents, lock, shm, exiting, proc>>
  BY DEF vars, progVars, flagVars, unkVars, rfVars, exitVars
<1>2. TypeInv' BY TypeStutter DEF VerdictInv
<1>3. PcBound' /\ CountersExact' /\ BlockedForGood' /\ ReadsFromExecuted'
  BY <1>1 DEF VerdictInv, PcBound, CountersExact, BlockedForGood, ReadsFromExecuted
<1>4. \A t \in Thread : (AtEnd(t)' <=> AtEnd(t)) /\ Op(t)' = Op(t) BY <1>1 DEF AtEnd, Op
<1>5. WaitingCovered' BY <1>1, <1>4 DEF VerdictInv, WaitingCovered, AcceptedTypes
<1>6. ASSUME AllCreated' PROVE (FollowsRef /\ CreateRef /\ JoinRef /\ LeaveInv)'
  <2>1. AllCreated BY <1>1, <1>6 DEF AllCreated
  <2>2. FollowsRef /\ CreateRef /\ JoinRef /\ LeaveInv BY <2>1 DEF VerdictInv
  <2>3. Ref' = Ref BY <1>1, RefSame
  <2>4. \A e, K : Executed(e, K)' <=> Executed(e, K) BY <1>1 DEF Executed
  <2>5. \A w : InHistory(w)' <=> InHistory(w) BY <1>1 DEF InHistory
  <2>6. ASSUME NEW t \in Thread
        PROVE  /\ Waits(t)' <=> Waits(t)
               /\ StandsUnknown(t)' <=> StandsUnknown(t)
               /\ Loud(t)' <=> Loud(t)
               /\ \A e : Standing(t, e)' <=> Standing(t, e)
    <3>1. Waits(t)' <=> Waits(t) BY <1>1, <1>4 DEF Waits, AcceptedTypes
    <3>2. StandsUnknown(t)' <=> StandsUnknown(t) BY <1>1, <1>4 DEF StandsUnknown, Node
    <3>3. Loud(t)' <=> Loud(t) BY <1>1, <2>5 DEF Loud
    <3>4. \A e : Standing(t, e)' <=> Standing(t, e) BY <1>4 DEF Standing
    <3> QED BY <3>1, <3>2, <3>3, <3>4
  <2>7. \A t \in Thread : Rejected(t)' <=> Rejected(t) BY <1>1, <2>6 DEF Rejected
  <2>8. RefBound' /\ HistRef' BY <1>1, <2>2, <2>3, <2>4, <2>5 DEF FollowsRef, RefBound, HistRef, Recorded
  <2>9. CoverRef' BY <1>1, <2>2, <2>4, <2>6, <2>7 DEF FollowsRef, CoverRef
  <2>10. NextRef' BY <1>1, <1>4, <2>2, <2>6 DEF FollowsRef, NextRef
  <2>11. ControlRef'
    <3>1. \A t \in Thread : Runnable(t)' <=> Runnable(t) BY <1>1 DEF Runnable
    <3>2. \A t \in Thread : ControlAt(t)' <=> ControlAt(t) BY <1>1, <1>4, <2>6, <3>1 DEF ControlAt
    <3> QED BY <2>2, <3>2 DEF FollowsRef, ControlRef
  <2>12. CreateRef' /\ JoinRef'
    <3>1. Main \in Thread BY SchedulerAssumption
    <3> QED BY <1>1, <1>4, <2>2, <3>1 DEF CreateRef, JoinRef, CreatedBy
  <2>13. LeaveInv'
    <3>1. RefNext(graph)' = RefNext(graph) /\ Verdicts(graph)' = Verdicts(graph) BY <1>1
    <3>2. \A t \in Thread : LeaveAt(t)' BY <1>1, <2>2 DEF LeaveInv, LeaveAt
    <3>3. NextEventsComplete' BY <1>1, <2>1, <2>2, <3>1 DEF LeaveInv, NextEventsComplete
    <3> QED BY <1>1, <2>2, <3>1, <3>2, <3>3 DEF LeaveInv
  <2> QED BY <2>8, <2>9, <2>10, <2>11, <2>12, <2>13 DEF FollowsRef
<1> QED BY <1>2, <1>3, <1>5, <1>6 DEF VerdictInv

\* Whatever the interleaving, a process whose main starts and joins the other
\* threads exits with the status that the input graph and the program determine:
\* deadlock detection neither gives up on a graph that can be followed nor accepts
\* one that cannot.
THEOREM VerdictsCorrect ==
  ASSUME ForkJoin, HistorySuffices
  PROVE  Spec => []VerdictCorrect
<1>1. VerdictInv /\ [Next]_vars => VerdictInv'
  BY VerdictInvStep, VerdictInvStutter DEF Next, Done
<1>2. VerdictInv => VerdictCorrect BY DEF VerdictInv, LeaveInv, VerdictCorrect
<1> QED BY VerdictInvInit, <1>1, <1>2, PTL DEF Spec

\* The next events that a process publishes are those that the program and the
\* input graph determine, none missing unless the block is full.
THEOREM NextEventsCorrect ==
  ASSUME ForkJoin, HistorySuffices
  PROVE  Spec => []NextEventsComplete
<1>1. VerdictInv /\ [Next]_vars => VerdictInv'
  BY VerdictInvStep, VerdictInvStutter DEF Next, Done
<1>2. VerdictInv => NextEventsComplete BY DEF VerdictInv, LeaveInv, NextEventsComplete
<1> QED BY VerdictInvInit, <1>1, <1>2, PTL DEF Spec
=============================================================================
