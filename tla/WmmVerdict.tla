----------------------------- MODULE WmmVerdict -----------------------------
(***************************************************************************)
(* What the scheduler of WmmScheduler promises.  An input graph and a      *)
(* program determine one outcome, whatever the interleaving: run every     *)
(* thread as far as the graph lets it (no locks, no flags, no deadlock     *)
(* detection) and look at where the threads stand.  The exit status and    *)
(* the published next events of every behaviour of the scheduler are       *)
(* compared with that outcome.                                             *)
(*                                                                         *)
(* The reference run assumes that main joins the threads it starts, so     *)
(* that main returns last.                                                 *)
(***************************************************************************)
EXTENDS WmmScheduler

\* A state of the reference run: the position of each thread, and the value
\* that each executed store left at its address.
RefInit == [pos |-> [t \in Thread |-> 1], wr |-> <<>>]

RefOp(s, t) == Prog[t][s.pos[t]]
RefEnded(s, t) == s.pos[t] > Len(Prog[t])

RefStarted(s, t) ==
  t = Main \/ \E u \in Thread : \E i \in 1..(s.pos[u] - 1) :
                 Prog[u][i].op = "create" /\ Prog[u][i].child = t

AtNode(g, s, t) ==
  /\ RefStarted(s, t) /\ ~RefEnded(s, t)
  /\ RefOp(s, t).op \in EventOps
  /\ RefOp(s, t).ev \in DOMAIN g.type

\* The outcomes the C11 compare-exchange allows, and those the graph accepts.
CasAllowed(o, old) ==
  IF old # o.cmp THEN {"fails"} ELSE IF o.weak THEN {"succeeds", "fails"} ELSE {"succeeds"}

CasDemanded(ty) ==
  CASE ty = "CAS_SUCCESS" -> {"succeeds"}
    [] ty = "CAS_FAIL" -> {"fails"}
    [] OTHER -> {"succeeds", "fails"}

CasPossible(o, ty, old) == CasAllowed(o, old) \cap CasDemanded(ty)

\* The kinds of graph node that may stand for an operation of the program.
RefTypes ==
  [store |-> {"WRITE", "RMW"}, fence |-> {"FENCE"}, load |-> {"READ", "RMW"},
   rmw |-> {"READ", "WRITE", "RMW"},
   cas |-> {"READ", "WRITE", "RMW", "CAS_SUCCESS", "CAS_FAIL"}]

\* Why the operation a thread has reached can never be carried out (0: it can).
RefFault(g, s, t) ==
  IF ~AtNode(g, s, t) THEN 0
  ELSE LET o == RefOp(s, t)
           ty == g.type[o.ev]
       IN  IF ty \notin RefTypes[o.op] THEN INVALID_INPUT
           ELSE IF o.op \notin ReadOps THEN 0
           ELSE IF o.ev \notin DOMAIN g.rf THEN INVALID_INPUT
           ELSE IF g.rf[o.ev] \notin DOMAIN s.wr THEN 0
           ELSE LET w == s.wr[g.rf[o.ev]]
                IN  IF w.loc # o.loc THEN NOT_INSTANTIABLE
                    ELSE IF o.op = "cas" /\ CasPossible(o, ty, w.val) = {}
                         THEN NOT_INSTANTIABLE ELSE 0

RefCanStep(g, s, t) ==
  /\ RefStarted(s, t) /\ ~RefEnded(s, t)
  /\ LET o == RefOp(s, t)
     IN  \/ o.op = "create"
         \/ o.op = "join" /\ RefEnded(s, o.child)
         \/ /\ AtNode(g, s, t) /\ RefFault(g, s, t) = 0
            /\ o.op \in ReadOps => g.rf[o.ev] \in DOMAIN s.wr

\* The store, if any, that a step of thread t performs.
RefStore(g, s, t) ==
  LET o == RefOp(s, t)
      old == s.wr[g.rf[o.ev]].val
      Put(v) == {[ev |-> o.ev, loc |-> o.loc, val |-> v]}
  IN  CASE o.op = "store" -> Put(o.val)
        [] o.op = "rmw" -> Put((old + o.val) % ValMod)
        [] o.op = "cas" -> IF "succeeds" \in CasPossible(o, g.type[o.ev], old)
                           THEN Put(o.val) ELSE {}
        [] OTHER -> {}

\* All threads that can step do so.
RefStep(g, s) ==
  LET T == {t \in Thread : RefCanStep(g, s, t)}
      W == UNION {RefStore(g, s, t) : t \in T}
  IN  [pos |-> [t \in Thread |-> s.pos[t] + IF t \in T THEN 1 ELSE 0],
       wr |-> [e \in DOMAIN s.wr \cup {w.ev : w \in W} |->
                 IF e \in DOMAIN s.wr THEN s.wr[e]
                 ELSE LET w == CHOOSE x \in W : x.ev = e
                      IN  [loc |-> w.loc, val |-> w.val]]]

\* Every round but the last moves a thread by one instruction.
Rounds == Cardinality(UNION {{<<t, i>> : i \in DOMAIN Prog[t]} : t \in Thread})

RefRun(g) ==
  LET run[n \in 0..Rounds] == IF n = 0 THEN RefInit ELSE RefStep(g, run[n - 1])
  IN  run[Rounds]

\* The events the reference run executed.
RefExecuted(s) ==
  {e \in Event : \E t \in Thread : \E i \in 1..(s.pos[t] - 1) : Prog[t][i].ev = e}

\* A read-like node is realised by an operation that reads.
RefRealised(s) ==
  {e \in Event : \E t \in Thread : \E i \in 1..(s.pos[t] - 1) :
                    Prog[t][i].ev = e /\ Prog[t][i].op \in ReadOps}

\* The statuses the process may exit with under graph g.
Verdicts(g) ==
  LET s == RefRun(g)
      faults == {RefFault(g, s, t) : t \in Thread} \ {0}
      all == DOMAIN g.type \subseteq RefExecuted(s) /\ DOMAIN g.rf \subseteq RefRealised(s)
  IN  IF faults # {} THEN faults
      ELSE IF ~all THEN {NOT_INSTANTIABLE}
      ELSE IF RefEnded(s, Main) THEN {OK} ELSE {INSTANTIATED_BUT_NOT_DONE}

\* The events the program wants to perform next and the graph does not have.
RefNext(g) ==
  LET s == RefRun(g)
  IN  {RefOp(s, t).ev : t \in {u \in Thread : /\ RefStarted(s, u) /\ ~RefEnded(s, u)
                                              /\ RefOp(s, u).op \in EventOps
                                              /\ ~AtNode(g, s, u)}}

\* Some thread waits for a store of a thread that nobody will create.
OrphanWait(g) ==
  LET s == RefRun(g)
  IN  \E t \in Thread :
         /\ AtNode(g, s, t) /\ RefFault(g, s, t) = 0
         /\ RefOp(s, t).op \in ReadOps
         /\ LET w == g.rf[RefOp(s, t).ev]
            IN  w \notin DOMAIN s.wr /\ ~RefStarted(s, Tid(w))
-----------------------------------------------------------------------------
(* The programs for which the properties are proved.                       *)

\* The instructions that may store.
WritingOps == {"store", "rmw", "cas"}

\* main starts every other thread once and joins it; its joins follow each other.
ForkJoin ==
  /\ \A t \in Thread \ {Main} : \A i \in DOMAIN Prog[t] : Prog[t][i].op \in EventOps
  /\ \A i, j \in DOMAIN Prog[Main] :
       Prog[Main][i].op = "create" /\ Prog[Main][j].op = "create"
       /\ Prog[Main][i].child = Prog[Main][j].child => i = j
  /\ \A j \in DOMAIN Prog[Main] : Prog[Main][j].op = "join" =>
       \E i \in 1..(j - 1) : Prog[Main][i].op = "create" /\ Prog[Main][i].child = Prog[Main][j].child
  /\ \A t \in Thread \ {Main} : \E j \in DOMAIN Prog[Main] :
       Prog[Main][j].op = "join" /\ Prog[Main][j].child = t
  /\ \A i, j, k \in DOMAIN Prog[Main] :
       i < k /\ k < j /\ Prog[Main][i].op = "join" /\ Prog[Main][j].op = "join"
       => Prog[Main][k].op = "join"

\* The events that the program may write to an address.
WritesAt(l) ==
  {e \in Event : \E t \in Thread : \E i \in DOMAIN Prog[t] :
     Prog[t][i].ev = e /\ Prog[t][i].op \in WritingOps /\ Prog[t][i].loc = l}

\* No write is ever evicted: the history of an address holds all of them.
HistorySuffices == \A l \in Loc : Cardinality(WritesAt(l)) <= HistCap

-----------------------------------------------------------------------------
(* Properties.                                                             *)

\* Every pthread_create that has returned has succeeded.
AllCreated ==
  \A t \in Thread : \A i \in 1..(pc[t] - 1) :
    Prog[t][i].op = "create" => st[Prog[t][i].child] # "none"

\* The exit status is the one the graph and the program determine: deadlock
\* detection never gives up on a graph that can be instantiated and never
\* reports one that cannot.
VerdictCorrect == proc # Running /\ AllCreated => proc \in Verdicts(graph)

\* A complete publication names exactly the events the program wants to execute
\* next: no thread was still on its way to its own next event.  If the block cannot
\* hold them all it is full.
NextEventsComplete ==
  shm.ready /\ AllCreated =>
    LET published == {x.next : x \in shm.events}
    IN  /\ published \subseteq RefNext(graph)
        /\ published = RefNext(graph) \/ Cardinality(published) = MaxNext

\* The process ends, unless a thread waits for one that nobody will create: no
\* wake-up is lost, and threads that wait for each other are always noticed by
\* one of them.
ExitsUnlessOrphan == OrphanWait(graph) \/ <>(proc # Running)
=============================================================================
