---------------------------- MODULE GraphMutator ----------------------------
(***************************************************************************)
(* The mutations of a skeleton graph, SGF/main/src/skeleton_graph_mutator. *)
(* cpp (add_new_node, mutate_rf_edge, flip_cas_outcome, chosen between by  *)
(* mutate_skeleton_graph), and what mutate_run_enqueue_graph               *)
(* (sgf-fuzz-one.c) carries from a graph to its mutation: the potential    *)
(* (skeleton_potential.cpp) and the race pairs (data_race.cpp).            *)
(*                                                                         *)
(* The state is one graph of the corpus with its caches; a step replaces   *)
(* it by a mutation of it that the runtime accepted.  The program under    *)
(* test runs each of its instructions at most once: an instruction is a    *)
(* type, a mode, a location and the events of other threads it comes       *)
(* after (its thread's creator, a thread it joined).                       *)
(***************************************************************************)
EXTENDS SkeletonGraph

CONSTANTS Campaigns  \* [code, seed, feedback, guided, listed]: the program; how many of its
                     \* instructions the seed has, per thread; SGF_ENABLE_FEEDBACK;
                     \* do_intelligent_sg_fuzzing; and the locations that the file
                     \* SGF_POTENTIAL_LOCATIONS_FILE lists for each thread

Instructions ==
  [type : {"WRITE", "READ", "RMW", "CAS", "FENCE"},
   mode : {"NON_ATOMIC", "RLX", "ACQ", "REL", "ACQ_REL", "SC"},
   loc : Locations \cup {NoLocation}, after : SUBSET (Threads \X Nat)]

\* A fence alone has no location; no instruction waits for one of its own thread; the
\* seed is made of writes, and each location that is read is written in it.
ASSUME CampaignAssumption ==
  /\ IsFiniteSet(Threads)
  /\ \A cp \in Campaigns :
       /\ cp.code \in [Threads -> Seq(Instructions)] /\ cp.seed \in [Threads -> Nat]
       /\ {cp.feedback, cp.guided} \subseteq BOOLEAN /\ cp.listed \in [Threads -> SUBSET Locations]
       /\ \A t \in Threads : cp.seed[t] <= Len(cp.code[t])
       /\ \A t \in Threads : \A i \in 1..Len(cp.code[t]) :
            LET c == cp.code[t][i] IN
            /\ c.type = "FENCE" <=> c.loc = NoLocation
            /\ \A p \in c.after : p[1] # t
            /\ i <= cp.seed[t] => c.type = "WRITE"
            /\ c.type \in ReadKinds =>
                 \E u \in Threads : \E j \in 1..cp.seed[u] : cp.code[u][j].loc = c.loc

VARIABLES
  camp,    \* the campaign
  g,       \* the graph
  pot,     \* its SkeletonPotential: per thread and location, a set of writes
  races,   \* its race pairs
  failed,  \* "none", or the assertion that stopped the fuzzer ("drift", "no_write"), with
           \* "no_write_chain" for that of a chain's second choice
  marks    \* history: the irregular steps so far, of "stray_tcj" and "lone_parent" (a new
           \* read), "flip_kept" (a flip) and "chain"

vars == <<camp, g, pot, races, failed, marks>>

None == <<>>   \* no event

-----------------------------------------------------------------------------
\* The static abstraction: an event's instruction, what comes before it, and the
\* locations that are read after it (find_future_read_locations_from_static_event), where
\* a CAS, whose outcome is open, does not count.  It is loaded for the potential, or to
\* find candidates without feedback.
StaticLoaded == camp.guided \/ ~camp.feedback
Code(e) == camp.code[e[1]][e[2]]
StaticEvents == UNION {{<<t, i>> : i \in DOMAIN camp.code[t]} : t \in Threads}
Preds(e) == (IF e[2] > 1 THEN {<<e[1], e[2] - 1>>} ELSE {}) \cup Code(e).after
StaticReadLocations(e) ==
  LET succ == {p \in StaticEvents \X StaticEvents : p[1] \in Preds(p[2])}
      later == Reach(succ, Targets(succ, e), Cardinality(StaticEvents))
  IN  {Code(f).loc : f \in {d \in later : Code(d).type \in {"READ", "RMW"}}}
\* With feedback the file's locations of the thread, unless there are none in the file.
FutureReadLocations(e) ==
  IF camp.feedback /\ \E t \in Threads : camp.listed[t] # {} THEN camp.listed[e[1]]
  ELSE StaticReadLocations(e)

-----------------------------------------------------------------------------
\* The potential.  NoPotential is that of a fuzzer that is not guided.
NoPotential == [t \in Threads |-> <<>>]
CalculateThreadPotential(h, t) ==
  IF h.po[t] = <<>> THEN <<>>
  ELSE [l \in FutureReadLocations(Last(h.po[t])) |->
          FindConsistentWrites(h, Last(h.po[t]), l, FALSE)]
CalculatePotential(h) == [t \in Threads |-> CalculateThreadPotential(h, t)]

\* update_potential_on_{read,write,fence,rmw}_addition: the new event's thread is done
\* anew, and a write is added for the other threads that have its location.
AddWriteToOthers(p, h, e) ==
  [t \in Threads |->
     IF t # e[1] /\ h.po[t] # <<>> /\ Loc(h, e) \in DOMAIN p[t]
     THEN [p[t] EXCEPT ![Loc(h, e)] = @ \cup {e}] ELSE p[t]]
\* Mutant: only the new event's thread is brought up to date.
UpdateOwnPotential(p, h, kind, e) ==
  IF kind = "MUTATE" THEN CalculatePotential(h)
  ELSE [p EXCEPT ![e[1]] = CalculateThreadPotential(h, e[1])]
UpdatePotential(p, h, kind, e) ==
  IF kind = "MUTATE" THEN CalculatePotential(h)
  ELSE [(IF Kind(h, e) \in WriteKinds THEN AddWriteToOthers(p, h, e) ELSE p)
          EXCEPT ![e[1]] = CalculateThreadPotential(h, e[1])]

-----------------------------------------------------------------------------
\* get_consistent_writes: from the potential of the parent's thread where that has the
\* location, else by the search; what all the parents allow.
FromPotential(h, p, loc, rmw, parent) ==
  {w \in p[parent[1]][loc] :
     /\ w \in OfKind(h, WriteKinds) /\ Loc(h, w) = loc
     /\ rmw => Targets(h.rf, w) \cap OfKind(h, RmwKinds) = {}}
ForSingleParent(h, p, loc, rmw, parent) ==
  IF loc \in DOMAIN p[parent[1]] THEN FromPotential(h, p, loc, rmw, parent)
  ELSE FindConsistentWrites(h, parent, loc, rmw)
GetConsistentWrites(h, p, parents, loc, rmw) ==
  IF parents = {} THEN ToSet(h.mo[loc])
  ELSE {w \in ToSet(h.mo[loc]) : \A q \in parents : w \in ForSingleParent(h, p, loc, rmw, q)}

\* The assertions on the way: the potential is what the search finds (debug builds),
\* and the parents of a join allow some write in common.
Drifted(h, p, parents, loc, rmw) ==
  \E q \in parents : /\ loc \in DOMAIN p[q[1]]
                     /\ FromPotential(h, p, loc, rmw, q) # FindConsistentWrites(h, q, loc, rmw)

-----------------------------------------------------------------------------
\* add_release_chain_sw_to_acquire: the sw edges of acquire event e that reads w.
ReleaseFences(h, t, n) ==
  {i \in 1..n : Kind(h, h.po[t][i]) = "FENCE" /\ Mode(h, h.po[t][i]) \in ReleaseModes}
ReleaseChainSw(h, w, e) ==
  LET order == h.po[w[1]]
      fences == ReleaseFences(h, w[1], Position(order, w))
  IN  IF Mode(h, w) \notin ReleaseModes THEN {}
      ELSE {<<w, e>>} \cup (IF fences = {} THEN {} ELSE {<<order[Max(fences)], e>>})

\* The sw edges of a new fence e: from every write that an earlier event of its thread
\* reads, if it is a release, else from the release fences before it.
FenceSw(h, e) ==
  UNION {IF Mode(h, w) \in ReleaseModes THEN {<<w, e>>}
         ELSE {<<h.po[w[1]][i], e>> : i \in ReleaseFences(h, w[1], Position(h.po[w[1]], w))} :
           w \in UNION {Sources(h.rf, d) : d \in ToSet(h.po[e[1]])}}

\* insert_mo_after
InsertMoAfter(h, after, e) ==
  LET others == Without(h.mo[Loc(h, e)], e)
  IN  [h EXCEPT !.mo[Loc(h, e)] =
         IF after \in ToSet(others) THEN InsertAt(others, Position(others, after) + 1, e)
         ELSE Append(others, e)]

\* Read e reads from w: add_rf, with the sw edges of an acquire.
AddRf(h, w, e) ==
  [h EXCEPT !.rf = @ \cup {<<w, e>>},
            !.sw = @ \cup (IF Mode(h, e) \in AcquireModes THEN ReleaseChainSw(h, w, e) ELSE {})]

-----------------------------------------------------------------------------
\* get_a_new_event: the candidates, each with its parents in the graph.  With feedback
\* they are the next events the runtime reports; otherwise collect_enabled_events takes
\* the static successors of an event, which is then the only parent.  (Of a graph that
\* leaves out an instruction the runtime would accept no mutation.)
FeedbackCandidates ==
  {c \in {[id |-> <<t, Len(g.po[t]) + 1>>] : t \in {u \in Threads : Len(g.po[u]) < Len(camp.code[u])}} :
     Code(c.id).after \subseteq Events(g)}
ChildThreads(s) == {e[1] : e \in Targets(g.rf \cup g.sw \cup g.tcj, s)}
EnabledBy(s) ==
  {e \in StaticEvents \ Events(g) :
     /\ e[2] = Len(g.po[e[1]]) + 1
     /\ s \in Preds(e)
     /\ e[1] = s[1] => s = Last(g.po[s[1]])
     /\ e[1] \notin ChildThreads(s)
     /\ Code(e).after \subseteq Events(g)}
Candidates ==
  IF camp.feedback
  THEN {c \in {[id |-> d.id, parents |-> Preds(d.id) \cap Events(g)] : d \in FeedbackCandidates} :
          c.parents # {}}
  ELSE UNION {{[id |-> e, parents |-> {s}] : e \in EnabledBy(s)} : s \in Events(g)}

\* add_cfg_incoming_tcj_edges: from the parents in other threads, and from the last
\* event of each thread that the static abstraction has a predecessor in.
ParentTcj(c) == {<<p, c.id>> : p \in {q \in c.parents : q[1] # c.id[1]}}
StaticTcj(c) ==
  IF ~StaticLoaded THEN {}
  ELSE {<<Last(g.po[t]), c.id>> :
          t \in {p[1] : p \in {q \in Code(c.id).after : g.po[q[1]] # <<>>}}}

\* The outcomes add_new_node may give the candidate, and the writes it may read.
ReadableBy(c, rmw) == GetConsistentWrites(g, pot, c.parents, Code(c.id).loc, rmw)
Outcomes(c) ==
  IF Code(c.id).type # "CAS" THEN {Code(c.id).type}
  ELSE {"CAS_FAIL"} \cup (IF ReadableBy(c, TRUE) # {} THEN {"CAS_SUCCESS"} ELSE {})

\* What comes before c but is not behind its parents, where the search starts: an event
\* that the static abstraction gives a tcj edge, or a predecessor that is no parent.
Unseen(c) == (IF StaticTcj(c) \subseteq ParentTcj(c) THEN {} ELSE {"stray_tcj"})
               \cup (IF Preds(c.id) \subseteq c.parents THEN {} ELSE {"lone_parent"})

\* add_new_node, of candidate c as type, reading w unless it is a write or a fence.
Grown(c, type, w) ==
  LET e == c.id
      record == [type |-> type, mode |-> Code(e).mode, loc |-> Code(e).loc]
      h == [g EXCEPT !.ev = [d \in Events(g) \cup {e} |-> IF d = e THEN record ELSE @[d]],
                     !.po[e[1]] = Append(@, e),
                     !.tcj = @ \cup ParentTcj(c) \cup StaticTcj(c)]
      r == IF type \in ReadKinds THEN AddRf(h, w, e)
           ELSE IF type = "FENCE" THEN [h EXCEPT !.sw = @ \cup FenceSw(h, e)] ELSE h
  IN  Finalize(IF type \in WriteKinds THEN [r EXCEPT !.mo[Code(e).loc] = Append(@, e)] ELSE r)

-----------------------------------------------------------------------------
Edges(h) == PoEdges(h) \cup h.rf \cup h.sw \cup h.tcj

\* remove_po_rf_sw_successors, disconnect_read and get_parent_events
RemoveSuccessors(h, e) ==
  LET gone == Reach(Edges(h), Targets(Edges(h), e), Cardinality(Events(h)))
  IN  Finalize([h EXCEPT !.ev = Restrict(@, Events(h) \ gone)])
DisconnectRead(h, e) ==
  [h EXCEPT !.rf = {p \in @ : p[2] # e}, !.sw = {p \in @ : p[2] # e}]
\* Mutant: the creator of the thread and the threads joined are no parents.
PoParent(h, e) == Sources(PoEdges(h), e)
ParentEvents(h, e) == Sources(PoEdges(h) \cup h.tcj, e)

\* mutate_rf_edge, of read e that reads from old: what is left of the graph, and the
\* other writes that e may read.
Detached(h, e) == DisconnectRead(RemoveSuccessors(h, e), e)
WritesFor(h, e) ==
  GetConsistentWrites(h, NoPotential, ParentEvents(h, e), Loc(h, e), Kind(h, e) \in RmwKinds)
\* The assertion of get_consistent_writes, that the parents of a join allow a write in common.
NoneInCommon(h, e) == Cardinality(ParentEvents(h, e)) > 1 /\ WritesFor(h, e) = {}
Rewired(h, w, e) ==
  Finalize(IF Kind(h, e) \in RmwKinds THEN InsertMoAfter(AddRf(h, w, e), w, e) ELSE AddRf(h, w, e))

\* The RMW-chain case: e and the RMW old that it reads, of another thread, both leave mo and
\* choose again, old first.  e may have gone with old's successors; if it is there and finds
\* no write the mutation is given up, or, at a join, the assertion fails.
MayChain(h, e, old) == {old, e} \subseteq OfKind(h, RmwKinds) /\ old[1] # e[1]
ChainDetached(h, e, old) ==
  Detached([h EXCEPT !.mo[Loc(h, e)] = Without(Without(@, e), old)], old)
ChainRewired(h, e, old) ==
  UNION {LET k == AddRf(h, w1, old)
         IN  IF e \notin Events(h) THEN {Finalize(InsertMoAfter(k, w1, old))}
             ELSE {Finalize(InsertMoAfter(InsertMoAfter(AddRf(k, w2, e), w2, e), w1, old)) :
                     w2 \in WritesFor(k, e)} :
           w1 \in WritesFor(h, old)}

\* Mutant: another rmw-like event may read the same write.
MayFlipAlways(e) == Sources(g.rf, e) # {}

\* flip_cas_outcome
FlippedToFail(e) ==
  LET h == RemoveSuccessors(g, e)
  IN  Finalize([h EXCEPT !.mo[Loc(g, e)] = Without(@, e), !.ev[e].type = "CAS_FAIL"])
MayFlipToSuccess(e) ==
  \A w \in Sources(g.rf, e) : (Targets(g.rf, w) \ {e}) \cap OfKind(g, RmwKinds) = {}
FlippedToSuccess(e) ==
  LET h == InsertMoAfter(g, CHOOSE w \in Sources(g.rf, e) : TRUE, e)
  IN  Finalize([h EXCEPT !.ev[e].type = "CAS_SUCCESS"])

-----------------------------------------------------------------------------
\* What mutate_run_enqueue_graph stores with the mutation: after a chain of mutations
\* the caches are made from the graph, else from those of the parent.
Store(h, kind, e, mark) ==
  \E chained \in BOOLEAN :
    /\ g' = h
    /\ pot' = IF ~camp.guided THEN NoPotential
              ELSE IF chained THEN CalculatePotential(h) ELSE UpdatePotential(pot, h, kind, e)
    /\ races' = IF chained THEN CollectRacePairs(h) ELSE UpdateRacePairs(races, h, e)
    /\ marks' = marks \cup mark
    /\ UNCHANGED <<camp, failed>>

Abort(why) == failed' = why /\ UNCHANGED <<camp, g, pot, races, marks>>

Running == failed = "none"

AddNode ==
  /\ Running
  /\ \E c \in Candidates : \E type \in Outcomes(c) :
       LET rmw == type \in RmwKinds
           writes == IF type \in ReadKinds THEN ReadableBy(c, rmw) ELSE {None}
       IN  /\ type \in ReadKinds => ~Drifted(g, pot, c.parents, Code(c.id).loc, rmw)
           /\ \E w \in writes :
                Store(Grown(c, type, w), "ADD", c.id, IF type \in ReadKinds THEN Unseen(c) ELSE {})

\* The assertions of add_new_node and of get_consistent_writes below it, which must find a
\* write for the event and, for a CAS at a join, also one that a success may read.
NeededBy(c, type) ==
  {type \in RmwKinds} \cup (IF type = "CAS_FAIL" /\ Cardinality(c.parents) > 1 THEN {TRUE} ELSE {})
AddNodeAborts ==
  /\ Running
  /\ \E c \in Candidates : \E type \in Outcomes(c) : \E rmw \in NeededBy(c, type) :
       /\ type \in ReadKinds
       /\ IF Drifted(g, pot, c.parents, Code(c.id).loc, rmw) THEN Abort("drift")
          ELSE ReadableBy(c, rmw) = {} /\ Abort("no_write")

MutateRf ==
  /\ Running
  /\ \E p \in g.rf :
       LET h == Detached(g, p[2])
       IN  \E w \in WritesFor(h, p[2]) \ {p[1], p[2]} :
             Store(Rewired(h, w, p[2]), "MUTATE", p[2], {})

\* The chain is tried when every other write is forbidden (ForbiddenMutations).  Which are
\* is not part of the state: they may be all that there are.
MutateRfChain ==
  /\ Running
  /\ \E p \in g.rf :
       LET h == Detached(g, p[2])
       IN  /\ MayChain(h, p[2], p[1])
           /\ \E k \in ChainRewired(ChainDetached(h, p[2], p[1]), p[2], p[1]) :
                Store(k, "MUTATE", p[2], {"chain"})

\* The assertion of get_consistent_writes in its three calls by mutate_rf_edge: for the read,
\* for the RMW that it reads, and for the read again once that RMW has taken a write.
MutateRfAborts ==
  /\ Running
  /\ \E p \in g.rf :
       LET h == Detached(g, p[2])
           c == ChainDetached(h, p[2], p[1])
       IN  \/ NoneInCommon(h, p[2]) /\ Abort("no_write")
           \/ MayChain(h, p[2], p[1]) /\ NoneInCommon(c, p[1]) /\ Abort("no_write")
           \/ /\ MayChain(h, p[2], p[1]) /\ p[2] \in Events(c)
              /\ \E w \in WritesFor(c, p[1]) : NoneInCommon(AddRf(c, w, p[1]), p[2])
              /\ Abort("no_write_chain")

FlipCas ==
  /\ Running
  /\ \/ \E e \in OfKind(g, {"CAS_SUCCESS"}) : Store(FlippedToFail(e), "MUTATE", e, {})
     \/ \E e \in OfKind(g, {"CAS_FAIL"}) :
          /\ MayFlipToSuccess(e)
          /\ Store(FlippedToSuccess(e), "MUTATE", e,
                   IF Targets(Edges(g), e) = {} THEN {} ELSE {"flip_kept"})

\* The seed: the first instructions of some threads, all of them writes, those of a
\* location in an order that agrees with the order of each thread.
SeedEvents(cp) == UNION {{<<t, i>> : i \in 1..cp.seed[t]} : t \in Threads}
SeedWrites(cp, l) == {e \in SeedEvents(cp) : cp.code[e[1]][e[2]].loc = l}
SeedOrders(S) ==
  {s \in SetToSeqs(S) : \A i, j \in DOMAIN s : (i < j /\ s[i][1] = s[j][1]) => s[i][2] < s[j][2]}
SeedGraph(cp, mo) ==
  LET CodeOf(e) == cp.code[e[1]][e[2]]
  IN  [ev |-> [e \in SeedEvents(cp) |-> [type |-> CodeOf(e).type, mode |-> CodeOf(e).mode, loc |-> CodeOf(e).loc]],
       po |-> [t \in Threads |-> [i \in 1..cp.seed[t] |-> <<t, i>>]],
       rf |-> {}, sw |-> {}, tcj |-> {},
       mo |-> mo]

Init ==
  /\ camp \in Campaigns
  /\ \E mo \in [Locations -> UNION {SeedOrders(SeedWrites(camp, l)) : l \in Locations}] :
       /\ \A l \in Locations : mo[l] \in SeedOrders(SeedWrites(camp, l))
       /\ g = SeedGraph(camp, mo)
  /\ pot = IF camp.guided THEN CalculatePotential(g) ELSE NoPotential
  /\ races = CollectRacePairs(g)
  /\ failed = "none" /\ marks = {}

Next == AddNode \/ AddNodeAborts \/ MutateRf \/ MutateRfChain \/ MutateRfAborts \/ FlipCas

Spec == Init /\ [][Next]_vars
=============================================================================
