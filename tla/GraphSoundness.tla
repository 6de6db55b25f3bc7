--------------------------- MODULE GraphSoundness ---------------------------
(***************************************************************************)
(* What the graphs that the mutator makes must satisfy, against reference  *)
(* definitions that do not use the code's searches: coherence as an axiom  *)
(* over happens-before and extended coherence order, sequential            *)
(* consistency as the existence of an interleaving, a race as two          *)
(* unordered accesses.                                                     *)
(***************************************************************************)
EXTENDS GraphMutator

\* The pairs related by one or more steps of R.
Plus(R, S) == {p \in S \X S : p[2] \in Reach(R, Targets(R, p[1]), Cardinality(S))}

MoBefore(h) ==
  UNION {{<<h.mo[l][p[1]], h.mo[l][p[2]]>> :
            p \in {q \in (1..Len(h.mo[l])) \X (1..Len(h.mo[l])) : q[1] < q[2]}} : l \in Locations}
Compose(R, S) == {<<q[1][1], q[2][2]>> : q \in {x \in R \X S : x[1][2] = x[2][1]}}
FromReads(h) == Compose(Converse(h.rf), MoBefore(h))
HappensBefore(h) == Plus(PoEdges(h) \cup h.sw \cup h.tcj, Events(h))

\* Coherence (of two writes, a write and a read, a read and a write, two reads): what
\* happens before an event does not come after it in mo, rf, fr, mo;rf or fr;rf.
IsCoherent(h) ==
  LET over == MoBefore(h) \cup FromReads(h)
      eco == h.rf \cup over \cup Compose(over, h.rf)
  IN  \A p \in HappensBefore(h) : p[1] # p[2] /\ <<p[2], p[1]>> \notin eco

\* An interleaving in which every read takes the latest write and the writes of a
\* location come in mo order: runs[S] when the events of S can be run, first.
HasInterleaving(h) ==
  LET before == PoEdges(h) \cup h.tcj
      mo == MoBefore(h)
      Latest(S, l) == LET ws == {w \in S : Kind(h, w) \in WriteKinds /\ Loc(h, w) = l}
                      IN  {w \in ws : \A v \in ws : <<w, v>> \notin mo}
      LastOf(S, e) ==
        /\ Targets(before, e) \cap S = {}
        /\ Kind(h, e) \in WriteKinds => Latest(S, Loc(h, e)) = {e}
        /\ Kind(h, e) \in ReadKinds => Latest(S \ {e}, Loc(h, e)) = Sources(h.rf, e)
      runs[S \in SUBSET Events(h)] ==
        S = {} \/ \E e \in S : LastOf(S, e) /\ runs[S \ {e}]
  IN  runs[Events(h)]

-----------------------------------------------------------------------------
\* No edge names a removed event, every read-like event reads exactly one write to its
\* location, and mo holds exactly the events that write, each once, and no failed CAS.
EdgesComplete ==
  /\ {g.rf, g.sw, g.tcj} \subseteq SUBSET (Events(g) \X Events(g))
  /\ \A e \in OfKind(g, ReadKinds) : \E w \in OfKind(g, WriteKinds) :
       Sources(g.rf, e) = {w} /\ Loc(g, w) = Loc(g, e)
  /\ \A p \in g.rf : Kind(g, p[2]) \in ReadKinds
  /\ \A l \in Locations :
       /\ ToSet(g.mo[l]) = {e \in OfKind(g, WriteKinds) : Loc(g, e) = l}
       /\ Cardinality(ToSet(g.mo[l])) = Len(g.mo[l])
  /\ Events(g) = UNION {ToSet(g.po[t]) : t \in Threads}

\* No write is read by two rmw-like events, and an rmw-like event follows what it
\* reads in mo; so the last write of a location can always be read by one more.
RmwExclusive ==
  \A p \in g.rf : Kind(g, p[2]) \in RmwKinds =>
    /\ p \in MoBefore(g)
    /\ Targets(g.rf, p[1]) \cap OfKind(g, RmwKinds) = {p[2]}

\* No event depends on itself through po, rf, sw and tcj: the graph can be run.
NoThinAir ==
  LET porf == Plus(Edges(g), Events(g))
  IN  \A e \in Events(g) : <<e, e>> \notin porf

\* Every sw edge still has its reason after the rf edges it came from were changed: it
\* leaves a release write, or a release fence before a write, that its target, or an
\* event before its target if that is a fence, reads from.
SwJustified ==
  \A p \in g.sw : \E q \in g.rf :
    /\ Mode(g, p[1]) \in ReleaseModes
    /\ p[1] = q[1] \/ (Kind(g, p[1]) = "FENCE" /\ <<p[1], q[1]>> \in Plus(PoEdges(g), Events(g)))
    /\ p[2] = q[2] \/ (Kind(g, p[2]) = "FENCE" /\ <<q[2], p[2]>> \in Plus(PoEdges(g), Events(g)))

\* After any sequence of additions, rf mutations and CAS flips, with all that they
\* remove, the edges are complete, justified and exclusive where they must be.
WellFormed == EdgesComplete /\ RmwExclusive /\ SwJustified

\* No step went past what the code looks at: no flip kept later events, and the search
\* for what a new read may take started from all that comes before it.
Regular == marks \cap {"flip_kept", "stray_tcj", "lone_parent"} = {}

\* Some execution may have the graph: it has no causal cycle and, without a flip that
\* kept later events or a read with an unseen past, it is coherent.
Coherent == NoThinAir /\ (Regular => IsCoherent(g))

\* The search for consistent writes is exact: a candidate may read a write if and only
\* if the graph stays coherent.  The assertions that there is such a write never fail for a
\* candidate, for the read whose rf edge is mutated, nor for the first event of a chain.
ConsistentWritesExact ==
  /\ failed # "no_write"
  /\ (Regular /\ failed = "none") =>
       \A c \in Candidates : (Code(c.id).type = "READ" /\ Unseen(c) = {}) =>
         {w \in ToSet(g.mo[Code(c.id).loc]) : IsCoherent(Grown(c, "READ", w))}
           = GetConsistentWrites(g, NoPotential, c.parents, Code(c.id).loc, FALSE)

\* The stored race pairs, kept up from graph to graph, are the races of the graph.
RacesExact ==
  "chain" \notin marks =>
    races = {s \in SUBSET OfKind(g, ReadKinds \cup WriteKinds) :
               \E e, f \in s : /\ e # f /\ s = {e, f} /\ Loc(g, e) = Loc(g, f)
                               /\ {Kind(g, e), Kind(g, f)} \cap WriteKinds # {}
                               /\ "NON_ATOMIC" \in {Mode(g, e), Mode(g, f)}
                               /\ {<<e, f>>, <<f, e>>} \cap HappensBefore(g) = {}}

\* The potential, kept up from graph to graph, is what the search finds at the last
\* event of every thread.
PotentialExact == camp.guided => pot = CalculatePotential(g)

\* is_sc_consistent accepts a graph only if it has an interleaving, and, when no event
\* is rmw-like, whenever it has one.
ScCheckSound ==
  /\ IsScConsistent(g) => HasInterleaving(g)
  /\ OfKind(g, RmwKinds) = {} => (HasInterleaving(g) => IsScConsistent(g))
-----------------------------------------------------------------------------
(* What comments and assertions of the code say, and these graphs refute.  *)

\* is_sc_consistent accepts every graph that has an interleaving.
ScCheckComplete == HasInterleaving(g) => IsScConsistent(g)

\* "Potential maintained write set drifted from graph consistency BFS" never fails.
NoDrift == failed # "drift"

\* "No consistent writes in intersection for join event" never fails, for the second event
\* of a chain either, when the first has taken the last write that none had read.
NoChainAbort == failed # "no_write_chain"

\* In mo an rmw-like event comes immediately after the write it reads.
RmwAdjacent == \A p \in g.rf : Kind(g, p[2]) \in RmwKinds => p \in MoEdges(g)

\* Whatever was flipped, the graph is coherent.
FlipKeepsCoherence == marks \cap {"stray_tcj", "lone_parent"} = {} => IsCoherent(g)

\* Whatever parent collect_enabled_events gives a read, the graph is coherent.
JoinKeepsCoherence == marks \cap {"stray_tcj", "flip_kept"} = {} => IsCoherent(g)

\* The first event of a thread comes after the event that created it, an event after a
\* join after those of the joined thread, and after nothing else.
TcjJustified == \A p \in g.tcj : p[1] \in Code(p[2]).after

\* The stored race pairs are the races of the graph, whatever was mutated.
RacesExactAlways == races = CollectRacePairs(g)
=============================================================================
