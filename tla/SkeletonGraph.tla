--------------------------- MODULE SkeletonGraph ----------------------------
(***************************************************************************)
(* Skeleton graphs and the questions the fuzzer asks of one:               *)
(* SGF/main/include/skeleton_graph.hpp (the graph and finalize),           *)
(* src/consistency.cpp (find_consistent_writes, is_sc_consistent) and      *)
(* src/data_race.cpp (check_data_race and the stored race pairs).          *)
(*                                                                         *)
(* A graph is a record: ev maps the id of each event, <<thread, number>>,  *)
(* to its type, mode and location; po is the order of each thread; rf, sw  *)
(* and tcj are sets of pairs; mo is the order of the writes of each        *)
(* location.  The maps the code keeps beside these (the reverse edges, the *)
(* positions in po and mo, event_type_sets, last_visit, depth) are         *)
(* functions of them, and finalize makes them anew.                        *)
(***************************************************************************)
EXTENDS Naturals, Sequences, FiniteSets, SequencesExt, FiniteSetsExt

CONSTANTS Threads, Locations,
          NoLocation   \* what a fence has for a location

ASSUME GraphAssumption == NoLocation \notin Locations

WriteKinds == {"WRITE", "RMW", "CAS_SUCCESS"}
ReadKinds == {"READ", "CAS", "CAS_FAIL", "RMW", "CAS_SUCCESS"}
RmwKinds == {"RMW", "CAS_SUCCESS"}
AcquireModes == {"ACQ", "ACQ_REL", "SC"}
ReleaseModes == {"REL", "ACQ_REL", "SC"}

Events(g) == DOMAIN g.ev
Kind(g, e) == g.ev[e].type
Loc(g, e) == g.ev[e].loc
Mode(g, e) == g.ev[e].mode
OfKind(g, kinds) == {e \in Events(g) : Kind(g, e) \in kinds}

Position(s, e) == CHOOSE i \in 1..Len(s) : s[i] = e
Sources(R, e) == {p[1] : p \in {q \in R : q[2] = e}}
Targets(R, e) == {p[2] : p \in {q \in R : q[1] = e}}
Converse(R) == {<<p[2], p[1]>> : p \in R}

\* What R leads to from S, S included, in at most n steps.
Reach(R, S, n) ==
  LET within[k \in 0..n] ==
        IF k = 0 THEN S
        ELSE LET seen == within[k - 1] IN seen \cup {p[2] : p \in {q \in R : q[1] \in seen}}
  IN  within[n]

\* The immediate edges of program order and of modification order.
PoEdges(g) == UNION {{<<g.po[t][i - 1], g.po[t][i]>> : i \in 2..Len(g.po[t])} : t \in Threads}
MoEdges(g) == UNION {{<<g.mo[l][i - 1], g.mo[l][i]>> : i \in 2..Len(g.mo[l])} : l \in Locations}

\* A sequence without the elements outside of a set, and without one element.  (The
\* provers cannot look into SelectSeq.)
Only(s, S) ==
  LET kept[n \in 0..Len(s)] ==
        IF n = 0 THEN <<>>
        ELSE IF s[n] \in S THEN Append(kept[n - 1], s[n]) ELSE kept[n - 1]
  IN  kept[Len(s)]
Without(s, e) == Only(s, ToSet(s) \ {e})

\* finalize (rebuild_edge_maps, rebuild_po_index, rebuild_mo): what names an event
\* that is gone is dropped.
Finalize(g) ==
  LET Kept(R) == {p \in R : p[1] \in Events(g) /\ p[2] \in Events(g)}
  IN  [g EXCEPT !.rf = Kept(@), !.sw = Kept(@), !.tcj = Kept(@),
                !.po = [t \in Threads |-> Only(@[t], Events(g))],
                !.mo = [l \in Locations |-> Only(@[l], Events(g))]]

-----------------------------------------------------------------------------
\* Mutant: rf edges are not followed.
ConsistentWritesWithoutRf(g, last, loc, rmw) ==
  LET visited == Reach(Converse(PoEdges(g) \cup g.sw \cup g.tcj), {last}, Cardinality(Events(g)))
      order == g.mo[loc]
      aware == {i \in 1..Len(order) : order[i] \in visited}
      consumed == {w \in Events(g) : Targets(g.rf, w) \cap OfKind(g, RmwKinds) # {}}
  IN  {order[i] : i \in (IF aware = {} THEN 1 ELSE Max(aware))..Len(order)}
        \ (IF rmw THEN consumed ELSE {})

\* find_consistent_writes: backwards from the event last along po, sw, tcj and, at
\* reads of the location, rf.  The writes to the location found there set the cutoff
\* in mo; an rmw-like reader may not share its write with another.
FindConsistentWrites(g, last, loc, rmw) ==
  LET back == Converse(PoEdges(g) \cup g.sw \cup g.tcj
                       \cup {p \in g.rf : Loc(g, p[2]) = loc /\ Kind(g, p[2]) \in ReadKinds})
      visited == Reach(back, {last}, Cardinality(Events(g)))
      order == g.mo[loc]
      aware == {i \in 1..Len(order) : order[i] \in visited /\ Kind(g, order[i]) \in WriteKinds}
      cutoff == IF aware = {} THEN 1 ELSE Max(aware)
      consumed == {w \in Events(g) : Targets(g.rf, w) \cap OfKind(g, RmwKinds) # {}}
  IN  {order[i] : i \in cutoff..Len(order)} \ (IF rmw THEN consumed ELSE {})

\* is_sc_consistent: Kahn's algorithm on po, tcj, rf, mo and fr.  Each round takes the
\* events all of whose predecessors have been processed.
FrEdges(g) ==
  {p \in Events(g) \X Events(g) :
     /\ Kind(g, p[2]) \in WriteKinds
     /\ \E w \in Sources(g.rf, p[1]) :
          LET order == g.mo[Loc(g, w)] IN
          /\ {w, p[2]} \subseteq ToSet(order)
          /\ Position(order, w) < Position(order, p[2])}
\* Mutant: fr is left out.
IsScConsistentWithoutFr(g) ==
  LET edges == PoEdges(g) \cup g.tcj \cup g.rf \cup MoEdges(g)
      n == Cardinality(Events(g))
      processed[k \in 0..n] ==
        IF k = 0 THEN {}
        ELSE {e \in Events(g) : Sources(edges, e) \subseteq processed[k - 1]}
  IN  n <= 1 \/ processed[n] = Events(g)
IsScConsistent(g) ==
  LET edges == PoEdges(g) \cup g.tcj \cup g.rf \cup MoEdges(g) \cup FrEdges(g)
      n == Cardinality(Events(g))
      processed[k \in 0..n] ==
        IF k = 0 THEN {}
        ELSE LET done == processed[k - 1]
             IN  {e \in Events(g) : Sources(edges, e) \subseteq done}
  IN  n <= 1 \/ processed[n] = Events(g)

-----------------------------------------------------------------------------
\* has_happens_before_path
HasHappensBeforePath(g, e, f) ==
  f \in Reach(PoEdges(g) \cup g.sw \cup g.tcj, {e}, Cardinality(Events(g)))

\* check_data_race: the events that race with e.
CheckDataRace(g, e) ==
  IF e \notin OfKind(g, ReadKinds \cup WriteKinds) THEN {}
  ELSE {f \in OfKind(g, ReadKinds \cup WriteKinds) \ {e} :
          /\ Loc(g, f) = Loc(g, e)
          /\ {Kind(g, e), Kind(g, f)} \cap WriteKinds # {}
          /\ "NON_ATOMIC" \in {Mode(g, e), Mode(g, f)}
          /\ ~HasHappensBeforePath(g, f, e) /\ ~HasHappensBeforePath(g, e, f)}

\* race_pair_store_collect, over the locations that have an mo; a pair is the set of
\* its two events.
CollectRacePairs(g) ==
  UNION {{{e, f} : f \in CheckDataRace(g, e)} :
           e \in {d \in Events(g) : Loc(g, d) \in {l \in Locations : g.mo[l] # <<>>}}}

\* Mutant: the pairs of the mutated event are added to and never removed.
AddRacePairs(pairs, g, target) ==
  {p \in pairs : p \subseteq Events(g)} \cup {{target, f} : f \in CheckDataRace(g, target)}

\* race_pair_store_update_incremental: the pairs of the parent graph whose events are
\* still there, with those of the mutated event found anew.
UpdateRacePairs(pairs, g, target) ==
  {p \in pairs : p \subseteq Events(g) /\ target \notin p}
    \cup {{target, f} : f \in CheckDataRace(g, target)}
=============================================================================
