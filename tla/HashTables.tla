----------------------------- MODULE HashTables -----------------------------
(***************************************************************************)
(* The fuzzer's hash tables side by side, for model checking: a behaviour  *)
(* is one of the seen-graph table or one of the event pair map, which      *)
(* share nothing.                                                          *)
(***************************************************************************)
EXTENDS SeenTable, TLC

CONSTANTS Edges, EventHash, MinSlots, MaxCalls

ASSUME PairAssumption ==
  /\ IsFiniteSet(Edges) /\ MinSlots \in Nat \ {0}
  /\ \A e \in Edges : e = <<e[1], e[2]>> /\ \A i \in 1..2 : e[i] # Empty /\ EventHash[e[i]] \in Nat

VARIABLES kind,   \* the table at work
          map, ret, freq, last, short, calls

Pairs == INSTANCE EventPairMap

TablesInit == kind \in {"seen", "pairs"} /\ Init /\ Pairs!PairInit
TablesNext ==
  /\ UNCHANGED kind
  /\ \/ kind = "seen" /\ Next /\ UNCHANGED <<map, ret, freq, last, short, calls>>
     \/ kind = "pairs" /\ Pairs!PairNext /\ UNCHANGED vars
allVars == <<kind, vars, map, ret, freq, last, short, calls>>

TablesSpec ==
  TablesInit /\ [][TablesNext]_allVars /\ WF_vars(Move \/ Moved \/ Probe)

-----------------------------------------------------------------------------
\* Through growth of either table, failing allocations and clearing, every edge has the
\* frequency with which it was counted, and a call returns the new one, or 0 when it
\* has counted nothing, which happens only after an allocation has failed.
FrequenciesExact ==
  /\ \A e \in Edges : Pairs!GetFrequency(e[1], e[2]) = freq[e]
  /\ ret \in {0, freq[last]}
  /\ ret = 0 => short \/ \A e \in Edges : freq[e] = 0

\* The coverage that is reported is the number of edges counted.
EdgeCountExact ==
  Pairs!EdgeCount = Cardinality({e \in Edges : Pairs!GetFrequency(e[1], e[2]) > 0})

\* What the pair map tells of the coverage is what was counted, edge by edge and in sum.
CountsExact == FrequenciesExact /\ EdgeCountExact

-----------------------------------------------------------------------------
(* Instances: words of four bits in tables of four slots, so that keys     *)
(* collide and wrap around; two of the graphs have the same key and one    *)
(* has no hash.                                                            *)
MCGraphs == 0..8
MCHash == [g \in MCGraphs |-> IF g = 0 THEN 0 ELSE <<5, 4, 6, 2, 14, 10, 9, 12>>[g]]
MCMix == (5 :> 0) @@ (4 :> 1) @@ (6 :> 3) @@ (2 :> 7) @@ (14 :> 11) @@ (10 :> 15)
         @@ (9 :> 12) @@ (12 :> 9)
MCKeys == {Key(g) : g \in Hashed}

\* Three sources and three destinations of one, in tables of two slots.
MCEdges == {<<1, 1>>, <<1, 2>>, <<1, 3>>, <<2, 1>>, <<3, 1>>}
MCEventHash == <<3, 1, 7>>
=============================================================================
