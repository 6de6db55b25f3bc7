---------------------------- MODULE EventPairMap ----------------------------
(***************************************************************************)
(* The map from edges to frequencies behind the coverage of rf edges:      *)
(* SGF/main/src/event_pair_set.c.  A table of sources, each slot with a    *)
(* table of destinations, each slot with a frequency.  An allocation may   *)
(* fail.                                                                   *)
(***************************************************************************)
EXTENDS Probing, FiniteSets, FiniteSetsExt

CONSTANTS Edges,       \* pairs of events
          EventHash,   \* hash_event_triple before the remainder
          MinSlots,    \* 16, the least capacity of a table
          MaxCalls     \* bound: calls of event_graph_map_increment

VARIABLES
  map,      \* [cap, size, key, dest]: the slots' sources and destination maps, which
            \* are records [cap, size, key, freq]
  ret,      \* what the last event_graph_map_increment returned
  freq,     \* history: how often each edge was counted
  last,     \* history: the edge of the last call
  short,    \* history: an allocation has failed
  calls

NewDest == [cap |-> MinSlots, size |-> 0, key |-> [i \in 0..(MinSlots - 1) |-> Empty],
            freq |-> [i \in 0..(MinSlots - 1) |-> 0]]
NoDest == [cap |-> 0]
NewMap == [cap |-> MinSlots, size |-> 0, key |-> [i \in 0..(MinSlots - 1) |-> Empty],
           dest |-> [i \in 0..(MinSlots - 1) |-> NoDest]]

Crowded75(t) == t.size * 100 >= t.cap * 75

\* Where the probe for k from the slot of event e ends, or -1 when it finds neither k nor
\* an empty slot.
ProbeEnd(key, cap, e, k) ==
  LET ends == {d \in 0..(cap - 1) : key[At(cap, EventHash[e], d)] \in {Empty, k}}
  IN  IF ends = {} THEN -1 ELSE At(cap, EventHash[e], Min(ends))
Slot(t, k) == ProbeEnd(t.key, t.cap, k, k)

\* destination_map_resize and event_graph_map_resize: the slots of a table with n slots
\* are put into one with twice as many; place[i] are the keys after the first i, and
\* from the slot that a key comes from.
Placed(key, n) ==
  LET place[i \in 0..n] ==
        IF i = 0 THEN [key |-> [j \in 0..(2 * n - 1) |-> Empty], from |-> [j \in 0..(2 * n - 1) |-> n]]
        ELSE LET before == place[i - 1]
                 j == ProbeEnd(before.key, 2 * n, key[i - 1], Empty)
             IN  IF key[i - 1] = Empty THEN before
                 ELSE [key |-> [before.key EXCEPT ![j] = key[i - 1]],
                       from |-> [before.from EXCEPT ![j] = i - 1]]
  IN  place[n]

\* Mutant: a frequency stays at its slot while its destination moves.
DestResizedInPlace(d) ==
  LET p == Placed(d.key, d.cap)
  IN  [d EXCEPT !.cap = 2 * d.cap, !.key = p.key,
                !.freq = [j \in DOMAIN p.key |-> IF j < d.cap THEN d.freq[j] ELSE 1]]

DestResized(d) ==
  LET p == Placed(d.key, d.cap)
  IN  [d EXCEPT !.cap = 2 * d.cap, !.key = p.key,
                !.freq = [j \in DOMAIN p.key |-> IF p.from[j] = d.cap THEN 0 ELSE d.freq[p.from[j]]]]
MapResized(m) ==
  LET p == Placed(m.key, m.cap)
  IN  [m EXCEPT !.cap = 2 * m.cap, !.key = p.key,
                !.dest = [j \in DOMAIN p.key |->
                            IF p.from[j] = m.cap THEN NoDest ELSE m.dest[p.from[j]]]]

\* destination_map_increment in a table with room: the destination map after, and the
\* frequency.
Counted(d, k) ==
  LET i == Slot(d, k) IN
  IF i = -1 THEN [dest |-> d, ret |-> 0]
  ELSE IF d.key[i] = k THEN [dest |-> [d EXCEPT !.freq[i] = @ + 1], ret |-> d.freq[i] + 1]
  ELSE [dest |-> [d EXCEPT !.key[i] = k, !.freq[i] = 1, !.size = @ + 1], ret |-> 1]

\* event_graph_map_increment; grows and makes say which allocations succeed.
Increment(from, to, grows, makes) ==
  LET m == IF Crowded75(map) /\ grows THEN MapResized(map) ELSE map
      i == Slot(m, from)
      new == i # -1 /\ m.key[i] # from
      d == IF i = -1 THEN NoDest ELSE IF new THEN NewDest ELSE m.dest[i]
      r == IF d # NoDest /\ Crowded75(d) /\ makes THEN DestResized(d) ELSE d
      c == Counted(r, to)
  IN  /\ calls < MaxCalls /\ calls' = calls + 1
      /\ last' = <<from, to>>
      /\ short' = \/ short
                  \/ Crowded75(map) /\ ~grows
                  \/ (new \/ (d # NoDest /\ Crowded75(d))) /\ ~makes
      /\ IF i = -1 \/ (new /\ ~makes) THEN map' = m /\ ret' = 0
         ELSE /\ map' = [m EXCEPT !.key[i] = from, !.dest[i] = c.dest,
                                  !.size = IF new THEN @ + 1 ELSE @]
              /\ ret' = c.ret
      /\ freq' = [freq EXCEPT ![last'] = IF ret' = 0 THEN @ ELSE @ + 1]

\* event_graph_map_get_frequency
GetFrequency(from, to) ==
  LET i == Slot(map, from) IN
  IF i = -1 \/ map.key[i] # from THEN 0
  ELSE LET d == map.dest[i]
           j == Slot(d, to)
       IN  IF j = -1 \/ d.key[j] # to THEN 0 ELSE d.freq[j]

\* event_graph_map_edge_count
EdgeCount ==
  LET sum[i \in 0..map.cap] ==
        IF i = 0 THEN 0
        ELSE sum[i - 1] + (IF map.key[i - 1] = Empty THEN 0 ELSE map.dest[i - 1].size)
  IN  sum[map.cap]

\* event_graph_map_clear
ClearMap ==
  /\ map' = [map EXCEPT !.size = 0, !.key = [i \in DOMAIN @ |-> Empty],
                        !.dest = [i \in DOMAIN @ |-> NoDest]]
  /\ freq' = [e \in Edges |-> 0] /\ ret' = 0
  /\ UNCHANGED <<last, short, calls>>

PairInit ==
  /\ map = NewMap /\ ret = 0
  /\ freq = [e \in Edges |-> 0] /\ last = CHOOSE e \in Edges : TRUE
  /\ short = FALSE /\ calls = 0
PairNext ==
  \/ \E e \in Edges : \E grows, makes \in BOOLEAN : Increment(e[1], e[2], grows, makes)
  \/ ClearMap

=============================================================================
