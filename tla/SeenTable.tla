----------------------------- MODULE SeenTable ------------------------------
(***************************************************************************)
(* The table of the graphs that were seen, and that of the graphs that     *)
(* crashed, which has the same code: skel_hash_* and crash_hash_* of       *)
(* SGF/main/src/sgf-fuzz-run.c.  One action per iteration of the loop that *)
(* moves the keys to a larger table; numbers of slots are u32.             *)
(***************************************************************************)
EXTENDS Probing, FiniteSets

CONSTANTS Graphs,
          Hash,     \* hash_skeleton_graph
          Mix,      \* the exclusive or with 0x9e3779b97f4a7c15
          Keys,     \* what keys the graphs have
          MinCap,   \* 4096
          U32,      \* 2^32
          None      \* no request

\* A word is a natural number, and 0 is both an empty slot and no hash.
Key(g) == IF Mix[Hash[g]] = 0 THEN 1 ELSE Mix[Hash[g]]
Hashed == {g \in Graphs : Hash[g] # 0}

ASSUME TableAssumption ==
  /\ Empty = 0 /\ None \notin Nat
  /\ Keys \subseteq Nat \ {0} /\ \A g \in Hashed : Key(g) \in Keys
  /\ MinCap \in Nat /\ MinCap >= 4 /\ U32 \in Nat /\ 70 * MinCap < U32

VARIABLES
  cap, table, count,  \* skel_hash_cap, skel_hash_table and skel_hash_count
  old, oldCap, next,  \* skel_hash_rehash: old_table, old_cap and i
  pc,                 \* "idle", "rehash" or "probe"
  arg, answer         \* the key being looked for, and what the last call returned

vars == <<cap, table, count, old, oldCap, next, pc, arg, answer>>

Fresh(n) == [i \in 0..(n - 1) |-> Empty]

Init ==
  /\ cap = 0 /\ table = Fresh(0) /\ count = 0
  /\ old = Fresh(0) /\ oldCap = 0 /\ next = 0
  /\ pc = "idle" /\ arg = None /\ answer = "new"

-----------------------------------------------------------------------------
\* skeleton_graph_seen
Seen(g) == Hash[g] # 0 /\ cap # 0 /\ Found(table, cap, Key(g), Key(g))

\* 70% of the slots are used.  Both products are u32.
Crowded == (count * 100) % U32 >= (cap * 70) % U32

\* skel_hash_init for twice the slots: 0 slots stand for the default.
Doubled == IF (2 * cap) % U32 = 0 THEN MinCap ELSE (2 * cap) % U32

\* skeleton_graph_seen_or_add
Ignore == pc = "idle" /\ Graphs # Hashed /\ answer' = "new"
          /\ UNCHANGED <<cap, table, count, old, oldCap, next, pc, arg>>

\* The first call makes the table.
CallFirst(g) ==
  /\ pc = "idle" /\ cap = 0
  /\ cap' = MinCap /\ table' = Fresh(MinCap) /\ count' = 0
  /\ arg' = Key(g) /\ pc' = "probe"
  /\ UNCHANGED <<old, oldCap, next, answer>>

CallCrowded(g) ==
  /\ pc = "idle" /\ cap # 0 /\ Crowded
  /\ cap' = Doubled /\ table' = Fresh(Doubled) /\ count' = 0
  /\ old' = table /\ oldCap' = cap /\ next' = 0
  /\ arg' = Key(g) /\ pc' = "rehash"
  /\ UNCHANGED answer

Call(g) ==
  /\ pc = "idle" /\ cap # 0 /\ ~Crowded
  /\ arg' = Key(g) /\ pc' = "probe"
  /\ UNCHANGED <<cap, table, count, old, oldCap, next, answer>>

\* Mutants: a key goes to its own slot, whatever is there; the slot after is tried first.
PutHome(k) == table' = [table EXCEPT ![At(cap, k, 0)] = k] /\ count' = count + 1
PutAfterHome(k) ==
  \E i \in 0..(cap - 1) :
    /\ EndsAt(table, cap, k + 1, Empty, i)
    /\ table' = [table EXCEPT ![i] = k]
    /\ count' = count + 1

\* A key goes to the first empty slot.
Put(k) ==
  \E i \in 0..(cap - 1) :
    /\ EndsAt(table, cap, k, Empty, i)
    /\ table' = [table EXCEPT ![i] = k]
    /\ count' = count + 1

\* Mutant: an empty slot is skipped before the index is advanced.
MoveStuck ==
  /\ pc = "rehash" /\ next < oldCap
  /\ IF old[next] = Empty THEN UNCHANGED <<table, count, next>>
     ELSE Put(old[next]) /\ next' = next + 1
  /\ UNCHANGED <<cap, old, oldCap, pc, arg, answer>>

\* skel_hash_rehash
Move ==
  /\ pc = "rehash" /\ next < oldCap
  /\ IF old[next] = Empty THEN UNCHANGED <<table, count>> ELSE Put(old[next])
  /\ next' = next + 1
  /\ UNCHANGED <<cap, old, oldCap, pc, arg, answer>>

Moved ==
  /\ pc = "rehash" /\ next >= oldCap
  /\ pc' = "probe" /\ old' = Fresh(0) /\ oldCap' = 0 /\ next' = 0
  /\ UNCHANGED <<cap, table, count, arg, answer>>

\* The search for the key, which ends there or at the empty slot that it is put in.
Probe ==
  /\ pc = "probe"
  /\ \E i \in 0..(cap - 1) :
       /\ EndsAt(table, cap, arg, arg, i)
       /\ answer' = IF table[i] = arg THEN "seen" ELSE "new"
       /\ table' = [table EXCEPT ![i] = arg]
       /\ count' = IF table[i] = arg THEN count ELSE count + 1
  /\ pc' = "idle" /\ arg' = None
  /\ UNCHANGED <<cap, old, oldCap, next>>

Next ==
  \/ Ignore
  \/ \E g \in Hashed : CallFirst(g) \/ CallCrowded(g) \/ Call(g)
  \/ Move \/ Moved \/ Probe

Spec == Init /\ [][Next]_vars /\ WF_vars(Move \/ Moved \/ Probe)

-----------------------------------------------------------------------------
\* The keys in the table and those that a rehash has still to move.
Stored == {table[i] : i \in 0..(cap - 1)} \ {Empty}
Unmoved == {old[i] : i \in next..(oldCap - 1)} \ {Empty}

\* Through every growth the table is a set: a key once added is answered with "seen"
\* for ever, and another key never is.
Set == INSTANCE SeenSet WITH keys <- Stored \cup Unmoved
ImplementsSet == Set!Spec

\* What skeleton_graph_seen finds between calls is what was added: no key hides behind
\* an empty slot.
LookupExact == pc = "idle" => \A g \in Hashed : Seen(g) <=> Key(g) \in Stored

\* Every call returns: growth leaves an empty slot for the search to end at.
CallsReturn == pc # "idle" ~> pc = "idle"
=============================================================================
