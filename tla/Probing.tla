------------------------------ MODULE Probing -------------------------------
(***************************************************************************)
(* Open addressing with linear probing, as the seen-graph table            *)
(* (SGF/main/src/sgf-fuzz-run.c) and the event pair map                    *)
(* (event_pair_set.c) do it.  A table is a function on 0..(cap - 1); a     *)
(* slot holds Empty or a key.                                              *)
(***************************************************************************)
EXTENDS Integers

CONSTANT Empty   \* what a slot that was never used holds

\* The slot looked at after d others, from that of hash h.
At(cap, h, d) == (h + d) % cap

\* Key k is found, or slot i is the one that a probe for k ends at: the slots before it
\* hold other keys.
Passes(table, cap, h, k, d) ==
  \A e \in 0..(d - 1) : table[At(cap, h, e)] \notin {Empty, k}
EndsAt(table, cap, h, k, i) ==
  \E d \in 0..(cap - 1) : /\ At(cap, h, d) = i
                          /\ table[i] \in {Empty, k}
                          /\ Passes(table, cap, h, k, d)
Found(table, cap, h, k) ==
  \E i \in 0..(cap - 1) : table[i] = k /\ EndsAt(table, cap, h, k, i)
=============================================================================
