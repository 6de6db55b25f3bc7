----------------------------- MODULE AliasTable -----------------------------
(***************************************************************************)
(* The alias table from which the next queue entry is drawn by weight:     *)
(* create_alias_table and select_next_queue_entry                          *)
(* (SGF/main/src/sgf-fuzz-queue.c), one action per iteration of its loops. *)
(* Probabilities are kept as multiples of 1 / sum, so the arithmetic is    *)
(* exact; rounding of the code's doubles is not modelled.  How a weight is *)
(* computed from timings and sizes is not modelled either: any may be found.*)
(***************************************************************************)
EXTENDS Integers, FiniteSets, Functions

CONSTANTS MaxItems,   \* bound: entries
          MaxWeight,  \* bound: weights
          U32         \* the number of values of a u32, 2^32 in the code

ASSUME AliasAssumption ==
  MaxItems \in Nat \ {0} /\ MaxWeight \in Nat \ {0} /\ U32 \in Nat /\ U32 > MaxItems + 1

VARIABLES
  weight,     \* per entry, 0 for a disabled one
  boosted,    \* how many of the newest entries MMOPT doubles after sum was taken
  P,
  Small, nSmall, Large, nLarge,      \* two stacks, from the two ends of their arrays
  prob, alias,                       \* alias_probability and alias_table
  next,       \* next entry to split, or -1
  pc

vars == <<weight, boosted, P, Small, nSmall, Large, nLarge, prob, alias, next, pc>>

Items == DOMAIN weight
n == Cardinality(Items)
sum == SumFunctionOnSet(weight, Items)

\* What the entry weighs when P is filled in.
Weighed(i) == IF i >= n - boosted THEN 2 * weight[i] ELSE weight[i]

Plus(k) == (k + 1) % U32
Minus(k) == (k + U32 - 1) % U32

\* At least one entry is not disabled.
Init ==
  /\ \E k \in 1..MaxItems :
       /\ weight \in [0..(k - 1) -> 0..MaxWeight] /\ \E i \in 0..(k - 1) : weight[i] > 0
       /\ boosted \in 0..k
  /\ P = [i \in Items |-> Weighed(i) * n]
  /\ Small = [i \in Items |-> 0] /\ Large = [i \in Items |-> 0]
  /\ nSmall = 0 /\ nLarge = n - 1
  /\ prob = [i \in Items |-> 0] /\ alias = [i \in Items |-> 0]
  /\ next = n - 1
  /\ pc = "split"
-----------------------------------------------------------------------------

SetAlias(small, large) == alias' = [alias EXCEPT ![small] = large]

PushSmall(j, top) == Small' = [Small EXCEPT ![top] = j] /\ nSmall' = top + 1
PushLarge(j, top) == Large' = [Large EXCEPT ![top] = j] /\ nLarge' = Minus(top)

Split ==
  /\ pc = "split" /\ next >= 0
  /\ \/ P[next] < sum /\ PushSmall(next, nSmall) /\ UNCHANGED <<Large, nLarge>>
     \/ P[next] >= sum /\ PushLarge(next, nLarge) /\ UNCHANGED <<Small, nSmall>>
  /\ next' = next - 1
  /\ UNCHANGED <<weight, boosted, P, prob, alias, pc>>

SplitDone ==
  /\ pc = "split" /\ next < 0 /\ pc' = "match"
  /\ UNCHANGED <<weight, boosted, P, Small, nSmall, Large, nLarge, prob, alias, next>>

\* Mutant: the large entry gives up what the small one has, not what it lacks.
RestSwapped(small, large) == P[large] - P[small]

\* A large entry gives a small one what it lacks.
Rest(small, large) == P[large] - (sum - P[small])

Match ==
  LET small == Small[nSmall - 1]
      large == Large[Plus(nLarge)]
      rest == Rest(small, large)
  IN  /\ pc = "match" /\ nSmall > 0 /\ nLarge # n - 1
      /\ prob' = [prob EXCEPT ![small] = P[small]]
      /\ SetAlias(small, large)
      /\ P' = [P EXCEPT ![large] = rest]
      /\ \/ /\ rest < sum /\ PushSmall(large, nSmall - 1)
            /\ nLarge' = Plus(nLarge) /\ UNCHANGED Large
         \/ /\ rest >= sum /\ PushLarge(large, Plus(nLarge))
            /\ nSmall' = nSmall - 1 /\ UNCHANGED Small
      /\ UNCHANGED <<weight, boosted, next, pc>>

\* Mutant: the loop stops only when both stacks are empty.
MatchOverBoth == nSmall = 0 /\ nLarge = n - 1

MatchOver == nSmall = 0 \/ nLarge = n - 1

\* Entries that are left on either stack are drawn whenever they are hit.
Drain ==
  /\ pc = "match" /\ MatchOver /\ pc' = "done"
  /\ prob' = [i \in Items |->
       IF \/ \E k \in 0..(nSmall - 1) : Small[k] = i
          \/ nLarge # n - 1 /\ \E k \in Plus(nLarge)..(n - 1) : Large[k] = i
       THEN sum ELSE prob[i]]
  /\ nSmall' = 0 /\ nLarge' = n - 1
  /\ UNCHANGED <<weight, boosted, P, Small, Large, alias, next>>

Next == Split \/ SplitDone \/ Match \/ Drain

Spec == Init /\ [][Next]_vars /\ WF_vars(Next)
-----------------------------------------------------------------------------
\* The part of select_next_queue_entry's draws that yield i, in 1 / (n * sum): s is
\* i and p falls below its probability, or s has i as its alias and p does not.
Mass(i) ==
  (IF prob[i] > sum THEN sum ELSE prob[i])
  + SumFunctionOnSet([j \in Items |-> sum - prob[j]],
                     {j \in Items : alias[j] = i /\ prob[j] < sum})

\* Every entry is drawn with a probability in proportion to its weight.
DrawsByWeight == pc = "done" /\ boosted = 0 => \A i \in Items : Mass(i) = weight[i] * n

\* A disabled entry is never drawn, also when MMOPT has doubled weights after
\* their sum was taken.
DisabledNeverDrawn == pc = "done" => \A i \in Items : weight[i] = 0 => Mass(i) = 0

\* The finished table draws every entry by its weight, and a disabled one never.
DrawsFair == DrawsByWeight /\ DisabledNeverDrawn

\* The construction ends.
TableIsMade == <>(pc = "done")
=============================================================================
