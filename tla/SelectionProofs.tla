--------------------------- MODULE SelectionProofs ---------------------------
(***************************************************************************)
(* How the next seed is chosen and how novel a new graph is.               *)
(*                                                                         *)
(* AliasTable: create_alias_table is fair for every number of entries and  *)
(* all weights.  The finished table draws each entry in proportion to its  *)
(* weight, and a disabled entry never, also when weights were doubled      *)
(* after their sum was taken.                                              *)
(*                                                                         *)
(* NoveltyIndex: the nearest-neighbour index names live entries only, for  *)
(* every corpus, every set of writes and every choice of what a compaction *)
(* keeps, and the novelty it gives a new graph is exact.                   *)
(***************************************************************************)
EXTENDS Sequences, AliasTable, NoveltyIndex, FiniteSetTheorems, DataLemmas

\* The weights, which do not change.
WeightInv ==
  \E k \in 1..MaxItems :
    /\ weight \in [0..(k - 1) -> 0..MaxWeight] /\ \E i \in 0..(k - 1) : weight[i] > 0
    /\ boosted \in 0..k

\* What an array holds in the positions at, each entry once.
Elems(arr, at) == {arr[k] : k \in at}
Distinct(arr, at) == \A j, k \in at : arr[j] = arr[k] => j = k

\* The positions and the entries of the two stacks.
From == Plus(nLarge)
SmallAt == 0..(nSmall - 1)
LargeAt == From..(n - 1)
SmallOnes == Elems(Small, SmallAt)
LargeOnes == Elems(Large, LargeAt)

\* The entries whose place in the table is settled.
Done == {i \in Items : i > next /\ i \notin SmallOnes \cup LargeOnes}

TypeInv ==
  /\ P \in [Items -> Nat] /\ prob \in [Items -> Nat] /\ alias \in [Items -> Items]
  /\ Small \in [Items -> Items] /\ Large \in [Items -> Items]
  /\ nSmall \in 0..n /\ nLarge \in 0..(U32 - 1) /\ From \in 0..n
  /\ next \in -1..(n - 1)

\* An entry is on one stack at most, and the stacks leave room for those still to come.
StackInv ==
  /\ Distinct(Small, SmallAt) /\ Distinct(Large, LargeAt)
  /\ SmallOnes \cap LargeOnes = {}
  /\ \A i \in SmallOnes \cup LargeOnes : i > next
  /\ \A i \in SmallOnes : P[i] < sum
  /\ \A i \in LargeOnes : P[i] >= sum
  /\ IF pc = "split" THEN Done = {} /\ From - nSmall = next + 1
     ELSE next = -1 /\ nSmall <= From

\* What entry i has been given by the settled entries that have it as their alias, and
\* what the others have beyond an even share.
Lacks == [j \in Items |-> sum - prob[j]]
Given(i) == SumFunctionOnSet(Lacks, {j \in Done : alias[j] = i})
Beyond == [i \in Items |-> P[i] - sum]
Surplus == SumFunctionOnSet(Beyond, Items \ Done)

\* Nothing is lost: what an entry still has and what it was given make up its weight, and
\* the entries that are not settled have an even share on the average, or more.
MassInv ==
  /\ \A i \in Done : prob[i] = P[i] /\ P[i] < sum
  /\ \A i \in Items : P[i] + Given(i) = Weighed(i) * n
  /\ Surplus >= 0 /\ (boosted = 0 => Surplus = 0)

Inv ==
  /\ WeightInv
  /\ pc \in {"split", "match", "done"}
  /\ pc # "done" => TypeInv /\ StackInv /\ MassInv
  /\ pc = "done" => DrawsFair

-----------------------------------------------------------------------------
LEMMA SumIs == sum = SumFunctionOnSet(weight, Items)
BY DEF sum

LEMMA WeightFacts ==
  ASSUME WeightInv
  PROVE  /\ n \in 1..MaxItems /\ n \in Nat /\ n > 0 /\ n < U32 - 1 /\ U32 \in Nat
         /\ Items = 0..(n - 1) /\ IsFiniteSet(Items) /\ Cardinality(Items) = n
         /\ \A i \in Items : weight[i] \in Nat /\ Weighed(i) \in Nat /\ Weighed(i) >= weight[i]
         /\ \A i \in Items : (boosted = 0 \/ weight[i] = 0) => Weighed(i) = weight[i]
         /\ sum \in Nat /\ sum > 0
<1> USE AliasAssumption
<1>1. PICK k \in 1..MaxItems :
        /\ weight \in [0..(k - 1) -> 0..MaxWeight] /\ \E i \in 0..(k - 1) : weight[i] > 0
        /\ boosted \in 0..k
  BY DEF WeightInv
<1>2. Items = 0..(k - 1) BY <1>1 DEF Items
<1>3. IsFiniteSet(Items) /\ Cardinality(Items) = k BY <1>1, <1>2, FS_Interval
<1>4. n = k BY <1>3 DEF n
<1>5. n \in 1..MaxItems /\ n \in Nat /\ n > 0 /\ n < U32 - 1 /\ U32 \in Nat BY <1>1, <1>4
<1>6. \A i \in Items : weight[i] \in Nat BY <1>1, <1>2
<1>7. boosted \in Nat BY <1>1
<1>8. \A i \in Items : /\ Weighed(i) \in Nat /\ Weighed(i) >= weight[i]
                       /\ (boosted = 0 \/ weight[i] = 0) => Weighed(i) = weight[i]
  <2> SUFFICES ASSUME NEW i \in Items
               PROVE  /\ Weighed(i) \in Nat /\ Weighed(i) >= weight[i]
                      /\ (boosted = 0 \/ weight[i] = 0) => Weighed(i) = weight[i]
    OBVIOUS
  <2>1. i \in Nat /\ i < n /\ weight[i] \in Nat BY <1>2, <1>4, <1>5, <1>6
  <2> HIDE DEF n
  <2> QED BY <1>5, <1>7, <2>1 DEF Weighed
<1>9. sum \in Nat BY <1>3, <1>6, SumIs, SumSign
<1>10. sum # 0
  <2>1. PICK i \in Items : weight[i] > 0 BY <1>1, <1>2
  <2>2. weight[i] # 0 BY <1>6, <2>1
  <2> QED BY <1>3, <1>6, <2>1, <2>2, SumIs, SumSign
<1> HIDE DEF n
<1> QED BY <1>2, <1>3, <1>4, <1>5, <1>6, <1>8, <1>9, <1>10

\* The index of Large wraps around below 0 and back.
LEMMA Wraps ==
  ASSUME WeightInv, NEW k \in 0..n
  PROVE  /\ Plus(k) = k + 1 /\ Minus(k) \in 0..(U32 - 1)
         /\ Minus(k) = IF k = 0 THEN U32 - 1 ELSE k - 1
         /\ Plus(Minus(k)) = k
<1>1. n \in Nat /\ n < U32 - 1 /\ U32 \in Nat BY WeightFacts
<1>2. k \in Nat /\ k + 1 < U32 BY <1>1
<1>3. Plus(k) = k + 1 BY <1>1, <1>2 DEF Plus
<1>4. CASE k = 0
  <2>1. Minus(k) = U32 - 1 BY <1>1, <1>4 DEF Minus
  <2>2. U32 % U32 = 0 BY <1>1
  <2>3. (U32 - 1) + 1 = U32 BY <1>1
  <2>4. Plus(Minus(k)) = 0 BY <2>1, <2>2, <2>3 DEF Plus
  <2> QED BY <1>1, <1>3, <1>4, <2>1, <2>4
<1>5. CASE k # 0
  <2>1. k + U32 - 1 = (k - 1) + U32 /\ k - 1 \in 0..(U32 - 1) BY <1>1, <1>2, <1>5
  <2>2. ((k - 1) + U32) % U32 = (k - 1) % U32 BY <1>1, <1>2, <1>5
  <2>3. (k - 1) % U32 = k - 1 BY <1>1, <1>2, <1>5
  <2>4. Minus(k) = k - 1 BY <2>1, <2>2, <2>3 DEF Minus
  <2>5. Plus(k - 1) = k BY <1>1, <1>2, <1>5 DEF Plus
  <2> QED BY <1>3, <1>5, <2>1, <2>4, <2>5
<1> QED BY <1>4, <1>5

LEMMA FromFacts ==
  ASSUME WeightInv, TypeInv
  PROVE  /\ (nLarge = n - 1) <=> (From = n)
         /\ From > 0 => nLarge = From - 1
<1>1. n \in Nat /\ n > 0 /\ n < U32 - 1 /\ U32 \in Nat BY WeightFacts
<1>2. nLarge \in 0..(U32 - 1) /\ From \in 0..n BY DEF TypeInv
<1>3. CASE nLarge = U32 - 1
  <2>1. (U32 - 1) + 1 = U32 /\ U32 % U32 = 0 BY <1>1
  <2>2. From = 0 BY <1>3, <2>1 DEF From, Plus
  <2> QED BY <1>1, <1>3, <2>2
<1>4. CASE nLarge # U32 - 1
  <2>1. nLarge + 1 \in 0..(U32 - 1) BY <1>1, <1>2, <1>4
  <2>2. (nLarge + 1) % U32 = nLarge + 1 BY <1>1, <2>1
  <2>3. From = nLarge + 1 BY <2>2 DEF From, Plus
  <2> QED BY <1>1, <1>2, <2>3
<1> QED BY <1>3, <1>4

-----------------------------------------------------------------------------
LEMMA Put ==
  ASSUME NEW D, NEW arr \in [D -> D], NEW at \in SUBSET D, NEW k \in D, NEW x \in D,
         k \notin at, x \notin Elems(arr, at), Distinct(arr, at)
  PROVE  /\ [arr EXCEPT ![k] = x] \in [D -> D]
         /\ Elems([arr EXCEPT ![k] = x], at \cup {k}) = Elems(arr, at) \cup {x}
         /\ Distinct([arr EXCEPT ![k] = x], at \cup {k})
<1> DEFINE new == [arr EXCEPT ![k] = x]
<1>1. new \in [D -> D] OBVIOUS
<1>2. new[k] = x /\ \A j \in at : new[j] = arr[j] OBVIOUS
<1> HIDE DEF new
<1>3. Elems(new, at \cup {k}) = Elems(arr, at) \cup {x} BY <1>2 DEF Elems
<1>4. Distinct(new, at \cup {k}) BY <1>2 DEF Distinct, Elems
<1> QED BY <1>1, <1>3, <1>4 DEF new

LEMMA Pull ==
  ASSUME NEW D, NEW arr \in [D -> D], NEW at \in SUBSET D, NEW k \in at, Distinct(arr, at)
  PROVE  /\ arr[k] \in Elems(arr, at)
         /\ Elems(arr, at \ {k}) = Elems(arr, at) \ {arr[k]}
         /\ Distinct(arr, at \ {k})
BY DEF Elems, Distinct

LEMMA Gains ==
  ASSUME NEW f, NEW g, NEW S, NEW a, IsFiniteSet(S), a \notin S, g[a] \in Int,
         \A x \in S : f[x] \in Int, \A x \in S : g[x] = f[x]
  PROVE  SumFunctionOnSet(g, S \cup {a}) = SumFunctionOnSet(f, S) + g[a]
<1>1. IsFiniteSet(S \cup {a}) BY FS_AddElement
<1>2. (S \cup {a}) \ {a} = S OBVIOUS
<1>3. \A x \in S \cup {a} : g[x] \in Int OBVIOUS
<1>4. SumFunctionOnSet(g, S \cup {a}) = g[a] + SumFunctionOnSet(g, S)
  BY <1>1, <1>2, <1>3, SumRemove
<1>5. SumFunctionOnSet(g, S) = SumFunctionOnSet(f, S) BY SumSame
<1>6. SumFunctionOnSet(f, S) \in Int BY SumRemove
<1> QED BY <1>4, <1>5, <1>6

LEMMA Moves ==
  ASSUME NEW f, NEW g, NEW S, NEW a \in S, NEW b \in S, IsFiniteSet(S), a # b,
         \A x \in S : f[x] \in Int, g[b] = f[b] + f[a],
         \A x \in S \ {a, b} : g[x] = f[x]
  PROVE  SumFunctionOnSet(g, S \ {a}) = SumFunctionOnSet(f, S)
<1> DEFINE A == S \ {a}
           T == A \ {b}
<1>1. IsFiniteSet(A) /\ IsFiniteSet(T) BY FS_Subset
<1>2. b \in A /\ a \notin A OBVIOUS
<1>3. \A x \in A : f[x] \in Int /\ g[x] \in Int OBVIOUS
<1>4. \A x \in T : g[x] = f[x] OBVIOUS
<1>5. SumFunctionOnSet(f, S) = f[a] + SumFunctionOnSet(f, A) BY SumRemove
<1> HIDE DEF A
<1>6. SumFunctionOnSet(f, A) = f[b] + SumFunctionOnSet(f, T) BY <1>1, <1>2, <1>3, SumRemove
<1>7. SumFunctionOnSet(g, A) = g[b] + SumFunctionOnSet(g, T) BY <1>1, <1>2, <1>3, SumRemove
<1> HIDE DEF T
<1>8. SumFunctionOnSet(g, T) = SumFunctionOnSet(f, T) BY <1>1, <1>4, SumSame
<1>9. SumFunctionOnSet(f, T) \in Int BY <1>1, <1>3, SumRemove DEF T
<1>10. SumFunctionOnSet(g, A) = SumFunctionOnSet(f, S)
  BY <1>5, <1>6, <1>7, <1>8, <1>9
<1> QED BY <1>10 DEF A
-----------------------------------------------------------------------------
LEMMA Starts == Init => Inv
<1> SUFFICES ASSUME Init PROVE Inv OBVIOUS
<1>1. WeightInv BY DEF Init, WeightInv
<1>2. /\ n \in Nat /\ n > 0 /\ Items = 0..(n - 1) /\ IsFiniteSet(Items)
      /\ sum \in Nat /\ Cardinality(Items) = n /\ n < U32 - 1 /\ U32 \in Nat
  BY <1>1, WeightFacts
<1>3. \A i \in Items : weight[i] \in Nat /\ Weighed(i) \in Nat /\ Weighed(i) >= weight[i]
  BY <1>1, WeightFacts
<1>4. /\ P = [i \in Items |-> Weighed(i) * n]
      /\ Small = [i \in Items |-> 0] /\ Large = [i \in Items |-> 0]
      /\ nSmall = 0 /\ nLarge = n - 1 /\ next = n - 1 /\ pc = "split"
      /\ prob = [i \in Items |-> 0] /\ alias = [i \in Items |-> 0]
  BY DEF Init
<1> HIDE DEF n, sum
<1>5. From = n
  <2>1. (n - 1) + 1 = n /\ n % U32 = n BY <1>2
  <2> QED BY <1>4, <2>1 DEF From, Plus
<1>6. TypeInv
  <2>1. 0 \in Items BY <1>2
  <2>2. \A i \in Items : Weighed(i) * n \in Nat BY <1>2, <1>3
  <2>3. P \in [Items -> Nat] BY <1>4, <2>2
  <2> QED BY <1>2, <1>4, <1>5, <2>1, <2>3 DEF TypeInv
<1>7. SmallAt = {} /\ LargeAt = {} BY <1>2, <1>4, <1>5 DEF SmallAt, LargeAt
<1>8. SmallOnes = {} /\ LargeOnes = {} BY <1>7 DEF SmallOnes, LargeOnes, Elems
<1>9. Done = {} BY <1>2, <1>4 DEF Done
<1>10. StackInv BY <1>2, <1>4, <1>5, <1>7, <1>8, <1>9 DEF StackInv, Distinct
<1>11. MassInv
  <2>1. \A i \in Items : Given(i) = 0 BY <1>9, SumEmpty DEF Given
  <2>2. \A i \in Items : P[i] + Given(i) = Weighed(i) * n
    <3> SUFFICES ASSUME NEW i \in Items PROVE P[i] + Given(i) = Weighed(i) * n OBVIOUS
    <3>1. P[i] = Weighed(i) * n /\ P[i] \in Nat BY <1>4, <1>6 DEF TypeInv
    <3> QED BY <2>1, <3>1
  <2> DEFINE W == [i \in Items |-> Weighed(i)]
             all == SumFunctionOnSet(W, Items)
  <2>3. \A i \in Items : W[i] \in Int /\ Beyond[i] = n * W[i] - sum
    <3> SUFFICES ASSUME NEW i \in Items
                 PROVE  W[i] \in Int /\ Beyond[i] = n * W[i] - sum OBVIOUS
    <3>1. W[i] = Weighed(i) /\ Beyond[i] = P[i] - sum /\ P[i] = Weighed(i) * n
      BY <1>4 DEF Beyond
    <3> HIDE DEF W
    <3>2. Weighed(i) * n = n * Weighed(i) BY <1>2, <1>3
    <3> QED BY <1>3, <3>1, <3>2
  <2>4. \A i \in Items : weight[i] \in Int /\ weight[i] <= W[i] BY <1>3
  <2>5. boosted = 0 => \A i \in Items : weight[i] = W[i] BY <1>1, WeightFacts
  <2> HIDE DEF W
  <2>6. SumFunctionOnSet(Beyond, Items) = n * all - Cardinality(Items) * sum
    BY <1>2, <2>3, SumScale
  <2>7. sum <= all BY <1>2, <2>3, <2>4, SumLess, SumIs
  <2>8. boosted = 0 => sum = all BY <1>2, <2>5, SumSame, SumIs
  <2>9. all \in Int BY <1>2, <2>3, SumRemove
  <2>10. Surplus = n * all - n * sum BY <1>2, <1>9, <2>6 DEF Surplus
  <2> HIDE DEF all
  <2>11. n * all - n * sum = n * (all - sum) /\ all - sum \in Nat BY <1>2, <2>7, <2>9
  <2>12. n * (all - sum) >= 0 BY <1>2, <2>11
  <2>13. boosted = 0 => Surplus = 0 BY <1>2, <2>8, <2>9, <2>10
  <2> QED BY <1>9, <2>2, <2>10, <2>11, <2>12, <2>13 DEF MassInv
<1> QED BY <1>1, <1>4, <1>6, <1>10, <1>11 DEF Inv

\* What does not change with the weights.
LEMMA Fixed ==
  ASSUME UNCHANGED <<weight, boosted>>
  PROVE  /\ n' = n /\ Items' = Items /\ sum' = sum /\ WeightInv' = WeightInv
         /\ \A i : Weighed(i)' = Weighed(i)
<1>1. Items' = Items BY DEF Items
<1>2. n' = n BY <1>1 DEF n
<1>3. sum' = sum BY <1>1 DEF sum
<1>4. WeightInv' = WeightInv BY DEF WeightInv
<1>5. \A i : Weighed(i)' = Weighed(i) BY <1>2 DEF Weighed
<1> QED BY <1>1, <1>2, <1>3, <1>4, <1>5

LEMMA SplitKeeps ==
  ASSUME Inv, Split
  PROVE  Inv'
<1>1. WeightInv /\ TypeInv /\ StackInv /\ MassInv /\ pc = "split" /\ next >= 0
  BY DEF Inv, Split
<1>2. UNCHANGED <<weight, boosted, P, prob, alias, pc>> /\ next' = next - 1 BY DEF Split
<1>3. /\ n' = n /\ Items' = Items /\ sum' = sum /\ WeightInv' /\ \A i : Weighed(i)' = Weighed(i)
  BY <1>1, <1>2, Fixed
<1>4. /\ n \in Nat /\ n > 0 /\ Items = 0..(n - 1) /\ IsFiniteSet(Items) /\ sum \in Nat
      /\ n < U32 - 1 /\ U32 \in Nat
  BY <1>1, WeightFacts
<1> HIDE DEF n, sum, Items
<1>5. /\ nSmall \in 0..n /\ From \in 0..n /\ From - nSmall = next + 1 /\ Done = {}
      /\ next \in 0..(n - 1) /\ nLarge \in 0..(U32 - 1)
      /\ Small \in [Items -> Items] /\ Large \in [Items -> Items] /\ P \in [Items -> Nat]
  <2>1. /\ nSmall \in 0..n /\ From \in 0..n /\ next \in -1..(n - 1) /\ nLarge \in 0..(U32 - 1)
        /\ Small \in [Items -> Items] /\ Large \in [Items -> Items] /\ P \in [Items -> Nat]
    BY <1>1 DEF TypeInv
  <2>2. From - nSmall = next + 1 /\ Done = {} BY <1>1 DEF StackInv
  <2>3. next \in 0..(n - 1) BY <1>1, <1>4, <2>1
  <2> QED BY <2>1, <2>2, <2>3
<1>6. /\ Distinct(Small, SmallAt) /\ Distinct(Large, LargeAt) /\ SmallOnes \cap LargeOnes = {}
      /\ \A i \in SmallOnes \cup LargeOnes : i > next
      /\ \A i \in SmallOnes : P[i] < sum
      /\ \A i \in LargeOnes : P[i] >= sum
  BY <1>1 DEF StackInv
<1>7. next \in Nat /\ next \in Items /\ next \notin SmallOnes \cup LargeOnes
  <2>1. next \in Nat BY <1>4, <1>5
  <2>2. ~(next > next) BY <2>1
  <2> QED BY <1>4, <1>5, <1>6, <2>1, <2>2
<1>8. SmallAt \subseteq Items /\ LargeAt \subseteq Items
  <2>1. nSmall \in Nat /\ nSmall <= n /\ From \in Nat BY <1>4, <1>5
  <2>2. 0..(nSmall - 1) \subseteq 0..(n - 1) BY <1>4, <2>1
  <2>3. From..(n - 1) \subseteq 0..(n - 1) BY <1>4, <2>1
  <2> QED BY <1>4, <2>2, <2>3 DEF SmallAt, LargeAt
<1>9. SmallOnes \subseteq Items /\ LargeOnes \subseteq Items
  BY <1>5, <1>8 DEF SmallOnes, LargeOnes, Elems
<1>10. \A i \in Items : i > next => i \in SmallOnes \cup LargeOnes BY <1>5 DEF Done
<1>11. /\ Small' \in [Items -> Items] /\ Large' \in [Items -> Items]
       /\ nSmall' \in 0..n /\ From' \in 0..n /\ nLarge' \in 0..(U32 - 1)
       /\ From' - nSmall' = next' + 1
       /\ Distinct(Small, SmallAt)' /\ Distinct(Large, LargeAt)'
       /\ \/ SmallOnes' = SmallOnes \cup {next} /\ LargeOnes' = LargeOnes /\ P[next] < sum
          \/ SmallOnes' = SmallOnes /\ LargeOnes' = LargeOnes \cup {next} /\ P[next] >= sum
  <2>1. CASE P[next] < sum /\ PushSmall(next, nSmall) /\ UNCHANGED <<Large, nLarge>>
    <3>1. Small' = [Small EXCEPT ![nSmall] = next] /\ nSmall' = nSmall + 1 BY <2>1 DEF PushSmall
    <3>2. nSmall \in Items /\ nSmall + 1 \in 0..n BY <1>4, <1>5, <1>7
    <3>3. nSmall \notin SmallAt /\ 0..((nSmall + 1) - 1) = SmallAt \cup {nSmall}
      <4>1. nSmall \in Nat BY <1>4, <1>5
      <4> QED BY <4>1 DEF SmallAt
    <3>4. SmallAt' = SmallAt \cup {nSmall} BY <3>1, <3>3 DEF SmallAt
    <3>5. /\ Small' \in [Items -> Items] /\ SmallOnes' = SmallOnes \cup {next}
          /\ Distinct(Small', SmallAt')
      <4>1. next \notin Elems(Small, SmallAt) BY <1>7 DEF SmallOnes
      <4> DEFINE new == [Small EXCEPT ![nSmall] = next]
      <4>2. /\ new \in [Items -> Items]
            /\ Elems(new, SmallAt \cup {nSmall}) = Elems(Small, SmallAt) \cup {next}
            /\ Distinct(new, SmallAt \cup {nSmall})
        BY <1>5, <1>6, <1>7, <1>8, <3>2, <3>3, <4>1, Put
      <4> QED BY <3>1, <3>4, <4>2 DEF SmallOnes
    <3>6. From' = From BY <2>1 DEF From, Plus
    <3>7. LargeAt' = LargeAt BY <1>3, <3>6 DEF LargeAt
    <3>8. LargeOnes' = LargeOnes BY <2>1, <3>7 DEF LargeOnes
    <3>9. From - (nSmall + 1) = (next - 1) + 1 BY <1>4, <1>5, <1>7
    <3> QED BY <1>2, <1>5, <1>6, <2>1, <3>1, <3>2, <3>5, <3>6, <3>7, <3>8, <3>9
  <2>2. CASE P[next] >= sum /\ PushLarge(next, nLarge) /\ UNCHANGED <<Small, nSmall>>
    <3> DEFINE top == From - 1
    <3>1. From > 0 /\ top \in 0..n /\ top \in Items /\ top + 1 = From BY <1>4, <1>5, <1>7
    <3>2. nLarge = top BY <1>1, <3>1, FromFacts
    <3> HIDE DEF top
    <3>3. Large' = [Large EXCEPT ![top] = next] /\ nLarge' = Minus(top) BY <2>2, <3>2 DEF PushLarge
    <3>4. nLarge' \in 0..(U32 - 1) /\ Plus(Minus(top)) = top BY <1>1, <3>1, <3>3, Wraps
    <3>5. From' = top BY <3>3, <3>4 DEF From, Plus
    <3>6. top \notin LargeAt /\ top..(n - 1) = LargeAt \cup {top}
      <4>1. From \in Int /\ top \in Int /\ n \in Int /\ top <= n - 1 BY <1>4, <1>5, <3>1
      <4> QED BY <3>1, <4>1 DEF LargeAt
    <3>7. LargeAt' = LargeAt \cup {top} BY <1>3, <3>5, <3>6 DEF LargeAt
    <3>8. /\ Large' \in [Items -> Items] /\ LargeOnes' = LargeOnes \cup {next}
          /\ Distinct(Large', LargeAt')
      <4>1. next \notin Elems(Large, LargeAt) BY <1>7 DEF LargeOnes
      <4> DEFINE new == [Large EXCEPT ![top] = next]
      <4>2. /\ new \in [Items -> Items]
            /\ Elems(new, LargeAt \cup {top}) = Elems(Large, LargeAt) \cup {next}
            /\ Distinct(new, LargeAt \cup {top})
        BY <1>5, <1>6, <1>7, <1>8, <3>1, <3>6, <4>1, Put
      <4> QED BY <3>3, <3>7, <4>2 DEF LargeOnes
    <3>9. SmallAt' = SmallAt BY <2>2 DEF SmallAt
    <3>10. SmallOnes' = SmallOnes BY <2>2, <3>9 DEF SmallOnes
    <3>11. top - nSmall = (next - 1) + 1 BY <1>4, <1>5, <1>7, <3>1
    <3> QED BY <1>2, <1>5, <1>6, <2>2, <3>1, <3>4, <3>5, <3>8, <3>9, <3>10, <3>11
  <2> QED BY <2>1, <2>2 DEF Split
<1>12. \A i \in Items : i > next - 1 <=> i > next \/ i = next BY <1>4, <1>7
<1>13. Done' = {}
  <2>1. \A i \in Items : i > next - 1 => i \in SmallOnes' \cup LargeOnes'
    BY <1>10, <1>11, <1>12
  <2> QED BY <1>2, <1>3, <2>1 DEF Done
<1>14. TypeInv'
  <2>1. next - 1 \in -1..(n - 1) BY <1>4, <1>5
  <2>2. /\ P' \in [Items' -> Nat] /\ prob' \in [Items' -> Nat] /\ alias' \in [Items' -> Items']
    BY <1>1, <1>2, <1>3 DEF TypeInv
  <2> QED BY <1>2, <1>3, <1>11, <2>1, <2>2 DEF TypeInv
<1>15. StackInv'
  <2>1. (SmallOnes \cap LargeOnes)' = {} BY <1>6, <1>7, <1>11
  <2>2. \A i \in (SmallOnes \cup LargeOnes)' : i > next'
    BY <1>2, <1>6, <1>7, <1>9, <1>11, <1>12
  <2>3. (\A i \in SmallOnes' : P'[i] < sum') /\ (\A i \in LargeOnes' : P'[i] >= sum')
    BY <1>2, <1>3, <1>6, <1>11
  <2> QED BY <1>1, <1>2, <1>11, <1>13, <2>1, <2>2, <2>3 DEF StackInv
<1>16. MassInv'
  <2>1. Beyond' = Beyond BY <1>2, <1>3 DEF Beyond
  <2>2. Surplus' = Surplus BY <1>3, <1>5, <1>13, <2>1 DEF Surplus
  <2>3. \A i : Given(i)' = 0 /\ Given(i) = 0 BY <1>5, <1>13, SumEmpty DEF Given
  <2>4. /\ \A i \in Items : P[i] + Given(i) = Weighed(i) * n
        /\ Surplus >= 0 /\ (boosted = 0 => Surplus = 0)
    BY <1>1 DEF MassInv
  <2>5. \A i \in Items' : P'[i] + Given(i)' = Weighed(i)' * n' BY <1>2, <1>3, <2>3, <2>4
  <2>6. Surplus' >= 0 /\ (boosted' = 0 => Surplus' = 0) BY <1>2, <2>2, <2>4
  <2> QED BY <1>13, <2>5, <2>6 DEF MassInv
<1> QED BY <1>1, <1>2, <1>3, <1>14, <1>15, <1>16 DEF Inv

LEMMA SplitDoneKeeps ==
  ASSUME Inv, SplitDone
  PROVE  Inv'
<1>1. WeightInv /\ TypeInv /\ StackInv /\ MassInv /\ pc = "split" /\ next < 0 /\ pc' = "match"
  BY DEF Inv, SplitDone
<1>2. UNCHANGED <<weight, boosted, P, Small, nSmall, Large, nLarge, prob, alias, next>>
  BY DEF SplitDone
<1>3. /\ n' = n /\ Items' = Items /\ sum' = sum /\ WeightInv' /\ \A i : Weighed(i)' = Weighed(i)
  BY <1>1, <1>2, Fixed
<1> HIDE DEF n, sum, Items
<1>4. n \in Nat BY <1>1, WeightFacts
<1>5. From' = From BY <1>2 DEF From, Plus
<1>6. SmallAt' = SmallAt /\ LargeAt' = LargeAt BY <1>2, <1>3, <1>5 DEF SmallAt, LargeAt
<1>7. SmallOnes' = SmallOnes /\ LargeOnes' = LargeOnes BY <1>2, <1>6 DEF SmallOnes, LargeOnes
<1>8. Done' = Done BY <1>2, <1>3, <1>7 DEF Done
<1>9. Beyond' = Beyond /\ Lacks' = Lacks BY <1>2, <1>3 DEF Beyond, Lacks
<1>10. Surplus' = Surplus /\ \A i : Given(i)' = Given(i)
  BY <1>2, <1>3, <1>8, <1>9 DEF Surplus, Given
<1>11. TypeInv' BY <1>1, <1>2, <1>3, <1>5 DEF TypeInv
<1>12. MassInv' BY <1>1, <1>2, <1>3, <1>8, <1>10 DEF MassInv
<1>13. next = -1 /\ nSmall <= From
  <2>1. next \in -1..(n - 1) /\ nSmall \in 0..n /\ From \in 0..n BY <1>1 DEF TypeInv
  <2>2. From - nSmall = next + 1 BY <1>1 DEF StackInv
  <2> QED BY <1>1, <1>4, <2>1, <2>2
<1>14. StackInv'
  <2>1. /\ Distinct(Small, SmallAt)' /\ Distinct(Large, LargeAt)'
    BY <1>1, <1>2, <1>6 DEF StackInv
  <2> QED BY <1>1, <1>2, <1>3, <1>5, <1>7, <1>13, <2>1 DEF StackInv
<1> QED BY <1>1, <1>3, <1>11, <1>12, <1>14 DEF Inv

LEMMA MatchKeeps ==
  ASSUME Inv, Match
  PROVE  Inv'
<1> DEFINE small == Small[nSmall - 1]
           large == Large[From]
           rest == Rest(small, large)
<1>1. WeightInv /\ TypeInv /\ StackInv /\ MassInv /\ pc = "match" /\ nSmall > 0 /\ nLarge # n - 1
  BY DEF Inv, Match
<1>2. UNCHANGED <<weight, boosted, next, pc>> BY DEF Match
<1>3. /\ prob' = [prob EXCEPT ![small] = P[small]]
      /\ alias' = [alias EXCEPT ![small] = large]
      /\ P' = [P EXCEPT ![large] = rest]
  BY DEF Match, From, SetAlias
<1>4. \/ /\ rest < sum /\ Small' = [Small EXCEPT ![nSmall - 1] = large] /\ nSmall' = (nSmall - 1) + 1
         /\ nLarge' = From /\ UNCHANGED Large
      \/ /\ rest >= sum /\ Large' = [Large EXCEPT ![From] = large] /\ nLarge' = Minus(From)
         /\ nSmall' = nSmall - 1 /\ UNCHANGED Small
  BY DEF Match, From, PushSmall, PushLarge
<1>5. /\ n' = n /\ Items' = Items /\ sum' = sum /\ WeightInv' /\ \A i : Weighed(i)' = Weighed(i)
  BY <1>1, <1>2, Fixed
<1>6. /\ n \in Nat /\ n > 0 /\ Items = 0..(n - 1) /\ IsFiniteSet(Items) /\ sum \in Nat
      /\ n < U32 - 1 /\ U32 \in Nat
  BY <1>1, WeightFacts
<1> HIDE DEF n, sum, Items
<1>7. /\ nSmall \in 0..n /\ From \in 0..n /\ nLarge \in 0..(U32 - 1)
      /\ Small \in [Items -> Items] /\ Large \in [Items -> Items]
      /\ P \in [Items -> Nat] /\ prob \in [Items -> Nat] /\ alias \in [Items -> Items]
  BY <1>1 DEF TypeInv
<1>8. next = -1 /\ nSmall <= From BY <1>1 DEF StackInv
<1>9. /\ Distinct(Small, SmallAt) /\ Distinct(Large, LargeAt) /\ SmallOnes \cap LargeOnes = {}
      /\ \A i \in SmallOnes : P[i] < sum
      /\ \A i \in LargeOnes : P[i] >= sum
  BY <1>1 DEF StackInv
<1>10. From # n BY <1>1, FromFacts
<1>11. /\ nSmall - 1 \in Nat /\ nSmall - 1 < n /\ From \in Nat /\ From < n
  BY <1>1, <1>6, <1>7, <1>10
<1>12. SmallAt \subseteq Items /\ LargeAt \subseteq Items
  <2>2. 0..(nSmall - 1) \subseteq 0..(n - 1) BY <1>6, <1>11
  <2>3. From..(n - 1) \subseteq 0..(n - 1) BY <1>6, <1>11
  <2> QED BY <1>6, <2>2, <2>3 DEF SmallAt, LargeAt
<1>13. nSmall - 1 \in SmallAt /\ From \in LargeAt BY <1>6, <1>7, <1>11 DEF SmallAt, LargeAt
<1>14. /\ small \in SmallOnes /\ Elems(Small, SmallAt \ {nSmall - 1}) = SmallOnes \ {small}
       /\ Distinct(Small, SmallAt \ {nSmall - 1})
  <2>1. /\ Small[nSmall - 1] \in Elems(Small, SmallAt)
        /\ Elems(Small, SmallAt \ {nSmall - 1}) = Elems(Small, SmallAt) \ {Small[nSmall - 1]}
        /\ Distinct(Small, SmallAt \ {nSmall - 1})
    BY <1>7, <1>9, <1>12, <1>13, Pull
  <2> QED BY <2>1 DEF SmallOnes
<1>15. /\ large \in LargeOnes /\ Elems(Large, LargeAt \ {From}) = LargeOnes \ {large}
       /\ Distinct(Large, LargeAt \ {From})
  BY <1>7, <1>9, <1>12, <1>13, Pull DEF LargeOnes
<1>16. SmallOnes \subseteq Items /\ LargeOnes \subseteq Items
  BY <1>7, <1>12 DEF SmallOnes, LargeOnes, Elems
<1> HIDE DEF small, large, rest
<1>17. small \in Items /\ large \in Items /\ small # large /\ P[small] < sum /\ P[large] >= sum
  BY <1>9, <1>14, <1>15, <1>16
<1>18. P[small] \in Nat /\ P[large] \in Nat BY <1>7, <1>17
<1>19. rest = P[large] - (sum - P[small]) BY DEF rest, Rest
<1>20. rest \in Nat BY <1>6, <1>17, <1>18, <1>19
<1>21. /\ Small' \in [Items -> Items] /\ Large' \in [Items -> Items]
       /\ nSmall' \in 0..n /\ From' \in 0..n /\ nLarge' \in 0..(U32 - 1) /\ nSmall' <= From'
       /\ Distinct(Small, SmallAt)' /\ Distinct(Large, LargeAt)'
       /\ \/ /\ SmallOnes' = (SmallOnes \ {small}) \cup {large}
             /\ LargeOnes' = LargeOnes \ {large} /\ rest < sum
          \/ SmallOnes' = SmallOnes \ {small} /\ LargeOnes' = LargeOnes /\ rest >= sum
  <2>1. CASE /\ rest < sum /\ Small' = [Small EXCEPT ![nSmall - 1] = large]
             /\ nSmall' = (nSmall - 1) + 1 /\ nLarge' = From /\ UNCHANGED Large
    <3>1. nSmall' = nSmall BY <1>11, <1>7, <2>1
    <3>2. SmallAt' = SmallAt BY <3>1 DEF SmallAt
    <3> DEFINE at == SmallAt \ {nSmall - 1}
               new == [Small EXCEPT ![nSmall - 1] = large]
    <3>3. at \cup {nSmall - 1} = SmallAt BY <1>13
    <3>4. at \in SUBSET Items /\ nSmall - 1 \in Items /\ nSmall - 1 \notin at BY <1>12, <1>13
    <3>5. Distinct(Small, at) /\ large \notin Elems(Small, at) BY <1>9, <1>14, <1>15
    <3> HIDE DEF at
    <3>6. /\ new \in [Items -> Items]
          /\ Elems(new, at \cup {nSmall - 1}) = Elems(Small, at) \cup {large}
          /\ Distinct(new, at \cup {nSmall - 1})
      BY <1>7, <1>17, <3>4, <3>5, Put
    <3>7. SmallOnes' = (SmallOnes \ {small}) \cup {large} /\ Distinct(Small', SmallAt')
      BY <1>14, <2>1, <3>2, <3>3, <3>6 DEF SmallOnes, at
    <3>8. From' = From + 1 BY <1>1, <1>7, <2>1, Wraps DEF From, Plus
    <3>9. (From + 1)..(n - 1) = LargeAt \ {From} BY <1>6, <1>11 DEF LargeAt
    <3>10. LargeAt' = LargeAt \ {From} BY <1>5, <3>8, <3>9 DEF LargeAt
    <3>11. LargeOnes' = LargeOnes \ {large} /\ Distinct(Large', LargeAt')
      BY <1>15, <2>1, <3>10 DEF LargeOnes
    <3>12. From + 1 \in 0..n /\ nSmall <= From + 1 /\ From \in 0..(U32 - 1)
      BY <1>6, <1>7, <1>8, <1>11
    <3> QED BY <1>7, <2>1, <3>1, <3>6, <3>7, <3>8, <3>11, <3>12
  <2>2. CASE /\ rest >= sum /\ Large' = [Large EXCEPT ![From] = large] /\ nLarge' = Minus(From)
             /\ nSmall' = nSmall - 1 /\ UNCHANGED Small
    <3>1. Large' = Large BY <1>7, <2>2 DEF large
    <3>2. nLarge' \in 0..(U32 - 1) /\ From' = From BY <1>1, <1>7, <2>2, Wraps DEF From, Plus
    <3>3. LargeAt' = LargeAt BY <1>5, <3>2 DEF LargeAt
    <3>4. LargeOnes' = LargeOnes BY <3>1, <3>3 DEF LargeOnes
    <3>5. 0..((nSmall - 1) - 1) = SmallAt \ {nSmall - 1} BY <1>11, <1>7 DEF SmallAt
    <3>6. SmallAt' = SmallAt \ {nSmall - 1} BY <2>2, <3>5 DEF SmallAt
    <3>7. SmallOnes' = SmallOnes \ {small} /\ Distinct(Small', SmallAt')
      BY <1>14, <2>2, <3>6 DEF SmallOnes
    <3>8. nSmall - 1 \in 0..n /\ nSmall - 1 <= From BY <1>6, <1>7, <1>8, <1>11
    <3> QED BY <1>7, <1>9, <2>2, <3>1, <3>2, <3>3, <3>4, <3>7, <3>8
  <2> QED BY <1>4, <2>1, <2>2
<1>22. (SmallOnes \cup LargeOnes)' = (SmallOnes \cup LargeOnes) \ {small}
  BY <1>9, <1>14, <1>15, <1>17, <1>21
<1>23. \A i \in Items : i > next BY <1>6, <1>8
<1>24. Done = Items \ (SmallOnes \cup LargeOnes) BY <1>23 DEF Done
<1>25. Done' = Done \cup {small}
  <2>1. Done' = Items \ (SmallOnes \cup LargeOnes)' BY <1>2, <1>5, <1>23 DEF Done
  <2> QED BY <1>14, <1>17, <1>22, <1>24, <2>1
<1>26. small \notin Done /\ large \notin Done /\ Done \subseteq Items BY <1>14, <1>15, <1>24
<1>27. TypeInv' BY <1>2, <1>3, <1>5, <1>7, <1>8, <1>17, <1>18, <1>20, <1>21, <1>1 DEF TypeInv
<1>28. /\ P'[large] = rest /\ \A i \in Items \ {large} : P'[i] = P[i]
       /\ prob'[small] = P[small] /\ \A i \in Items \ {small} : prob'[i] = prob[i]
       /\ alias'[small] = large /\ \A i \in Items \ {small} : alias'[i] = alias[i]
  BY <1>3, <1>7, <1>17
<1>29. StackInv'
  <2>1. (SmallOnes \cap LargeOnes)' = {} BY <1>9, <1>14, <1>15, <1>21
  <2>2. \A i \in (SmallOnes \cup LargeOnes)' : i > next' BY <1>2, <1>16, <1>22, <1>23
  <2>3. \A i \in SmallOnes' : P'[i] < sum'
    BY <1>5, <1>9, <1>15, <1>16, <1>21, <1>28
  <2>4. \A i \in LargeOnes' : P'[i] >= sum'
    BY <1>5, <1>9, <1>14, <1>16, <1>21, <1>28
  <2> QED BY <1>1, <1>2, <1>8, <1>21, <2>1, <2>2, <2>3, <2>4 DEF StackInv
<1>30. \A i \in Done : prob[i] = P[i] /\ P[i] < sum BY <1>1 DEF MassInv
<1>31. \A i \in Done' : prob'[i] = P'[i] /\ P'[i] < sum'
  BY <1>5, <1>17, <1>25, <1>26, <1>28, <1>30
<1>32. \A i \in Items : P[i] \in Int /\ prob[i] \in Int /\ P'[i] \in Int /\ prob'[i] \in Int
  BY <1>5, <1>7, <1>27 DEF TypeInv
<1>33. \A i \in Items' : P'[i] + Given(i)' = Weighed(i)' * n'
  <2> SUFFICES ASSUME NEW i \in Items PROVE P'[i] + Given(i)' = Weighed(i)' * n' BY <1>5
  <2> DEFINE S == {j \in Done : alias[j] = i}
             S1 == {j \in Done' : alias'[j] = i}
  <2>1. P[i] + Given(i) = Weighed(i) * n BY <1>1 DEF MassInv
  <2>2. IsFiniteSet(S) /\ S \subseteq Items BY <1>6, <1>26, FS_Subset
  <2>3. \A j \in S : Lacks[j] \in Int /\ Lacks'[j] = Lacks[j]
    <3> SUFFICES ASSUME NEW j \in S PROVE Lacks[j] \in Int /\ Lacks'[j] = Lacks[j] OBVIOUS
    <3>1. j \in Items /\ j # small BY <1>26
    <3>2. Lacks[j] = sum - prob[j] /\ Lacks'[j] = sum - prob'[j] BY <1>5, <3>1 DEF Lacks
    <3>3. prob[j] \in Int /\ prob'[j] = prob[j] BY <1>28, <1>32, <3>1
    <3> QED BY <1>6, <3>2, <3>3
  <2>4. Lacks'[small] = sum - P[small] /\ Lacks'[small] \in Int
    BY <1>5, <1>6, <1>17, <1>18, <1>28 DEF Lacks
  <2>5. Given(i) = SumFunctionOnSet(Lacks, S) /\ Given(i)' = SumFunctionOnSet(Lacks', S1)
    BY DEF Given
  <2>6. Given(i) \in Int BY <2>2, <2>3, <2>5, SumRemove
  <2>7. CASE i = large
    <3>1. S1 = S \cup {small} BY <1>25, <1>26, <1>28, <2>7
    <3>2. small \notin S BY <1>26
    <3> HIDE DEF S, S1
    <3>3. SumFunctionOnSet(Lacks', S \cup {small}) = SumFunctionOnSet(Lacks, S) + Lacks'[small]
      <4>1. (\A j \in S : Lacks[j] \in Int) /\ \A j \in S : Lacks'[j] = Lacks[j] BY <2>3
      <4> QED BY <2>2, <2>4, <3>2, <4>1, Gains
    <3>4. Given(i)' = Given(i) + (sum - P[small]) BY <2>4, <2>5, <3>1, <3>3
    <3>5. P'[i] = P[i] - (sum - P[small]) BY <1>19, <1>28, <2>7
    <3>6. P'[i] + Given(i)' = P[i] + Given(i) BY <1>6, <1>18, <1>32, <2>6, <3>4, <3>5
    <3> QED BY <1>5, <2>1, <3>6
  <2>8. CASE i # large
    <3>1. S1 = S BY <1>25, <1>26, <1>28, <2>8
    <3> HIDE DEF S, S1
    <3>2. Given(i)' = Given(i) BY <2>2, <2>3, <2>5, <3>1, SumSame
    <3>3. P'[i] = P[i] BY <1>28, <2>8
    <3> QED BY <1>5, <2>1, <3>2, <3>3
  <2> QED BY <2>7, <2>8
<1>34. Surplus' = Surplus
  <2> DEFINE S == Items \ Done
  <2>1. IsFiniteSet(S) /\ small \in S /\ large \in S BY <1>6, <1>17, <1>26, FS_Subset
  <2>2. \A i \in S : Beyond[i] = P[i] - sum /\ Beyond[i] \in Int BY <1>6, <1>32 DEF Beyond
  <2>3. \A i \in S : Beyond'[i] = P'[i] - sum BY <1>5, <1>6, <1>32 DEF Beyond
  <2>4. Beyond'[large] = Beyond[large] + Beyond[small]
    <3>1. Beyond[large] = P[large] - sum /\ Beyond[small] = P[small] - sum BY <2>1, <2>2
    <3>2. Beyond'[large] = rest - sum BY <1>28, <2>1, <2>3
    <3> QED BY <1>6, <1>18, <1>19, <3>1, <3>2
  <2>5. \A i \in S \ {small, large} : Beyond'[i] = Beyond[i] BY <1>28, <2>2, <2>3
  <2>6. (Items \ Done)' = S \ {small} BY <1>5, <1>25
  <2> HIDE DEF S
  <2>7. SumFunctionOnSet(Beyond', S \ {small}) = SumFunctionOnSet(Beyond, S)
    BY <1>17, <2>1, <2>2, <2>4, <2>5, Moves
  <2> QED BY <2>6, <2>7 DEF Surplus, S
<1>35. MassInv'
  <2>1. Surplus >= 0 /\ (boosted = 0 => Surplus = 0) BY <1>1 DEF MassInv
  <2>2. Surplus' >= 0 /\ (boosted' = 0 => Surplus' = 0) BY <1>2, <1>34, <2>1
  <2> QED BY <1>31, <1>33, <2>2 DEF MassInv
<1> QED BY <1>1, <1>2, <1>5, <1>27, <1>29, <1>35 DEF Inv

\* When one of the stacks is empty, what is left on the other has no surplus to give: an
\* entry that lacks something is never left over, and nothing is beyond an even share
\* unless weights were doubled.
LEMMA LeftOver ==
  ASSUME Inv, pc = "match", MatchOver
  PROVE  /\ SmallOnes = {}
         /\ boosted = 0 => \A i \in LargeOnes : P[i] = sum
<1>1. WeightInv /\ TypeInv /\ StackInv /\ MassInv BY DEF Inv
<1>2. /\ n \in Nat /\ Items = 0..(n - 1) /\ IsFiniteSet(Items) /\ sum \in Nat
  BY <1>1, WeightFacts
<1> HIDE DEF n, sum, Items
<1>3. /\ P \in [Items -> Nat] /\ next = -1 /\ Surplus >= 0 /\ (boosted = 0 => Surplus = 0)
      /\ \A i \in SmallOnes : P[i] < sum
      /\ \A i \in LargeOnes : P[i] >= sum
  BY <1>1 DEF TypeInv, StackInv, MassInv
<1> DEFINE S == Items \ Done
<1>4. S = Items \cap (SmallOnes \cup LargeOnes) BY <1>2, <1>3 DEF Done
<1>5. SmallOnes \subseteq Items /\ LargeOnes \subseteq Items
  <2>1. /\ nSmall \in 0..n /\ From \in 0..n /\ Small \in [Items -> Items] /\ Large \in [Items -> Items]
    BY <1>1 DEF TypeInv
  <2>2. nSmall \in Nat /\ nSmall <= n /\ From \in Nat BY <1>2, <2>1
  <2>3. 0..(nSmall - 1) \subseteq 0..(n - 1) BY <1>2, <2>2
  <2>4. From..(n - 1) \subseteq 0..(n - 1) BY <1>2, <2>2
  <2> QED BY <1>2, <2>1, <2>3, <2>4 DEF SmallOnes, LargeOnes, SmallAt, LargeAt, Elems
<1>6. IsFiniteSet(S) BY <1>2, FS_Subset
<1>7. \A i \in S : Beyond[i] = P[i] - sum /\ Beyond[i] \in Int /\ P[i] \in Int
  BY <1>2, <1>3 DEF Beyond
<1>8. Surplus = SumFunctionOnSet(Beyond, S) BY DEF Surplus
<1> HIDE DEF S
<1>9. SmallOnes = {}
  <2>1. CASE nSmall = 0 BY <2>1 DEF SmallOnes, SmallAt, Elems
  <2>2. CASE nSmall # 0
    <3>1. nLarge = n - 1 BY <2>2 DEF MatchOver
    <3>2. From = n BY <1>1, <3>1, FromFacts
    <3>3. LargeAt = {} BY <1>2, <3>2 DEF LargeAt
    <3>4. S = SmallOnes BY <1>4, <1>5, <3>3 DEF LargeOnes, Elems
    <3> DEFINE Neg == [i \in S |-> (-1) * Beyond[i] - 0]
    <3>5. \A i \in S : Beyond[i] \in Int /\ Neg[i] = (-1) * Beyond[i] - 0 BY <1>7
    <3>6. \A i \in S : Neg[i] \in Nat /\ Neg[i] # 0
      <4> SUFFICES ASSUME NEW i \in S PROVE Neg[i] \in Nat /\ Neg[i] # 0 OBVIOUS
      <4>1. P[i] < sum /\ Beyond[i] = P[i] - sum /\ P[i] \in Int BY <1>3, <1>7, <3>4
      <4>2. Neg[i] = (-1) * Beyond[i] - 0 BY <3>5
      <4> HIDE DEF Neg
      <4> QED BY <1>2, <4>1, <4>2
    <3> HIDE DEF Neg
    <3>7. SumFunctionOnSet(Neg, S) = (-1) * SumFunctionOnSet(Beyond, S) - Cardinality(S) * 0
      BY <1>6, <3>5, SumScale
    <3>8. SumFunctionOnSet(Beyond, S) \in Int /\ Cardinality(S) \in Nat
      BY <1>6, <1>7, SumRemove, FS_CardinalityType
    <3>9. SumFunctionOnSet(Neg, S) \in Nat BY <1>6, <3>6, SumSign
    <3>10. SumFunctionOnSet(Neg, S) = 0 BY <1>3, <1>8, <3>7, <3>8, <3>9
    <3>11. \A i \in S : Neg[i] = 0 BY <1>6, <3>6, <3>10, SumSign
    <3> QED BY <3>4, <3>6, <3>11
  <2> QED BY <2>1, <2>2
<1>10. ASSUME boosted = 0 PROVE \A i \in LargeOnes : P[i] = sum
  <2>1. S = LargeOnes BY <1>4, <1>5, <1>9
  <2>2. \A i \in S : Beyond[i] \in Nat
    <3> SUFFICES ASSUME NEW i \in S PROVE Beyond[i] \in Nat OBVIOUS
    <3>1. P[i] >= sum /\ Beyond[i] = P[i] - sum /\ P[i] \in Int BY <1>3, <1>7, <2>1
    <3> QED BY <1>2, <3>1
  <2>3. \A i \in S : Beyond[i] = 0 BY <1>3, <1>6, <1>8, <1>10, <2>2, SumSign
  <2> SUFFICES ASSUME NEW i \in LargeOnes PROVE P[i] = sum OBVIOUS
  <2>4. P[i] - sum = 0 /\ P[i] \in Int BY <1>7, <2>1, <2>3
  <2> QED BY <1>2, <2>4
<1> QED BY <1>9, <1>10

LEMMA DrainFair ==
  ASSUME Inv, Drain
  PROVE  Inv'
<1>1. WeightInv /\ TypeInv /\ StackInv /\ MassInv /\ pc = "match" /\ MatchOver /\ pc' = "done"
  BY DEF Inv, Drain
<1>2. UNCHANGED <<weight, boosted, P, alias>> BY DEF Drain
<1>3. /\ n' = n /\ Items' = Items /\ sum' = sum /\ WeightInv' BY <1>1, <1>2, Fixed
<1>4. /\ n \in Nat /\ Items = 0..(n - 1) /\ IsFiniteSet(Items) /\ sum \in Nat /\ sum > 0
      /\ \A i \in Items : (boosted = 0 \/ weight[i] = 0) => Weighed(i) = weight[i]
  BY <1>1, WeightFacts
<1> HIDE DEF n, sum, Items
<1>5. SmallOnes = {} /\ (boosted = 0 => \A i \in LargeOnes : P[i] = sum) BY <1>1, LeftOver
<1>6. /\ P \in [Items -> Nat] /\ prob \in [Items -> Nat] /\ next = -1
      /\ \A i \in LargeOnes : P[i] >= sum
      /\ \A i \in Done : prob[i] = P[i] /\ P[i] < sum
      /\ \A i \in Items : P[i] + Given(i) = Weighed(i) * n
  BY <1>1 DEF TypeInv, StackInv, MassInv
<1>7. Done = Items \ LargeOnes BY <1>4, <1>5, <1>6 DEF Done
<1>8. nLarge = n - 1 => LargeOnes = {}
  <2> SUFFICES ASSUME nLarge = n - 1 PROVE LargeOnes = {} OBVIOUS
  <2>1. From = n BY <1>1, FromFacts
  <2>2. LargeAt = {} BY <1>4, <2>1 DEF LargeAt
  <2> QED BY <2>2 DEF LargeOnes, Elems
<1>9. \A i \in Items : prob'[i] = IF i \in LargeOnes THEN sum ELSE P[i]
  <2> SUFFICES ASSUME NEW i \in Items PROVE prob'[i] = IF i \in LargeOnes THEN sum ELSE P[i]
    OBVIOUS
  <2>1. ~\E k \in 0..(nSmall - 1) : Small[k] = i BY <1>5 DEF SmallOnes, SmallAt, Elems
  <2>2. (\E k \in Plus(nLarge)..(n - 1) : Large[k] = i) <=> i \in LargeOnes
    BY DEF LargeOnes, LargeAt, Elems, From
  <2>3. prob'[i] = IF \/ \E k \in 0..(nSmall - 1) : Small[k] = i
                      \/ nLarge # n - 1 /\ \E k \in Plus(nLarge)..(n - 1) : Large[k] = i
                   THEN sum ELSE prob[i]
    BY DEF Drain
  <2>4. prob'[i] = IF i \in LargeOnes THEN sum ELSE prob[i] BY <1>8, <2>1, <2>2, <2>3
  <2> QED BY <1>6, <1>7, <2>4
<1>10. \A i \in Items : Given(i) \in Nat
  <2> SUFFICES ASSUME NEW i \in Items PROVE Given(i) \in Nat OBVIOUS
  <2> DEFINE S == {j \in Done : alias[j] = i}
  <2>1. IsFiniteSet(S) BY <1>4, <1>7, FS_Subset
  <2>2. \A j \in S : Lacks[j] \in Nat
    <3> SUFFICES ASSUME NEW j \in S PROVE Lacks[j] \in Nat OBVIOUS
    <3>1. j \in Items /\ prob[j] = P[j] /\ P[j] < sum BY <1>6, <1>7
    <3>2. Lacks[j] = sum - P[j] /\ P[j] \in Nat BY <1>6, <3>1 DEF Lacks
    <3> QED BY <1>4, <3>1, <3>2
  <2> HIDE DEF S
  <2>3. SumFunctionOnSet(Lacks, S) \in Nat BY <2>1, <2>2, SumSign
  <2> QED BY <2>3 DEF Given, S
<1>11. \A i \in Items : Mass(i)' = (IF i \in LargeOnes THEN sum ELSE P[i]) + Given(i)
  <2> SUFFICES ASSUME NEW i \in Items
               PROVE  Mass(i)' = (IF i \in LargeOnes THEN sum ELSE P[i]) + Given(i)
    OBVIOUS
  <2> DEFINE S == {j \in Done : alias[j] = i}
             S1 == {j \in Items' : alias'[j] = i /\ prob'[j] < sum'}
             L1 == [j \in Items' |-> sum' - prob'[j]]
  <2>1. \A j \in Items : prob'[j] < sum <=> j \in Done
    <3> SUFFICES ASSUME NEW j \in Items PROVE prob'[j] < sum <=> j \in Done OBVIOUS
    <3>1. CASE j \in LargeOnes
      <4>1. prob'[j] = sum /\ ~(sum < sum) BY <1>4, <1>9, <3>1
      <4> QED BY <1>7, <3>1, <4>1
    <3>2. CASE j \notin LargeOnes BY <1>6, <1>7, <1>9, <3>2
    <3> QED BY <3>1, <3>2
  <2>2. S1 = S BY <1>2, <1>3, <1>7, <2>1
  <2>3. \A j \in S : L1[j] = Lacks[j] BY <1>3, <1>6, <1>7, <1>9 DEF Lacks
  <2>4. IsFiniteSet(S) BY <1>4, <1>7, FS_Subset
  <2>5. Mass(i)' = (IF prob'[i] > sum' THEN sum' ELSE prob'[i]) + SumFunctionOnSet(L1, S1)
    BY DEF Mass
  <2>6. (IF prob'[i] > sum' THEN sum' ELSE prob'[i]) = IF i \in LargeOnes THEN sum ELSE P[i]
    <3>1. CASE i \in LargeOnes
      <4>1. prob'[i] = sum /\ ~(sum > sum) BY <1>4, <1>9, <3>1
      <4> QED BY <1>3, <3>1, <4>1
    <3>2. CASE i \notin LargeOnes
      <4>1. prob'[i] = P[i] /\ P[i] < sum /\ P[i] \in Nat BY <1>6, <1>7, <1>9, <3>2
      <4>2. ~(P[i] > sum) BY <1>4, <4>1
      <4> QED BY <1>3, <3>2, <4>1, <4>2
    <3> QED BY <3>1, <3>2
  <2>7. Given(i) = SumFunctionOnSet(Lacks, S) BY DEF Given
  <2> HIDE DEF S, S1, L1
  <2>8. SumFunctionOnSet(L1, S) = SumFunctionOnSet(Lacks, S) BY <2>3, <2>4, SumSame
  <2> QED BY <2>2, <2>5, <2>6, <2>7, <2>8
<1>12. DrawsByWeight'
  <2> SUFFICES ASSUME boosted = 0, NEW i \in Items PROVE Mass(i)' = weight[i] * n
    BY <1>2, <1>3 DEF DrawsByWeight
  <2>1. (IF i \in LargeOnes THEN sum ELSE P[i]) = P[i] BY <1>5
  <2> QED BY <1>4, <1>6, <1>11, <2>1
<1>13. DisabledNeverDrawn'
  <2> SUFFICES ASSUME NEW i \in Items, weight[i] = 0 PROVE Mass(i)' = 0
    BY <1>2, <1>3 DEF DisabledNeverDrawn
  <2>1. P[i] \in Nat /\ Given(i) \in Nat BY <1>6, <1>10
  <2>2. Weighed(i) = 0 BY <1>4
  <2>3. 0 * n = 0 BY <1>4
  <2>4. P[i] + Given(i) = 0 BY <1>6, <2>2, <2>3
  <2>5. P[i] = 0 /\ Given(i) = 0 BY <2>1, <2>4
  <2>6. i \notin LargeOnes
    <3>1. ~(P[i] >= sum) BY <1>4, <2>5
    <3> QED BY <1>6, <3>1
  <2> QED BY <1>11, <2>5, <2>6
<1> QED BY <1>1, <1>3, <1>12, <1>13 DEF Inv, DrawsFair

\* For every number of entries and all weights, the table create_alias_table builds draws
\* each entry in proportion to its weight when no weight was doubled after their sum was
\* taken, and a disabled entry in no case.
THEOREM AliasCorrect == Spec => []DrawsFair
<1>1. Init => Inv BY Starts
<1>2. Inv /\ [Next]_vars => Inv'
  <2> SUFFICES ASSUME Inv, [Next]_vars PROVE Inv' OBVIOUS
  <2>1. CASE Split BY <2>1, SplitKeeps
  <2>2. CASE SplitDone BY <2>2, SplitDoneKeeps
  <2>3. CASE Match BY <2>3, MatchKeeps
  <2>4. CASE Drain BY <2>4, DrainFair
  <2>5. CASE UNCHANGED vars
    <3>1. UNCHANGED <<weight, boosted, P, Small, nSmall, Large, nLarge, prob, alias, next, pc>>
      BY <2>5 DEF vars
    <3>2. /\ n' = n /\ Items' = Items /\ sum' = sum /\ WeightInv' = WeightInv
          /\ \A i : Weighed(i)' = Weighed(i)
      BY <3>1, Fixed
    <3> HIDE DEF n, sum, Items
    <3>3. From' = From BY <3>1 DEF From, Plus
    <3>4. SmallAt' = SmallAt /\ LargeAt' = LargeAt BY <3>1, <3>2, <3>3 DEF SmallAt, LargeAt
    <3>5. SmallOnes' = SmallOnes /\ LargeOnes' = LargeOnes
      BY <3>1, <3>4 DEF SmallOnes, LargeOnes
    <3>6. Done' = Done BY <3>1, <3>2, <3>5 DEF Done
    <3>7. Beyond' = Beyond /\ Lacks' = Lacks BY <3>1, <3>2 DEF Beyond, Lacks
    <3>8. Surplus' = Surplus /\ \A i : Given(i)' = Given(i)
      BY <3>1, <3>2, <3>6, <3>7 DEF Surplus, Given
    <3>9. TypeInv' = TypeInv BY <3>1, <3>2, <3>3 DEF TypeInv
    <3>10. Distinct(Small, SmallAt)' = Distinct(Small, SmallAt)
           /\ Distinct(Large, LargeAt)' = Distinct(Large, LargeAt)
      BY <3>1, <3>4 DEF Distinct
    <3>11. StackInv' = StackInv BY <3>1, <3>2, <3>3, <3>5, <3>6, <3>10 DEF StackInv
    <3>12. MassInv' = MassInv BY <3>1, <3>2, <3>6, <3>8 DEF MassInv
    <3>13. \A i : Mass(i)' = Mass(i) BY <3>1, <3>2 DEF Mass
    <3>14. DrawsFair' = DrawsFair
      BY <3>1, <3>2, <3>13 DEF DrawsFair, DrawsByWeight, DisabledNeverDrawn
    <3> QED BY <3>1, <3>2, <3>9, <3>11, <3>12, <3>14 DEF Inv
  <2> QED BY <2>1, <2>2, <2>3, <2>4, <2>5 DEF Next
<1>3. Inv => DrawsFair
  <2> SUFFICES ASSUME Inv PROVE DrawsFair OBVIOUS
  <2>1. CASE pc = "done" BY <2>1 DEF Inv
  <2>2. CASE pc # "done" BY <2>2 DEF DrawsFair, DrawsByWeight, DisabledNeverDrawn
  <2> QED BY <2>1, <2>2
<1> QED BY <1>1, <1>2, <1>3, PTL DEF Spec
-----------------------------------------------------------------------------

Potentials == (SUBSET Occurrences) \cup {None}

IndexTypeInv == corpus \subseteq Entries /\ potential \in [Entries -> Potentials]

LEMMA NoneIsNone == None \notin SUBSET Occurrences
<1> SUFFICES ASSUME None \in SUBSET Occurrences PROVE FALSE OBVIOUS
<1>1. PICK a \in Places, b \in Writes : <<>> = <<a, b>> BY DEF None, Occurrences
<1>2. Len(<<>>) = 0 /\ Len(<<a, b>>) = 2 OBVIOUS
<1> QED BY <1>1, <1>2

LEMMA InvInit == IndexInit => IndexTypeInv /\ IndexLive
<1> SUFFICES ASSUME IndexInit PROVE IndexTypeInv /\ IndexLive OBVIOUS
<1>1. Indexed = {} /\ corpus = Seeds BY DEF IndexInit, Indexed
<1>2. corpus \cap Children = {} BY <1>1, IndexAssumption
<1>3. potential = [e \in Entries |-> None] /\ None \in Potentials BY DEF IndexInit, Potentials
<1>4. IndexTypeInv BY <1>1, <1>3 DEF IndexTypeInv, Entries
<1> QED BY <1>1, <1>2, <1>4 DEF IndexLive

LEMMA StepAddChild ==
  ASSUME IndexTypeInv, IndexLive, NEW e \in Children, NEW p \in SUBSET Occurrences, AddChild(e, p)
  PROVE  IndexTypeInv' /\ IndexLive'
<1>1. /\ e \notin corpus /\ corpus' = corpus \cup {e}
      /\ potential' = [potential EXCEPT ![e] = p]
      /\ index' = [f \in Indexed \cup {e} |-> IF f = e THEN p ELSE index[f]]
  BY DEF AddChild
<1>2. Indexed' = Indexed \cup {e} BY <1>1 DEF Indexed
<1>3. e \in Entries /\ p # None BY NoneIsNone DEF Entries
<1>4. IndexTypeInv' BY <1>1, <1>3 DEF IndexTypeInv, Potentials
<1>5. ASSUME NEW f \in Indexed' PROVE index'[f] = potential'[f] /\ index'[f] # None
  <2>1. CASE f = e BY <1>1, <1>3, <2>1 DEF IndexTypeInv
  <2>2. CASE f # e
    <3>1. f \in Indexed BY <1>2, <2>2
    <3>2. f \in Entries BY <3>1 DEF IndexTypeInv, IndexLive
    <3> QED BY <1>1, <2>2, <3>1, <3>2 DEF IndexTypeInv, IndexLive
  <2> QED BY <2>1, <2>2
<1>6. Indexed' \subseteq corpus' /\ corpus' \cap Children \subseteq Indexed'
  BY <1>1, <1>2 DEF IndexLive
<1> QED BY <1>4, <1>5, <1>6 DEF IndexLive

LEMMA StepRescore ==
  ASSUME IndexTypeInv, IndexLive, NEW e \in Entries, Rescore(e)
  PROVE  IndexTypeInv' /\ IndexLive'
<1>1. PICK p \in IF potential[e] = None THEN SUBSET Occurrences ELSE {potential[e]} :
        potential' = [potential EXCEPT ![e] = p]
  BY DEF Rescore
<1>2. UNCHANGED <<corpus, index>> /\ Indexed' = Indexed BY DEF Rescore, Indexed
<1>3. p \in Potentials BY <1>1 DEF IndexTypeInv, Potentials
<1>4. IndexTypeInv' BY <1>1, <1>2, <1>3 DEF IndexTypeInv
<1>5. ASSUME NEW f \in Indexed PROVE potential'[f] = potential[f]
  <2>1. f \in Entries /\ potential[f] # None BY DEF IndexTypeInv, IndexLive
  <2>2. CASE f = e BY <1>1, <2>1, <2>2 DEF IndexTypeInv
  <2>3. CASE f # e BY <1>1, <2>1, <2>3 DEF IndexTypeInv
  <2> QED BY <2>2, <2>3
<1> QED BY <1>2, <1>4, <1>5 DEF IndexLive

LEMMA StepCompact ==
  ASSUME IndexTypeInv, IndexLive, NEW kept \in SUBSET corpus, Compact(kept)
  PROVE  IndexTypeInv' /\ IndexLive'
<1>1. /\ corpus' = kept /\ index' = [e \in {f \in kept : potential[f] # None} |-> potential[e]]
      /\ potential' = [e \in Entries |-> IF e \in kept THEN potential[e] ELSE None]
  BY DEF Compact, Reindex
<1>2. Indexed' = {f \in kept : potential[f] # None} BY <1>1 DEF Indexed
<1>3. IndexTypeInv'
  <2>1. None \in Potentials BY DEF Potentials
  <2> QED BY <1>1, <2>1 DEF IndexTypeInv
<1>4. ASSUME NEW e \in Indexed' PROVE index'[e] = potential'[e] /\ index'[e] # None
  BY <1>1, <1>2 DEF IndexTypeInv
<1>5. \A e \in kept \cap Children : potential[e] # None BY DEF IndexLive
<1> QED BY <1>1, <1>2, <1>3, <1>4, <1>5 DEF IndexLive

LEMMA InvAlways == IndexSpec => [](IndexTypeInv /\ IndexLive)
<1>1. IndexTypeInv /\ IndexLive /\ [IndexNext]_indexVars => IndexTypeInv' /\ IndexLive'
  <2> SUFFICES ASSUME IndexTypeInv, IndexLive, [IndexNext]_indexVars PROVE IndexTypeInv' /\ IndexLive' OBVIOUS
  <2>1. CASE UNCHANGED indexVars
    <3>1. UNCHANGED <<corpus, potential, index>> /\ Indexed' = Indexed
      BY <2>1 DEF indexVars, Indexed
    <3> QED BY <3>1 DEF IndexTypeInv, IndexLive
  <2> QED BY <2>1, StepAddChild, StepRescore, StepCompact DEF IndexNext
<1> QED BY <1>1, InvInit, PTL DEF IndexSpec

\* Whatever is added, rescored and compacted, and however freed addresses are used
\* again, a search reads the potentials of live entries only, and misses no child.
THEOREM IndexCorrect == IndexSpec => []IndexLive
BY InvAlways, PTL

-----------------------------------------------------------------------------
\* Distances are percentages, and potentials that share no occurrence are 100 apart.
LEMMA Percentage ==
  ASSUME NEW a \in Nat, NEW b \in Nat \ {0}, a <= b
  PROVE  (100 * a) \div b \in 0..100 /\ (a = b => (100 * a) \div b = 100)
<1>1. 100 * a <= 100 * b /\ 100 * a >= 0 OBVIOUS
<1>2. (100 * b) \div b = 100 OBVIOUS
<1>3. (100 * a) \div b <= (100 * b) \div b /\ (100 * a) \div b >= 0 BY <1>1
<1> QED BY <1>2, <1>3

\* There are finitely many occurrences.
LEMMA OccurrencesFinite == IsFiniteSet(Occurrences)
BY IndexAssumption, FS_Product DEF Occurrences

LEMMA DistanceRange ==
  ASSUME NEW p \in SUBSET Occurrences, NEW q \in SUBSET Occurrences
  PROVE  Distance(p, q) \in 0..100 /\ (p # {} /\ p \cap q = {} => Distance(p, q) = 100)
<1> DEFINE union == p \cup q
           apart == union \ (p \cap q)
<1>1. IsFiniteSet(union) /\ Cardinality(union) \in Nat
  BY OccurrencesFinite, FS_Subset, FS_CardinalityType
<1>2. IsFiniteSet(apart) /\ Cardinality(apart) \in Nat /\ Cardinality(apart) <= Cardinality(union)
  BY <1>1, FS_Subset, FS_CardinalityType
<1>3. CASE union = {} BY <1>3 DEF Distance
<1>4. CASE union # {}
  <2>1. Cardinality(union) \in Nat \ {0} BY <1>1, <1>4, FS_EmptySet
  <2>2. Distance(p, q) = (100 * Cardinality(apart)) \div Cardinality(union)
    BY <1>4 DEF Distance
  <2>3. p \cap q = {} => apart = union OBVIOUS
  <2> HIDE DEF union, apart
  <2> QED BY <1>2, <2>1, <2>2, <2>3, Percentage
<1> QED BY <1>3, <1>4

LEMMA MinIs ==
  ASSUME NEW S, S \subseteq Int, NEW x \in S, \A y \in S : x <= y
  PROVE  Min(S) = x
<1>1. Min(S) \in S /\ \A y \in S : Min(S) <= y BY DEF Min
<1>2. Min(S) \in Int /\ x \in Int /\ Min(S) <= x /\ x <= Min(S) BY <1>1
<1> QED BY <1>2

\* The entries that the search for p compares are those that share a write with p, if p
\* has no more occurrences than slots are tried.
LEMMA SharersCompared ==
  ASSUME NEW p \in SUBSET Occurrences, Cardinality(p) \in 1..Rarest, NEW c \in RarestKeys(p)
  PROVE  Candidates(c) = Candidates(p)
<1> DEFINE ranked == {k \in p : Postings(k[2]) # {}}
           limit == IF Cardinality(ranked) < Rarest THEN Cardinality(ranked) ELSE Rarest
<1>1. IsFiniteSet(p) BY OccurrencesFinite, FS_Subset
<1>2. IsFiniteSet(ranked) /\ Cardinality(ranked) <= Cardinality(p)
      /\ Cardinality(ranked) \in Nat
  BY <1>1, FS_Subset, FS_CardinalityType
<1>3. limit = Cardinality(ranked) BY <1>2, IndexAssumption
<1>4. c \in SUBSET ranked /\ Cardinality(c) = limit BY DEF RarestKeys, kSubset
<1>5. c = ranked
  <2> HIDE DEF ranked, limit
  <2> QED BY <1>2, <1>3, <1>4, FS_Subset
<1> QED BY <1>5 DEF Candidates

LEMMA FoundIsNearest ==
  ASSUME IndexTypeInv, IndexLive, NEW e, NEW p \in SUBSET Occurrences,
         Cardinality(p) \in 1..Rarest, NEW found \in FindDiff(e, p)
  PROVE  found.novelty = TrueNovelty(p, Indexed \ disabled)
<1> DEFINE active == Indexed \ disabled
           dists == {Distance(p, index[f]) : f \in active}
<1>1. \A f \in Indexed : index[f] \in SUBSET Occurrences
  BY DEF IndexTypeInv, IndexLive, Potentials
<1>2. \A f \in Indexed : Distance(p, index[f]) \in 0..100 BY <1>1, DistanceRange
<1>3. p # {} BY FS_EmptySet, IndexAssumption
<1>4. \A f \in Indexed \ Candidates(p) : Distance(p, index[f]) = 100
  <2> SUFFICES ASSUME NEW f \in Indexed \ Candidates(p) PROVE p \cap index[f] = {}
    BY <1>1, <1>3, DistanceRange
  <2>1. SUFFICES ASSUME NEW k \in p \cap index[f] PROVE FALSE
    OBVIOUS
  <2>2. k[1] \in Places /\ k = <<k[1], k[2]>>
    BY <2>1 DEF Occurrences
  <2>3. <<f, k[1]>> \in Postings(k[2])
    BY <2>1, <2>2 DEF Postings
  <2>4. f \in Candidates(p)
    BY <2>1, <2>3 DEF Candidates
  <2> QED BY <2>4
<1>5. PICK s : /\ s \in IF Candidates(p) = {} THEN Samples
                        ELSE {Candidates(c) : c \in RarestKeys(p)}
              /\ IF Best(p, s) = {} THEN found.novelty = 100
                 ELSE \E near \in Best(p, s) : found.novelty = Distance(p, index[near])
  BY DEF FindDiff, NoSearch
<1>6. s \subseteq Indexed /\ (Candidates(p) = {} \/ s = Candidates(p))
  <2>1. \A c : Candidates(c) \subseteq Indexed
    <3> SUFFICES ASSUME NEW c, NEW k \in c, NEW x \in Postings(k[2]) PROVE x[1] \in Indexed
      BY DEF Candidates
    <3> QED BY DEF Postings
  <2>2. CASE Candidates(p) = {} BY <1>5, <2>2 DEF Samples, kSubset
  <2>3. CASE Candidates(p) # {} BY <1>5, <2>1, <2>3, SharersCompared
  <2> QED BY <2>2, <2>3
<1>7. TrueNovelty(p, active) = IF active = {} THEN 100 ELSE Min(dists) BY DEF TrueNovelty
<1>8. dists \subseteq Int BY <1>2
<1>9. ASSUME \A f \in active : Distance(p, index[f]) = 100
      PROVE  TrueNovelty(p, active) = 100
  <2>1. CASE active = {} BY <1>7, <2>1
  <2>2. CASE active # {}
    <3>1. 100 \in dists /\ \A d \in dists : 100 <= d BY <1>9, <2>2
    <3> HIDE DEF dists, active
    <3> QED BY <1>7, <1>8, <2>2, <3>1, MinIs
  <2> QED BY <2>1, <2>2
<1>10. CASE Best(p, s) = {}
  <2>1. Considered(s) = {}
    <3> SUFFICES ASSUME Considered(s) # {} PROVE FALSE OBVIOUS
    <3> DEFINE ds == {Distance(p, index[f]) : f \in Considered(s)}
    <3>1. ds \subseteq Nat /\ ds # {} BY <1>2, <1>6 DEF Considered
    <3> HIDE DEF ds
    <3>2. PICK d \in ds : \A x \in ds : d <= x BY <3>1, LeastNumber
    <3>3. PICK f \in Considered(s) : d = Distance(p, index[f]) BY <3>2 DEF ds
    <3>4. f \in Best(p, s) BY <3>2, <3>3 DEF Best, ds
    <3> QED BY <1>10, <3>4
  <2>2. \A f \in active : f \notin Candidates(p) BY <1>6, <2>1 DEF Considered
  <2> QED BY <1>4, <1>5, <1>9, <1>10, <2>2
<1>11. CASE Best(p, s) # {}
  <2>1. PICK near \in Best(p, s) : found.novelty = Distance(p, index[near]) BY <1>5, <1>11
  <2>2. near \in active /\ near \in s /\ \A f \in s \ disabled : Distance(p, index[near]) <= Distance(p, index[f])
    BY <1>6 DEF Best, Considered
  <2>3. CASE Candidates(p) = {}
    <3>1. \A f \in active : Distance(p, index[f]) = 100 BY <1>4, <2>3
    <3> QED BY <1>9, <2>1, <2>2, <3>1
  <2>4. CASE s = Candidates(p)
    <3>1. ASSUME NEW f \in active PROVE Distance(p, index[near]) <= Distance(p, index[f])
      <4>1. CASE f \in s BY <2>2, <4>1
      <4>2. CASE f \notin s BY <1>2, <1>4, <2>2, <2>4, <4>2
      <4> QED BY <4>1, <4>2
    <3>2. Distance(p, index[near]) \in dists /\ \A d \in dists : Distance(p, index[near]) <= d
      BY <2>2, <3>1
    <3>3. active # {} BY <2>2
    <3>4. Min(dists) = Distance(p, index[near])
      <4> HIDE DEF dists
      <4> QED BY <1>8, <3>2, MinIs
    <3> QED BY <1>7, <2>1, <3>3, <3>4
  <2> QED BY <1>6, <2>3, <2>4
<1> QED BY <1>10, <1>11

\* As long as its potential fits in the slots, the score of a new graph is what an
\* exhaustive search would give, whatever the index holds and whichever of equally rare
\* writes the sort puts first.
THEOREM NoveltyCorrect == IndexSpec => NoveltyExact
<1> DEFINE Exact == \A e \in corpus' \ corpus :
                      Cardinality(potential'[e]) \in 1..Rarest =>
                        last'.novelty = TrueNovelty(potential'[e], Indexed \ disabled)
<1>1. IndexTypeInv /\ IndexLive /\ [IndexNext]_indexVars => [Exact]_indexVars
  <2> SUFFICES ASSUME IndexTypeInv, IndexLive, IndexNext, NEW e \in corpus' \ corpus,
                      Cardinality(potential'[e]) \in 1..Rarest
               PROVE  last'.novelty = TrueNovelty(potential'[e], Indexed \ disabled)
    OBVIOUS
  <2>1. PICK f \in Children, p \in SUBSET Occurrences : AddChild(f, p)
    BY DEF IndexNext, Rescore, Compact
  <2>2. e = f /\ e \in Entries BY <2>1 DEF AddChild, Entries
  <2>3. potential'[e] = p /\ last' \in FindDiff(e, p) BY <2>1, <2>2 DEF AddChild, IndexTypeInv
  <2> QED BY <2>3, FoundIsNearest
<1> HIDE DEF Exact
<1>2. IndexSpec => [][Exact]_indexVars BY <1>1, InvAlways, PTL DEF IndexSpec
<1> QED BY <1>2 DEF NoveltyExact, Exact
=============================================================================
