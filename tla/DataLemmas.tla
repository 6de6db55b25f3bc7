------------------------------ MODULE DataLemmas ------------------------------
(***************************************************************************)
(* Induction for the proofs about data: what the recursive definitions of  *)
(* the models compute, for every input.  A property of numbers is given as *)
(* a set, which the provers can instantiate.  Then sums over finite sets.  *)
(***************************************************************************)
EXTENDS Integers, Functions, FiniteSets, FiniteSetTheorems, WellFoundedInduction, TLAPS

\* A set of natural numbers that is not empty has a least element.
LEMMA LeastNumber ==
  ASSUME NEW S, S \subseteq Nat, S # {}
  PROVE  \E x \in S : \A y \in S : x <= y
<1> DEFINE R == OpToRel(<, Nat)
<1>1. IsWellFoundedOn(R, Nat) BY NatLessThanWellFounded
<1>2. \A x, y \in Nat : y < x => <<y, x>> \in R BY DEF OpToRel
<1> HIDE DEF R
<1>3. PICK x \in S : \A y \in S : ~(<<y, x>> \in R) BY <1>1, WFMin
<1>4. \A y \in S : ~(y < x) BY <1>2, <1>3
<1>5. \A y \in S : x <= y BY <1>4
<1> QED BY <1>3, <1>5

\* A set that has 0, and with a number its successor, has every number.
LEMMA SetInduction ==
  ASSUME NEW S, 0 \in S, \A n \in Nat : n \in S => n + 1 \in S
  PROVE  \A n \in Nat : n \in S
<1> SUFFICES ASSUME Nat \ S # {} PROVE FALSE OBVIOUS
<1>1. PICK x \in Nat \ S : \A y \in Nat \ S : x <= y BY LeastNumber
<1>2. x # 0 /\ x - 1 \in Nat /\ x - 1 \in S BY <1>1
<1> QED BY <1>1, <1>2

\* A set that has a number whenever it has all smaller ones has every number.
LEMMA StrongInduction ==
  ASSUME NEW S, \A n \in Nat : (\A m \in Nat : m < n => m \in S) => n \in S
  PROVE  \A n \in Nat : n \in S
<1> SUFFICES ASSUME Nat \ S # {} PROVE FALSE OBVIOUS
<1>1. PICK x \in Nat \ S : \A y \in Nat \ S : x <= y BY LeastNumber
<1>2. \A m \in Nat : m < x => m \in S BY <1>1
<1> QED BY <1>1, <1>2

-----------------------------------------------------------------------------
(* Sums.  FoldFunctionOnSet takes the elements of a set in the order of     *)
(* CHOOSE; the sum does not depend on it.                                  *)

Chosen(s) == CHOOSE x \in s : TRUE
SumDef(it, f, S) ==
  it = [s \in SUBSET S |-> IF s = {} THEN 0 ELSE f[Chosen(s)] + it[s \ {Chosen(s)}]]

LEMMA ChosenIn == \A s : s # {} => Chosen(s) \in s
BY DEF Chosen

LEMMA SumIsChosen ==
  ASSUME NEW f, NEW S
  PROVE  SumFunctionOnSet(f, S) = (CHOOSE it : SumDef(it, f, S))[S]
BY DEF SumFunctionOnSet, FoldFunctionOnSet, MapThenFoldSet, SumDef, Chosen

LEMMA SumDefExists ==
  ASSUME NEW f, NEW S, IsFiniteSet(S)
  PROVE  \E it : SumDef(it, f, S)
<1> DEFINE Small(k) == {s \in SUBSET S : Cardinality(s) <= k}
           Part(it, k) == it = [s \in Small(k) |-> IF s = {} THEN 0
                                                  ELSE f[Chosen(s)] + it[s \ {Chosen(s)}]]
           K == {k \in Nat : \E it : Part(it, k)}
<1>1. \A s \in SUBSET S : IsFiniteSet(s) /\ Cardinality(s) \in Nat
  BY FS_Subset, FS_CardinalityType
<1>2. 0 \in K
  <2>1. \A s \in Small(0) : s = {} BY <1>1, FS_EmptySet
  <2> DEFINE it == [s \in Small(0) |-> 0]
  <2>2. Part(it, 0) BY <2>1
  <2> QED BY <2>2
<1>3. ASSUME NEW k \in Nat, k \in K PROVE k + 1 \in K
  <2>1. PICK it : Part(it, k) BY <1>3
  <2> DEFINE wider == [s \in Small(k + 1) |-> IF s = {} THEN 0
                                             ELSE f[Chosen(s)] + it[s \ {Chosen(s)}]]
  <2>2. ASSUME NEW s \in Small(k + 1), s # {}
        PROVE  s \ {Chosen(s)} \in Small(k) /\ s \ {Chosen(s)} \in Small(k + 1)
    BY <1>1, <2>2, ChosenIn, FS_RemoveElement
  <2>3. \A s \in Small(k) : wider[s] = it[s]
    <3>1. \A s \in Small(k) : s \in Small(k + 1) BY <1>1
    <3> HIDE DEF Small
    <3> QED BY <2>1, <3>1
  <2>4. Part(wider, k + 1)
    <3> HIDE DEF Small
    <3> QED BY <2>2, <2>3
  <2>5. k + 1 \in Nat /\ \E w : Part(w, k + 1)
    <3> HIDE DEF Part, wider
    <3> QED BY <2>4
  <2> HIDE DEF Part
  <2> QED BY <2>5
<1>4. Cardinality(S) \in K
  <2> HIDE DEF K
  <2> QED BY <1>2, <1>3, SetInduction, FS_CardinalityType
<1>5. Small(Cardinality(S)) = SUBSET S BY FS_Subset
<1> QED BY <1>4, <1>5 DEF SumDef

LEMMA SumDefUnique ==
  ASSUME NEW f, NEW S, IsFiniteSet(S), NEW T \in SUBSET S,
         NEW i, NEW j, SumDef(i, f, S), SumDef(j, f, T)
  PROVE  i[T] = j[T]
<1> DEFINE K == {k \in Nat : \A s \in SUBSET T : Cardinality(s) = k => i[s] = j[s]}
<1>1. \A s \in SUBSET T : s \in SUBSET S /\ IsFiniteSet(s) /\ Cardinality(s) \in Nat
  BY FS_Subset, FS_CardinalityType
<1>2. 0 \in K
  <2>1. ASSUME NEW s \in SUBSET T, Cardinality(s) = 0 PROVE i[s] = j[s]
    <3>1. s = {} BY <1>1, <2>1, FS_EmptySet
    <3> QED BY <1>1, <3>1 DEF SumDef
  <2> QED BY <2>1
<1>3. ASSUME NEW k \in Nat, k \in K PROVE k + 1 \in K
  <2>1. ASSUME NEW s \in SUBSET T, Cardinality(s) = k + 1 PROVE i[s] = j[s]
    <3> DEFINE r == s \ {Chosen(s)}
    <3>1. s # {} BY <2>1, FS_EmptySet
    <3>2. r \in SUBSET T /\ Cardinality(r) = k BY <1>1, <2>1, <3>1, ChosenIn, FS_RemoveElement
    <3>3. i[r] = j[r] BY <1>3, <3>2
    <3>4. i[s] = f[Chosen(s)] + i[r] BY <1>1, <3>1 DEF SumDef
    <3>5. j[s] = f[Chosen(s)] + j[r] BY <3>1 DEF SumDef
    <3> QED BY <3>3, <3>4, <3>5
  <2> QED BY <2>1
<1>4. Cardinality(T) \in K
  <2> HIDE DEF K
  <2> QED BY <1>1, <1>2, <1>3, SetInduction
<1> QED BY <1>4

LEMMA SumUnfold ==
  ASSUME NEW f, NEW S, IsFiniteSet(S)
  PROVE  SumFunctionOnSet(f, S) =
           IF S = {} THEN 0
           ELSE f[Chosen(S)] + SumFunctionOnSet(f, S \ {Chosen(S)})
<1> DEFINE T == S \ {Chosen(S)}
           i == CHOOSE it : SumDef(it, f, S)
           j == CHOOSE it : SumDef(it, f, T)
<1>1. IsFiniteSet(T) /\ T \in SUBSET S BY FS_RemoveElement
<1>2. SumDef(i, f, S) BY SumDefExists
<1>3. SumDef(j, f, T) BY <1>1, SumDefExists
<1>4. SumFunctionOnSet(f, S) = i[S] /\ SumFunctionOnSet(f, T) = j[T] BY SumIsChosen
<1> HIDE DEF T, i, j
<1>5. i[T] = j[T] BY <1>1, <1>2, <1>3, SumDefUnique
<1>6. i[S] = IF S = {} THEN 0 ELSE f[Chosen(S)] + i[T] BY <1>2 DEF SumDef, T
<1> QED BY <1>4, <1>5, <1>6 DEF T

\* A set of finite sets that has s whenever it has the smaller subsets of s.
LEMMA SubsetInduction ==
  ASSUME NEW U, IsFiniteSet(U), NEW Q,
         \A s \in SUBSET U : (\A t \in SUBSET s : t # s => t \in Q) => s \in Q
  PROVE  \A s \in SUBSET U : s \in Q
<1> DEFINE K == {k \in Nat : \A s \in SUBSET U : Cardinality(s) = k => s \in Q}
<1>1. \A s \in SUBSET U : IsFiniteSet(s) /\ Cardinality(s) \in Nat
  BY FS_Subset, FS_CardinalityType
<1>2. ASSUME NEW k \in Nat, \A m \in Nat : m < k => m \in K PROVE k \in K
  <2>1. ASSUME NEW s \in SUBSET U, Cardinality(s) = k PROVE s \in Q
    <3>1. ASSUME NEW t \in SUBSET s, t # s PROVE t \in Q
      <4>1. t \in SUBSET U /\ Cardinality(t) \in Nat /\ Cardinality(t) < k
        <5>1. Cardinality(t) <= Cardinality(s) /\ Cardinality(t) # Cardinality(s)
          BY <1>1, <3>1, FS_Subset
        <5> QED BY <1>1, <2>1, <5>1
      <4>2. Cardinality(t) \in K BY <1>2, <4>1
      <4> QED BY <4>1, <4>2
    <3> QED BY <3>1
  <2> QED BY <2>1
<1>3. \A k \in Nat : k \in K
  <2> HIDE DEF K
  <2> QED BY <1>2, StrongInduction
<1> QED BY <1>1, <1>3

\* The sum of integers is an integer, and any element may be taken first.
LEMMA SumRemove ==
  ASSUME NEW f, NEW S, IsFiniteSet(S), \A x \in S : f[x] \in Int
  PROVE  /\ SumFunctionOnSet(f, S) \in Int
         /\ \A x \in S : SumFunctionOnSet(f, S) = f[x] + SumFunctionOnSet(f, S \ {x})
<1> DEFINE Sm(s) == SumFunctionOnSet(f, s)
           Q == {s \in SUBSET S : Sm(s) \in Int /\ \A x \in s : Sm(s) = f[x] + Sm(s \ {x})}
<1>1. \A s \in SUBSET S : Sm(s) = IF s = {} THEN 0 ELSE f[Chosen(s)] + Sm(s \ {Chosen(s)})
  BY FS_Subset, SumUnfold
<1>2. ASSUME NEW s \in SUBSET S, \A t \in SUBSET s : t # s => t \in Q PROVE s \in Q
  <2>1. CASE s = {} BY <1>1, <2>1
  <2>2. CASE s # {}
    <3> DEFINE y == Chosen(s)
    <3> HIDE DEF y, Sm
    <3>1. y \in s BY <2>2, ChosenIn DEF y
    <3>2. s \ {y} \in Q BY <1>2, <3>1
    <3>3. Sm(s) = f[y] + Sm(s \ {y}) BY <1>1, <2>2 DEF y
    <3>4. Sm(s) \in Int BY <3>1, <3>2, <3>3
    <3>5. ASSUME NEW x \in s, x # y PROVE Sm(s) = f[x] + Sm(s \ {x})
      <4>1. s \ {x} \in Q BY <1>2
      <4>2. Sm(s \ {y}) = f[x] + Sm((s \ {y}) \ {x}) BY <3>2, <3>5
      <4>3. Sm(s \ {x}) = f[y] + Sm((s \ {x}) \ {y}) BY <3>1, <3>5, <4>1
      <4>4. (s \ {y}) \ {x} = (s \ {x}) \ {y} OBVIOUS
      <4>5. (s \ {x}) \ {y} \in Q BY <1>2, <3>1
      <4>6. Sm((s \ {x}) \ {y}) \in Int /\ f[x] \in Int /\ f[y] \in Int BY <3>1, <4>5
      <4> DEFINE rest == Sm((s \ {x}) \ {y})
      <4>7. Sm(s) = f[y] + (f[x] + rest) BY <3>3, <4>2, <4>4
      <4>8. f[x] + Sm(s \ {x}) = f[x] + (f[y] + rest) BY <4>3
      <4>9. rest \in Int BY <4>6
      <4> HIDE DEF Q, rest
      <4> QED BY <4>6, <4>7, <4>8, <4>9
    <3> QED BY <3>3, <3>4, <3>5
  <2> QED BY <2>1, <2>2
<1>3. S \in Q
  <2> HIDE DEF Q
  <2> QED BY <1>2, SubsetInduction
<1> QED BY <1>3

LEMMA SumEmpty == \A f : SumFunctionOnSet(f, {}) = 0
BY SumUnfold, FS_EmptySet

\* A sum depends on the values summed only.
LEMMA SumSame ==
  ASSUME NEW f, NEW g, NEW S, IsFiniteSet(S), \A x \in S : f[x] = g[x]
  PROVE  SumFunctionOnSet(f, S) = SumFunctionOnSet(g, S)
<1> DEFINE Q == {s \in SUBSET S : SumFunctionOnSet(f, s) = SumFunctionOnSet(g, s)}
<1>1. ASSUME NEW s \in SUBSET S, \A t \in SUBSET s : t # s => t \in Q PROVE s \in Q
  <2>1. IsFiniteSet(s) BY FS_Subset
  <2>2. CASE s = {} BY <2>2, SumEmpty
  <2>3. CASE s # {}
    <3>1. Chosen(s) \in s BY <2>3, ChosenIn
    <3>2. s \ {Chosen(s)} \in Q BY <1>1, <3>1
    <3> QED BY <2>1, <2>3, <3>1, <3>2, SumUnfold
  <2> QED BY <2>2, <2>3
<1> HIDE DEF Q
<1>2. S \in Q BY <1>1, SubsetInduction
<1> QED BY <1>2 DEF Q

\* Sums of scaled and of smaller terms.
LEMMA SumScale ==
  ASSUME NEW f, NEW g, NEW S, NEW c \in Int, NEW d \in Int, IsFiniteSet(S),
         \A x \in S : f[x] \in Int /\ g[x] = c * f[x] - d
  PROVE  SumFunctionOnSet(g, S) = c * SumFunctionOnSet(f, S) - Cardinality(S) * d
<1> DEFINE Q == {s \in SUBSET S : SumFunctionOnSet(g, s) = c * SumFunctionOnSet(f, s) - Cardinality(s) * d}
<1>1. ASSUME NEW s \in SUBSET S, \A t \in SUBSET s : t # s => t \in Q PROVE s \in Q
  <2>1. IsFiniteSet(s) BY FS_Subset
  <2>2. CASE s = {} BY <2>2, SumEmpty, FS_EmptySet
  <2>3. CASE s # {}
    <3>1. PICK x \in s : TRUE BY <2>3
    <3>2. s \ {x} \in Q BY <1>1, <3>1
    <3>3. \A y \in s : f[y] \in Int /\ g[y] \in Int OBVIOUS
    <3>4. SumFunctionOnSet(f, s) = f[x] + SumFunctionOnSet(f, s \ {x}) BY <2>1, <3>3, SumRemove
    <3>5. SumFunctionOnSet(g, s) = g[x] + SumFunctionOnSet(g, s \ {x}) BY <2>1, <3>3, SumRemove
    <3>6. IsFiniteSet(s \ {x}) /\ Cardinality(s) = Cardinality(s \ {x}) + 1
          /\ Cardinality(s \ {x}) \in Nat
      <4>1. Cardinality(s) \in Nat /\ IsFiniteSet(s \ {x})
        BY <2>1, FS_RemoveElement, FS_CardinalityType
      <4>2. Cardinality(s \ {x}) = Cardinality(s) - 1 /\ Cardinality(s \ {x}) \in Nat
        BY <2>1, <4>1, FS_RemoveElement, FS_CardinalityType
      <4> QED BY <4>1, <4>2
    <3>7. SumFunctionOnSet(f, s \ {x}) \in Int BY <3>3, <3>6, SumRemove
    <3>8. \A a, b, k \in Int : c * (a + b) - (k + 1) * d = (c * a - d) + (c * b - k * d)
      OBVIOUS
    <3>9. SumFunctionOnSet(g, s \ {x})
            = c * SumFunctionOnSet(f, s \ {x}) - Cardinality(s \ {x}) * d BY <3>2
    <3>10. SumFunctionOnSet(g, s) = (c * f[x] - d) + (c * SumFunctionOnSet(f, s \ {x})
                                     - Cardinality(s \ {x}) * d)
      BY <3>5, <3>9
    <3>11. SumFunctionOnSet(g, s) = c * SumFunctionOnSet(f, s) - Cardinality(s) * d
      BY <3>3, <3>4, <3>6, <3>7, <3>8, <3>10
    <3> QED BY <3>11
  <2> QED BY <2>2, <2>3
<1> HIDE DEF Q
<1>2. S \in Q BY <1>1, SubsetInduction
<1> QED BY <1>2 DEF Q

LEMMA SumLess ==
  ASSUME NEW f, NEW g, NEW S, IsFiniteSet(S),
         \A x \in S : f[x] \in Int /\ g[x] \in Int /\ f[x] <= g[x]
  PROVE  SumFunctionOnSet(f, S) <= SumFunctionOnSet(g, S)
<1> DEFINE Q == {s \in SUBSET S : SumFunctionOnSet(f, s) <= SumFunctionOnSet(g, s)}
<1>1. ASSUME NEW s \in SUBSET S, \A t \in SUBSET s : t # s => t \in Q PROVE s \in Q
  <2>1. IsFiniteSet(s) BY FS_Subset
  <2>2. CASE s = {} BY <2>2, SumEmpty
  <2>3. CASE s # {}
    <3>1. PICK x \in s : TRUE BY <2>3
    <3>2. s \ {x} \in Q BY <1>1, <3>1
    <3>3. SumFunctionOnSet(f, s) = f[x] + SumFunctionOnSet(f, s \ {x}) BY <2>1, SumRemove
    <3>4. SumFunctionOnSet(g, s) = g[x] + SumFunctionOnSet(g, s \ {x}) BY <2>1, SumRemove
    <3>5. IsFiniteSet(s \ {x}) BY <2>1, FS_RemoveElement
    <3>6. SumFunctionOnSet(f, s \ {x}) \in Int /\ SumFunctionOnSet(g, s \ {x}) \in Int
      BY <3>5, SumRemove
    <3>7. SumFunctionOnSet(f, s \ {x}) <= SumFunctionOnSet(g, s \ {x}) BY <3>2
    <3>8. SumFunctionOnSet(f, s) <= SumFunctionOnSet(g, s) BY <3>3, <3>4, <3>6, <3>7
    <3> QED BY <3>8
  <2> QED BY <2>2, <2>3
<1> HIDE DEF Q
<1>2. S \in Q BY <1>1, SubsetInduction
<1> QED BY <1>2 DEF Q

\* The sum of terms that are not negative is not, and is 0 only if they all are.
LEMMA SumSign ==
  ASSUME NEW f, NEW S, IsFiniteSet(S), \A x \in S : f[x] \in Nat
  PROVE  /\ SumFunctionOnSet(f, S) \in Nat
         /\ SumFunctionOnSet(f, S) = 0 => \A x \in S : f[x] = 0
<1> DEFINE zero == [x \in S |-> 0]
<1>1. ASSUME NEW s \in SUBSET S PROVE SumFunctionOnSet(f, s) \in Nat
  <2>1. IsFiniteSet(s) BY FS_Subset
  <2>2. SumFunctionOnSet(zero, s) = 0 * SumFunctionOnSet(zero, s) - Cardinality(s) * 0
    BY <2>1, SumScale
  <2>3. SumFunctionOnSet(zero, s) \in Int /\ Cardinality(s) \in Nat
    BY <2>1, SumRemove, FS_CardinalityType
  <2>4. SumFunctionOnSet(zero, s) <= SumFunctionOnSet(f, s) BY <2>1, SumLess
  <2>5. SumFunctionOnSet(f, s) \in Int BY <2>1, SumRemove
  <2> HIDE DEF zero
  <2> QED BY <2>2, <2>3, <2>4, <2>5
<1>2. ASSUME NEW x \in S, SumFunctionOnSet(f, S) = 0 PROVE f[x] = 0
  <2>1. SumFunctionOnSet(f, S) = f[x] + SumFunctionOnSet(f, S \ {x}) BY SumRemove
  <2>2. SumFunctionOnSet(f, S \ {x}) \in Nat BY <1>1
  <2> QED BY <1>2, <2>1, <2>2
<1> QED BY <1>1, <1>2

-----------------------------------------------------------------------------
(* Recursive functions.  A definition by recursion has a solution when the *)
(* argument of the recursive call is smaller, by a measure m or by one.    *)

Solves(f, D, C, to, base) ==
  f = [i \in D |-> f[i]] /\ \A i \in D : f[i] = IF i \in C THEN f[to[i]] ELSE base[i]
Falls(m, C, to) == \A i \in C : m[to[i]] < m[i]
Iterates(f, k, b, F) == f[0] = b /\ \A i \in 1..k : f[i] = F[<<i, f[i - 1]>>]

LEMMA Recursion ==
  ASSUME NEW D, NEW C \in SUBSET D, NEW to \in [C -> D], NEW base, NEW k \in Nat,
         NEW m \in [D -> 0..k], Falls(m, C, to)
  PROVE  \E f : Solves(f, D, C, to, base)
<1> USE DEF Falls
<1> DEFINE Below(l) == {i \in D : m[i] < l}
           Part(f, l) == f = [i \in Below(l) |-> IF i \in C THEN f[to[i]] ELSE base[i]]
           L == {l \in Nat : \E f : Part(f, l)}
<1>1. 0 \in L
  <2>1. Below(0) = {} OBVIOUS
  <2>2. Part([i \in {} |-> 0], 0) BY <2>1
  <2> QED BY <2>2
<1>2. ASSUME NEW l \in Nat, l \in L PROVE l + 1 \in L
  <2>1. PICK f : Part(f, l) BY <1>2
  <2> DEFINE g == [i \in Below(l + 1) |-> IF i \in C THEN f[to[i]] ELSE base[i]]
  <2>2. \A i \in Below(l + 1) : i \in C => to[i] \in Below(l) /\ to[i] \in Below(l + 1)
    <3> SUFFICES ASSUME NEW i \in Below(l + 1), i \in C
                 PROVE  to[i] \in Below(l) /\ to[i] \in Below(l + 1)
      OBVIOUS
    <3>1. to[i] \in D /\ m[to[i]] \in Nat /\ m[i] \in Nat /\ m[i] < l + 1 /\ m[to[i]] < m[i]
      OBVIOUS
    <3>2. m[to[i]] < l /\ m[to[i]] < l + 1 BY <3>1
    <3> QED BY <3>1, <3>2
  <2>3. \A j \in Below(l) : f[j] = IF j \in C THEN f[to[j]] ELSE base[j] BY <2>1
  <2>4. \A j \in Below(l + 1) : g[j] = IF j \in C THEN f[to[j]] ELSE base[j] OBVIOUS
  <2>5. g = [i \in Below(l + 1) |-> g[i]] OBVIOUS
  <2> HIDE DEF Below, g
  <2>6. \A i \in Below(l + 1) : i \in C => g[to[i]] = f[to[i]] BY <2>2, <2>3, <2>4
  <2>7. \A i \in Below(l + 1) : g[i] = IF i \in C THEN g[to[i]] ELSE base[i] BY <2>4, <2>6
  <2>8. Part(g, l + 1) BY <2>5, <2>7
  <2> QED BY <2>8
<1> HIDE DEF L
<1>3. k + 1 \in L BY <1>1, <1>2, SetInduction
<1>4. PICK f : Part(f, k + 1) BY <1>3 DEF L
<1>5. Below(k + 1) = D OBVIOUS
<1>6. Solves(f, D, C, to, base) BY <1>4, <1>5 DEF Solves
<1> QED BY <1>6

LEMMA Iteration ==
  ASSUME NEW X, NEW k \in Nat, NEW b \in X, NEW F \in [(1..k) \X X -> X]
  PROVE  \E f \in [0..k -> X] : Iterates(f, k, b, F)
<1> DEFINE Part(f, l) == f[0] = b /\ \A i \in 1..l : f[i] = F[<<i, f[i - 1]>>]
           L == {l \in Nat : l <= k => \E f \in [0..l -> X] : Part(f, l)}
<1>1. 0 \in L
  <2>1. [i \in 0..0 |-> b] \in [0..0 -> X] /\ Part([i \in 0..0 |-> b], 0) OBVIOUS
  <2> QED BY <2>1
<1>2. ASSUME NEW l \in Nat, l \in L PROVE l + 1 \in L
  <2> SUFFICES ASSUME l + 1 <= k PROVE \E f \in [0..(l + 1) -> X] : Part(f, l + 1) OBVIOUS
  <2>1. PICK f \in [0..l -> X] : Part(f, l) BY <1>2
  <2> DEFINE g == [i \in 0..(l + 1) |-> IF i = l + 1 THEN F[<<l + 1, f[l]>>] ELSE f[i]]
  <2>2. l + 1 \in 1..k /\ l \in 0..l /\ (l + 1) - 1 = l OBVIOUS
  <2>3. F[<<l + 1, f[l]>>] \in X BY <2>2
  <2>4. \A i \in 0..(l + 1) : i # l + 1 => i \in 0..l OBVIOUS
  <2>5. g \in [0..(l + 1) -> X] BY <2>3, <2>4
  <2>6. g[l + 1] = F[<<l + 1, f[l]>>] /\ \A i \in 0..l : g[i] = f[i] OBVIOUS
  <2> HIDE DEF g
  <2>7. g[0] = b BY <2>1, <2>6
  <2>8. \A i \in 1..(l + 1) : g[i] = F[<<i, g[i - 1]>>]
    <3> SUFFICES ASSUME NEW i \in 1..(l + 1) PROVE g[i] = F[<<i, g[i - 1]>>] OBVIOUS
    <3>1. CASE i = l + 1 BY <2>2, <2>6, <3>1
    <3>2. CASE i # l + 1
      <4>1. i \in 1..l /\ i \in 0..l /\ i - 1 \in 0..l BY <3>2
      <4> QED BY <2>1, <2>6, <4>1
    <3> QED BY <3>1, <3>2
  <2> QED BY <2>5, <2>7, <2>8
<1> HIDE DEF L
<1>3. k \in L BY <1>1, <1>2, SetInduction
<1>4. PICK f \in [0..k -> X] : Part(f, k) BY <1>3 DEF L
<1>5. Iterates(f, k, b, F) BY <1>4 DEF Iterates
<1> QED BY <1>5
=============================================================================
