----------------------------- MODULE QueueProofs -----------------------------
(***************************************************************************)
(* The queues of the fuzzing loop.                                         *)
(*                                                                         *)
(* SgfQueue: the candidate queues, for every capacity and every sequence   *)
(* of calls: what the heap and array operations of sgf-queue-*.c do to any *)
(* array, that the tiers of each queue keep the order their operations     *)
(* rely on, and that each queue keeps its promise (CandidateQueue).        *)
(*                                                                         *)
(* CorpusQueue: for every number of seeds and entries, every set of edges  *)
(* and every ranking of them, the seed stays first and the entries in       *)
(* order, no entry names a freed mother, pending_not_fuzzed is exact, and, *)
(* until a compaction, ids are indices and candidates fresh.  No edge is   *)
(* lost, and the alias table is made for the whole corpus.                 *)
(***************************************************************************)
EXTENDS SgfQueue, CorpusQueue, DataLemmas, SequenceTheorems

Entry == [id : Nat, score : Nat]
Dir == {Higher, Lower}

LEMMA ScoreOrder ==
  ASSUME NEW dir \in Dir, NEW x \in Entry, NEW y \in Entry
  PROVE  /\ Above(dir, x, y) => ~Above(dir, y, x)
         /\ ~Above(dir, x, x)
         /\ \A z \in Entry : /\ ~Above(dir, x, y) /\ ~Above(dir, y, z) => ~Above(dir, x, z)
                             /\ Above(dir, x, y) /\ ~Above(dir, z, y) => ~Above(dir, z, x)
<1>1. x.score \in Nat /\ y.score \in Nat /\ \A z \in Entry : z.score \in Nat BY DEF Entry
<1>2. CASE dir = 1 BY <1>1, <1>2 DEF Above
<1>3. CASE dir = -1 BY <1>1, <1>3 DEF Above
<1> QED BY <1>2, <1>3 DEF Dir, Higher, Lower

\* In which order the two directions put scores.
LEMMA AboveIs ==
  ASSUME NEW x \in Entry, NEW y \in Entry
  PROVE  /\ Above(Higher, x, y) <=> x.score > y.score
         /\ Above(Lower, x, y) <=> x.score < y.score
<1>1. x.score \in Nat /\ y.score \in Nat BY DEF Entry
<1> QED BY <1>1 DEF Above, Higher, Lower

LEMMA GreatestNumber ==
  ASSUME NEW k \in Nat, NEW S \in SUBSET (0..k), S # {}
  PROVE  Max(S) \in S /\ \A y \in S : y <= Max(S)
<1> DEFINE D == {k - y : y \in S}
<1>1. D \subseteq Nat /\ D # {}
  <2>1. \A y \in S : k - y \in Nat OBVIOUS
  <2> QED BY <2>1
<1>2. PICK d \in D : \A e \in D : d <= e BY <1>1, LeastNumber
<1>3. PICK x \in S : d = k - x BY <1>2
<1>4. \A y \in S : x >= y
  <2> SUFFICES ASSUME NEW y \in S PROVE x >= y OBVIOUS
  <2>1. k - y \in D OBVIOUS
  <2>2. d <= k - y BY <1>2, <2>1
  <2> QED BY <1>3, <2>2
<1>5. Max(S) \in S /\ \A y \in S : Max(S) >= y BY <1>3, <1>4 DEF Max
<1> QED BY <1>5

-----------------------------------------------------------------------------
(* The path from a position of a heap to the root.                         *)

LEMMA Half ==
  ASSUME NEW p \in Nat
  PROVE  /\ p \div 2 \in Nat /\ p \div 2 <= p
         /\ p > 0 => p \div 2 < p
         /\ p > 1 => p \div 2 > 0
         /\ p = 1 => p \div 2 = 0
         /\ p = 2 * (p \div 2) \/ p = 2 * (p \div 2) + 1
OBVIOUS

LEMMA PathUnfold ==
  /\ PathToRoot[0] = {}
  /\ \A p \in Nat : p # 0 => PathToRoot[p] = {p} \cup PathToRoot[p \div 2]
<1> DEFINE Def(f) == f = [p \in Nat |-> IF p = 0 THEN {} ELSE {p} \cup f[p \div 2]]
           Closed(S) == \A r \in S : r > 1 => r \div 2 \in S
           f == [p \in Nat |-> IF p = 0 THEN {}
                               ELSE {q \in Nat : \A S \in SUBSET Nat : p \in S /\ Closed(S) => q \in S}]
<1>0. f[0] = {} OBVIOUS
<1>1. ASSUME NEW p \in Nat, p # 0 PROVE f[p] = {p} \cup f[p \div 2]
  <2>0. p > 0 BY <1>1
  <2>1. f[p] = {q \in Nat : \A S \in SUBSET Nat : p \in S /\ Closed(S) => q \in S} BY <1>1
  <2>2. CASE p = 1
    <3>1. p \div 2 = 0 BY <2>2, Half
    <3>2. f[0] = {} OBVIOUS
    <3>3. {1} \in SUBSET Nat /\ Closed({1}) OBVIOUS
    <3> QED BY <2>1, <2>2, <3>1, <3>2, <3>3
  <2>3. CASE p > 1
    <3> DEFINE h == p \div 2
    <3>1. h \in Nat /\ h # 0 BY <2>3, Half
    <3>2. f[h] = {q \in Nat : \A S \in SUBSET Nat : h \in S /\ Closed(S) => q \in S} BY <3>1
    <3> HIDE DEF f
    <3>3. f[h] \subseteq f[p]
      <4> SUFFICES ASSUME NEW q \in f[h], NEW S \in SUBSET Nat, p \in S, Closed(S) PROVE q \in S
        BY <2>1, <3>2
      <4>1. h \in S BY <2>3
      <4> QED BY <3>2, <4>1
    <3>4. p \in f[p] BY <2>1
    <3>5. ASSUME NEW q \in f[p], q # p PROVE q \in f[h]
      <4> SUFFICES ASSUME NEW S \in SUBSET Nat, h \in S, Closed(S) PROVE q \in S
        BY <2>1, <3>2
      <4>1. S \cup {p} \in SUBSET Nat /\ p \in S \cup {p} /\ Closed(S \cup {p}) OBVIOUS
      <4>2. q \in S \cup {p} BY <2>1, <4>1
      <4> QED BY <3>5, <4>2
    <3> QED BY <3>3, <3>4, <3>5
  <2>4. p = 1 \/ p > 1 BY <2>0
  <2> HIDE DEF f
  <2> QED BY <2>2, <2>3, <2>4
<1> HIDE DEF f
<1>2. f = [p \in Nat |-> f[p]] BY DEF f
<1>3. \A p \in Nat : f[p] = IF p = 0 THEN {} ELSE {p} \cup f[p \div 2] BY <1>0, <1>1
<1>4. Def(f) BY <1>2, <1>3
<1>5. PathToRoot = CHOOSE g : Def(g) BY DEF PathToRoot
<1>6. Def(PathToRoot) BY <1>4, <1>5
<1>7. \A p \in Nat : PathToRoot[p] = IF p = 0 THEN {} ELSE {p} \cup PathToRoot[p \div 2] BY <1>6
<1> QED BY <1>7

\* The path goes from p to the root, and each position on it is the parent of the one
\* before.
PathOK(p) ==
  /\ PathToRoot[p] \subseteq 1..p
  /\ p > 0 => p \in PathToRoot[p] /\ 1 \in PathToRoot[p]
  /\ \A a \in PathToRoot[p] : a > 1 => a \div 2 \in PathToRoot[p]
  /\ \A a, b \in PathToRoot[p] : a < b => a <= b \div 2
  /\ \A a \in PathToRoot[p] : a < p => \E b \in PathToRoot[p] : b \div 2 = a /\ b > a

LEMMA PathFacts == \A p \in Nat : PathOK(p)
<1> DEFINE Q == {p \in Nat : PathOK(p)}
<1>1. ASSUME NEW p \in Nat, \A m \in Nat : m < p => m \in Q PROVE p \in Q
  <2>1. CASE p = 0
    <3>1. PathToRoot[p] = {} BY <2>1, PathUnfold
    <3> QED BY <2>1, <3>1 DEF PathOK
  <2>2. CASE p > 0
    <3> DEFINE h == p \div 2
               S == PathToRoot[h]
    <3>1. h \in Nat /\ h < p /\ (p > 1 => h > 0) /\ (p = 1 => h = 0) BY <2>2, Half
    <3>2. PathOK(h) BY <1>1, <3>1
    <3>3. PathToRoot[p] = {p} \cup S
      <4>1. p # 0 BY <2>2
      <4> QED BY <4>1, PathUnfold
    <3> HIDE DEF S
    <3>4. /\ S \subseteq 1..h
          /\ h > 0 => h \in S /\ 1 \in S
          /\ \A a \in S : a > 1 => a \div 2 \in S
          /\ \A a, b \in S : a < b => a <= b \div 2
          /\ \A a \in S : a < h => \E b \in S : b \div 2 = a /\ b > a
      BY <3>2 DEF PathOK, S
    <3>5. \A a \in S : a \in Nat /\ a > 0 /\ a <= h /\ a < p BY <3>1, <3>4
    <3>6. {p} \cup S \subseteq 1..p BY <2>2, <3>5
    <3>7. 1 \in {p} \cup S
      <4>1. CASE p = 1 BY <4>1
      <4>2. CASE p # 1 BY <2>2, <3>1, <3>4, <4>2
      <4> QED BY <4>1, <4>2
    <3>8. p > 1 => h \in S BY <3>1, <3>4
    <3>9. \A a \in {p} \cup S : a > 1 => a \div 2 \in {p} \cup S BY <3>4, <3>8
    <3>10. \A a, b \in {p} \cup S : a < b => a <= b \div 2
      <4> SUFFICES ASSUME NEW a \in {p} \cup S, NEW b \in {p} \cup S, a < b PROVE a <= b \div 2
        OBVIOUS
      <4>1. a # p
        <5> SUFFICES ASSUME a = p PROVE FALSE OBVIOUS
        <5>1. b \in S BY <2>2
        <5> QED BY <3>1, <3>5, <5>1
      <4>2. a \in S BY <4>1
      <4>3. CASE b = p BY <3>5, <4>2, <4>3
      <4>4. CASE b \in S BY <3>4, <4>2, <4>4
      <4> QED BY <4>3, <4>4
    <3>11. \A a \in {p} \cup S : a < p => \E b \in {p} \cup S : b \div 2 = a /\ b > a
      <4> SUFFICES ASSUME NEW a \in {p} \cup S, a < p
                   PROVE  \E b \in {p} \cup S : b \div 2 = a /\ b > a
        OBVIOUS
      <4>1. a \in S BY <2>2
      <4>2. CASE a = h BY <3>1, <4>2
      <4>3. CASE a # h BY <3>1, <3>4, <3>5, <4>1, <4>3
      <4> QED BY <4>2, <4>3
    <3>12. PathOK(p) BY <3>3, <3>6, <3>7, <3>9, <3>10, <3>11 DEF PathOK
    <3> QED BY <3>12
  <2> QED BY <2>1, <2>2
<1> HIDE DEF Q
<1>2. \A p \in Nat : p \in Q BY <1>1, StrongInduction
<1> QED BY <1>2 DEF Q

-----------------------------------------------------------------------------
(* Heaps.                                                                  *)

LEMMA ToSetIs ==
  ASSUME NEW s \in Seq(Entry)
  PROVE  /\ ToSet(s) = {s[i] : i \in 1..Len(s)} /\ ToSet(s) \subseteq Entry
         /\ Len(s) \in Nat /\ \A i \in 1..Len(s) : s[i] \in Entry
BY DEF ToSet

LEMMA ArrayIs ==
  ASSUME NEW s, NEW k \in Nat, DOMAIN s = 1..k, s = [i \in 1..k |-> s[i]],
         \A i \in 1..k : s[i] \in Entry
  PROVE  s \in Seq(Entry) /\ Len(s) = k
<1>1. s \in [1..k -> Entry] OBVIOUS
<1> QED BY <1>1, SeqDef

\* heappush adds its entry to the array and keeps it a heap.
LEMMA PushFacts ==
  ASSUME NEW dir \in Dir, NEW h \in Seq(Entry), NEW x \in Entry
  PROVE  /\ HeapPush(dir, h, x) \in Seq(Entry)
         /\ Len(HeapPush(dir, h, x)) = Len(h) + 1
         /\ ToSet(HeapPush(dir, h, x)) = ToSet(h) \cup {x}
         /\ IsHeap(dir, h) => IsHeap(dir, HeapPush(dir, h, x))
<1> DEFINE n == Len(h) + 1
           path == PathToRoot[n]
           stops == {p \in path : p = 1 \/ ~Above(dir, x, h[p \div 2])}
           stop == Max(stops)
           g == [i \in 1..n |-> IF i = stop THEN x
                                ELSE IF i > stop /\ i \in path THEN h[i \div 2] ELSE h[i]]
<1>1. Len(h) \in Nat /\ n \in Nat /\ n > 0 /\ Len(h) = n - 1 OBVIOUS
<1>2. g = HeapPush(dir, h, x) BY DEF HeapPush
<1>3. \A i \in 1..(n - 1) : h[i] \in Entry BY <1>1
<1> HIDE DEF n
<1>4. PathOK(n) BY <1>1, PathFacts
<1>5. /\ path \subseteq 1..n /\ n \in path /\ 1 \in path
      /\ \A a \in path : a > 1 => a \div 2 \in path
      /\ \A a, b \in path : a < b => a <= b \div 2
      /\ \A a \in path : a < n => \E b \in path : b \div 2 = a /\ b > a
  BY <1>1, <1>4 DEF PathOK
<1> HIDE DEF path
<1>6. stop \in stops /\ \A p \in stops : p <= stop
  <2>1. stops # {} /\ stops \in SUBSET (0..n)
    <3>1. path \subseteq 0..n BY <1>1, <1>5
    <3> QED BY <1>5, <3>1
  <2> HIDE DEF stops
  <2> QED BY <1>1, <2>1, GreatestNumber
<1>7. stop \in path /\ stop \in 1..n /\ (stop > 1 => ~Above(dir, x, h[stop \div 2]))
  <2> HIDE DEF stop
  <2>1. stop \in path /\ (stop = 1 \/ ~Above(dir, x, h[stop \div 2])) BY <1>6
  <2> QED BY <1>5, <2>1
<1>8. \A p \in path : p > stop => p > 1 /\ Above(dir, x, h[p \div 2])
  <2> SUFFICES ASSUME NEW p \in path, p > stop PROVE p > 1 /\ Above(dir, x, h[p \div 2]) OBVIOUS
  <2>1. p \in Nat /\ stop \in Nat /\ stop > 0
    <3> HIDE DEF stop
    <3> QED BY <1>1, <1>5, <1>7
  <2>2. p \notin stops
    <3> HIDE DEF stops, stop
    <3>1. ~(p <= stop) BY <2>1
    <3> QED BY <1>6, <3>1
  <2> QED BY <2>1, <2>2
<1> HIDE DEF stops, stop
<1>9. g[stop] = x BY <1>7
<1>10. \A i \in 1..n : i # stop /\ i > stop /\ i \in path => g[i] = h[i \div 2] OBVIOUS
<1>11. \A i \in 1..n : i # stop /\ (i < stop \/ i \notin path) => g[i] = h[i]
  <2> SUFFICES ASSUME NEW i \in 1..n, i # stop, i < stop \/ i \notin path PROVE g[i] = h[i] OBVIOUS
  <2>1. ~(i > stop /\ i \in path) BY <1>7
  <2> QED BY <2>1
<1>12. DOMAIN g = 1..n /\ g = [i \in 1..n |-> g[i]] OBVIOUS
<1> HIDE DEF g
\* Which entry of h each position of g has.
<1>13. \A i \in 1..n : \/ i = stop /\ g[i] = x
                       \/ i > stop /\ i \in path /\ g[i] = h[i \div 2] /\ i \div 2 \in 1..(n - 1)
                       \/ (i < stop \/ (i > stop /\ i \notin path)) /\ g[i] = h[i] /\ i \in 1..(n - 1)
  <2> SUFFICES ASSUME NEW i \in 1..n
               PROVE  \/ i = stop /\ g[i] = x
                      \/ i > stop /\ i \in path /\ g[i] = h[i \div 2] /\ i \div 2 \in 1..(n - 1)
                      \/ (i < stop \/ (i > stop /\ i \notin path)) /\ g[i] = h[i] /\ i \in 1..(n - 1)
    OBVIOUS
  <2>1. i \in Nat /\ stop \in Nat /\ i > 0 /\ stop > 0 /\ i <= n /\ stop <= n BY <1>1, <1>7
  <2>2. CASE i = stop BY <1>9, <2>2
  <2>3. CASE i > stop /\ i \in path
    <3>1. i > 1 BY <2>1, <2>3
    <3>2. i \div 2 \in Nat /\ i \div 2 > 0 /\ i \div 2 < i BY <2>1, <3>1, Half
    <3>3. i \div 2 \in 1..(n - 1) BY <1>1, <2>1, <3>2
    <3> QED BY <1>10, <2>1, <2>3, <3>3
  <2>4. CASE i < stop \/ (i > stop /\ i \notin path)
    <3>1. i # n BY <1>5, <2>1, <2>4
    <3>2. i \in 1..(n - 1) BY <1>1, <2>1, <3>1
    <3> QED BY <1>11, <2>1, <2>4, <3>2
  <2> QED BY <2>1, <2>2, <2>3, <2>4
<1>14. g \in Seq(Entry) /\ Len(g) = n
  <2>1. \A i \in 1..n : g[i] \in Entry BY <1>3, <1>13
  <2> QED BY <1>1, <1>12, <2>1, ArrayIs
<1>15. ToSet(g) = ToSet(h) \cup {x}
  <2>1. ToSet(g) = {g[i] : i \in 1..n} /\ ToSet(h) = {h[i] : i \in 1..(n - 1)}
    BY <1>1, <1>14, ToSetIs
  <2>2. \A i \in 1..n : g[i] \in ToSet(h) \cup {x} BY <1>13, <2>1
  <2>3. x \in ToSet(g) BY <1>7, <1>9, <2>1
  <2>4. ASSUME NEW k \in 1..(n - 1) PROVE h[k] \in ToSet(g)
    <3>1. k \in Nat /\ stop \in Nat /\ k < n /\ k \in 1..n BY <1>1, <1>7
    <3>2. CASE k < stop \/ k \notin path BY <1>7, <1>11, <2>1, <3>1, <3>2
    <3>3. CASE k >= stop /\ k \in path
      <4>1. PICK b \in path : b \div 2 = k /\ b > k BY <1>5, <3>1, <3>3
      <4>2. b \in 1..n /\ b > stop /\ b # stop BY <1>1, <1>5, <3>1, <3>3, <4>1
      <4> QED BY <1>10, <2>1, <4>1, <4>2
    <3> QED BY <3>1, <3>2, <3>3
  <2> QED BY <2>1, <2>2, <2>3, <2>4
<1>16. ASSUME IsHeap(dir, h) PROVE IsHeap(dir, g)
  <2> SUFFICES ASSUME NEW i \in 2..n PROVE ~Above(dir, g[i], g[i \div 2]) BY <1>14 DEF IsHeap
  <2> DEFINE j == i \div 2
  <2>1. i \in 1..n /\ i \in Nat /\ stop \in Nat /\ i > 1 BY <1>1, <1>7
  <2>2. j \in Nat /\ j > 0 /\ j < i /\ j \in 1..(n - 1) /\ j \in 1..n
    <3>1. j \in Nat /\ j > 0 /\ j < i BY <2>1, Half
    <3> HIDE DEF j
    <3> QED BY <1>1, <2>1, <3>1
  <2>3. \A k \in 2..(n - 1) : ~Above(dir, h[k], h[k \div 2]) BY <1>1, <1>16 DEF IsHeap
  <2>4. \A k \in 1..(n - 1) : k > 1 => k \in 2..(n - 1) /\ k \div 2 \in 1..(n - 1) /\ h[k \div 2] \in Entry
    <3> SUFFICES ASSUME NEW k \in 1..(n - 1), k > 1
                 PROVE  k \in 2..(n - 1) /\ k \div 2 \in 1..(n - 1) /\ h[k \div 2] \in Entry
      OBVIOUS
    <3>1. k \in Nat BY <1>1
    <3>2. k \div 2 \in Nat /\ k \div 2 > 0 /\ k \div 2 < k BY <3>1, Half
    <3>3. k \div 2 \in 1..(n - 1) BY <1>1, <3>1, <3>2
    <3> QED BY <1>1, <1>3, <3>1, <3>3
  <2>5. h[j] \in Entry BY <1>3, <2>2
  <2>6. CASE i = stop
    <3>1. g[i] = x BY <1>9, <2>6
    <3>2. g[j] = h[j]
      <4>1. j < stop BY <2>2, <2>6
      <4> QED BY <1>13, <2>1, <2>2, <4>1
    <3> QED BY <1>7, <2>1, <2>6, <3>1, <3>2
  <2>7. CASE i > stop /\ i \in path
    <3>1. g[i] = h[j] /\ Above(dir, x, h[j]) BY <1>8, <1>10, <2>1, <2>7
    <3>2. j \in path /\ stop <= j BY <1>5, <1>7, <2>1, <2>7
    <3>3. CASE j = stop
      <4>1. g[j] = x BY <1>9, <3>3
      <4> QED BY <2>5, <3>1, <4>1, ScoreOrder
    <3>4. CASE j # stop
      <4>1. j > stop BY <2>1, <2>2, <3>2, <3>4
      <4>2. g[j] = h[j \div 2] BY <1>10, <2>2, <3>2, <3>4, <4>1
      <4>3. j > 1 BY <1>7, <2>1, <2>2, <4>1
      <4> HIDE DEF j
      <4>4. ~Above(dir, h[j], h[j \div 2]) BY <2>2, <2>3, <2>4, <4>3
      <4> QED BY <3>1, <4>2, <4>4 DEF j
    <3> QED BY <3>3, <3>4
  <2>8. CASE i < stop \/ (i > stop /\ i \notin path)
    <3>1. g[i] = h[i] /\ i \in 1..(n - 1)
      <4>1. i # stop /\ ~(i > stop /\ i \in path) BY <2>1, <2>8
      <4> QED BY <1>13, <2>1, <4>1
    <3>2. ~Above(dir, h[i], h[j]) /\ h[i] \in Entry BY <1>3, <2>1, <2>3, <2>4, <3>1
    <3> HIDE DEF j
    <3>3. CASE j = stop
      <4>1. g[j] = x BY <1>9, <3>3
      <4>2. j \in path /\ j < n BY <1>1, <1>7, <2>2, <3>3
      <4>3. PICK b \in path : b \div 2 = j /\ b > j BY <1>5, <4>2
      <4>4. Above(dir, x, h[j]) BY <1>8, <3>3, <4>3
      <4> QED BY <2>5, <3>1, <3>2, <4>1, <4>4, ScoreOrder DEF j
    <3>4. CASE j > stop /\ j \in path
      <4>1. g[j] = h[j \div 2] BY <1>10, <2>1, <2>2, <3>4
      <4>2. j > 1 BY <1>7, <2>1, <2>2, <3>4
      <4>3. ~Above(dir, h[j], h[j \div 2]) /\ h[j \div 2] \in Entry BY <2>2, <2>3, <2>4, <4>2
      <4> QED BY <2>5, <3>1, <3>2, <4>1, <4>3, ScoreOrder DEF j
    <3>5. CASE j < stop \/ (j > stop /\ j \notin path)
      <4>1. j # stop /\ ~(j > stop /\ j \in path) BY <2>1, <2>2, <3>5
      <4>2. g[j] = h[j] BY <1>13, <2>2, <4>1
      <4> QED BY <3>1, <3>2, <4>2 DEF j
    <3> QED BY <2>1, <2>2, <3>3, <3>4, <3>5
  <2> QED BY <2>1, <2>6, <2>7, <2>8
<1> QED BY <1>2, <1>14, <1>15, <1>16 DEF n

\* No entry whose parent is at p or after it is above that parent.
HeapFrom(dir, h, p) == \A i \in 2..Len(h) : i \div 2 >= p => ~Above(dir, h[i], h[i \div 2])

\* The entries at the other places.
Others(h, p) == {h[k] : k \in (1..Len(h)) \ {p}}

\* An entry that sinks from p replaces the one at p and leaves a heap from p on, when
\* the array was one from p + 1 on.
LEMMA SiftFacts ==
  ASSUME NEW dir \in Dir, NEW h \in Seq(Entry), NEW p \in 1..Len(h), NEW x \in Entry
  PROVE  /\ SiftDown(dir, h, p, x) \in Seq(Entry)
         /\ Len(SiftDown(dir, h, p, x)) = Len(h)
         /\ ToSet(SiftDown(dir, h, p, x)) = Others(h, p) \cup {x}
         /\ HeapFrom(dir, h, p + 1) => HeapFrom(dir, SiftDown(dir, h, p, x), p)
<1> DEFINE n == Len(h)
           Child(i) == IF 2 * i < n /\ Above(dir, h[2 * i + 1], h[2 * i]) THEN 2 * i + 1 ELSE 2 * i
           Def(f) == f = [i \in 1..n |->
                            IF 2 * i <= n /\ Above(dir, h[Child(i)], x) THEN f[Child(i)] ELSE i]
           sink == CHOOSE f : Def(f)
           stop == sink[p]
           path == PathToRoot[stop]
           g == [i \in 1..n |-> IF i = stop THEN x
                                ELSE IF i >= p /\ i \in path THEN h[Child(i)] ELSE h[i]]
<1>1. g = SiftDown(dir, h, p, x) BY DEF SiftDown
<1>2. n \in Nat /\ \A i \in 1..n : h[i] \in Entry OBVIOUS
<1> HIDE DEF n
<1>3. p \in 1..n /\ p \in Nat /\ p > 0 BY <1>2 DEF n
<1>4. \A i \in 1..n : 2 * i <= n => /\ Child(i) \in 1..n /\ Child(i) > i /\ Child(i) \div 2 = i
                                    /\ Child(i) \in Nat
  BY <1>2
<1>5. \A i \in 1..n : \A k \in 2..n :
        k \div 2 = i => 2 * i <= n /\ ~Above(dir, h[k], h[Child(i)])
  <2> SUFFICES ASSUME NEW i \in 1..n, NEW k \in 2..n, k \div 2 = i
               PROVE  2 * i <= n /\ ~Above(dir, h[k], h[Child(i)])
    OBVIOUS
  <2>1. k \in Nat /\ i \in Nat /\ (k = 2 * i \/ k = 2 * i + 1) BY <1>2, Half
  <2>2. 2 * i <= n BY <1>2, <2>1
  <2>3. 2 * i \in 1..n /\ h[2 * i] \in Entry BY <1>2, <2>1, <2>2
  <2>4. CASE k = 2 * i
    <3>1. CASE 2 * i < n /\ Above(dir, h[2 * i + 1], h[2 * i])
      <4>1. 2 * i + 1 \in 1..n /\ h[2 * i + 1] \in Entry BY <1>2, <2>1, <3>1
      <4>2. ~Above(dir, h[2 * i], h[2 * i + 1]) BY <2>3, <3>1, <4>1, ScoreOrder
      <4> QED BY <2>2, <2>4, <3>1, <4>2
    <3>2. CASE ~(2 * i < n /\ Above(dir, h[2 * i + 1], h[2 * i]))
      <4>1. Child(i) = k BY <2>4, <3>2
      <4>2. ~Above(dir, h[k], h[k]) BY <2>3, <2>4, ScoreOrder
      <4> QED BY <2>2, <4>1, <4>2
    <3> QED BY <3>1, <3>2
  <2>5. CASE k = 2 * i + 1
    <3>1. 2 * i < n /\ k \in 1..n /\ h[k] \in Entry BY <1>2, <2>1, <2>5
    <3>2. CASE Above(dir, h[2 * i + 1], h[2 * i])
      <4>1. Child(i) = k BY <2>5, <3>1, <3>2
      <4>2. ~Above(dir, h[k], h[k]) BY <3>1, ScoreOrder
      <4> QED BY <2>2, <4>1, <4>2
    <3>3. CASE ~Above(dir, h[2 * i + 1], h[2 * i])
      <4>1. Child(i) = 2 * i BY <3>3
      <4> QED BY <2>2, <2>5, <3>3, <4>1
    <3> QED BY <3>2, <3>3
  <2> QED BY <2>1, <2>4, <2>5
<1> HIDE DEF Child
<1> DEFINE C == {i \in 1..n : 2 * i <= n /\ Above(dir, h[Child(i)], x)}
<1>6. \E f : Def(f)
  <2> DEFINE to == [i \in C |-> Child(i)]
             base == [i \in 1..n |-> i]
             m == [i \in 1..n |-> n - i]
  <2>1. C \in SUBSET (1..n) OBVIOUS
  <2>2. to \in [C -> 1..n] /\ \A i \in C : to[i] = Child(i) BY <1>4
  <2>3. m \in [1..n -> 0..n] /\ \A i \in 1..n : m[i] = n - i BY <1>2
  <2>4. Falls(m, C, to)
    <3> SUFFICES ASSUME NEW i \in C PROVE m[to[i]] < m[i] BY DEF Falls
    <3>1. i \in 1..n /\ Child(i) \in 1..n /\ Child(i) > i /\ to[i] = Child(i) BY <1>4, <2>2
    <3>2. m[i] = n - i /\ m[to[i]] = n - Child(i) BY <2>3, <3>1
    <3> HIDE DEF m, to
    <3> QED BY <1>2, <3>1, <3>2
  <2>5. \A i \in 1..n : base[i] = i OBVIOUS
  <2> HIDE DEF to, m, base, C
  <2>6. PICK f : Solves(f, 1..n, C, to, base) BY <1>2, <2>1, <2>2, <2>3, <2>4, Recursion
  <2>7. \A i \in 1..n : f[i] = IF 2 * i <= n /\ Above(dir, h[Child(i)], x) THEN f[Child(i)] ELSE i
    BY <2>2, <2>5, <2>6 DEF C, Solves
  <2>8. f = [i \in 1..n |-> f[i]] BY <2>6 DEF Solves
  <2>9. Def(f) BY <2>7, <2>8
  <2> HIDE DEF Def
  <2> QED BY <2>9
<1>7. Def(sink) BY <1>6
<1> HIDE DEF sink
<1>8. \A i \in 1..n : sink[i] = IF i \in C THEN sink[Child(i)] ELSE i BY <1>7
<1> HIDE DEF C
\* The place it stops at, and what it passes on the way.
<1> DEFINE Way(i) ==
             /\ sink[i] \in 1..n /\ sink[i] >= i /\ sink[i] \notin C /\ i \in PathToRoot[sink[i]]
             /\ \A a \in PathToRoot[sink[i]] :
                  a > i => a \div 2 \in C /\ a = Child(a \div 2)
<1>9. \A i \in 1..n : Way(i)
  <2> DEFINE Q == {d \in Nat : \A i \in 1..n : n - i <= d => Way(i)}
  <2>1. ASSUME NEW d \in Nat, \A e \in Nat : e < d => e \in Q PROVE d \in Q
    <3> SUFFICES ASSUME NEW i \in 1..n, n - i <= d PROVE Way(i) OBVIOUS
    <3>1. CASE i \notin C
      <4>1. sink[i] = i BY <1>8, <3>1
      <4>2. i \in Nat /\ i > 0 BY <1>2
      <4>3. PathToRoot[i] \subseteq 1..i /\ i \in PathToRoot[i] BY <4>2, PathFacts DEF PathOK
      <4>4. \A a \in 1..i : ~(a > i) BY <4>2
      <4>5. i >= i BY <4>2
      <4> QED BY <3>1, <4>1, <4>3, <4>4, <4>5
    <3>2. CASE i \in C
      <4> DEFINE c == Child(i)
      <4>1. 2 * i <= n BY <3>2 DEF C
      <4>2. c \in 1..n /\ c > i /\ c \div 2 = i /\ c \in Nat /\ i \in Nat /\ i > 0 BY <1>2, <1>4, <4>1
      <4>3. sink[i] = sink[c] BY <1>8, <3>2
      <4>4. Way(c)
        <5> HIDE DEF c
        <5>1. n - c \in Nat /\ n - c < d BY <1>2, <4>2
        <5>2. n - c \in Q BY <2>1, <5>1
        <5> HIDE DEF Way
        <5>3. n - c <= n - c BY <5>1
        <5> QED BY <4>2, <5>2, <5>3
      <4> HIDE DEF c
      <4>5. /\ sink[c] \in 1..n /\ sink[c] >= c /\ sink[c] \notin C /\ c \in PathToRoot[sink[c]]
            /\ \A a \in PathToRoot[sink[c]] : a > c => a \div 2 \in C /\ a = Child(a \div 2)
        BY <4>4
      <4>6. sink[c] \in Nat /\ sink[c] >= i BY <1>2, <4>2, <4>5
      <4>7. PathOK(sink[c]) BY <4>6, PathFacts
      <4>8. i \in PathToRoot[sink[c]]
        <5>1. c > 1 BY <4>2
        <5> QED BY <4>2, <4>5, <4>7, <5>1 DEF PathOK
      <4>9. ASSUME NEW a \in PathToRoot[sink[c]], a > i PROVE a \div 2 \in C /\ a = Child(a \div 2)
        <5>1. a \in Nat BY <4>6, <4>7 DEF PathOK
        <5>2. CASE a > c BY <4>5, <5>2
        <5>3. CASE a = c BY <3>2, <4>2, <5>3 DEF c
        <5>4. CASE a < c
          <6>1. a <= c \div 2 BY <4>5, <4>7, <5>4 DEF PathOK
          <6> QED BY <4>2, <4>9, <5>1, <6>1
        <5> QED BY <4>2, <5>1, <5>2, <5>3, <5>4
      <4> QED BY <4>3, <4>5, <4>6, <4>8, <4>9
    <3> QED BY <3>1, <3>2
  <2> HIDE DEF Q
  <2>2. n \in Q BY <1>2, <2>1, StrongInduction
  <2> HIDE DEF Way
  <2>3. \A i \in 1..n : n - i <= n BY <1>2
  <2> QED BY <2>2, <2>3 DEF Q
<1>10. /\ stop \in 1..n /\ stop >= p /\ stop \notin C /\ p \in path /\ stop \in Nat /\ stop > 0
       /\ \A a \in path : a > p => a \div 2 \in C /\ a = Child(a \div 2)
  <2>1. Way(p) BY <1>3, <1>9
  <2> QED BY <1>2, <2>1
<1>11. PathOK(stop) BY <1>10, PathFacts
<1> HIDE DEF stop
<1>12. /\ path \subseteq 1..stop /\ stop \in path
       /\ \A a \in path : a > 1 => a \div 2 \in path
       /\ \A a, b \in path : a < b => a <= b \div 2
       /\ \A a \in path : a < stop => \E b \in path : b \div 2 = a /\ b > a
  BY <1>10, <1>11 DEF PathOK
<1> HIDE DEF path
<1>13. \A i \in path : i \in Nat /\ i > 0 /\ i <= stop /\ i \in 1..n BY <1>2, <1>10, <1>12
\* Between p and the place it stops at, the path goes to the child that is not below.
<1>14. \A a \in path : a >= p /\ a # stop =>
         /\ a \in C /\ Child(a) \in path /\ Child(a) > a /\ Child(a) \in 1..n
  <2> SUFFICES ASSUME NEW a \in path, a >= p, a # stop
               PROVE  a \in C /\ Child(a) \in path /\ Child(a) > a /\ Child(a) \in 1..n
    OBVIOUS
  <2>1. a \in Nat /\ a < stop BY <1>10, <1>13
  <2>2. PICK b \in path : b \div 2 = a /\ b > a BY <1>12, <2>1
  <2>3. b > p BY <1>3, <1>13, <2>1, <2>2
  <2>4. a \in C /\ b = Child(a) BY <1>10, <2>2, <2>3
  <2> QED BY <1>13, <2>2, <2>4
<1>15. g[stop] = x /\ DOMAIN g = 1..n /\ g = [i \in 1..n |-> g[i]] BY <1>10
<1>16. \A i \in 1..n : i # stop /\ i >= p /\ i \in path => g[i] = h[Child(i)] OBVIOUS
<1>17. \A i \in 1..n : i # stop /\ ~(i >= p /\ i \in path) => g[i] = h[i] OBVIOUS
<1> HIDE DEF g
<1>18. \A i \in 1..n : g[i] \in {h[k] : k \in (1..n) \ {p}} \cup {x}
  <2> SUFFICES ASSUME NEW i \in 1..n PROVE g[i] \in {h[k] : k \in (1..n) \ {p}} \cup {x} OBVIOUS
  <2>1. CASE i = stop BY <1>15, <2>1
  <2>2. CASE i # stop /\ i >= p /\ i \in path
    <3>1. Child(i) \in 1..n /\ Child(i) > i BY <1>14, <2>2
    <3>2. Child(i) # p BY <1>2, <1>3, <2>2, <3>1
    <3> QED BY <1>16, <2>2, <3>1, <3>2
  <2>3. CASE i # stop /\ ~(i >= p /\ i \in path)
    <3>1. i # p
      <4>1. p >= p BY <1>3
      <4> QED BY <1>10, <2>3, <4>1
    <3> QED BY <1>17, <2>3, <3>1
  <2> QED BY <2>1, <2>2, <2>3
<1>19. g \in Seq(Entry) /\ Len(g) = n
  <2>1. \A i \in 1..n : g[i] \in Entry BY <1>2, <1>18
  <2> QED BY <1>2, <1>15, <2>1, ArrayIs
<1>20. ToSet(g) = {h[k] : k \in (1..n) \ {p}} \cup {x}
  <2>1. ToSet(g) = {g[i] : i \in 1..n} BY <1>19, ToSetIs
  <2>2. x \in ToSet(g) BY <1>10, <1>15, <2>1
  <2>3. ASSUME NEW k \in 1..n, k # p PROVE h[k] \in ToSet(g)
    <3>1. k \in Nat BY <1>2
    <3>2. CASE k \in path /\ k > p
      <4>1. k \div 2 \in C /\ k = Child(k \div 2) BY <1>10, <3>2
      <4>2. k > 1 /\ k \div 2 \in Nat /\ k \div 2 < k BY <1>3, <3>1, <3>2, Half
      <4>3. k \div 2 \in path /\ k \div 2 \in 1..n BY <1>12, <1>13, <3>2, <4>2
      <4>4. k \div 2 >= p BY <1>3, <1>10, <1>12, <3>2
      <4>5. k \div 2 # stop BY <1>10, <4>1
      <4> QED BY <1>16, <2>1, <4>1, <4>3, <4>4, <4>5
    <3>3. CASE ~(k \in path /\ k > p)
      <4>1. ~(k \in path /\ k >= p) BY <1>3, <2>3, <3>1, <3>3
      <4>2. k # stop BY <1>10, <1>12, <4>1
      <4> QED BY <1>17, <2>1, <4>1, <4>2
    <3> QED BY <3>2, <3>3
  <2> QED BY <1>18, <2>1, <2>2, <2>3
<1>21. ASSUME HeapFrom(dir, h, p + 1) PROVE HeapFrom(dir, g, p)
  <2> SUFFICES ASSUME NEW k \in 2..n, k \div 2 >= p PROVE ~Above(dir, g[k], g[k \div 2])
    BY <1>19 DEF HeapFrom
  <2> DEFINE j == k \div 2
  <2>1. k \in Nat /\ k > 1 /\ k \in 1..n BY <1>2
  <2>2. j \in Nat /\ j > 0 /\ j < k /\ j >= p BY <2>1, Half
  <2>3. \A i \in 2..n : i \div 2 >= p + 1 => ~Above(dir, h[i], h[i \div 2])
    BY <1>21 DEF HeapFrom, n
  <2>4. 2 * j <= n /\ ~Above(dir, h[k], h[Child(j)])
    <3>1. j \in 1..n
      <4> HIDE DEF j
      <4> QED BY <1>2, <2>1, <2>2
    <3> QED BY <1>5, <3>1
  <2>5. j \in 1..n /\ h[j] \in Entry /\ h[k] \in Entry /\ Child(j) \in 1..n /\ h[Child(j)] \in Entry
    <3>1. j \in 1..n
      <4> HIDE DEF j
      <4> QED BY <1>2, <2>1, <2>2
    <3> HIDE DEF j
    <3> QED BY <1>2, <1>4, <2>1, <2>4, <3>1
  <2>6. CASE j = stop
    <3>1. k \notin path /\ k # stop
      <4>1. ~(k <= stop) BY <1>10, <2>1, <2>2, <2>6
      <4> QED BY <1>13, <1>10, <2>2, <2>6, <4>1
    <3>2. g[k] = h[k] /\ g[j] = x BY <1>15, <1>17, <2>1, <2>6, <3>1
    <3>3. ~Above(dir, h[Child(j)], x) BY <1>10, <2>4, <2>5, <2>6 DEF C
    <3> QED BY <2>4, <2>5, <3>2, <3>3, ScoreOrder
  <2>7. CASE j # stop /\ j \in path
    <3>1. j \in C /\ Child(j) \in path /\ g[j] = h[Child(j)] BY <1>14, <1>16, <2>2, <2>5, <2>7
    <3>2. CASE k = Child(j)
      <4>1. CASE k = stop
        <5>1. g[k] = x BY <1>15, <4>1
        <5>2. Above(dir, h[Child(j)], x) BY <3>1 DEF C
        <5>3. ~Above(dir, x, h[Child(j)]) BY <2>5, <5>2, ScoreOrder
        <5> QED BY <3>1, <5>1, <5>3
      <4>2. CASE k # stop
        <5>1. k >= p /\ k \in path BY <1>3, <2>1, <2>2, <3>1, <3>2
        <5>2. k \in C /\ Child(k) \in 1..n /\ Child(k) > k /\ g[k] = h[Child(k)]
          BY <1>14, <1>16, <2>1, <4>2, <5>1
        <5>3. 2 * k <= n BY <5>2 DEF C
        <5>4. Child(k) \div 2 = k /\ Child(k) \in 2..n /\ k >= p + 1
          <6>1. Child(k) \div 2 = k /\ Child(k) \in Nat BY <1>4, <2>1, <5>3
          <6> HIDE DEF j
          <6>2. Child(k) \in 2..n BY <1>2, <2>1, <5>2, <6>1
          <6>3. k >= p + 1 BY <1>3, <2>1, <2>2
          <6> QED BY <6>1, <6>2, <6>3
        <5>5. ~Above(dir, h[Child(k)], h[k]) BY <2>3, <5>4
        <5> QED BY <3>1, <3>2, <5>2, <5>5
      <4> QED BY <4>1, <4>2
    <3>3. CASE k # Child(j)
      <4>1. k \notin path
        <5> SUFFICES ASSUME k \in path PROVE FALSE OBVIOUS
        <5>1. k > p BY <1>3, <2>1, <2>2
        <5> QED BY <1>10, <3>3, <5>1
      <4>2. g[k] = h[k] BY <1>12, <1>17, <2>1, <4>1
      <4> QED BY <2>4, <3>1, <4>2
    <3> QED BY <3>2, <3>3
  <2>8. CASE j \notin path
    <3>1. k \notin path BY <1>12, <2>1, <2>8
    <3>2. g[j] = h[j] /\ g[k] = h[k] BY <1>12, <1>17, <2>1, <2>5, <2>8, <3>1
    <3>3. j >= p + 1
      <4>1. j # p BY <1>10, <2>8
      <4> HIDE DEF j
      <4> QED BY <1>3, <2>2, <4>1
    <3> QED BY <2>3, <3>2, <3>3
  <2> QED BY <2>6, <2>7, <2>8
<1> QED BY <1>1, <1>19, <1>20, <1>21 DEF n, Others

-----------------------------------------------------------------------------
(* Arrays without repetition.                                              *)

Once(s) == \A i, j \in 1..Len(s) : s[i] = s[j] => i = j

\* An array has no repetition when it has as many entries as places.
LEMMA OnceIs ==
  ASSUME NEW s \in Seq(Entry)
  PROVE  /\ IsFiniteSet(ToSet(s)) /\ Cardinality(ToSet(s)) \in Nat
         /\ Once(s) <=> Cardinality(ToSet(s)) = Len(s)
<1> DEFINE I == 1..Len(s)
           S == ToSet(s)
<1>1. Len(s) \in Nat /\ S = {s[i] : i \in I} BY ToSetIs
<1>2. IsFiniteSet(I) /\ Cardinality(I) = Len(s) BY <1>1, FS_Interval
<1>3. s \in [I -> S] BY <1>1
<1>4. s \in Surjection(I, S) BY <1>1, <1>3 DEF Surjection
<1>5. s \in Injection(I, S) <=> Once(s) BY <1>3 DEF Injection, IsInjective, Once
<1> HIDE DEF I, S
<1>6. IsFiniteSet(S) /\ (Cardinality(S) = Cardinality(I) <=> s \in Injection(I, S))
  BY <1>2, <1>4, FS_Surjection
<1>7. Cardinality(S) \in Nat BY <1>6, FS_CardinalityType
<1> QED BY <1>2, <1>5, <1>6, <1>7 DEF S

\* One more entry, or one entry less.
LEMMA OnceMore ==
  ASSUME NEW s \in Seq(Entry), NEW t \in Seq(Entry), NEW x, Once(s), x \notin ToSet(s),
         ToSet(t) = ToSet(s) \cup {x}, Len(t) = Len(s) + 1
  PROVE  Once(t)
<1>1. Cardinality(ToSet(s)) = Len(s) /\ IsFiniteSet(ToSet(s)) BY OnceIs
<1>2. Cardinality(ToSet(t)) = Len(s) + 1 BY <1>1, FS_AddElement
<1> QED BY <1>2, OnceIs

LEMMA OnceLess ==
  ASSUME NEW s \in Seq(Entry), NEW t \in Seq(Entry), NEW x, Once(t),
         ToSet(t) = ToSet(s) \cup {x}, Len(t) = Len(s) + 1
  PROVE  Once(s) /\ x \notin ToSet(s) /\ ToSet(s) = ToSet(t) \ {x}
<1>1. Cardinality(ToSet(t)) = Len(s) + 1 BY OnceIs
<1>2. IsFiniteSet(ToSet(s)) /\ Cardinality(ToSet(s)) \in Nat /\ Len(s) \in Nat BY OnceIs
<1>3. Cardinality(ToSet(t)) = IF x \in ToSet(s) THEN Cardinality(ToSet(s))
                              ELSE Cardinality(ToSet(s)) + 1
  BY <1>2, FS_AddElement
<1>4. Cardinality(ToSet(s)) <= Len(s)
  <2>1. s \in Surjection(1..Len(s), ToSet(s)) BY ToSetIs DEF Surjection
  <2>2. IsFiniteSet(1..Len(s)) /\ Cardinality(1..Len(s)) = Len(s)
    <3>1. 1 \in Int /\ Len(s) \in Int /\ Len(s) >= 0 BY <1>2
    <3>2. IsFiniteSet(1..Len(s))
          /\ Cardinality(1..Len(s)) = IF 1 > Len(s) THEN 0 ELSE Len(s) - 1 + 1
      BY <3>1, FS_Interval
    <3> QED BY <3>1, <3>2
  <2> QED BY <2>1, <2>2, FS_Surjection
<1>5. x \notin ToSet(s) BY <1>1, <1>2, <1>3, <1>4
<1>6. Cardinality(ToSet(s)) = Len(s) BY <1>1, <1>2, <1>3, <1>5
<1> QED BY <1>5, <1>6, OnceIs

\* The last entry of an array leaves.
LEMMA FrontFacts ==
  ASSUME NEW s \in Seq(Entry), s # <<>>
  PROVE  /\ Front(s) \in Seq(Entry) /\ Len(Front(s)) = Len(s) - 1 /\ Len(s) \in Nat /\ Len(s) > 0
         /\ \A i \in 1..(Len(s) - 1) : Front(s)[i] = s[i]
         /\ Last(s) = s[Len(s)] /\ Last(s) \in Entry
         /\ ToSet(s) = ToSet(Front(s)) \cup {Last(s)}
         /\ \A dir : IsHeap(dir, s) => IsHeap(dir, Front(s))
<1>1. Len(s) \in Nat /\ Len(s) > 0 OBVIOUS
<1> DEFINE f == Front(s)
           k == Len(s) - 1
<1>2. k \in Nat /\ Len(s) = k + 1 BY <1>1
<1>3. f \in Seq(Entry) /\ Len(f) = k /\ \A i \in 1..k : f[i] = s[i] BY <1>1 DEF Front
<1>4. Last(s) = s[Len(s)] /\ Last(s) \in Entry BY <1>1 DEF Last
<1> HIDE DEF f, k
<1>5. ToSet(s) = {s[i] : i \in 1..(k + 1)} /\ ToSet(f) = {f[i] : i \in 1..k}
  BY <1>2, <1>3, ToSetIs
<1>6. 1..(k + 1) = (1..k) \cup {k + 1} BY <1>2
<1>7. ToSet(s) = ToSet(f) \cup {Last(s)} BY <1>2, <1>3, <1>4, <1>5, <1>6
<1>8. ASSUME NEW dir, IsHeap(dir, s) PROVE IsHeap(dir, f)
  <2> SUFFICES ASSUME NEW i \in 2..k PROVE ~Above(dir, f[i], f[i \div 2]) BY <1>3 DEF IsHeap
  <2>1. i \in Nat /\ i > 1 BY <1>2
  <2>2. i \div 2 \in Nat /\ i \div 2 > 0 /\ i \div 2 < i BY <2>1, Half
  <2>3. i \in 1..k /\ i \div 2 \in 1..k /\ i \in 2..Len(s) BY <1>2, <2>1, <2>2
  <2> QED BY <1>3, <1>8, <2>3 DEF IsHeap
<1> QED BY <1>1, <1>3, <1>4, <1>7, <1>8 DEF f, k

\* heappop takes the root of the array and keeps the others a heap.
LEMMA PopFacts ==
  ASSUME NEW dir \in Dir, NEW h \in Seq(Entry), h # <<>>
  PROVE  /\ HeapPop(dir, h) \in Seq(Entry) /\ Len(HeapPop(dir, h)) = Len(h) - 1
         /\ ToSet(h) = ToSet(HeapPop(dir, h)) \cup {h[1]} /\ h[1] \in Entry
         /\ IsHeap(dir, h) => IsHeap(dir, HeapPop(dir, h))
<1> DEFINE n == Len(h) - 1
           f == Front(h)
<1>1. /\ f \in Seq(Entry) /\ Len(f) = n /\ n \in Nat /\ Len(h) = n + 1
      /\ \A i \in 1..n : f[i] = h[i]
      /\ Last(h) = h[n + 1] /\ Last(h) \in Entry
  BY FrontFacts
<1>2. h[1] \in Entry /\ ToSet(h) = {h[i] : i \in 1..(n + 1)} BY <1>1, ToSetIs
<1>3. HeapPop(dir, h) = IF n + 1 = 1 THEN <<>> ELSE SiftDown(dir, f, 1, Last(h))
  BY <1>1 DEF HeapPop
<1>10. ASSUME IsHeap(dir, h) PROVE IsHeap(dir, f) BY <1>10, FrontFacts
<1> HIDE DEF n, f
<1>4. CASE n = 0
  <2>1. HeapPop(dir, h) = <<>> BY <1>3, <1>4
  <2>2. ToSet(<<>>) = {} BY DEF ToSet
  <2>3. 1..(n + 1) = {1} BY <1>4
  <2>4. IsHeap(dir, <<>>) BY DEF IsHeap
  <2> QED BY <1>1, <1>2, <1>4, <2>1, <2>2, <2>3, <2>4
<1>5. CASE n > 0
  <2> DEFINE g == SiftDown(dir, f, 1, Last(h))
  <2>1. g = HeapPop(dir, h) BY <1>1, <1>3, <1>5
  <2>2. 1 \in 1..Len(f) BY <1>1, <1>5
  <2>3. /\ g \in Seq(Entry) /\ Len(g) = n
        /\ ToSet(g) = {f[k] : k \in (1..n) \ {1}} \cup {Last(h)}
        /\ HeapFrom(dir, f, 1 + 1) => HeapFrom(dir, g, 1)
    <3>1. /\ g \in Seq(Entry) /\ Len(g) = Len(f)
          /\ ToSet(g) = Others(f, 1) \cup {Last(h)}
          /\ HeapFrom(dir, f, 1 + 1) => HeapFrom(dir, g, 1)
      <4>1. f \in Seq(Entry) /\ Last(h) \in Entry BY <1>1
      <4>2. \A x \in Entry : \A p \in 1..Len(f) :
              /\ SiftDown(dir, f, p, x) \in Seq(Entry)
              /\ Len(SiftDown(dir, f, p, x)) = Len(f)
              /\ ToSet(SiftDown(dir, f, p, x)) = Others(f, p) \cup {x}
              /\ HeapFrom(dir, f, p + 1) => HeapFrom(dir, SiftDown(dir, f, p, x), p)
        BY <4>1, SiftFacts
      <4> QED BY <2>2, <4>1, <4>2
    <3> HIDE DEF g
    <3> QED BY <1>1, <3>1 DEF Others
  <2> HIDE DEF g
  <2>4. 1..(n + 1) = ((1..n) \ {1}) \cup {1} \cup {n + 1} BY <1>1, <1>5
  <2>5. ToSet(h) = ToSet(g) \cup {h[1]} BY <1>1, <1>2, <2>3, <2>4
  <2>6. ASSUME IsHeap(dir, h) PROVE IsHeap(dir, g)
    <3>1. HeapFrom(dir, f, 1 + 1) BY <1>10, <2>6 DEF HeapFrom, IsHeap
    <3>2. \A i \in 2..Len(g) : i \div 2 >= 1 BY <1>1, <2>3
    <3> QED BY <2>3, <3>1, <3>2 DEF HeapFrom, IsHeap
  <2> QED BY <1>1, <1>2, <2>1, <2>3, <2>5, <2>6
<1>6. n = 0 \/ n > 0 BY <1>1
<1> QED BY <1>4, <1>5, <1>6

\* Nothing is above the root.
LEMMA RootFacts ==
  ASSUME NEW dir \in Dir, NEW h \in Seq(Entry), IsHeap(dir, h)
  PROVE  \A x \in ToSet(h) : ~Above(dir, x, h[1])
<1> DEFINE Q == {i \in Nat : i \in 1..Len(h) => ~Above(dir, h[i], h[1])}
<1>1. ASSUME NEW i \in Nat, \A j \in Nat : j < i => j \in Q PROVE i \in Q
  <2> SUFFICES ASSUME i \in 1..Len(h) PROVE ~Above(dir, h[i], h[1]) OBVIOUS
  <2>1. h[i] \in Entry /\ 1 \in 1..Len(h) /\ h[1] \in Entry OBVIOUS
  <2>2. CASE i = 1 BY <2>1, <2>2, ScoreOrder
  <2>3. CASE i # 1
    <3>1. i > 1 BY <2>3
    <3>2. i \div 2 \in Nat /\ i \div 2 > 0 /\ i \div 2 < i BY <3>1, Half
    <3>3. i \div 2 \in 1..Len(h) /\ h[i \div 2] \in Entry BY <3>1, <3>2
    <3>4. ~Above(dir, h[i \div 2], h[1]) BY <1>1, <3>2, <3>3
    <3>5. ~Above(dir, h[i], h[i \div 2]) BY <3>1 DEF IsHeap
    <3> QED BY <2>1, <3>3, <3>4, <3>5, ScoreOrder
  <2> QED BY <2>2, <2>3
<1> HIDE DEF Q
<1>2. \A i \in Nat : i \in Q BY <1>1, StrongInduction
<1>3. \A i \in 1..Len(h) : ~Above(dir, h[i], h[1]) BY <1>2 DEF Q
<1> QED BY <1>3, ToSetIs

\* tbq_heapify makes a heap of the entries of any array.
LEMMA HeapifyFacts ==
  ASSUME NEW dir \in Dir, NEW h \in Seq(Entry)
  PROVE  /\ Heapify(dir, h) \in Seq(Entry) /\ Len(Heapify(dir, h)) = Len(h)
         /\ ToSet(Heapify(dir, h)) = ToSet(h) /\ IsHeap(dir, Heapify(dir, h))
<1> DEFINE n == Len(h)
           inner == n \div 2
           At2(k) == inner + 1 - k
           Step(k, d) == SiftDown(dir, d, At2(k), d[At2(k)])
           Def(f) == f = [k \in 0..inner |-> IF k = 0 THEN h ELSE Step(k, f[k - 1])]
           done == CHOOSE f : Def(f)
           X == {d \in Seq(Entry) : Len(d) = n /\ ToSet(d) = ToSet(h)}
<1>1. Heapify(dir, h) = done[inner] BY DEF Heapify
<1>2. n \in Nat /\ inner \in Nat /\ (n = 2 * inner \/ n = 2 * inner + 1) BY Half
<1>3. h \in X OBVIOUS
<1> HIDE DEF n, inner
<1>4. \A k \in 1..inner : At2(k) \in 1..n /\ At2(k) \in Nat /\ At2(k) + 1 = At2(k - 1) BY <1>2
<1> HIDE DEF At2
<1>5. ASSUME NEW k \in 1..inner, NEW d \in X
      PROVE  /\ Step(k, d) \in X
             /\ HeapFrom(dir, d, At2(k - 1)) => HeapFrom(dir, Step(k, d), At2(k))
  <2>1. d \in Seq(Entry) /\ Len(d) = n /\ ToSet(d) = ToSet(h) OBVIOUS
  <2>2. At2(k) \in 1..Len(d) /\ d[At2(k)] \in Entry BY <1>4, <2>1
  <2>3. \A p \in 1..Len(d) : \A x \in Entry :
          /\ SiftDown(dir, d, p, x) \in Seq(Entry)
          /\ Len(SiftDown(dir, d, p, x)) = Len(d)
          /\ ToSet(SiftDown(dir, d, p, x)) = Others(d, p) \cup {x}
          /\ HeapFrom(dir, d, p + 1) => HeapFrom(dir, SiftDown(dir, d, p, x), p)
    BY <2>1, SiftFacts
  <2>4. Others(d, At2(k)) \cup {d[At2(k)]} = ToSet(d) BY <2>1, <2>2, ToSetIs DEF Others
  <2>5. Step(k, d) \in Seq(Entry) /\ Len(Step(k, d)) = n /\ ToSet(Step(k, d)) = ToSet(h)
    BY <2>1, <2>2, <2>3, <2>4
  <2>6. HeapFrom(dir, d, At2(k) + 1) => HeapFrom(dir, Step(k, d), At2(k)) BY <2>2, <2>3
  <2> QED BY <1>4, <2>5, <2>6
<1> HIDE DEF Step, X
<1>6. \E f : Def(f)
  <2> DEFINE F == [t \in (1..inner) \X X |-> Step(t[1], t[2])]
  <2>1. F \in [(1..inner) \X X -> X] BY <1>5
  <2>2. \A k \in 1..inner : \A d \in X : F[<<k, d>>] = Step(k, d) OBVIOUS
  <2> HIDE DEF F
  <2>3. PICK f \in [0..inner -> X] : Iterates(f, inner, h, F) BY <1>2, <1>3, <2>1, Iteration
  <2>4. f[0] = h /\ \A k \in 1..inner : f[k] = F[<<k, f[k - 1]>>] BY <2>3 DEF Iterates
  <2>5. \A k \in 0..inner : f[k] = IF k = 0 THEN h ELSE Step(k, f[k - 1])
    <3> SUFFICES ASSUME NEW k \in 0..inner, k # 0 PROVE f[k] = Step(k, f[k - 1]) BY <2>4
    <3>1. k \in 1..inner /\ k - 1 \in 0..inner BY <1>2
    <3> QED BY <2>2, <2>3, <2>4, <3>1
  <2> QED BY <2>3, <2>5
<1>7. Def(done) BY <1>6
<1> HIDE DEF done
<1>8. done[0] = h /\ \A k \in 0..inner : k # 0 => done[k] = Step(k, done[k - 1])
  <2>1. \A k \in 0..inner : done[k] = IF k = 0 THEN h ELSE Step(k, done[k - 1]) BY <1>7
  <2>2. 0 \in 0..inner BY <1>2
  <2> QED BY <2>1, <2>2
<1> DEFINE L == {k \in Nat : k <= inner => done[k] \in X /\ HeapFrom(dir, done[k], At2(k))}
<1>9. 0 \in L
  <2>1. HeapFrom(dir, h, At2(0))
    <3> SUFFICES ASSUME NEW i \in 2..n, i \div 2 >= inner + 1 PROVE FALSE
      BY <1>2 DEF HeapFrom, n, At2
    <3>1. i \in Nat /\ i <= n /\ (i = 2 * (i \div 2) \/ i = 2 * (i \div 2) + 1) /\ i \div 2 \in Nat
      BY <1>2, Half
    <3> QED BY <1>2, <3>1
  <2> QED BY <1>3, <1>8, <2>1
<1>10. ASSUME NEW k \in Nat, k \in L PROVE k + 1 \in L
  <2> SUFFICES ASSUME k + 1 <= inner
               PROVE  done[k + 1] \in X /\ HeapFrom(dir, done[k + 1], At2(k + 1))
    OBVIOUS
  <2>1. k + 1 \in 1..inner /\ k + 1 \in 0..inner /\ k + 1 # 0 /\ (k + 1) - 1 = k /\ k <= inner
    BY <1>2
  <2>2. done[k] \in X /\ HeapFrom(dir, done[k], At2(k)) BY <1>10, <2>1
  <2>3. done[k + 1] = Step(k + 1, done[k]) BY <1>8, <2>1
  <2> QED BY <1>5, <2>1, <2>2, <2>3
<1> HIDE DEF L
<1>11. inner \in L BY <1>2, <1>9, <1>10, SetInduction
<1>12. done[inner] \in X /\ HeapFrom(dir, done[inner], 1)
  <2>1. inner <= inner /\ At2(inner) = 1 BY <1>2 DEF At2
  <2> QED BY <1>11, <2>1 DEF L
<1>13. done[inner] \in Seq(Entry) /\ Len(done[inner]) = n /\ ToSet(done[inner]) = ToSet(h)
  BY <1>12 DEF X
<1>14. IsHeap(dir, done[inner])
  <2>1. \A i \in 2..n : i \div 2 >= 1 BY <1>2
  <2> QED BY <1>12, <1>13, <2>1 DEF HeapFrom, IsHeap
<1> QED BY <1>1, <1>13, <1>14 DEF n

-----------------------------------------------------------------------------
(* Sorted arrays.                                                          *)

LEMMA AppendFacts ==
  ASSUME NEW s \in Seq(Entry), NEW x \in Entry
  PROVE  /\ Append(s, x) \in Seq(Entry) /\ Len(Append(s, x)) = Len(s) + 1
         /\ ToSet(Append(s, x)) = ToSet(s) \cup {x}
<1> DEFINE k == Len(s)
           g == Append(s, x)
<1>1. k \in Nat /\ g \in Seq(Entry) /\ Len(g) = k + 1 /\ g[k + 1] = x /\ \A i \in 1..k : g[i] = s[i]
  OBVIOUS
<1> HIDE DEF g
<1>2. ToSet(g) = {g[i] : i \in 1..(k + 1)} /\ ToSet(s) = {s[i] : i \in 1..k} BY <1>1, ToSetIs
<1> HIDE DEF k
<1>3. 1..(k + 1) = (1..k) \cup {k + 1} BY <1>1
<1>4. ToSet(g) = ToSet(s) \cup {x} BY <1>1, <1>2, <1>3
<1> QED BY <1>1, <1>4 DEF g, k

LEMMA PrependFacts ==
  ASSUME NEW s \in Seq(Entry), NEW x \in Entry
  PROVE  /\ <<x>> \o s \in Seq(Entry) /\ Len(<<x>> \o s) = Len(s) + 1
         /\ ToSet(<<x>> \o s) = ToSet(s) \cup {x}
<1> DEFINE k == Len(s)
           g == <<x>> \o s
<1>1. k \in Nat /\ g \in Seq(Entry) /\ Len(g) = k + 1 /\ g[1] = x /\ \A i \in 1..k : g[i + 1] = s[i]
  OBVIOUS
<1> HIDE DEF g
<1>2. ToSet(g) = {g[i] : i \in 1..(k + 1)} /\ ToSet(s) = {s[i] : i \in 1..k} BY <1>1, ToSetIs
<1> HIDE DEF k
<1>3. \A i \in 1..(k + 1) : i = 1 \/ (i - 1 \in 1..k /\ (i - 1) + 1 = i) BY <1>1
<1>4. 1 \in 1..(k + 1) /\ \A i \in 1..k : i + 1 \in 1..(k + 1) BY <1>1
<1>5. ToSet(g) \subseteq ToSet(s) \cup {x}
  <2> SUFFICES ASSUME NEW i \in 1..(k + 1) PROVE g[i] \in ToSet(s) \cup {x} BY <1>2
  <2>1. CASE i = 1 BY <1>1, <2>1
  <2>2. CASE i # 1
    <3>1. i - 1 \in 1..k /\ g[i] = s[i - 1] BY <1>1, <1>3, <2>2
    <3> QED BY <1>2, <3>1
  <2> QED BY <2>1, <2>2
<1>6. ToSet(s) \cup {x} \subseteq ToSet(g) BY <1>1, <1>2, <1>4
<1>7. ToSet(g) = ToSet(s) \cup {x} BY <1>5, <1>6
<1> QED BY <1>1, <1>7 DEF g, k

LEMMA TailFacts ==
  ASSUME NEW s \in Seq(Entry), s # <<>>
  PROVE  /\ Tail(s) \in Seq(Entry) /\ Len(Tail(s)) = Len(s) - 1 /\ Len(s) \in Nat /\ Len(s) > 0
         /\ s[1] \in Entry /\ ToSet(s) = ToSet(Tail(s)) \cup {s[1]}
         /\ Ascending(s) => Ascending(Tail(s)) /\ \A y \in ToSet(s) : s[1].score <= y.score
<1> DEFINE k == Len(s) - 1
           g == Tail(s)
<1>1. k \in Nat /\ Len(s) = k + 1 /\ s[1] \in Entry /\ g \in Seq(Entry) /\ Len(g) = k
      /\ \A i \in 1..k : g[i] = s[i + 1]
  OBVIOUS
<1> HIDE DEF g, k
<1>2. ToSet(g) = {g[i] : i \in 1..k} /\ ToSet(s) = {s[i] : i \in 1..(k + 1)} BY <1>1, ToSetIs
<1>3. \A i \in 1..(k + 1) : i = 1 \/ (i - 1 \in 1..k /\ (i - 1) + 1 = i) BY <1>1
<1>4. \A i \in 1..k : i + 1 \in 1..(k + 1) BY <1>1
<1>5. ToSet(s) = ToSet(g) \cup {s[1]}
  <2>1. ASSUME NEW i \in 1..(k + 1) PROVE s[i] \in ToSet(g) \cup {s[1]}
    <3>1. CASE i = 1 BY <3>1
    <3>2. CASE i # 1
      <4>1. i - 1 \in 1..k /\ g[i - 1] = s[i] BY <1>1, <1>3, <3>2
      <4> QED BY <1>2, <4>1
    <3> QED BY <3>1, <3>2
  <2>2. 1 \in 1..(k + 1) BY <1>1
  <2> QED BY <1>1, <1>2, <1>4, <2>1, <2>2
<1>6. ASSUME Ascending(s) PROVE Ascending(g) /\ \A y \in ToSet(s) : s[1].score <= y.score
  <2>1. \A i, j \in 1..(k + 1) : i < j => s[i].score <= s[j].score BY <1>1, <1>6 DEF Ascending
  <2>2. Ascending(g)
    <3> SUFFICES ASSUME NEW i \in 1..k, NEW j \in 1..k, i < j PROVE g[i].score <= g[j].score
      BY <1>1 DEF Ascending
    <3>1. i + 1 \in 1..(k + 1) /\ j + 1 \in 1..(k + 1) /\ i + 1 < j + 1 BY <1>1
    <3> QED BY <1>1, <2>1, <3>1
  <2>3. ASSUME NEW i \in 1..(k + 1) PROVE s[1].score <= s[i].score
    <3>1. CASE i = 1
      <4>1. s[1].score \in Nat BY <1>1 DEF Entry
      <4> QED BY <3>1, <4>1
    <3>2. CASE i # 1
      <4>1. 1 < i /\ 1 \in 1..(k + 1) BY <1>1, <3>2
      <4> QED BY <2>1, <4>1
    <3> QED BY <3>1, <3>2
  <2> QED BY <1>2, <2>2, <2>3
<1> QED BY <1>1, <1>5, <1>6 DEF g, k

LEMMA LastIsGreatest ==
  ASSUME NEW s \in Seq(Entry), s # <<>>, Ascending(s)
  PROVE  Ascending(Front(s)) /\ \A y \in ToSet(s) : y.score <= Last(s).score
<1> DEFINE k == Len(s)
<1>1. k \in Nat /\ k > 0 /\ k \in 1..k /\ s[k] \in Entry /\ Last(s) = s[k] BY FrontFacts
<1>2. \A i \in 1..(k - 1) : Front(s)[i] = s[i] BY FrontFacts
<1>3. Len(Front(s)) = k - 1 BY FrontFacts
<1>4. \A i, j \in 1..k : i < j => s[i].score <= s[j].score BY DEF Ascending
<1>5. ToSet(s) = {s[i] : i \in 1..k} BY ToSetIs
<1> HIDE DEF k
<1>6. \A i \in 1..(k - 1) : i \in 1..k BY <1>1
<1>7. Ascending(Front(s)) BY <1>2, <1>3, <1>4, <1>6 DEF Ascending
<1>8. ASSUME NEW i \in 1..k PROVE s[i].score <= s[k].score
  <2>1. CASE i = k
    <3>1. s[k].score \in Nat BY <1>1 DEF Entry
    <3> QED BY <2>1, <3>1
  <2>2. CASE i # k
    <3>1. i < k BY <1>1, <2>2
    <3> QED BY <1>1, <1>4, <3>1
  <2> QED BY <2>1, <2>2
<1> QED BY <1>1, <1>5, <1>7, <1>8

\* sorted_insert puts its entry into an ascending array and keeps it ascending.
LEMMA InsertFacts ==
  ASSUME NEW s \in Seq(Entry), NEW x \in Entry, Ascending(s)
  PROVE  /\ SortedInsert(s, x) \in Seq(Entry) /\ Len(SortedInsert(s, x)) = Len(s) + 1
         /\ ToSet(SortedInsert(s, x)) = ToSet(s) \cup {x} /\ Ascending(SortedInsert(s, x))
<1> DEFINE n == Len(s)
           D == (0..n) \X (0..n)
           Mid(w) == (w[1] + w[2]) \div 2
           To(w) == IF s[Mid(w) + 1].score < x.score THEN <<Mid(w) + 1, w[2]>> ELSE <<w[1], Mid(w)>>
           Def(f) == f = [w \in D |-> IF w[1] >= w[2] THEN w[1]
                                      ELSE IF s[Mid(w) + 1].score < x.score THEN f[<<Mid(w) + 1, w[2]>>]
                                           ELSE f[<<w[1], Mid(w)>>]]
           find == CHOOSE f : Def(f)
           at == find[<<0, n>>]
<1>1. SortedInsert(s, x) = InsertAt(s, at + 1, x) BY DEF SortedInsert
<1>2. n \in Nat /\ \A i \in 1..n : s[i] \in Entry OBVIOUS
<1>3. \A i, j \in 1..n : i < j => s[i].score <= s[j].score BY DEF Ascending
<1>4. x.score \in Nat /\ \A i \in 1..n : s[i].score \in Nat BY <1>2 DEF Entry
<1> HIDE DEF n
<1>5. \A l, r \in 0..n : l < r => /\ (l + r) \div 2 \in Nat /\ (l + r) \div 2 >= l
                                  /\ (l + r) \div 2 < r
  BY <1>2
<1> DEFINE C == {w \in D : w[1] < w[2]}
           m == [w \in D |-> IF w[1] < w[2] THEN w[2] - w[1] ELSE 0]
           to == [w \in C |-> To(w)]
           base == [w \in D |-> w[1]]
<1>6. ASSUME NEW w \in C
      PROVE  /\ w[1] \in 0..n /\ w[2] \in 0..n /\ w[1] < w[2]
             /\ Mid(w) \in Nat /\ Mid(w) >= w[1] /\ Mid(w) < w[2]
             /\ Mid(w) + 1 \in 1..n /\ Mid(w) + 1 \in 0..n /\ Mid(w) \in 0..n
  <2>1. w[1] \in 0..n /\ w[2] \in 0..n /\ w[1] < w[2] OBVIOUS
  <2>2. Mid(w) \in Nat /\ Mid(w) >= w[1] /\ Mid(w) < w[2] BY <1>5, <2>1
  <2> HIDE DEF Mid
  <2> QED BY <1>2, <2>1, <2>2
<1> HIDE DEF Mid
<1>7. \A w \in C : To(w) \in D BY <1>6
<1>8. ASSUME NEW w \in C PROVE m[To(w)] < m[w]
  <2>1. m[w] = w[2] - w[1] OBVIOUS
  <2>2. m[To(w)] = IF To(w)[1] < To(w)[2] THEN To(w)[2] - To(w)[1] ELSE 0 BY <1>7
  <2>3. CASE s[Mid(w) + 1].score < x.score
    <3>1. To(w)[1] = Mid(w) + 1 /\ To(w)[2] = w[2] BY <2>3
    <3> HIDE DEF To, m, C
    <3> QED BY <1>2, <1>6, <2>1, <2>2, <3>1
  <2>4. CASE ~(s[Mid(w) + 1].score < x.score)
    <3>1. To(w)[1] = w[1] /\ To(w)[2] = Mid(w) BY <2>4
    <3> HIDE DEF To, m, C
    <3> QED BY <1>2, <1>6, <2>1, <2>2, <3>1
  <2> QED BY <2>3, <2>4
<1>9. \E f : Def(f)
  <2>1. m \in [D -> 0..n]
    <3> SUFFICES ASSUME NEW w \in D PROVE (IF w[1] < w[2] THEN w[2] - w[1] ELSE 0) \in 0..n OBVIOUS
    <3>1. w[1] \in 0..n /\ w[2] \in 0..n OBVIOUS
    <3> QED BY <1>2, <3>1
  <2>2. to \in [C -> D] /\ \A w \in C : to[w] = To(w) BY <1>7
  <2>3. Falls(m, C, to)
    <3> HIDE DEF m, to, C
    <3> QED BY <1>8, <2>2 DEF Falls
  <2>4. C \in SUBSET D OBVIOUS
  <2>5. \A w \in D : base[w] = w[1] OBVIOUS
  <2>6. \A w \in D : w[1] >= w[2] <=> w \notin C
    <3> SUFFICES ASSUME NEW w \in D PROVE w[1] >= w[2] <=> ~(w[1] < w[2]) OBVIOUS
    <3>1. w[1] \in 0..n /\ w[2] \in 0..n OBVIOUS
    <3> QED BY <1>2, <3>1
  <2> HIDE DEF C, D, m, to, base
  <2>7. PICK f : Solves(f, D, C, to, base) BY <1>2, <2>1, <2>2, <2>3, <2>4, Recursion
  <2>8. \A w \in D : f[w] = IF w \in C THEN f[to[w]] ELSE base[w] BY <2>7 DEF Solves
  <2>9. \A w \in D : f[w] = IF w[1] >= w[2] THEN w[1]
                            ELSE IF s[Mid(w) + 1].score < x.score THEN f[<<Mid(w) + 1, w[2]>>]
                                 ELSE f[<<w[1], Mid(w)>>]
    <3> SUFFICES ASSUME NEW w \in D
                 PROVE  f[w] = IF w[1] >= w[2] THEN w[1]
                               ELSE IF s[Mid(w) + 1].score < x.score THEN f[<<Mid(w) + 1, w[2]>>]
                                    ELSE f[<<w[1], Mid(w)>>]
      OBVIOUS
    <3>1. CASE w \in C
      <4>1. f[w] = f[To(w)] /\ ~(w[1] >= w[2]) BY <2>2, <2>6, <2>8, <3>1
      <4>2. f[To(w)] = IF s[Mid(w) + 1].score < x.score THEN f[<<Mid(w) + 1, w[2]>>]
                       ELSE f[<<w[1], Mid(w)>>]
        OBVIOUS
      <4> HIDE DEF To
      <4> QED BY <4>1, <4>2
    <3>2. CASE w \notin C BY <2>5, <2>6, <2>8, <3>2
    <3> QED BY <3>1, <3>2
  <2> QED BY <2>7, <2>9 DEF Solves
<1>10. Def(find) BY <1>9
<1> HIDE DEF find
<1>11. \A w \in D : find[w] = IF w[1] >= w[2] THEN w[1] ELSE find[To(w)] BY <1>10
\* What lies left of the window is less, what lies right of it is not.
<1> DEFINE Between(l, r) == /\ \A i \in 1..l : s[i].score < x.score
                            /\ \A i \in (r + 1)..n : x.score <= s[i].score
           Q == {k \in Nat : \A w \in D : m[w] <= k /\ w[1] <= w[2] /\ Between(w[1], w[2])
                                => find[w] \in 0..n /\ Between(find[w], find[w])}
<1>12. ASSUME NEW k \in Nat, \A j \in Nat : j < k => j \in Q PROVE k \in Q
  <2> SUFFICES ASSUME NEW w \in D, m[w] <= k, w[1] <= w[2], Between(w[1], w[2])
               PROVE  find[w] \in 0..n /\ Between(find[w], find[w])
    OBVIOUS
  <2>1. w[1] \in 0..n /\ w[2] \in 0..n OBVIOUS
  <2>2. CASE w[1] >= w[2]
    <3>1. w[1] = w[2] BY <1>2, <2>1, <2>2
    <3>2. find[w] = w[1] BY <1>11, <2>2
    <3> HIDE DEF D, m, Between
    <3> QED BY <2>1, <3>1, <3>2
  <2>3. CASE ~(w[1] >= w[2])
    <3>1. w \in C BY <1>2, <2>1, <2>3
    <3>2. find[w] = find[To(w)] /\ To(w) \in D /\ m[To(w)] < m[w] BY <1>7, <1>8, <1>11, <2>3, <3>1
    <3>3. m[To(w)] \in Nat /\ m[w] \in Nat
      <4>1. To(w)[1] \in 0..n /\ To(w)[2] \in 0..n /\ To(w) \in D BY <3>2
      <4>2. m[To(w)] = IF To(w)[1] < To(w)[2] THEN To(w)[2] - To(w)[1] ELSE 0 BY <4>1
      <4>3. m[w] = IF w[1] < w[2] THEN w[2] - w[1] ELSE 0 OBVIOUS
      <4> HIDE DEF To, m, D
      <4> QED BY <1>2, <2>1, <4>1, <4>2, <4>3
    <3>4. To(w)[1] <= To(w)[2] /\ Between(To(w)[1], To(w)[2])
      <4>1. /\ Mid(w) \in Nat /\ Mid(w) >= w[1] /\ Mid(w) < w[2] /\ Mid(w) + 1 \in 1..n BY <1>6, <3>1
      <4>2. CASE s[Mid(w) + 1].score < x.score
        <5>1. To(w)[1] = Mid(w) + 1 /\ To(w)[2] = w[2] BY <4>2
        <5>2. ASSUME NEW i \in 1..(Mid(w) + 1) PROVE s[i].score < x.score
          <6>1. i \in 1..n BY <1>2, <4>1
          <6>2. CASE i = Mid(w) + 1 BY <4>2, <6>2
          <6>3. CASE i # Mid(w) + 1
            <7>1. i < Mid(w) + 1 BY <4>1, <6>3
            <7>2. s[i].score <= s[Mid(w) + 1].score BY <1>3, <4>1, <6>1, <7>1
            <7> QED BY <1>4, <4>1, <4>2, <6>1, <7>2
          <6> QED BY <6>2, <6>3
        <5> HIDE DEF To, D, m
        <5>3. Mid(w) + 1 <= w[2] BY <1>2, <2>1, <4>1
        <5> QED BY <5>1, <5>2, <5>3
      <4>3. CASE ~(s[Mid(w) + 1].score < x.score)
        <5>1. To(w)[1] = w[1] /\ To(w)[2] = Mid(w) BY <4>3
        <5>2. ASSUME NEW i \in (Mid(w) + 1)..n PROVE x.score <= s[i].score
          <6>1. i \in 1..n /\ x.score <= s[Mid(w) + 1].score BY <1>2, <1>4, <4>1, <4>3
          <6>2. CASE i = Mid(w) + 1 BY <6>1, <6>2
          <6>3. CASE i # Mid(w) + 1
            <7>1. Mid(w) + 1 < i BY <4>1, <6>3
            <7>2. s[Mid(w) + 1].score <= s[i].score BY <1>3, <4>1, <6>1, <7>1
            <7>3. s[Mid(w) + 1].score \in Nat /\ s[i].score \in Nat /\ x.score \in Nat BY <1>4, <4>1, <6>1
            <7> QED BY <6>1, <7>2, <7>3
          <6> QED BY <6>2, <6>3
        <5> HIDE DEF To, D, m
        <5> QED BY <4>1, <5>1, <5>2
      <4> QED BY <4>2, <4>3
    <3> HIDE DEF To, D, Between
    <3>5. m[To(w)] \in Q
      <4> HIDE DEF m
      <4>1. m[To(w)] < k BY <3>2, <3>3
      <4> QED BY <1>12, <3>3, <4>1
    <3>6. m[To(w)] <= m[To(w)]
      <4> HIDE DEF m
      <4> QED BY <3>3
    <3> HIDE DEF m
    <3>7. find[To(w)] \in 0..n /\ Between(find[To(w)], find[To(w)]) BY <3>2, <3>4, <3>5, <3>6
    <3> QED BY <3>2, <3>7
  <2> QED BY <2>2, <2>3
<1>13. at \in 0..n /\ Between(at, at)
  <2> HIDE DEF Q
  <2>1. \A k \in Nat : k \in Q BY <1>12, StrongInduction
  <2>2. <<0, n>> \in D /\ m[<<0, n>>] = (IF 0 < n THEN n - 0 ELSE 0) BY <1>2
  <2>3. m[<<0, n>>] <= n BY <1>2, <2>2
  <2>4. Between(0, n) BY <1>2
  <2>5. 0 <= n BY <1>2
  <2>6. n \in Q BY <1>2, <2>1
  <2> QED BY <2>2, <2>3, <2>4, <2>5, <2>6 DEF Q
<1> HIDE DEF at
<1> DEFINE g == InsertAt(s, at + 1, x)
<1>14. at \in Nat /\ at <= n BY <1>2, <1>13
<1>15. /\ g \in Seq(Entry) /\ Len(g) = n + 1 /\ g[at + 1] = x
       /\ \A i \in 1..at : g[i] = s[i]
       /\ \A i \in (at + 2)..(n + 1) : g[i] = s[i - 1]
  <2> DEFINE a == SubSeq(s, 1, at)
             b == SubSeq(s, at + 1, n)
  <2>1. a \in Seq(Entry) /\ Len(a) = at /\ \A i \in 1..at : a[i] = s[i] BY <1>2, <1>14 DEF n
  <2>2. b \in Seq(Entry) /\ Len(b) = n - at /\ \A i \in 1..(n - at) : b[i] = s[at + i]
    BY <1>2, <1>14 DEF n
  <2>3. g = a \o <<x>> \o b
    <3>1. (at + 1) - 1 = at BY <1>14
    <3> QED BY <3>1 DEF InsertAt, n
  <2> HIDE DEF a, b, g
  <2>4. a \o <<x>> \in Seq(Entry) /\ Len(a \o <<x>>) = at + 1 /\ (a \o <<x>>)[at + 1] = x
        /\ \A i \in 1..at : (a \o <<x>>)[i] = a[i]
    BY <1>14, <2>1
  <2> DEFINE c == a \o <<x>>
  <2> HIDE DEF c
  <2>5. c \in Seq(Entry) /\ Len(c) = at + 1 /\ c[at + 1] = x /\ \A i \in 1..at : c[i] = s[i]
    BY <2>1, <2>4 DEF c
  <2>6. g = c \o b BY <2>3 DEF c
  <2>7. g \in Seq(Entry) /\ Len(g) = n + 1
    <3>1. g \in Seq(Entry) /\ Len(g) = Len(c) + Len(b) BY <2>2, <2>5, <2>6, ConcatProperties
    <3> QED BY <1>2, <1>14, <2>2, <2>5, <3>1
  <2>8. g[at + 1] = x /\ \A i \in 1..at : g[i] = s[i]
    <3>1. \A i \in 1..Len(c) : g[i] = c[i] BY <2>2, <2>5, <2>6
    <3>2. at + 1 \in 1..Len(c) /\ \A i \in 1..at : i \in 1..Len(c) BY <1>14, <2>5
    <3> QED BY <2>5, <3>1, <3>2
  <2>9. ASSUME NEW i \in (at + 2)..(n + 1) PROVE g[i] = s[i - 1]
    <3>1. i - (at + 1) \in 1..(n - at) /\ at + (i - (at + 1)) = i - 1 BY <1>2, <1>14
    <3>2. g[i] = b[i - (at + 1)] BY <1>2, <1>14, <2>2, <2>5, <2>6
    <3> QED BY <2>2, <3>1, <3>2
  <2> QED BY <2>7, <2>8, <2>9
<1> HIDE DEF g
<1>16. \A i \in 1..(n + 1) : \/ i \in 1..at /\ g[i] = s[i] /\ i \in 1..n
                             \/ i = at + 1 /\ g[i] = x
                             \/ i \in (at + 2)..(n + 1) /\ g[i] = s[i - 1] /\ i - 1 \in (at + 1)..n
                                 /\ i - 1 \in 1..n
  BY <1>2, <1>14, <1>15
<1>17. ToSet(g) = ToSet(s) \cup {x}
  <2>1. ToSet(g) = {g[i] : i \in 1..(n + 1)} BY <1>15, ToSetIs
  <2>2. ToSet(s) = {s[i] : i \in 1..n} BY ToSetIs DEF n
  <2>3. \A i \in 1..(n + 1) : g[i] \in ToSet(s) \cup {x} BY <1>16, <2>2
  <2>4. at + 1 \in 1..(n + 1) BY <1>2, <1>14
  <2>5. ASSUME NEW i \in 1..n PROVE s[i] \in ToSet(g)
    <3>1. CASE i <= at
      <4>1. i \in 1..at /\ i \in 1..(n + 1) BY <1>2, <1>14, <3>1
      <4> QED BY <1>15, <2>1, <4>1
    <3>2. CASE i > at
      <4>1. i + 1 \in (at + 2)..(n + 1) /\ i + 1 \in 1..(n + 1) /\ (i + 1) - 1 = i BY <1>2, <1>14, <3>2
      <4> QED BY <1>15, <2>1, <4>1
    <3> QED BY <1>2, <1>14, <3>1, <3>2
  <2> QED BY <1>15, <2>1, <2>2, <2>3, <2>4, <2>5
<1>18. Ascending(g)
  <2> SUFFICES ASSUME NEW i \in 1..(n + 1), NEW j \in 1..(n + 1), i < j
               PROVE  g[i].score <= g[j].score
    BY <1>15 DEF Ascending
  <2>0. Between(at, at) BY <1>13
  <2>1. i \in Nat /\ j \in Nat BY <1>2
  <2>2. CASE i \in 1..at
    <3>1. g[i] = s[i] /\ i \in 1..n /\ s[i].score < x.score BY <1>2, <1>14, <1>15, <2>0, <2>2
    <3>2. CASE j \in 1..at /\ g[j] = s[j] /\ j \in 1..n BY <1>3, <3>1, <3>2
    <3>3. CASE j = at + 1 /\ g[j] = x BY <1>4, <3>1, <3>3
    <3>4. CASE j \in (at + 2)..(n + 1) /\ g[j] = s[j - 1] /\ j - 1 \in (at + 1)..n /\ j - 1 \in 1..n
      <4>1. x.score <= s[j - 1].score /\ s[j - 1].score \in Nat BY <1>4, <2>0, <3>4
      <4> QED BY <1>4, <3>1, <3>4, <4>1
    <3> QED BY <1>16, <3>2, <3>3, <3>4
  <2>3. CASE i = at + 1 /\ g[i] = x
    <3>1. j \in (at + 2)..(n + 1) BY <1>2, <1>14, <2>1, <2>3
    <3>2. g[j] = s[j - 1] /\ j - 1 \in (at + 1)..n BY <1>2, <1>14, <1>15, <3>1
    <3> QED BY <2>0, <2>3, <3>2
  <2>4. CASE i \in (at + 2)..(n + 1) /\ g[i] = s[i - 1] /\ i - 1 \in 1..n
    <3>1. j \in (at + 2)..(n + 1) /\ j - 1 \in 1..n /\ i - 1 < j - 1 BY <1>2, <1>14, <2>1, <2>4
    <3>2. g[j] = s[j - 1] BY <1>15, <3>1
    <3> QED BY <1>3, <2>4, <3>1, <3>2
  <2> QED BY <1>16, <2>2, <2>3, <2>4
<1> QED BY <1>1, <1>15, <1>17, <1>18 DEF n, g

\* No entry of X is better than one of Y.
NoneBetter(X, Y) == \A x \in X, y \in Y : x.score <= y.score

\* Two arrays share no entry and repeat none.
Apart(s, t) == Once(s) /\ Once(t) /\ ToSet(s) \cap ToSet(t) = {}

\* The bad pile has what the full runner-up buffer had no room for.
Ranked(r, ru, bd) == NoneBetter(ToSet(bd), ToSet(ru)) /\ (Len(ru) < r => bd = <<>>)

\* admit_to_runner_up loses nothing, and keeps the buffer sorted, bounded and ahead of
\* the bad pile.
LEMMA AdmitFacts ==
  ASSUME NEW r \in Nat, NEW ru \in Seq(Entry), NEW bd \in Seq(Entry), NEW x \in Entry,
         Ascending(ru), Len(ru) <= r
  PROVE  LET a == AdmitToRunnerUp(r, ru, bd, x)
         IN  /\ a.runner \in Seq(Entry) /\ a.bad \in Seq(Entry)
             /\ Ascending(a.runner) /\ Len(a.runner) <= r
             /\ ToSet(a.runner) \cup ToSet(a.bad) = ToSet(ru) \cup ToSet(bd) \cup {x}
             /\ Apart(ru, bd) /\ x \notin ToSet(ru) \cup ToSet(bd) => Apart(a.runner, a.bad)
             /\ Ranked(r, ru, bd) => Ranked(r, a.runner, a.bad)
<1> DEFINE a == AdmitToRunnerUp(r, ru, bd, x)
<1>1. x.score \in Nat /\ \A y \in Entry : y.score \in Nat BY DEF Entry
<1>2. ToSet(ru) \subseteq Entry /\ ToSet(bd) \subseteq Entry /\ Len(ru) \in Nat BY ToSetIs
<1>3. /\ Append(bd, x) \in Seq(Entry) /\ ToSet(Append(bd, x)) = ToSet(bd) \cup {x}
      /\ Len(Append(bd, x)) = Len(bd) + 1
  BY AppendFacts
<1>4. x \notin ToSet(bd) /\ Once(bd) => Once(Append(bd, x)) BY <1>3, OnceMore
<1>5. CASE r = 0
  <2>1. a.runner = ru /\ a.bad = Append(bd, x) BY <1>5 DEF AdmitToRunnerUp
  <2>2. ToSet(ru) = {} /\ ~(Len(ru) < r)
    <3>1. Len(ru) = 0 BY <1>2, <1>5
    <3>2. 1..Len(ru) = {} BY <3>1
    <3>3. ToSet(ru) = {ru[i] : i \in 1..Len(ru)} BY ToSetIs
    <3>4. ToSet(ru) = {} BY <3>2, <3>3
    <3> QED BY <1>5, <3>1, <3>4
  <2>3. Ranked(r, a.runner, a.bad) BY <2>1, <2>2 DEF Ranked, NoneBetter
  <2>4. Apart(ru, bd) /\ x \notin ToSet(ru) \cup ToSet(bd) => Apart(a.runner, a.bad)
    BY <1>3, <1>4, <2>1 DEF Apart
  <2> HIDE DEF a
  <2> QED BY <1>3, <2>1, <2>3, <2>4 DEF a
<1>6. CASE r # 0 /\ Len(ru) < r
  <2>1. a.runner = SortedInsert(ru, x) /\ a.bad = bd BY <1>6 DEF AdmitToRunnerUp
  <2>2. /\ SortedInsert(ru, x) \in Seq(Entry) /\ Len(SortedInsert(ru, x)) = Len(ru) + 1
        /\ ToSet(SortedInsert(ru, x)) = ToSet(ru) \cup {x} /\ Ascending(SortedInsert(ru, x))
    BY InsertFacts
  <2>3. Len(ru) + 1 <= r BY <1>2, <1>6
  <2>4. ToSet(<<>>) = {} BY DEF ToSet
  <2>5. Ranked(r, ru, bd) => Ranked(r, a.runner, a.bad)
    BY <1>6, <2>1, <2>4 DEF Ranked, NoneBetter
  <2>6. Apart(ru, bd) /\ x \notin ToSet(ru) \cup ToSet(bd) => Apart(a.runner, a.bad)
    <3>1. x \notin ToSet(ru) /\ Once(ru) => Once(SortedInsert(ru, x)) BY <2>2, OnceMore
    <3> QED BY <2>1, <2>2, <3>1 DEF Apart
  <2> HIDE DEF a
  <2> QED BY <2>1, <2>2, <2>3, <2>5, <2>6 DEF a
<1>7. CASE r # 0 /\ Len(ru) = r /\ x.score > ru[1].score
  <2> DEFINE t == Tail(ru)
             w == ru[1]
             u == SortedInsert(t, x)
             b == Append(bd, w)
  <2>1. a.runner = u /\ a.bad = b BY <1>7 DEF AdmitToRunnerUp
  <2>2. ru # <<>> BY <1>2, <1>7
  <2>3. /\ t \in Seq(Entry) /\ Len(t) = Len(ru) - 1 /\ w \in Entry
        /\ ToSet(ru) = ToSet(t) \cup {w} /\ Ascending(t)
        /\ \A y \in ToSet(ru) : w.score <= y.score
    BY <2>2, TailFacts
  <2> HIDE DEF t, w
  <2>4. /\ u \in Seq(Entry) /\ Len(u) = Len(t) + 1 /\ ToSet(u) = ToSet(t) \cup {x} /\ Ascending(u)
    BY <2>3, InsertFacts
  <2>5. b \in Seq(Entry) /\ Len(b) = Len(bd) + 1 /\ ToSet(b) = ToSet(bd) \cup {w}
    BY <2>3, AppendFacts
  <2> HIDE DEF u, b
  <2>6. Len(u) = r BY <1>2, <1>7, <2>3, <2>4
  <2>7. ASSUME Ranked(r, ru, bd) PROVE Ranked(r, u, b)
    <3>1. ~(Len(u) < r) BY <2>6
    <3>2. \A y \in ToSet(bd), z \in ToSet(ru) : y.score <= z.score
      BY <2>7 DEF Ranked, NoneBetter
    <3>3. ASSUME NEW y \in ToSet(b), NEW z \in ToSet(u) PROVE y.score <= z.score
      <4>1. w \in ToSet(ru) /\ y \in Entry /\ z \in Entry BY <1>2, <2>3, <2>4, <2>5, ToSetIs
      <4>2. CASE y = w
        <5>1. CASE z \in ToSet(t) BY <2>3, <4>2, <5>1
        <5>2. CASE z = x BY <1>1, <1>7, <2>3, <4>2, <5>2 DEF w
        <5> QED BY <2>4, <5>1, <5>2
      <4>3. CASE y \in ToSet(bd)
        <5>1. CASE z \in ToSet(t) BY <2>3, <3>2, <4>3, <5>1
        <5>2. CASE z = x
          <6>1. y.score <= w.score BY <3>2, <4>1, <4>3
          <6>2. y.score \in Nat /\ w.score \in Nat /\ w.score < x.score
            BY <1>1, <1>7, <2>3, <4>1 DEF w
          <6> QED BY <1>1, <5>2, <6>1, <6>2
        <5> QED BY <2>4, <5>1, <5>2
      <4> QED BY <2>5, <4>2, <4>3
    <3> QED BY <3>1, <3>3 DEF Ranked, NoneBetter
  <2>8. ASSUME Apart(ru, bd), x \notin ToSet(ru) \cup ToSet(bd) PROVE Apart(u, b)
    <3>1. Len(ru) = Len(t) + 1 BY <1>2, <2>3
    <3>2. Once(t) /\ w \notin ToSet(t) BY <2>3, <2>8, <3>1, OnceLess DEF Apart
    <3>3. Once(u) BY <2>3, <2>4, <2>8, <3>2, OnceMore
    <3>4. w \notin ToSet(bd) BY <2>3, <2>8 DEF Apart
    <3>5. Once(b) BY <2>5, <2>8, <3>4, OnceMore DEF Apart
    <3>6. ToSet(u) \cap ToSet(b) = {} BY <2>3, <2>4, <2>5, <2>8, <3>2 DEF Apart
    <3> QED BY <3>3, <3>5, <3>6 DEF Apart
  <2>9. ToSet(u) \cup ToSet(b) = ToSet(ru) \cup ToSet(bd) \cup {x} BY <2>3, <2>4, <2>5
  <2>10. Len(u) <= r BY <2>6
  <2> HIDE DEF a
  <2> QED BY <2>1, <2>4, <2>5, <2>7, <2>8, <2>9, <2>10 DEF a
<1>8. CASE r # 0 /\ Len(ru) = r /\ ~(x.score > ru[1].score)
  <2>1. a.runner = ru /\ a.bad = Append(bd, x) BY <1>8 DEF AdmitToRunnerUp
  <2>2. ru # <<>> BY <1>2, <1>8
  <2>3. \A y \in ToSet(ru) : ru[1].score <= y.score BY <2>2, TailFacts
  <2>4. ru[1] \in Entry BY <2>2, TailFacts
  <2>5. \A y \in ToSet(ru) : x.score <= y.score
    <3> SUFFICES ASSUME NEW y \in ToSet(ru) PROVE x.score <= y.score OBVIOUS
    <3>1. y.score \in Nat /\ ru[1].score \in Nat /\ ru[1].score <= y.score BY <1>1, <1>2, <2>3, <2>4
    <3> QED BY <1>1, <1>8, <3>1
  <2>6. ~(Len(ru) < r) BY <1>8
  <2>7. Ranked(r, ru, bd) => Ranked(r, ru, Append(bd, x))
    BY <1>3, <2>5, <2>6 DEF Ranked, NoneBetter
  <2>8. Apart(ru, bd) /\ x \notin ToSet(ru) \cup ToSet(bd) => Apart(ru, Append(bd, x))
    BY <1>3, <1>4 DEF Apart
  <2>9. ToSet(ru) \cup ToSet(Append(bd, x)) = ToSet(ru) \cup ToSet(bd) \cup {x} BY <1>3
  <2> HIDE DEF a
  <2> QED BY <1>3, <2>1, <2>7, <2>8, <2>9 DEF a
<1>9. Len(ru) < r \/ Len(ru) = r BY <1>2
<1> QED BY <1>5, <1>6, <1>7, <1>8, <1>9
-----------------------------------------------------------------------------
(* Refills.                                                                *)

\* The heap h is what a scan leaves that has seen the entries of X: at most m of them, and
\* none of the others is farther from the root than one of them.
Refills(dir, m, X, h) ==
  /\ h \in Seq(Entry) /\ IsHeap(dir, h) /\ Once(h) /\ Len(h) <= m
  /\ ToSet(h) \subseteq X
  /\ X # {} => h # <<>>
  /\ ToSet(h) # X => Len(h) = m
  /\ \A y \in X \ ToSet(h) : \A z \in ToSet(h) : ~Above(dir, z, y)

LEMMA ScanFacts ==
  ASSUME NEW dir \in Dir, NEW m \in Nat, NEW X \in SUBSET Entry, NEW h, NEW x \in Entry,
         m > 0, Refills(dir, m, X, h), x \notin X
  PROVE  LET p == HeapPush(dir, h, x)
         IN  Refills(dir, m, X \cup {x}, IF Len(p) > m THEN HeapPop(dir, p) ELSE p)
<1> DEFINE p == HeapPush(dir, h, x)
           q == HeapPop(dir, p)
<1>1. /\ h \in Seq(Entry) /\ IsHeap(dir, h) /\ Once(h) /\ Len(h) <= m /\ ToSet(h) \subseteq X
      /\ ToSet(h) # X => Len(h) = m
      /\ \A y \in X \ ToSet(h) : \A z \in ToSet(h) : ~Above(dir, z, y)
  BY DEF Refills
<1>2. /\ p \in Seq(Entry) /\ Len(p) = Len(h) + 1 /\ ToSet(p) = ToSet(h) \cup {x} /\ IsHeap(dir, p)
      /\ Len(h) \in Nat
  <2>1. Len(h) \in Nat BY <1>1
  <2> QED BY <1>1, <2>1, PushFacts
<1> HIDE DEF p
<1>3. Once(p) BY <1>1, <1>2, OnceMore
<1>4. CASE ~(Len(p) > m)
  <2>1. ToSet(p) = X \cup {x} BY <1>1, <1>2, <1>4
  <2>2. p # <<>> BY <1>2
  <2>3. Len(p) <= m BY <1>2, <1>4
  <2>4. Refills(dir, m, X \cup {x}, p) BY <1>2, <1>3, <2>1, <2>2, <2>3 DEF Refills
  <2> QED BY <1>4, <2>4 DEF p
<1>5. CASE Len(p) > m
  <2>1. Len(h) = m /\ p # <<>> BY <1>1, <1>2, <1>5
  <2>2. /\ q \in Seq(Entry) /\ Len(q) = Len(p) - 1 /\ ToSet(p) = ToSet(q) \cup {p[1]}
        /\ p[1] \in Entry /\ IsHeap(dir, q)
    BY <1>2, <2>1, PopFacts
  <2> HIDE DEF q
  <2>3. Len(q) = m /\ Len(p) = Len(q) + 1 BY <1>2, <2>1, <2>2
  <2>4. Once(q) /\ p[1] \notin ToSet(q) /\ ToSet(q) = ToSet(p) \ {p[1]}
    BY <1>2, <1>3, <2>2, <2>3, OnceLess
  <2>5. \A z \in ToSet(p) : ~Above(dir, z, p[1]) BY <1>2, RootFacts
  <2>6. q # <<>> /\ ToSet(q) \subseteq X \cup {x} /\ Len(q) <= m BY <1>1, <1>2, <2>3, <2>4
  <2>7. ASSUME NEW y \in (X \cup {x}) \ ToSet(q), NEW z \in ToSet(q) PROVE ~Above(dir, z, y)
    <3>1. CASE y = p[1] BY <2>4, <2>5, <3>1
    <3>2. CASE y # p[1]
      <4>1. y \in X \ ToSet(h) BY <1>2, <2>4, <3>2
      <4>2. CASE z \in ToSet(h) BY <1>1, <4>1, <4>2
      <4>3. CASE z = x
        <5>1. p[1] \in ToSet(h) BY <1>2, <2>2, <2>4, <4>3
        <5>2. ~Above(dir, x, p[1]) /\ ~Above(dir, p[1], y) BY <1>1, <1>2, <2>5, <4>1, <5>1
        <5>3. y \in Entry BY <4>1
        <5> QED BY <2>2, <4>3, <5>2, <5>3, ScoreOrder
      <4> QED BY <1>2, <2>4, <4>2, <4>3
    <3> QED BY <3>1, <3>2
  <2>8. Refills(dir, m, X \cup {x}, q) BY <2>2, <2>3, <2>4, <2>6, <2>7 DEF Refills
  <2> QED BY <1>5, <2>8 DEF p, q
<1> QED BY <1>4, <1>5

LEMMA RefillFacts ==
  ASSUME NEW dir \in Dir, NEW m \in Nat, NEW b \in Seq(Entry), m > 0, Once(b)
  PROVE  Refills(dir, m, ToSet(b), RefillFrom(dir, m, b))
<1> DEFINE n == Len(b)
           Seen(k) == {b[j] : j \in 1..k}
           Step(k, h) == IF Len(HeapPush(dir, h, b[k])) > m
                         THEN HeapPop(dir, HeapPush(dir, h, b[k])) ELSE HeapPush(dir, h, b[k])
           Def(f) == f = [k \in 0..n |-> IF k = 0 THEN <<>> ELSE Step(k, f[k - 1])]
           scan == CHOOSE f : Def(f)
           X == Seq(Entry)
<1>1. RefillFrom(dir, m, b) = scan[n] BY DEF RefillFrom
<1>2. n \in Nat /\ ToSet(b) = Seen(n) /\ \A k \in 1..n : b[k] \in Entry BY ToSetIs
<1>3. ASSUME NEW k \in 1..n PROVE b[k] \notin Seen(k - 1) /\ Seen(k) = Seen(k - 1) \cup {b[k]}
  <2>1. 1..k = (1..(k - 1)) \cup {k} /\ k \notin 1..(k - 1) /\ 1..(k - 1) \subseteq 1..n BY <1>2
  <2>2. \A i, j \in 1..n : b[i] = b[j] => i = j BY DEF Once
  <2> QED BY <2>1, <2>2
<1>4. \A k \in 0..n : Seen(k) \in SUBSET Entry BY <1>2
<1>5. <<>> \in X OBVIOUS
<1>6. \A k \in 1..n : \A h \in X : Step(k, h) \in X
  <2> SUFFICES ASSUME NEW k \in 1..n, NEW h \in X PROVE Step(k, h) \in X OBVIOUS
  <2> DEFINE p == HeapPush(dir, h, b[k])
  <2>0. Len(h) \in Nat OBVIOUS
  <2>1. p \in Seq(Entry) /\ Len(p) = Len(h) + 1 /\ Len(h) \in Nat BY <1>2, <2>0, PushFacts
  <2> HIDE DEF p
  <2>2. p # <<>> BY <2>1
  <2>3. HeapPop(dir, p) \in Seq(Entry) BY <2>1, <2>2, PopFacts
  <2> QED BY <2>1, <2>3 DEF p
<1>7. ASSUME NEW k \in 1..n, NEW h \in X, Refills(dir, m, Seen(k - 1), h)
      PROVE  Refills(dir, m, Seen(k), Step(k, h))
  <2>1. k - 1 \in 0..n /\ b[k] \in Entry BY <1>2
  <2>2. Seen(k - 1) \in SUBSET Entry BY <1>4, <2>1
  <2>3. b[k] \notin Seen(k - 1) /\ Seen(k) = Seen(k - 1) \cup {b[k]} BY <1>3
  <2> HIDE DEF Seen
  <2>4. \A S \in SUBSET Entry : \A x \in Entry : Refills(dir, m, S, h) /\ x \notin S =>
          Refills(dir, m, S \cup {x}, IF Len(HeapPush(dir, h, x)) > m
                                      THEN HeapPop(dir, HeapPush(dir, h, x)) ELSE HeapPush(dir, h, x))
    BY ScanFacts
  <2> QED BY <1>7, <2>1, <2>2, <2>3, <2>4
<1> HIDE DEF Step, X, n
<1>8. \E f : Def(f)
  <2> DEFINE F == [t \in (1..n) \X X |-> Step(t[1], t[2])]
  <2>1. F \in [(1..n) \X X -> X] BY <1>6
  <2>2. \A k \in 1..n : \A h \in X : F[<<k, h>>] = Step(k, h) OBVIOUS
  <2> HIDE DEF F
  <2>3. PICK f \in [0..n -> X] : Iterates(f, n, <<>>, F) BY <1>2, <1>5, <2>1, Iteration
  <2>4. f[0] = <<>> /\ \A k \in 1..n : f[k] = F[<<k, f[k - 1]>>] BY <2>3 DEF Iterates
  <2>5. \A k \in 0..n : f[k] = IF k = 0 THEN <<>> ELSE Step(k, f[k - 1])
    <3> SUFFICES ASSUME NEW k \in 0..n, k # 0 PROVE f[k] = Step(k, f[k - 1]) BY <2>4
    <3>1. k \in 1..n /\ k - 1 \in 0..n BY <1>2
    <3> QED BY <2>2, <2>3, <2>4, <3>1
  <2> QED BY <2>3, <2>5
<1>9. Def(scan) BY <1>8
<1> HIDE DEF scan
<1>10. scan[0] = <<>> /\ \A k \in 0..n : k # 0 => scan[k] = Step(k, scan[k - 1])
  <2>1. \A k \in 0..n : scan[k] = IF k = 0 THEN <<>> ELSE Step(k, scan[k - 1]) BY <1>9
  <2>2. 0 \in 0..n BY <1>2
  <2> QED BY <2>1, <2>2
<1> DEFINE L == {k \in Nat : k <= n => Refills(dir, m, Seen(k), scan[k])}
<1>11. 0 \in L
  <2>1. Seen(0) = {} OBVIOUS
  <2>2. ToSet(<<>>) = {} BY DEF ToSet
  <2>3. Refills(dir, m, Seen(0), <<>>) BY <2>1, <2>2 DEF Refills, IsHeap, Once
  <2> QED BY <1>10, <2>3
<1>12. ASSUME NEW k \in Nat, k \in L PROVE k + 1 \in L
  <2> SUFFICES ASSUME k + 1 <= n PROVE Refills(dir, m, Seen(k + 1), scan[k + 1]) OBVIOUS
  <2>1. k + 1 \in 1..n /\ k + 1 \in 0..n /\ k + 1 # 0 /\ (k + 1) - 1 = k /\ k <= n BY <1>2
  <2>2. Refills(dir, m, Seen(k), scan[k]) BY <1>12, <2>1
  <2>3. scan[k] \in X BY <2>2 DEF Refills, X
  <2>4. scan[k + 1] = Step(k + 1, scan[k]) BY <1>10, <2>1
  <2> HIDE DEF Seen
  <2> QED BY <1>7, <2>1, <2>2, <2>3, <2>4
<1> HIDE DEF L
<1>13. n \in L BY <1>2, <1>11, <1>12, SetInduction
<1>14. Refills(dir, m, Seen(n), scan[n]) BY <1>2, <1>13 DEF L
<1> QED BY <1>1, <1>2, <1>14

-----------------------------------------------------------------------------
(* The orders that the sort of a rebuild may leave.                        *)

\* The best entries of a set.
Best(X) == {x \in X : \A y \in X : y.score <= x.score}

Without(X, x) == X \ {x}

\* The orders of X, when g has those of the sets with one entry less.
Orders(g, X) ==
  IF X = {} THEN {<<>>} ELSE UNION {{<<x>> \o t : t \in g[Without(X, x)]} : x \in Best(X)}

LEMMA OrdersAgree ==
  ASSUME NEW g, NEW h, NEW X, \A x \in X : g[Without(X, x)] = h[Without(X, x)]
  PROVE  Orders(g, X) = Orders(h, X)
<1>1. \A x \in Best(X) : x \in X BY DEF Best
<1>2. \A x \in Best(X) : g[Without(X, x)] = h[Without(X, x)] BY <1>1
<1> DEFINE G(x) == {<<x>> \o t : t \in g[Without(X, x)]}
           H(x) == {<<x>> \o t : t \in h[Without(X, x)]}
<1>3. \A x \in Best(X) : G(x) = H(x) BY <1>2
<1>4. /\ Orders(g, X) = IF X = {} THEN {<<>>} ELSE UNION {G(x) : x \in Best(X)}
      /\ Orders(h, X) = IF X = {} THEN {<<>>} ELSE UNION {H(x) : x \in Best(X)}
  BY DEF Orders
<1> HIDE DEF G, H
<1>5. {G(x) : x \in Best(X)} = {H(x) : x \in Best(X)} BY <1>3
<1> QED BY <1>4, <1>5

LEMMA OrdersExist ==
  ASSUME NEW S, IsFiniteSet(S)
  PROVE  \E f : f = [X \in SUBSET S |-> Orders(f, X)]
<1> DEFINE Small(k) == {X \in SUBSET S : Cardinality(X) <= k}
           Part(f, k) == f = [X \in Small(k) |-> Orders(f, X)]
           K == {k \in Nat : \E f : Part(f, k)}
<1>1. \A X \in SUBSET S : IsFiniteSet(X) /\ Cardinality(X) \in Nat BY FS_Subset, FS_CardinalityType
<1>2. 0 \in K
  <2>1. \A X \in Small(0) : X = {} BY <1>1, FS_EmptySet
  <2> DEFINE f == [X \in Small(0) |-> {<<>>}]
  <2>2. \A X \in Small(0) : Orders(f, X) = {<<>>} BY <2>1 DEF Orders
  <2> HIDE DEF Small
  <2>3. Part(f, 0) BY <2>2
  <2> HIDE DEF f, Part
  <2> QED BY <2>3
<1>3. ASSUME NEW k \in Nat, k \in K PROVE k + 1 \in K
  <2>1. PICK f : Part(f, k) BY <1>3
  <2> DEFINE g == [X \in Small(k + 1) |-> Orders(f, X)]
  <2>2. \A X \in Small(k + 1) : \A x \in X : Without(X, x) \in Small(k) /\ Without(X, x) \in Small(k + 1)
    <3>1. ASSUME NEW X \in Small(k + 1), NEW x \in X
          PROVE  Without(X, x) \in Small(k) /\ Without(X, x) \in Small(k + 1)
      BY <1>1, FS_RemoveElement DEF Without
    <3> HIDE DEF Small
    <3> QED BY <3>1
  <2>3. \A X \in Small(k) : X \in Small(k + 1) BY <1>1
  <2> HIDE DEF Small
  <2>4. \A X \in Small(k) : g[X] = Orders(f, X) /\ f[X] = Orders(f, X)
    <3>1. \A X \in Small(k) : f[X] = Orders(f, X) BY <2>1
    <3> QED BY <2>3, <3>1
  <2> HIDE DEF g
  <2>5. \A X \in Small(k + 1) : \A x \in X : g[Without(X, x)] = f[Without(X, x)] BY <2>2, <2>4
  <2>6. \A X \in Small(k + 1) : Orders(g, X) = Orders(f, X) BY <2>5, OrdersAgree
  <2>7. Part(g, k + 1)
    <3>1. g = [X \in Small(k + 1) |-> Orders(f, X)] BY DEF g
    <3> QED BY <2>6, <3>1
  <2> HIDE DEF Part
  <2>8. \E w : Part(w, k + 1) BY <2>7
  <2> QED BY <2>8
<1>4. Cardinality(S) \in K
  <2>1. Cardinality(S) \in Nat BY FS_CardinalityType
  <2> HIDE DEF K
  <2> QED BY <1>2, <1>3, <2>1, SetInduction
<1>5. PICK f : Part(f, Cardinality(S)) BY <1>4
<1>6. Small(Cardinality(S)) = SUBSET S
  <2>1. \A X \in SUBSET S : Cardinality(X) <= Cardinality(S) BY FS_Subset
  <2> QED BY <2>1
<1> QED BY <1>5, <1>6

\* Whatever order the sort leaves, it has every entry once.
LEMMA SortFacts ==
  ASSUME NEW s \in Seq(Entry), Once(s), NEW t \in Tbq!SortedDesc(s)
  PROVE  t \in Seq(Entry) /\ ToSet(t) = ToSet(s) /\ Len(t) = Len(s) /\ Once(t)
<1> DEFINE S == ToSet(s)
           Def(f) == f = [X \in SUBSET S |-> Orders(f, X)]
           orders == CHOOSE f : Def(f)
           Right(u, X) == u \in Seq(Entry) /\ ToSet(u) = X /\ Len(u) = Cardinality(X)
           Q == {X \in SUBSET S : \A u \in orders[X] : Right(u, X)}
<1>1. Tbq!SortedDesc(s) = orders[S] BY DEF Tbq!SortedDesc, Tbq!ToSet, ToSet, Orders, Best, Without
<1>2. S \in SUBSET Entry /\ IsFiniteSet(S) BY ToSetIs, OnceIs
<1> HIDE DEF S
<1>3. \A X \in SUBSET S : orders[X] = Orders(orders, X)
  <2>1. \E f : Def(f) BY <1>2, OrdersExist
  <2>2. Def(orders) BY <2>1
  <2> HIDE DEF orders
  <2> QED BY <2>2
<1> HIDE DEF orders
<1>4. ASSUME NEW X \in SUBSET S, \A Y \in SUBSET X : Y # X => Y \in Q PROVE X \in Q
  <2> SUFFICES ASSUME NEW u \in orders[X] PROVE Right(u, X) OBVIOUS
  <2>1. u \in Orders(orders, X) BY <1>3
  <2>2. CASE X = {}
    <3>1. u = <<>> BY <2>1, <2>2 DEF Orders
    <3>2. ToSet(<<>>) = {} BY DEF ToSet
    <3> QED BY <2>2, <3>1, <3>2, FS_EmptySet
  <2>3. CASE X # {}
    <3>1. PICK x \in Best(X) : \E v \in orders[X \ {x}] : u = <<x>> \o v BY <2>1, <2>3 DEF Orders, Without
    <3>2. PICK v \in orders[X \ {x}] : u = <<x>> \o v BY <3>1
    <3>3. x \in X /\ x \in Entry BY <1>2, <3>1 DEF Best
    <3>4. X \ {x} \in Q BY <1>4, <3>3
    <3>5. v \in Seq(Entry) /\ ToSet(v) = X \ {x} /\ Len(v) = Cardinality(X \ {x}) BY <3>2, <3>4
    <3>6. IsFiniteSet(X) /\ Cardinality(X) = Cardinality(X \ {x}) + 1
      <4>1. IsFiniteSet(X) BY <1>2, FS_Subset
      <4>2. Cardinality(X) \in Nat /\ Cardinality(X \ {x}) = Cardinality(X) - 1
        BY <3>3, <4>1, FS_RemoveElement, FS_CardinalityType
      <4> QED BY <4>1, <4>2
    <3>7. u \in Seq(Entry) /\ Len(u) = Len(v) + 1 /\ ToSet(u) = ToSet(v) \cup {x}
      BY <3>2, <3>3, <3>5, PrependFacts
    <3> QED BY <3>3, <3>5, <3>6, <3>7
  <2> QED BY <2>2, <2>3
<1>5. S \in Q
  <2> HIDE DEF Q
  <2> QED BY <1>2, <1>4, SubsetInduction
<1>6. t \in Seq(Entry) /\ ToSet(t) = S /\ Len(t) = Cardinality(S) BY <1>1, <1>5
<1>7. Len(t) = Len(s) BY <1>6, OnceIs DEF S
<1> QED BY <1>6, <1>7, OnceIs DEF S

-----------------------------------------------------------------------------
(* Every implementation has its own copy of the array operations.          *)

LEMMA MhOps ==
  /\ \A dir, h, x : Mh!HeapPush(dir, h, x) = HeapPush(dir, h, x)
  /\ \A dir, h : Mh!HeapPop(dir, h) = HeapPop(dir, h)
  /\ Mh!Higher = Higher
<1>3. \A dir, h, x : Mh!HeapPush(dir, h, x) = HeapPush(dir, h, x)
  BY DEF Mh!HeapPush, HeapPush, Mh!PathToRoot, PathToRoot, Mh!Above, Above, Mh!Max, Max
<1>4. \A dir, h, p, x : Mh!SiftDown(dir, h, p, x) = SiftDown(dir, h, p, x)
  BY DEF Mh!SiftDown, SiftDown, Mh!PathToRoot, PathToRoot, Mh!Above, Above
<1>5. \A dir, h : Mh!HeapPop(dir, h) = HeapPop(dir, h)
  BY <1>4 DEF Mh!HeapPop, HeapPop, Mh!Front, Front, Mh!Last, Last
<1> QED BY <1>3, <1>5 DEF Mh!Higher, Higher

LEMMA TbqOps ==
  /\ \A dir, h, x : Tbq!HeapPush(dir, h, x) = HeapPush(dir, h, x)
  /\ \A dir, h : Tbq!HeapPop(dir, h) = HeapPop(dir, h)
  /\ \A dir, h : Tbq!IsHeap(dir, h) <=> IsHeap(dir, h)
  /\ \A s : Tbq!Front(s) = Front(s) /\ Tbq!Last(s) = Last(s) /\ Tbq!ToSet(s) = ToSet(s)
  /\ \A dir, h : Tbq!Heapify(dir, h) = Heapify(dir, h)
  /\ Tbq!Lower = Lower
<1>1. \A dir, h, x : Tbq!HeapPush(dir, h, x) = HeapPush(dir, h, x)
  BY DEF Tbq!HeapPush, HeapPush, Tbq!PathToRoot, PathToRoot, Tbq!Above, Above, Tbq!Max, Max
<1>2. \A dir, h : Tbq!HeapPop(dir, h) = HeapPop(dir, h)
  BY DEF Tbq!HeapPop, HeapPop, Tbq!Front, Front, Tbq!Last, Last, Tbq!SiftDown, SiftDown, Tbq!PathToRoot, PathToRoot, Tbq!Above, Above
<1>3. \A dir, h : Tbq!IsHeap(dir, h) <=> IsHeap(dir, h)
  BY DEF Tbq!IsHeap, IsHeap, Tbq!Above, Above
<1>4. \A s : Tbq!Front(s) = Front(s) /\ Tbq!Last(s) = Last(s) /\ Tbq!ToSet(s) = ToSet(s)
  BY DEF Tbq!Front, Front, Tbq!Last, Last, Tbq!ToSet, ToSet
<1>5. \A dir, h : Tbq!Heapify(dir, h) = Heapify(dir, h)
  BY DEF Tbq!Heapify, Heapify, Tbq!SiftDown, SiftDown, Tbq!PathToRoot, PathToRoot, Tbq!Above, Above
<1>6. Tbq!Lower = Lower
  BY DEF Tbq!Lower, Lower
<1> QED BY <1>1, <1>2, <1>3, <1>4, <1>5, <1>6

LEMMA RupOps ==
  /\ \A dir, h, x : Rup!HeapPush(dir, h, x) = HeapPush(dir, h, x)
  /\ \A dir, h : Rup!HeapPop(dir, h) = HeapPop(dir, h)
  /\ \A dir, h : Rup!IsHeap(dir, h) <=> IsHeap(dir, h)
  /\ \A s : Rup!Front(s) = Front(s) /\ Rup!Last(s) = Last(s) /\ Rup!ToSet(s) = ToSet(s)
  /\ \A s : Rup!Ascending(s) <=> Ascending(s)
  /\ \A r, ru, bd, x : Rup!AdmitToRunnerUp(r, ru, bd, x) = AdmitToRunnerUp(r, ru, bd, x)
  /\ \A dir, m, b : Rup!RefillFrom(dir, m, b) = RefillFrom(dir, m, b)
  /\ Rup!Lower = Lower
<1>1. \A dir, h, x : Rup!HeapPush(dir, h, x) = HeapPush(dir, h, x)
  BY DEF Rup!HeapPush, HeapPush, Rup!PathToRoot, PathToRoot, Rup!Above, Above, Rup!Max, Max
<1>2. \A dir, h : Rup!HeapPop(dir, h) = HeapPop(dir, h)
  BY DEF Rup!HeapPop, HeapPop, Rup!Front, Front, Rup!Last, Last, Rup!SiftDown, SiftDown, Rup!PathToRoot, PathToRoot, Rup!Above, Above
<1>3. \A dir, h : Rup!IsHeap(dir, h) <=> IsHeap(dir, h)
  BY DEF Rup!IsHeap, IsHeap, Rup!Above, Above
<1>4. \A s : Rup!Front(s) = Front(s) /\ Rup!Last(s) = Last(s) /\ Rup!ToSet(s) = ToSet(s)
  BY DEF Rup!Front, Front, Rup!Last, Last, Rup!ToSet, ToSet
<1>5. \A s : Rup!Ascending(s) <=> Ascending(s)
  BY DEF Rup!Ascending, Ascending
<1>6. \A r, ru, bd, x : Rup!AdmitToRunnerUp(r, ru, bd, x) = AdmitToRunnerUp(r, ru, bd, x)
  BY DEF Rup!AdmitToRunnerUp, AdmitToRunnerUp, Rup!SortedInsert, SortedInsert, Rup!InsertAt, InsertAt
<1>7. ASSUME NEW dir, NEW m, NEW b PROVE Rup!RefillFrom(dir, m, b) = RefillFrom(dir, m, b)
  BY ZenonT(60) DEF Rup!RefillFrom, RefillFrom, Rup!HeapPop, HeapPop, Rup!Front, Front, Rup!Last, Last, Rup!SiftDown, SiftDown,
         Rup!HeapPush, HeapPush, Rup!PathToRoot, PathToRoot, Rup!Above, Above, Rup!Max, Max
<1>8. Rup!Lower = Lower
  BY DEF Rup!Lower, Lower
<1> QED BY <1>1, <1>2, <1>3, <1>4, <1>5, <1>6, <1>7, <1>8

LEMMA MhbOps ==
  /\ \A dir, h, x : Mhb!HeapPush(dir, h, x) = HeapPush(dir, h, x)
  /\ \A dir, h : Mhb!HeapPop(dir, h) = HeapPop(dir, h)
  /\ \A dir, h : Mhb!IsHeap(dir, h) <=> IsHeap(dir, h)
  /\ \A s : Mhb!Front(s) = Front(s) /\ Mhb!Last(s) = Last(s) /\ Mhb!ToSet(s) = ToSet(s)
  /\ \A s : Mhb!Ascending(s) <=> Ascending(s)
  /\ \A r, ru, bd, x : Mhb!AdmitToRunnerUp(r, ru, bd, x) = AdmitToRunnerUp(r, ru, bd, x)
  /\ \A dir, m, b : Mhb!RefillFrom(dir, m, b) = RefillFrom(dir, m, b)
  /\ Mhb!Higher = Higher
<1>1. \A dir, h, x : Mhb!HeapPush(dir, h, x) = HeapPush(dir, h, x)
  BY DEF Mhb!HeapPush, HeapPush, Mhb!PathToRoot, PathToRoot, Mhb!Above, Above, Mhb!Max, Max
<1>2. \A dir, h : Mhb!HeapPop(dir, h) = HeapPop(dir, h)
  BY DEF Mhb!HeapPop, HeapPop, Mhb!Front, Front, Mhb!Last, Last, Mhb!SiftDown, SiftDown, Mhb!PathToRoot, PathToRoot, Mhb!Above, Above
<1>3. \A dir, h : Mhb!IsHeap(dir, h) <=> IsHeap(dir, h)
  BY DEF Mhb!IsHeap, IsHeap, Mhb!Above, Above
<1>4. \A s : Mhb!Front(s) = Front(s) /\ Mhb!Last(s) = Last(s) /\ Mhb!ToSet(s) = ToSet(s)
  BY DEF Mhb!Front, Front, Mhb!Last, Last, Mhb!ToSet, ToSet
<1>5. \A s : Mhb!Ascending(s) <=> Ascending(s)
  BY DEF Mhb!Ascending, Ascending
<1>6. \A r, ru, bd, x : Mhb!AdmitToRunnerUp(r, ru, bd, x) = AdmitToRunnerUp(r, ru, bd, x)
  BY DEF Mhb!AdmitToRunnerUp, AdmitToRunnerUp, Mhb!SortedInsert, SortedInsert, Mhb!InsertAt, InsertAt
<1>7. ASSUME NEW dir, NEW m, NEW b PROVE Mhb!RefillFrom(dir, m, b) = RefillFrom(dir, m, b)
  BY ZenonT(60) DEF Mhb!RefillFrom, RefillFrom, Mhb!HeapPop, HeapPop, Mhb!Front, Front, Mhb!Last, Last, Mhb!SiftDown, SiftDown,
         Mhb!HeapPush, HeapPush, Mhb!PathToRoot, PathToRoot, Mhb!Above, Above, Mhb!Max, Max
<1>8. Mhb!Higher = Higher
  BY DEF Mhb!Higher, Higher
<1> QED BY <1>1, <1>2, <1>3, <1>4, <1>5, <1>6, <1>7, <1>8

-----------------------------------------------------------------------------
(* Rebuilds.                                                               *)

LEMMA ConcatFacts ==
  ASSUME NEW g \in Seq(Entry), NEW b \in Seq(Entry), Apart(g, b)
  PROVE  /\ g \o b \in Seq(Entry) /\ Len(g \o b) = Len(g) + Len(b)
         /\ ToSet(g \o b) = ToSet(g) \cup ToSet(b) /\ Once(g \o b)
<1> DEFINE c == g \o b
           m == Len(g)
           n == Len(b)
<1>1. /\ m \in Nat /\ n \in Nat /\ c \in Seq(Entry) /\ Len(c) = m + n
      /\ \A i \in 1..m : c[i] = g[i]
      /\ \A i \in 1..n : c[m + i] = b[i]
  OBVIOUS
<1>2. ToSet(g) = {g[i] : i \in 1..m} /\ ToSet(b) = {b[i] : i \in 1..n} BY ToSetIs
<1>3. ToSet(c) = {c[i] : i \in 1..(m + n)} BY <1>1, ToSetIs
<1> HIDE DEF c, m, n
<1>4. \A i \in 1..(m + n) : i \in 1..m \/ (i - m \in 1..n /\ m + (i - m) = i) BY <1>1
<1>5. (\A i \in 1..m : i \in 1..(m + n)) /\ (\A i \in 1..n : m + i \in 1..(m + n)) BY <1>1
<1>6. ToSet(c) \subseteq ToSet(g) \cup ToSet(b)
  <2> SUFFICES ASSUME NEW i \in 1..(m + n) PROVE c[i] \in ToSet(g) \cup ToSet(b) BY <1>3
  <2>1. CASE i \in 1..m BY <1>1, <1>2, <2>1
  <2>2. CASE i - m \in 1..n /\ m + (i - m) = i
    <3>1. c[i] = b[i - m] BY <1>1, <2>2
    <3> QED BY <1>2, <2>2, <3>1
  <2> QED BY <1>4, <2>1, <2>2
<1>7. ToSet(g) \cup ToSet(b) \subseteq ToSet(c)
  <2>1. \A i \in 1..m : g[i] \in ToSet(c) BY <1>1, <1>3, <1>5
  <2>2. \A i \in 1..n : b[i] \in ToSet(c) BY <1>1, <1>3, <1>5
  <2> QED BY <1>2, <2>1, <2>2
<1>8. ToSet(c) = ToSet(g) \cup ToSet(b) BY <1>6, <1>7
<1>9. Once(c)
  <2>1. /\ IsFiniteSet(ToSet(g)) /\ IsFiniteSet(ToSet(b))
        /\ Cardinality(ToSet(g)) = m /\ Cardinality(ToSet(b)) = n
    BY OnceIs DEF Apart, m, n
  <2>2. Cardinality(ToSet(g) \cup ToSet(b)) = m + n
    <3>1. ToSet(g) \cap ToSet(b) = {} BY DEF Apart
    <3>2. Cardinality(ToSet(g) \cap ToSet(b)) = 0 BY <3>1, FS_EmptySet
    <3>3. Cardinality(ToSet(g) \cup ToSet(b)) =
            Cardinality(ToSet(g)) + Cardinality(ToSet(b)) - Cardinality(ToSet(g) \cap ToSet(b))
      BY <2>1, FS_Union
    <3> QED BY <1>1, <2>1, <3>2, <3>3
  <2> QED BY <1>1, <1>8, <2>2, OnceIs
<1> QED BY <1>1, <1>8, <1>9 DEF c, m, n

LEMMA SplitFacts ==
  ASSUME NEW c \in Seq(Entry), NEW k \in 0..Len(c), Once(c)
  PROVE  /\ SubSeq(c, 1, k) \in Seq(Entry) /\ Len(SubSeq(c, 1, k)) = k
         /\ SubSeq(c, k + 1, Len(c)) \in Seq(Entry) /\ Len(SubSeq(c, k + 1, Len(c))) = Len(c) - k
         /\ ToSet(SubSeq(c, 1, k)) \cup ToSet(SubSeq(c, k + 1, Len(c))) = ToSet(c)
         /\ Apart(SubSeq(c, 1, k), SubSeq(c, k + 1, Len(c)))
<1> DEFINE n == Len(c)
           l == n - k
           a == SubSeq(c, 1, k)
           b == SubSeq(c, k + 1, n)
<1>1. n \in Nat /\ k \in Nat /\ l \in Nat /\ k <= n OBVIOUS
<1>2. a \in Seq(Entry) /\ Len(a) = k /\ \A i \in 1..k : a[i] = c[i] BY <1>1
<1>3. b \in Seq(Entry) /\ Len(b) = l /\ \A i \in 1..l : b[i] = c[k + i]
  <2>1. \A i \in (k + 1)..n : c[i] \in Entry BY <1>1
  <2>2. b = [i \in 1..l |-> c[k + i]]
    <3>1. b = [i \in 1..(n - (k + 1) + 1) |-> c[i + (k + 1) - 1]] BY <1>1
    <3>2. n - (k + 1) + 1 = l BY <1>1
    <3>3. \A i \in 1..l : i + (k + 1) - 1 = k + i BY <1>1
    <3> QED BY <3>1, <3>2, <3>3
  <2>3. \A i \in 1..l : k + i \in (k + 1)..n BY <1>1
  <2> HIDE DEF b, l, n
  <2>4. b = [i \in 1..l |-> b[i]] /\ DOMAIN b = 1..l /\ \A i \in 1..l : b[i] = c[k + i] BY <2>2
  <2>5. \A i \in 1..l : b[i] \in Entry BY <2>1, <2>3, <2>4
  <2> QED BY <1>1, <2>4, <2>5, ArrayIs
<1>4. ToSet(c) = {c[i] : i \in 1..n} BY ToSetIs
<1>5. ToSet(a) = {a[i] : i \in 1..k} /\ ToSet(b) = {b[i] : i \in 1..l} BY <1>2, <1>3, ToSetIs
<1>6. \A i, j \in 1..n : c[i] = c[j] => i = j BY DEF Once
<1>7. /\ \A i \in 1..n : i \in 1..k \/ (i - k \in 1..l /\ k + (i - k) = i)
      /\ \A i \in 1..k : i \in 1..n
      /\ \A i \in 1..l : k + i \in 1..n
      /\ \A i \in 1..k : \A j \in 1..l : i # k + j
      /\ \A i, j \in 1..l : k + i = k + j => i = j
  BY <1>1
<1> HIDE DEF a, b, l, n
<1>8. Once(a) BY <1>2, <1>6, <1>7 DEF Once
<1>9. Once(b)
  <2>1. Len(b) = l BY <1>3
  <2> SUFFICES ASSUME NEW i \in 1..l, NEW j \in 1..l, b[i] = b[j] PROVE i = j BY <2>1 DEF Once
  <2>2. c[k + i] = c[k + j] BY <1>3
  <2>3. k + i = k + j BY <1>6, <1>7, <2>2
  <2> QED BY <1>7, <2>3
<1>10. ToSet(a) \cap ToSet(b) = {}
  <2> SUFFICES ASSUME NEW i \in 1..k, NEW j \in 1..l, a[i] = b[j] PROVE FALSE BY <1>5
  <2>1. c[i] = c[k + j] BY <1>2, <1>3
  <2>2. i \in 1..n /\ k + j \in 1..n /\ i # k + j BY <1>7
  <2> QED BY <1>6, <2>1, <2>2
<1>11. ToSet(a) \cup ToSet(b) \subseteq ToSet(c)
  <2>1. \A i \in 1..k : a[i] \in ToSet(c) BY <1>2, <1>4, <1>7
  <2>2. \A i \in 1..l : b[i] \in ToSet(c) BY <1>3, <1>4, <1>7
  <2> QED BY <1>5, <2>1, <2>2
<1>12. ToSet(c) \subseteq ToSet(a) \cup ToSet(b)
  <2> SUFFICES ASSUME NEW i \in 1..n PROVE c[i] \in ToSet(a) \cup ToSet(b) BY <1>4
  <2>1. CASE i \in 1..k BY <1>2, <1>5, <2>1
  <2>2. CASE i - k \in 1..l /\ k + (i - k) = i
    <3>1. b[i - k] = c[i] BY <1>3, <2>2
    <3> QED BY <1>5, <2>2, <3>1
  <2> QED BY <1>7, <2>1, <2>2
<1>13. ToSet(a) \cup ToSet(b) = ToSet(c) BY <1>11, <1>12
<1> QED BY <1>2, <1>3, <1>8, <1>9, <1>10, <1>13 DEF Apart, a, b, l, n

\* What the piles of a threshold_bucket queue keep.
TbqPiles(g, b) == /\ g \in Seq(Entry) /\ b \in Seq(Entry) /\ Apart(g, b)
                  /\ IsHeap(Lower, g) /\ Len(g) <= M

\* The piles that a rebuild makes of a sorted array hold its entries, and fit.
LEMMA RebuildFacts ==
  ASSUME QueueAssumption, NEW c \in Seq(Entry), Once(c)
  PROVE  LET take == IF M < Len(c) THEN M ELSE Len(c)
             g == Heapify(Lower, SubSeq(c, 1, take))
             b == SubSeq(c, take + 1, Len(c))
         IN  /\ TbqPiles(g, b) /\ ToSet(g) \cup ToSet(b) = ToSet(c)
             /\ Len(b) = Len(c) - take /\ Len(g) = take
<1> DEFINE take == IF M < Len(c) THEN M ELSE Len(c)
           a == SubSeq(c, 1, take)
           g == Heapify(Lower, a)
           b == SubSeq(c, take + 1, Len(c))
<1>1. Len(c) \in Nat /\ M \in Nat BY DEF QueueAssumption
<1>2. take \in 0..Len(c) /\ take <= M BY <1>1
<1> HIDE DEF take
<1>3. /\ a \in Seq(Entry) /\ Len(a) = take /\ b \in Seq(Entry) /\ Len(b) = Len(c) - take
      /\ ToSet(a) \cup ToSet(b) = ToSet(c) /\ Apart(a, b)
  BY <1>2, SplitFacts
<1> HIDE DEF a, b
<1>4. g \in Seq(Entry) /\ Len(g) = Len(a) /\ ToSet(g) = ToSet(a) /\ IsHeap(Lower, g)
  BY <1>3, HeapifyFacts DEF Dir
<1> HIDE DEF g
<1>5. Once(g) BY <1>3, <1>4, OnceIs DEF Apart
<1>6. TbqPiles(g, b) BY <1>2, <1>3, <1>4, <1>5 DEF TbqPiles, Apart
<1> QED BY <1>3, <1>4, <1>6 DEF take, a, b, g

\* Counting an operation, and the rebuild that may come with it, keeps the entries.
LEMMA CountOpFacts ==
  ASSUME QueueAssumption, NEW g, NEW b, NEW n \in Nat, TbqPiles(g, b), Tbq!CountOp(g, b, n)
  PROVE  /\ TbqPiles(good', bad') /\ ToSet(good') \cup ToSet(bad') = ToSet(g) \cup ToSet(b)
         /\ Len(bad') <= Len(b) /\ ops' \in Nat /\ (ops' < T \/ good' \o bad' = <<>>)
<1>0. T \in Nat /\ T > 0 /\ M \in Nat BY DEF QueueAssumption
<1>1. g \in Seq(Entry) /\ b \in Seq(Entry) /\ Apart(g, b) /\ Len(g) <= M BY DEF TbqPiles
<1>2. Len(b) \in Nat /\ Len(g) \in Nat BY <1>1
<1>3. CASE ~(n >= T)
  <2>1. good' = g /\ bad' = b /\ ops' = n BY <1>3 DEF Tbq!CountOp
  <2>2. n < T BY <1>0, <1>3
  <2>3. Len(b) <= Len(b) BY <1>2
  <2> QED BY <2>1, <2>2, <2>3
<1>4. CASE n >= T /\ g \o b = <<>>
  <2>1. good' = g /\ bad' = b /\ ops' = n BY <1>4 DEF Tbq!CountOp, Tbq!Rebuild
  <2>3. Len(b) <= Len(b) BY <1>2
  <2> QED BY <1>4, <2>1, <2>3
<1>5. CASE n >= T /\ g \o b # <<>>
  <2>1. PICK c \in Tbq!SortedDesc(g \o b) :
          LET take == IF M < Len(c) THEN M ELSE Len(c)
          IN  /\ good' = Tbq!Heapify(Tbq!Lower, SubSeq(c, 1, take))
              /\ bad' = SubSeq(c, take + 1, Len(c))
              /\ ops' = 0
    BY <1>5 DEF Tbq!CountOp, Tbq!Rebuild
  <2> DEFINE take == IF M < Len(c) THEN M ELSE Len(c)
  <2>2. good' = Heapify(Lower, SubSeq(c, 1, take)) /\ bad' = SubSeq(c, take + 1, Len(c)) /\ ops' = 0
    BY <2>1, TbqOps
  <2>3. /\ g \o b \in Seq(Entry) /\ Len(g \o b) = Len(g) + Len(b)
        /\ ToSet(g \o b) = ToSet(g) \cup ToSet(b) /\ Once(g \o b)
    BY <1>1, ConcatFacts
  <2>4. c \in Seq(Entry) /\ ToSet(c) = ToSet(g \o b) /\ Len(c) = Len(g \o b) /\ Once(c)
    BY <2>3, SortFacts
  <2>5. /\ TbqPiles(good', bad') /\ ToSet(good') \cup ToSet(bad') = ToSet(c)
        /\ Len(bad') = Len(c) - take
    BY <2>2, <2>4, RebuildFacts
  <2>6. Len(c) - take <= Len(b) BY <1>0, <1>1, <1>2, <2>3, <2>4
  <2>7. 0 \in Nat /\ 0 < T BY <1>0
  <2> HIDE DEF take
  <2> QED BY <2>2, <2>3, <2>4, <2>5, <2>6, <2>7
<1> QED BY <1>3, <1>4, <1>5

\* MinScore finds the least score of a pile.
LEMMA MinScoreFacts ==
  ASSUME NEW h \in Seq(Entry), h # <<>>
  PROVE  /\ Mhb!MinScore(h) \in Nat
         /\ \E x \in ToSet(h) : x.score = Mhb!MinScore(h)
         /\ \A x \in ToSet(h) : Mhb!MinScore(h) <= x.score
         /\ \A v \in Nat : /\ \E x \in ToSet(h) : x.score = v
                           /\ \A x \in ToSet(h) : v <= x.score
                           => v = Mhb!MinScore(h)
<1> DEFINE S == {x.score : x \in ToSet(h)}
           P(v) == v \in S /\ \A x \in ToSet(h) : v <= x.score
           least == CHOOSE v \in S : \A x \in ToSet(h) : v <= x.score
<1>1. Mhb!MinScore(h) = least BY MhbOps DEF Mhb!MinScore, Mhb!ToSet, ToSet
<1>2. ToSet(h) = {h[i] : i \in 1..Len(h)} /\ ToSet(h) \subseteq Entry /\ Len(h) \in Nat BY ToSetIs
<1>3. \A x \in ToSet(h) : x.score \in Nat BY <1>2 DEF Entry
<1>4. S \subseteq Nat /\ S # {}
  <2>1. 1 \in 1..Len(h) BY <1>2
  <2> QED BY <1>2, <1>3, <2>1
<1>5. PICK v \in S : \A w \in S : v <= w BY <1>4, LeastNumber
<1>6. P(v) BY <1>5
<1>7. P(least) BY <1>6
<1>8. least \in Nat /\ \E x \in ToSet(h) : x.score = least BY <1>4, <1>7
<1> HIDE DEF least
<1>9. ASSUME NEW w \in Nat, \E x \in ToSet(h) : x.score = w, \A x \in ToSet(h) : w <= x.score
      PROVE  w = least
  <2>1. PICK x \in ToSet(h) : x.score = w BY <1>9
  <2>2. PICK y \in ToSet(h) : y.score = least BY <1>8
  <2>3. least <= w /\ w <= least BY <1>7, <1>9, <2>1, <2>2
  <2> QED BY <1>8, <2>3
<1> QED BY <1>1, <1>7, <1>8, <1>9

-----------------------------------------------------------------------------
(* Tiers: a heap, a sorted runner-up buffer and a bad pile.                *)

LEMMA EmptyFacts ==
  /\ <<>> \in Seq(Entry) /\ Len(<<>>) = 0 /\ ToSet(<<>>) = {} /\ Once(<<>>) /\ Ascending(<<>>)
  /\ \A dir : IsHeap(dir, <<>>)
<1>1. <<>> \in Seq(Entry) /\ Len(<<>>) = 0 OBVIOUS
<1>2. ToSet(<<>>) = {} BY DEF ToSet
<1>3. Once(<<>>) /\ Ascending(<<>>) BY <1>1 DEF Once, Ascending
<1>4. \A dir : IsHeap(dir, <<>>) BY <1>1 DEF IsHeap
<1> QED BY <1>1, <1>2, <1>3, <1>4

\* The heap h is the heap g without its entry x.
Takes(dir, g, x, h) ==
  /\ h \in Seq(Entry) /\ IsHeap(dir, h) /\ Once(h) /\ Len(h) = Len(g) - 1
  /\ x \in ToSet(g) /\ x \in Entry /\ ToSet(h) = ToSet(g) \ {x}

\* Both ways to take an entry: the last leaf and the root.
LEMMA TakeFacts ==
  ASSUME NEW dir \in Dir, NEW g \in Seq(Entry), g # <<>>, IsHeap(dir, g), Once(g)
  PROVE  Takes(dir, g, Last(g), Front(g)) /\ Takes(dir, g, g[1], HeapPop(dir, g))
<1> DEFINE f == Front(g)
           p == HeapPop(dir, g)
           l == Last(g)
<1>1. /\ f \in Seq(Entry) /\ Len(f) = Len(g) - 1 /\ Len(g) \in Nat
      /\ l \in Entry /\ ToSet(g) = ToSet(f) \cup {l} /\ IsHeap(dir, f)
  BY FrontFacts
<1>2. /\ p \in Seq(Entry) /\ Len(p) = Len(g) - 1 /\ g[1] \in Entry
      /\ ToSet(g) = ToSet(p) \cup {g[1]} /\ IsHeap(dir, p)
  BY PopFacts
<1> HIDE DEF f, p, l
<1>3. Len(g) = Len(f) + 1 /\ Len(g) = Len(p) + 1 BY <1>1, <1>2
<1>4. Once(f) /\ l \notin ToSet(f) /\ ToSet(f) = ToSet(g) \ {l} BY <1>1, <1>3, OnceLess
<1>5. Once(p) /\ g[1] \notin ToSet(p) /\ ToSet(p) = ToSet(g) \ {g[1]} BY <1>2, <1>3, OnceLess
<1>6. Takes(dir, g, l, f) BY <1>1, <1>4 DEF Takes
<1>7. Takes(dir, g, g[1], p) BY <1>2, <1>5 DEF Takes
<1> QED BY <1>6, <1>7 DEF f, p, l

Tiers(dir, g, r, b) ==
  /\ g \in Seq(Entry) /\ r \in Seq(Entry) /\ b \in Seq(Entry)
  /\ Apart(g, r) /\ Apart(g, b) /\ Apart(r, b)
  /\ Len(g) <= M /\ IsHeap(dir, g) /\ Len(r) <= R /\ Ascending(r)
  /\ g = <<>> => r = <<>>

LEMMA TiersTypes ==
  ASSUME QueueAssumption, NEW dir, NEW g, NEW r, NEW b, Tiers(dir, g, r, b)
  PROVE  /\ M \in Nat /\ M > 0 /\ R \in Nat /\ Len(g) \in Nat /\ Len(r) \in Nat /\ Len(b) \in Nat
         /\ ToSet(g) \in SUBSET Entry /\ ToSet(r) \in SUBSET Entry /\ ToSet(b) \in SUBSET Entry
         /\ Once(g) /\ Once(r) /\ Once(b)
<1>1. g \in Seq(Entry) /\ r \in Seq(Entry) /\ b \in Seq(Entry) BY DEF Tiers
<1>2. M \in Nat /\ M > 0 /\ R \in Nat BY DEF QueueAssumption
<1>3. Once(g) /\ Once(r) /\ Once(b) BY DEF Tiers, Apart
<1>4. Len(g) \in Nat /\ Len(r) \in Nat /\ Len(b) \in Nat BY <1>1
<1> QED BY <1>1, <1>2, <1>3, <1>4, ToSetIs

\* An entry enters a good pile that has room.
LEMMA RoomFacts ==
  ASSUME NEW dir \in Dir, NEW g, NEW r, NEW b, NEW x \in Entry,
         QueueAssumption, Tiers(dir, g, r, b), Len(g) < M, x \notin ToSet(g) \cup ToSet(r) \cup ToSet(b)
  PROVE  LET h == HeapPush(dir, g, x)
         IN  Tiers(dir, h, r, b)
<1> DEFINE h == HeapPush(dir, g, x)
<1>1. M \in Nat /\ Len(g) \in Nat BY TiersTypes
<1>2. h \in Seq(Entry) /\ Len(h) = Len(g) + 1 /\ ToSet(h) = ToSet(g) \cup {x} /\ IsHeap(dir, h)
  BY PushFacts DEF Tiers
<1> HIDE DEF h
<1>3. Once(h) BY <1>2, OnceMore DEF Tiers, Apart
<1>4. Len(h) <= M /\ h # <<>> BY <1>1, <1>2
<1>5. Tiers(dir, h, r, b) BY <1>2, <1>3, <1>4 DEF Tiers, Apart
<1> QED BY <1>5 DEF h

\* An entry w comes from, or passes by, a full good pile h, and goes to the runners-up.
LEMMA FullFacts ==
  ASSUME QueueAssumption, NEW dir \in Dir, NEW g, NEW h \in Seq(Entry), NEW r, NEW b, NEW w \in Entry,
         Tiers(dir, g, r, b), IsHeap(dir, h), Once(h), Len(h) = M,
         w \notin ToSet(h) \cup ToSet(r) \cup ToSet(b),
         ToSet(h) \cap (ToSet(r) \cup ToSet(b)) = {}
  PROVE  LET a == AdmitToRunnerUp(R, r, b, w)
         IN  /\ Tiers(dir, h, a.runner, a.bad)
             /\ ToSet(a.runner) \cup ToSet(a.bad) = ToSet(r) \cup ToSet(b) \cup {w}
             /\ Ranked(R, r, b) => Ranked(R, a.runner, a.bad)
<1> DEFINE a == AdmitToRunnerUp(R, r, b, w)
           ar == a.runner
           ab == a.bad
<1>1. M \in Nat /\ M > 0 /\ R \in Nat BY TiersTypes
<1>2. r \in Seq(Entry) /\ b \in Seq(Entry) /\ Ascending(r) /\ Len(r) <= R /\ Apart(r, b) BY DEF Tiers
<1>3. /\ ar \in Seq(Entry) /\ ab \in Seq(Entry) /\ Ascending(ar) /\ Len(ar) <= R
      /\ ToSet(ar) \cup ToSet(ab) = ToSet(r) \cup ToSet(b) \cup {w}
      /\ Apart(ar, ab)
      /\ Ranked(R, r, b) => Ranked(R, ar, ab)
  BY <1>1, <1>2, AdmitFacts
<1> HIDE DEF ar, ab, a
<1>4. h # <<>> /\ Len(h) <= M BY <1>1
<1>5. Apart(h, ar) /\ Apart(h, ab) BY <1>3 DEF Apart
<1>6. Tiers(dir, h, ar, ab) BY <1>3, <1>4, <1>5 DEF Tiers
<1> QED BY <1>3, <1>6 DEF a, ar, ab

\* The root of a full good pile makes room for an entry.
LEMMA EvictFacts ==
  ASSUME NEW dir \in Dir, NEW g, NEW r, NEW b, NEW x \in Entry,
         QueueAssumption, Tiers(dir, g, r, b), ~(Len(g) < M), x \notin ToSet(g) \cup ToSet(r) \cup ToSet(b)
  PROVE  LET h == HeapPush(dir, HeapPop(dir, g), x)
             a == AdmitToRunnerUp(R, r, b, g[1])
         IN  /\ Tiers(dir, h, a.runner, a.bad) /\ Len(h) = M
             /\ g[1] \in ToSet(g) /\ ToSet(h) = (ToSet(g) \ {g[1]}) \cup {x}
             /\ ToSet(a.runner) \cup ToSet(a.bad) = ToSet(r) \cup ToSet(b) \cup {g[1]}
             /\ Ranked(R, r, b) => Ranked(R, a.runner, a.bad)
<1> DEFINE p == HeapPop(dir, g)
           h == HeapPush(dir, p, x)
           w == g[1]
<1>1. M \in Nat /\ M > 0 /\ Len(g) \in Nat BY TiersTypes
<1>2. g \in Seq(Entry) /\ IsHeap(dir, g) /\ Once(g) /\ Len(g) <= M BY DEF Tiers, Apart
<1>3. Len(g) = M /\ g # <<>> BY <1>1, <1>2
<1>4. Takes(dir, g, w, p) BY <1>2, <1>3, TakeFacts
<1> HIDE DEF p, w
<1>5. /\ p \in Seq(Entry) /\ IsHeap(dir, p) /\ Once(p) /\ Len(p) = Len(g) - 1
      /\ w \in ToSet(g) /\ w \in Entry /\ ToSet(p) = ToSet(g) \ {w}
  BY <1>4 DEF Takes
<1>6. h \in Seq(Entry) /\ Len(h) = Len(p) + 1 /\ ToSet(h) = ToSet(p) \cup {x} /\ IsHeap(dir, h)
  <2>1. /\ HeapPush(dir, p, x) \in Seq(Entry) /\ Len(HeapPush(dir, p, x)) = Len(p) + 1
        /\ ToSet(HeapPush(dir, p, x)) = ToSet(p) \cup {x}
        /\ IsHeap(dir, p) => IsHeap(dir, HeapPush(dir, p, x))
    <3>1. p \in Seq(Entry) BY <1>5
    <3> QED BY <3>1, PushFacts
  <2> QED BY <1>5, <2>1
<1> HIDE DEF h
<1>7. Once(h) BY <1>5, <1>6, OnceMore
<1>8. Len(h) = M BY <1>1, <1>3, <1>5, <1>6
<1>9. ToSet(g) \cap ToSet(r) = {} /\ ToSet(g) \cap ToSet(b) = {} BY DEF Tiers, Apart
<1>10. /\ w \notin ToSet(h) \cup ToSet(r) \cup ToSet(b)
       /\ ToSet(h) \cap (ToSet(r) \cup ToSet(b)) = {}
  BY <1>5, <1>6, <1>9
<1> DEFINE a == AdmitToRunnerUp(R, r, b, w)
<1>11. /\ Tiers(dir, h, a.runner, a.bad)
       /\ ToSet(a.runner) \cup ToSet(a.bad) = ToSet(r) \cup ToSet(b) \cup {w}
       /\ Ranked(R, r, b) => Ranked(R, a.runner, a.bad)
  BY <1>5, <1>6, <1>7, <1>8, <1>10, FullFacts
<1> HIDE DEF a
<1> QED BY <1>5, <1>6, <1>8, <1>11 DEF a, h, p, w

\* An entry that a full good pile does not take.
LEMMA PassFacts ==
  ASSUME NEW dir \in Dir, NEW g, NEW r, NEW b, NEW x \in Entry,
         QueueAssumption, Tiers(dir, g, r, b), ~(Len(g) < M), x \notin ToSet(g) \cup ToSet(r) \cup ToSet(b)
  PROVE  LET a == AdmitToRunnerUp(R, r, b, x)
         IN  /\ Tiers(dir, g, a.runner, a.bad) /\ Len(g) = M
             /\ ToSet(a.runner) \cup ToSet(a.bad) = ToSet(r) \cup ToSet(b) \cup {x}
             /\ Ranked(R, r, b) => Ranked(R, a.runner, a.bad)
<1>1. M \in Nat /\ M > 0 /\ Len(g) \in Nat BY TiersTypes
<1>2. g \in Seq(Entry) /\ IsHeap(dir, g) /\ Once(g) /\ Len(g) <= M BY DEF Tiers, Apart
<1>3. Len(g) = M BY <1>1, <1>2
<1>4. ToSet(g) \cap (ToSet(r) \cup ToSet(b)) = {} BY DEF Tiers, Apart
<1> DEFINE a == AdmitToRunnerUp(R, r, b, x)
<1>5. /\ Tiers(dir, g, a.runner, a.bad)
      /\ ToSet(a.runner) \cup ToSet(a.bad) = ToSet(r) \cup ToSet(b) \cup {x}
      /\ Ranked(R, r, b) => Ranked(R, a.runner, a.bad)
  BY <1>2, <1>3, <1>4, FullFacts
<1> HIDE DEF a
<1> QED BY <1>3, <1>5 DEF a

\* An entry leaves the good pile, and the best runner-up takes its place.
LEMMA PromoteFacts ==
  ASSUME QueueAssumption, NEW dir \in Dir, NEW g, NEW r, NEW b, NEW x, NEW h,
         Tiers(dir, g, r, b), Takes(dir, g, x, h)
  PROVE  /\ r = <<>> => Tiers(dir, h, r, b)
         /\ r # <<>> => /\ Tiers(dir, HeapPush(dir, h, Last(r)), Front(r), b)
                        /\ ToSet(HeapPush(dir, h, Last(r))) \cup ToSet(Front(r)) =
                             (ToSet(g) \cup ToSet(r)) \ {x}
<1>1. M \in Nat /\ M > 0 /\ Len(g) \in Nat /\ R \in Nat /\ Len(r) \in Nat BY TiersTypes
<1>2. /\ g \in Seq(Entry) /\ r \in Seq(Entry) /\ b \in Seq(Entry) /\ Len(g) <= M /\ Len(r) <= R
      /\ Apart(g, r) /\ Apart(g, b) /\ Apart(r, b) /\ Ascending(r)
  BY DEF Tiers
<1>3. /\ h \in Seq(Entry) /\ IsHeap(dir, h) /\ Once(h) /\ Len(h) = Len(g) - 1
      /\ x \in ToSet(g) /\ x \in Entry /\ ToSet(h) = ToSet(g) \ {x}
  BY DEF Takes
<1>4. Len(h) <= M /\ Len(h) + 1 <= M /\ Len(h) \in Nat
  <2>1. Len(h) \in Nat BY <1>3
  <2> QED BY <1>1, <1>2, <1>3, <2>1
<1>5. ASSUME r = <<>> PROVE Tiers(dir, h, r, b)
  <2>1. Apart(h, r) /\ Apart(h, b) BY <1>2, <1>3 DEF Apart
  <2> QED BY <1>2, <1>3, <1>4, <1>5, <2>1 DEF Tiers
<1>6. ASSUME r # <<>>
      PROVE  /\ Tiers(dir, HeapPush(dir, h, Last(r)), Front(r), b)
             /\ ToSet(HeapPush(dir, h, Last(r))) \cup ToSet(Front(r)) = (ToSet(g) \cup ToSet(r)) \ {x}
  <2> DEFINE f == Front(r)
             l == Last(r)
             q == HeapPush(dir, h, l)
  <2>1. f \in Seq(Entry) /\ Len(f) = Len(r) - 1 /\ l \in Entry /\ ToSet(r) = ToSet(f) \cup {l}
    BY <1>2, <1>6, FrontFacts
  <2>2. Ascending(f) BY <1>2, <1>6, LastIsGreatest
  <2> HIDE DEF f, l
  <2>3. Len(r) = Len(f) + 1 /\ Len(f) <= R
    <3>1. Len(f) \in Nat BY <2>1
    <3> QED BY <1>1, <1>2, <2>1, <3>1
  <2>4. Once(f) /\ l \notin ToSet(f) /\ ToSet(f) = ToSet(r) \ {l}
    BY <1>2, <2>1, <2>3, OnceLess DEF Apart
  <2>5. q \in Seq(Entry) /\ Len(q) = Len(h) + 1 /\ ToSet(q) = ToSet(h) \cup {l} /\ IsHeap(dir, q)
    <3>1. /\ HeapPush(dir, h, l) \in Seq(Entry) /\ Len(HeapPush(dir, h, l)) = Len(h) + 1
          /\ ToSet(HeapPush(dir, h, l)) = ToSet(h) \cup {l}
          /\ IsHeap(dir, h) => IsHeap(dir, HeapPush(dir, h, l))
      <4>1. h \in Seq(Entry) /\ l \in Entry BY <1>3, <2>1
      <4> QED BY <4>1, PushFacts
    <3> QED BY <1>3, <3>1
  <2> HIDE DEF q
  <2>6. l \notin ToSet(h) BY <1>2, <1>3, <2>1 DEF Apart
  <2>7. Once(q) BY <1>3, <2>1, <2>5, <2>6, OnceMore
  <2>8. Apart(q, f) /\ Apart(q, b) /\ Apart(f, b)
    BY <1>2, <1>3, <2>1, <2>4, <2>5, <2>7 DEF Apart
  <2>9. q # <<>> /\ Len(q) <= M BY <1>4, <2>5
  <2>10. Tiers(dir, q, f, b) BY <1>2, <2>1, <2>2, <2>3, <2>5, <2>8, <2>9 DEF Tiers
  <2>11. ToSet(q) \cup ToSet(f) = (ToSet(g) \cup ToSet(r)) \ {x}
    <3>1. x \notin ToSet(r) BY <1>2, <1>3 DEF Apart
    <3> QED BY <1>3, <2>1, <2>5, <3>1
  <2> QED BY <2>10, <2>11 DEF q, f, l
<1> QED BY <1>5, <1>6

-----------------------------------------------------------------------------
(* The invariant, and the steps of the promised queue.                     *)

Queued == ToSet(good) \cup ToSet(runner) \cup ToSet(bad)

\* The next id is the id of no queued entry.
Fresh == lastId \in Nat /\ \A x \in Queued : x.id \in Nat /\ x.id <= lastId

HeapInv == good \in Seq(Entry) /\ Once(good) /\ IsHeap(Higher, good) /\ runner = <<>> /\ bad = <<>>

TbqInv ==
  /\ TbqPiles(good, bad) /\ runner = <<>>
  /\ badCap \in Nat /\ badCap > 0 /\ Len(bad) <= badCap
  /\ ops \in Nat /\ (ops < T \/ good \o bad = <<>>)

\* While nothing was dequeued a tier that another one follows is full, and no entry is
\* better than those of the tiers before its own.
Top(g, r, b) ==
  /\ NoneBetter(ToSet(r) \cup ToSet(b), ToSet(g)) /\ Ranked(R, r, b)
  /\ Len(g) < M => r = <<>> /\ b = <<>>

RupInv ==
  /\ Tiers(Lower, good, runner, bad) /\ handed \in Nat
  /\ handed = 0 => Top(good, runner, bad)

MhbInv ==
  /\ Tiers(Higher, good, runner, bad) /\ handed \in Nat
  /\ filling \in BOOLEAN /\ threshold \in Nat
  /\ handed = 0 /\ good # <<>> => threshold = Mhb!MinScore(good)
  /\ handed = 0 /\ Len(good) < M => filling

QueueInv ==
  /\ impl \in Impl /\ Fresh
  /\ impl = "maxheap" => HeapInv
  /\ impl = "threshold_bucket" => TbqInv
  /\ impl = "runner_up" => RupInv
  /\ impl = "maxheap_bucket" => MhbInv

LEMMA NewEntry ==
  ASSUME QueueAssumption, Fresh, NEW s \in Score
  PROVE  [id |-> lastId + 1, score |-> s] \in Entry /\ [id |-> lastId + 1, score |-> s] \notin Queued
<1>1. s \in Nat /\ lastId \in Nat BY DEF QueueAssumption, Fresh
<1>2. ASSUME [id |-> lastId + 1, score |-> s] \in Queued PROVE FALSE
  <2>1. lastId + 1 <= lastId BY <1>2 DEF Fresh
  <2> QED BY <1>1, <2>1
<1> QED BY <1>1, <1>2 DEF Entry

LEMMA EnqueueStep ==
  ASSUME QueueAssumption, Fresh, NEW s \in Score,
         Queued' = Queued \cup {[id |-> lastId + 1, score |-> s]},
         lastId' = lastId + 1, out' = out, impl' = impl
  PROVE  Fresh' /\ Promise!CQEnqueue
<1> DEFINE x == [id |-> lastId + 1, score |-> s]
<1>1. Promise!CQEnqueue BY DEF Promise!CQEnqueue, Queued
<1>2. lastId \in Nat /\ lastId' = lastId + 1 BY DEF Fresh
<1>3. \A y \in Queued : y.id \in Nat /\ y.id <= lastId BY DEF Fresh
<1>4. ASSUME NEW y \in Queued' PROVE y.id \in Nat /\ y.id <= lastId'
  <2>1. CASE y \in Queued
    <3>1. y.id \in Nat /\ y.id <= lastId BY <1>3, <2>1
    <3> QED BY <1>2, <3>1
  <2>2. CASE y = x
    <3>1. y.id = lastId + 1 BY <2>2
    <3> QED BY <1>2, <3>1
  <2> QED BY <2>1, <2>2
<1>5. Fresh' BY <1>2, <1>4 DEF Fresh
<1> QED BY <1>1, <1>5

LEMMA DequeueStep ==
  ASSUME Fresh, NEW x \in Queued, out' = x, Queued' \subseteq Queued \ {x},
         Promise!MayKeep(x, Queued'), lastId' = lastId, impl' = impl
  PROVE  Fresh' /\ Promise!CQDequeue
<1>1. Fresh' BY DEF Fresh
<1>2. Promise!CQDequeue BY DEF Promise!CQDequeue, Queued
<1> QED BY <1>1, <1>2

LEMMA NullStep ==
  ASSUME Fresh, Queued = {}, Queued' = {}, out' = Null, lastId' = lastId, impl' = impl
  PROVE  Fresh' /\ Promise!CQDequeue
<1>1. Fresh' BY DEF Fresh
<1>2. Promise!CQDequeue BY DEF Promise!CQDequeue, Queued
<1> QED BY <1>1, <1>2

Steps == Fresh' /\ (Promise!CQEnqueue \/ Promise!CQDequeue)

LEMMA MaxheapStep ==
  ASSUME QueueAssumption, Fresh, HeapInv, Maxheap, impl' = impl
  PROVE  HeapInv' /\ Steps
<1>1. /\ good \in Seq(Entry) /\ Once(good) /\ IsHeap(Higher, good) /\ runner = <<>> /\ bad = <<>>
      /\ runner' = <<>> /\ bad' = <<>>
  BY DEF HeapInv, Maxheap
<1>2. Queued = ToSet(good) /\ Queued' = ToSet(good') BY <1>1, EmptyFacts DEF Queued
<1>3. impl = "maxheap" BY DEF Maxheap
<1>4. CASE Mh!Enqueue
  <2>1. PICK s \in Score : good' = HeapPush(Higher, good, [id |-> lastId + 1, score |-> s])
    BY <1>4, MhOps DEF Mh!Enqueue
  <2>2. lastId' = lastId + 1 /\ out' = out BY <1>4 DEF Mh!Enqueue
  <2> DEFINE x == [id |-> lastId + 1, score |-> s]
  <2>3. x \in Entry /\ x \notin ToSet(good) BY <1>2, NewEntry
  <2>4. good' = HeapPush(Higher, good, x) BY <2>1
  <2> HIDE DEF x
  <2>5. /\ good' \in Seq(Entry) /\ Len(good') = Len(good) + 1 /\ ToSet(good') = ToSet(good) \cup {x}
        /\ IsHeap(Higher, good')
    BY <1>1, <2>3, <2>4, PushFacts DEF Dir
  <2>6. Once(good') BY <1>1, <2>3, <2>5, OnceMore
  <2>7. HeapInv' BY <1>1, <2>5, <2>6 DEF HeapInv
  <2>8. Queued' = Queued \cup {[id |-> lastId + 1, score |-> s]} BY <1>2, <2>5 DEF x
  <2>9. Fresh' /\ Promise!CQEnqueue BY <2>2, <2>8, EnqueueStep
  <2> QED BY <2>7, <2>9 DEF Steps
<1>5. CASE Mh!Dequeue /\ good = <<>>
  <2>1. out' = Null /\ good' = good /\ lastId' = lastId BY <1>5 DEF Mh!Dequeue
  <2>2. Queued = {} /\ Queued' = {} BY <1>2, <1>5, <2>1, EmptyFacts
  <2>3. Fresh' /\ Promise!CQDequeue BY <2>1, <2>2, NullStep
  <2>4. HeapInv' BY <1>1, <2>1 DEF HeapInv
  <2> QED BY <2>3, <2>4 DEF Steps
<1>6. CASE Mh!Dequeue /\ good # <<>>
  <2>1. out' = Head(good) /\ good' = HeapPop(Higher, good) /\ lastId' = lastId
    BY <1>6, MhOps DEF Mh!Dequeue
  <2>2. out' = good[1] BY <1>1, <1>6, <2>1
  <2>3. Takes(Higher, good, good[1], good') BY <1>1, <1>6, <2>1, TakeFacts DEF Dir
  <2>4. HeapInv' BY <1>1, <2>3 DEF HeapInv, Takes
  <2>5. good[1] \in Queued /\ Queued' = Queued \ {good[1]} /\ good[1] \in Entry BY <1>2, <2>3 DEF Takes
  <2>6. \A y \in ToSet(good) : y.score <= good[1].score
    <3> SUFFICES ASSUME NEW y \in ToSet(good) PROVE y.score <= good[1].score OBVIOUS
    <3>1. y \in Entry BY <1>1, ToSetIs
    <3>2. ~Above(Higher, y, good[1]) BY <1>1, RootFacts DEF Dir
    <3>3. ~(y.score > good[1].score) BY <2>5, <3>1, <3>2, AboveIs
    <3>4. y.score \in Nat /\ good[1].score \in Nat BY <2>5, <3>1 DEF Entry
    <3> QED BY <3>3, <3>4
  <2>7. Promise!MayKeep(good[1], Queued')
    <3>1. Promise!NoBetter(Queued, {good[1]}) BY <1>2, <2>6 DEF Promise!NoBetter
    <3> QED BY <1>3, <2>5, <3>1 DEF Promise!MayKeep, Queued
  <2>8. Fresh' /\ Promise!CQDequeue BY <2>1, <2>2, <2>5, <2>7, DequeueStep
  <2> QED BY <2>4, <2>8 DEF Steps
<1>7. Mh!Enqueue \/ Mh!Dequeue BY DEF Maxheap, Mh!Next
<1> QED BY <1>4, <1>5, <1>6, <1>7

\* A step of the threshold_bucket queue counts an operation on piles that have the queued
\* entries and one more, or one less.
LEMMA TbqCounted ==
  ASSUME QueueAssumption, TbqInv, runner' = runner, NEW g, NEW b, NEW n \in Nat,
         TbqPiles(g, b), Tbq!CountOp(g, b, n),
         badCap' \in Nat, badCap' > 0, Len(b) <= badCap'
  PROVE  TbqInv' /\ Queued' = ToSet(g) \cup ToSet(b)
<1>1. /\ TbqPiles(good', bad') /\ ToSet(good') \cup ToSet(bad') = ToSet(g) \cup ToSet(b)
      /\ Len(bad') <= Len(b) /\ ops' \in Nat /\ (ops' < T \/ good' \o bad' = <<>>)
  BY CountOpFacts
<1>2. runner' = <<>> BY DEF TbqInv
<1>3. Len(bad') <= badCap'
  <2>1. Len(bad') \in Nat /\ Len(b) \in Nat BY <1>1 DEF TbqPiles
  <2> QED BY <1>1, <2>1
<1>4. TbqInv' BY <1>1, <1>2, <1>3 DEF TbqInv
<1>5. Queued' = ToSet(g) \cup ToSet(b) BY <1>1, <1>2, EmptyFacts DEF Queued
<1> QED BY <1>4, <1>5

LEMMA TbqAdmit ==
  ASSUME QueueAssumption, TbqInv, runner' = runner, NEW x \in Entry, x \notin Queued, Tbq!Admit(x)
  PROVE  TbqInv' /\ Queued' = Queued \cup {x}
<1>1. /\ good \in Seq(Entry) /\ bad \in Seq(Entry) /\ Apart(good, bad) /\ IsHeap(Lower, good)
      /\ Len(good) <= M /\ badCap \in Nat /\ badCap > 0 /\ Len(bad) <= badCap /\ ops \in Nat /\ runner = <<>>
  BY DEF TbqInv, TbqPiles
<1>2. Queued = ToSet(good) \cup ToSet(bad) BY <1>1, EmptyFacts DEF Queued
<1>3. /\ M \in Nat /\ M > 0 /\ Len(good) \in Nat /\ Len(bad) \in Nat /\ ops + 1 \in Nat
      /\ Once(good) /\ Once(bad) /\ ToSet(good) \cap ToSet(bad) = {} /\ Lower \in Dir
  <2>1. Once(good) /\ Once(bad) /\ ToSet(good) \cap ToSet(bad) = {} /\ Lower \in Dir
    BY <1>1 DEF Apart, Dir
  <2> QED BY <1>1, <2>1 DEF QueueAssumption
<1>4. ASSUME NEW y \in Entry, y \notin ToSet(bad)
      PROVE  /\ Append(bad, y) \in Seq(Entry) /\ Len(Append(bad, y)) = Len(bad) + 1
             /\ ToSet(Append(bad, y)) = ToSet(bad) \cup {y} /\ Once(Append(bad, y))
             /\ Tbq!Grown(bad) \in Nat /\ Tbq!Grown(bad) > 0 /\ Len(Append(bad, y)) <= Tbq!Grown(bad)
  <2>1. /\ Append(bad, y) \in Seq(Entry) /\ Len(Append(bad, y)) = Len(bad) + 1
        /\ ToSet(Append(bad, y)) = ToSet(bad) \cup {y}
    BY <1>1, <1>4, AppendFacts
  <2>2. Once(Append(bad, y)) BY <1>1, <1>3, <1>4, <2>1, OnceMore
  <2>3. Tbq!Grown(bad) \in Nat /\ Tbq!Grown(bad) > 0 /\ Len(bad) + 1 <= Tbq!Grown(bad)
    BY <1>1, <1>3 DEF Tbq!Grown
  <2> QED BY <2>1, <2>2, <2>3
<1>5. CASE Len(good) < M
  <2> DEFINE h == HeapPush(Lower, good, x)
  <2>1. Tbq!CountOp(h, bad, ops + 1) /\ badCap' = badCap BY <1>5, TbqOps DEF Tbq!Admit
  <2>2. h \in Seq(Entry) /\ Len(h) = Len(good) + 1 /\ ToSet(h) = ToSet(good) \cup {x} /\ IsHeap(Lower, h)
    BY <1>1, <1>3, PushFacts
  <2> HIDE DEF h
  <2>3. Once(h) BY <1>1, <1>2, <1>3, <2>2, OnceMore
  <2>4. Len(h) <= M BY <1>3, <1>5, <2>2
  <2>5. TbqPiles(h, bad) BY <1>1, <1>2, <1>3, <2>2, <2>3, <2>4 DEF TbqPiles, Apart
  <2>6. TbqInv' /\ Queued' = ToSet(h) \cup ToSet(bad) BY <1>1, <1>3, <2>1, <2>5, TbqCounted
  <2> QED BY <1>2, <2>2, <2>6
<1>6. CASE ~(Len(good) < M) /\ x.score > good[1].score
  <2> DEFINE w == good[1]
             p == HeapPop(Lower, good)
             h == HeapPush(Lower, p, x)
             b == Append(bad, w)
  <2>1. Tbq!CountOp(h, b, ops + 1) /\ badCap' = Tbq!Grown(bad) BY <1>6, TbqOps DEF Tbq!Admit
  <2>2. Len(good) = M /\ good # <<>> BY <1>1, <1>3, <1>6
  <2>3. Takes(Lower, good, w, p) BY <1>1, <1>3, <2>2, TakeFacts
  <2> HIDE DEF p, w
  <2>4. /\ p \in Seq(Entry) /\ IsHeap(Lower, p) /\ Once(p) /\ Len(p) = Len(good) - 1
        /\ w \in ToSet(good) /\ w \in Entry /\ ToSet(p) = ToSet(good) \ {w}
    BY <2>3 DEF Takes
  <2>5. h \in Seq(Entry) /\ Len(h) = Len(p) + 1 /\ ToSet(h) = ToSet(p) \cup {x} /\ IsHeap(Lower, h)
    <3>1. p \in Seq(Entry) /\ IsHeap(Lower, p) BY <2>4
    <3> QED BY <1>3, <3>1, PushFacts
  <2> HIDE DEF h
  <2>6. Once(h) BY <1>2, <2>4, <2>5, OnceMore
  <2>7. Len(h) <= M BY <1>3, <2>2, <2>4, <2>5
  <2>8. w \notin ToSet(bad) BY <1>3, <2>4
  <2>9. /\ b \in Seq(Entry) /\ ToSet(b) = ToSet(bad) \cup {w} /\ Once(b)
        /\ badCap' \in Nat /\ badCap' > 0 /\ Len(b) <= badCap'
    BY <1>4, <2>1, <2>4, <2>8
  <2> HIDE DEF b
  <2>10. ToSet(h) \cap ToSet(b) = {} BY <1>2, <1>3, <2>4, <2>5, <2>9
  <2>11. TbqPiles(h, b) BY <2>5, <2>6, <2>7, <2>9, <2>10 DEF TbqPiles, Apart
  <2>12. TbqInv' /\ Queued' = ToSet(h) \cup ToSet(b) BY <1>3, <2>1, <2>9, <2>11, TbqCounted
  <2> QED BY <1>2, <2>4, <2>5, <2>9, <2>12
<1>7. CASE ~(Len(good) < M) /\ ~(x.score > good[1].score)
  <2> DEFINE b == Append(bad, x)
  <2>1. Tbq!CountOp(good, b, ops + 1) /\ badCap' = Tbq!Grown(bad) BY <1>7 DEF Tbq!Admit
  <2>2. /\ b \in Seq(Entry) /\ ToSet(b) = ToSet(bad) \cup {x} /\ Once(b)
        /\ badCap' \in Nat /\ badCap' > 0 /\ Len(b) <= badCap'
    BY <1>2, <1>4, <2>1
  <2> HIDE DEF b
  <2>3. TbqPiles(good, b) BY <1>1, <1>2, <1>3, <2>2 DEF TbqPiles, Apart
  <2>4. TbqInv' /\ Queued' = ToSet(good) \cup ToSet(b) BY <1>3, <2>1, <2>2, <2>3, TbqCounted
  <2> QED BY <1>2, <2>2, <2>4
<1> QED BY <1>5, <1>6, <1>7

LEMMA ThresholdBucketStep ==
  ASSUME QueueAssumption, Fresh, TbqInv, ThresholdBucket, impl' = impl
  PROVE  TbqInv' /\ Steps
<1>1. runner' = runner /\ impl = "threshold_bucket" BY DEF ThresholdBucket
<1>2. /\ good \in Seq(Entry) /\ bad \in Seq(Entry) /\ Apart(good, bad) /\ IsHeap(Lower, good)
      /\ Len(good) <= M /\ badCap \in Nat /\ badCap > 0 /\ Len(bad) <= badCap /\ ops \in Nat /\ runner = <<>>
      /\ Once(good) /\ Once(bad)
  BY DEF TbqInv, TbqPiles, Apart
<1>3. /\ Queued = ToSet(good) \cup ToSet(bad) /\ Queued' = ToSet(good') \cup ToSet(bad')
      /\ ToSet(good) \cap ToSet(bad) = {}
  BY <1>1, <1>2, EmptyFacts DEF Queued, Apart
<1>4. M \in Nat /\ M > 0 /\ Len(good) \in Nat /\ Len(bad) \in Nat BY <1>2 DEF QueueAssumption
<1>5. ASSUME NEW x \in Queued, out' = x, Queued' = Queued \ {x}, lastId' = lastId
      PROVE  Fresh' /\ Promise!CQDequeue
  <2>1. Promise!MayKeep(x, Queued') BY <1>1, <1>5 DEF Promise!MayKeep, Queued
  <2> QED BY <1>5, <2>1, DequeueStep
<1>6. CASE Tbq!Enqueue
  <2>1. PICK s \in Score : Tbq!Admit([id |-> lastId + 1, score |-> s]) BY <1>6 DEF Tbq!Enqueue
  <2>2. lastId' = lastId + 1 /\ out' = out BY <1>6 DEF Tbq!Enqueue
  <2> DEFINE x == [id |-> lastId + 1, score |-> s]
  <2>3. x \in Entry /\ x \notin Queued BY NewEntry
  <2>4. TbqInv' /\ Queued' = Queued \cup {x} BY <1>1, <2>1, <2>3, TbqAdmit
  <2>5. Fresh' /\ Promise!CQEnqueue BY <2>2, <2>4, EnqueueStep
  <2> QED BY <2>4, <2>5 DEF Steps
<1>7. CASE Tbq!TakeLeaf
  <2> DEFINE x == Last(good)
             h == Front(good)
  <2>1. good # <<>> /\ out' = x /\ Tbq!CountOp(h, bad, ops + 1) /\ badCap' = badCap /\ lastId' = lastId
    BY <1>7, TbqOps DEF Tbq!TakeLeaf
  <2>2. Takes(Lower, good, x, h) BY <1>2, <2>1, TakeFacts DEF Dir
  <2> HIDE DEF x, h
  <2>3. /\ h \in Seq(Entry) /\ IsHeap(Lower, h) /\ Once(h) /\ Len(h) = Len(good) - 1
        /\ x \in ToSet(good) /\ ToSet(h) = ToSet(good) \ {x}
    BY <2>2 DEF Takes
  <2>4. Len(h) <= M /\ ops + 1 \in Nat BY <1>2, <1>4, <2>3
  <2>5. TbqPiles(h, bad) BY <1>2, <1>3, <2>3, <2>4 DEF TbqPiles, Apart
  <2>6. TbqInv' /\ Queued' = ToSet(h) \cup ToSet(bad) BY <1>1, <1>2, <2>1, <2>4, <2>5, TbqCounted
  <2>7. Queued' = Queued \ {x} /\ x \in Queued BY <1>3, <2>3, <2>6
  <2>8. Fresh' /\ Promise!CQDequeue BY <1>5, <2>1, <2>7
  <2> QED BY <2>6, <2>8 DEF Steps
<1>8. CASE Tbq!Refill
  <2>1. PICK c \in Tbq!SortedDesc(bad) :
          LET take == IF M < Len(c) THEN M ELSE Len(c)
              g == Tbq!Heapify(Tbq!Lower, SubSeq(c, 1, take))
          IN  out' = Tbq!Last(g) /\ Tbq!CountOp(Tbq!Front(g), SubSeq(c, take + 1, Len(c)), 1)
    BY <1>8 DEF Tbq!Refill
  <2> DEFINE take == IF M < Len(c) THEN M ELSE Len(c)
             g == Heapify(Lower, SubSeq(c, 1, take))
             b == SubSeq(c, take + 1, Len(c))
             x == Last(g)
             h == Front(g)
  <2>2. out' = x /\ Tbq!CountOp(h, b, 1) BY <2>1, TbqOps
  <2>3. good = <<>> /\ bad # <<>> /\ badCap' = badCap /\ lastId' = lastId BY <1>8 DEF Tbq!Refill
  <2>4. c \in Seq(Entry) /\ ToSet(c) = ToSet(bad) /\ Len(c) = Len(bad) /\ Once(c)
    BY <1>2, SortFacts
  <2>5. TbqPiles(g, b) /\ ToSet(g) \cup ToSet(b) = ToSet(c) /\ Len(b) = Len(c) - take /\ Len(g) = take
    BY <2>4, RebuildFacts
  <2>6. take \in Nat /\ take > 0 /\ Len(c) - take <= badCap BY <1>2, <1>4, <2>3, <2>4
  <2> HIDE DEF take, g, b
  <2>7. g # <<>> /\ Len(b) <= badCap BY <2>5, <2>6, EmptyFacts
  <2>8. Takes(Lower, g, x, h) BY <2>5, <2>7, TakeFacts DEF Dir, TbqPiles, Apart
  <2> HIDE DEF x, h
  <2>9. /\ h \in Seq(Entry) /\ IsHeap(Lower, h) /\ Once(h) /\ Len(h) = Len(g) - 1
        /\ x \in ToSet(g) /\ ToSet(h) = ToSet(g) \ {x}
    BY <2>8 DEF Takes
  <2>10. Len(h) <= M
    <3>1. Len(g) <= M /\ Len(g) \in Nat BY <2>5, <2>6 DEF TbqPiles
    <3> QED BY <1>4, <2>9, <3>1
  <2>11. /\ b \in Seq(Entry) /\ Once(b) /\ ToSet(g) \cap ToSet(b) = {} BY <2>5 DEF TbqPiles, Apart
  <2>12. TbqPiles(h, b) BY <2>9, <2>10, <2>11 DEF TbqPiles, Apart
  <2>13. TbqInv' /\ Queued' = ToSet(h) \cup ToSet(b) BY <1>1, <1>2, <2>2, <2>3, <2>7, <2>12, TbqCounted
  <2>14. Queued' = Queued \ {x} /\ x \in Queued
    BY <1>3, <2>3, <2>4, <2>5, <2>9, <2>11, <2>13, EmptyFacts
  <2>15. Fresh' /\ Promise!CQDequeue BY <1>5, <2>2, <2>3, <2>14
  <2> QED BY <2>13, <2>15 DEF Steps
<1>9. CASE Tbq!DequeueEmpty
  <2>1. /\ good = <<>> /\ bad = <<>> /\ out' = Null /\ good' = good /\ bad' = bad
        /\ badCap' = badCap /\ ops' = ops /\ lastId' = lastId
    BY <1>9 DEF Tbq!DequeueEmpty
  <2>2. Queued = {} /\ Queued' = {} BY <1>3, <2>1, EmptyFacts
  <2>3. Fresh' /\ Promise!CQDequeue BY <2>1, <2>2, NullStep
  <2>4. TbqInv' BY <1>1, <2>1 DEF TbqInv
  <2> QED BY <2>3, <2>4 DEF Steps
<1> QED BY <1>6, <1>7, <1>8, <1>9 DEF ThresholdBucket, Tbq!Next, Tbq!Dequeue

\* The root of a good pile that is a min-heap is its worst entry.
LEMMA RootIsWorst ==
  ASSUME NEW g \in Seq(Entry), IsHeap(Lower, g), g # <<>>
  PROVE  g[1] \in ToSet(g) /\ g[1].score \in Nat /\ \A y \in ToSet(g) : y.score \in Nat /\ g[1].score <= y.score
<1>1. ToSet(g) = {g[i] : i \in 1..Len(g)} /\ ToSet(g) \subseteq Entry BY ToSetIs
<1>2. 1 \in 1..Len(g) OBVIOUS
<1>3. g[1] \in ToSet(g) /\ g[1] \in Entry BY <1>1, <1>2
<1>4. ASSUME NEW y \in ToSet(g) PROVE y.score \in Nat /\ g[1].score <= y.score
  <2>1. y \in Entry BY <1>1
  <2>2. ~Above(Lower, y, g[1]) BY RootFacts DEF Dir
  <2>3. ~(y.score < g[1].score) BY <1>3, <2>1, <2>2, AboveIs
  <2>4. y.score \in Nat /\ g[1].score \in Nat BY <1>3, <2>1 DEF Entry
  <2> QED BY <2>3, <2>4
<1>5. g[1].score \in Nat BY <1>3 DEF Entry
<1> QED BY <1>3, <1>4, <1>5

LEMMA RupAdmit ==
  ASSUME QueueAssumption, RupInv, handed' = handed, NEW x \in Entry, x \notin Queued, Rup!Admit(x)
  PROVE  RupInv' /\ Queued' = Queued \cup {x}
<1>1. Tiers(Lower, good, runner, bad) /\ handed \in Nat /\ (handed = 0 => Top(good, runner, bad))
  BY DEF RupInv
<1>2. /\ M \in Nat /\ M > 0 /\ Len(good) \in Nat /\ ToSet(good) \subseteq Entry
      /\ ToSet(runner) \subseteq Entry /\ ToSet(bad) \subseteq Entry
  BY <1>1, TiersTypes
<1>3. /\ good \in Seq(Entry) /\ IsHeap(Lower, good) /\ Len(good) <= M /\ Lower \in Dir
      /\ x \notin ToSet(good) \cup ToSet(runner) \cup ToSet(bad) /\ x.score \in Nat
      /\ \A y \in Entry : y.score \in Nat
  BY <1>1 DEF Tiers, Dir, Queued, Entry
<1>4. CASE Len(good) < M
  <2>1. good' = HeapPush(Lower, good, x) /\ runner' = runner /\ bad' = bad
    BY <1>4, RupOps DEF Rup!Admit
  <2>2. /\ Tiers(Lower, good', runner', bad') /\ ToSet(good') = ToSet(good) \cup {x}
    <3> DEFINE h == HeapPush(Lower, good, x)
    <3>1. Tiers(Lower, h, runner, bad) /\ ToSet(h) = ToSet(good) \cup {x}
      <4>1. Lower \in Dir /\ x \notin ToSet(good) \cup ToSet(runner) \cup ToSet(bad) BY <1>3
      <4>2. Tiers(Lower, good, runner, bad) BY <1>1
      <4>3. Tiers(Lower, h, runner, bad) BY <1>4, <4>1, <4>2, RoomFacts
      <4>4. ToSet(h) = ToSet(good) \cup {x} BY <1>3, PushFacts
      <4> QED BY <4>3, <4>4
    <3> QED BY <2>1, <3>1
  <2>3. handed = 0 => Top(good', runner', bad')
    <3> SUFFICES ASSUME handed = 0 PROVE Top(good', runner', bad') OBVIOUS
    <3>1. runner = <<>> /\ bad = <<>> BY <1>1, <1>4 DEF Top
    <3> QED BY <2>1, <3>1, EmptyFacts DEF Top, NoneBetter, Ranked
  <2>4. Queued' = Queued \cup {x} BY <2>1, <2>2 DEF Queued
  <2> QED BY <1>1, <2>2, <2>3, <2>4 DEF RupInv
<1>5. CASE ~(Len(good) < M)
  <2>0. good # <<>> BY <1>2, <1>5, EmptyFacts
  <2>1. /\ good[1] \in ToSet(good) /\ good[1].score \in Nat
        /\ \A y \in ToSet(good) : y.score \in Nat /\ good[1].score <= y.score
    BY <1>3, <2>0, RootIsWorst
  <2>2. ASSUME handed = 0
        PROVE  /\ Ranked(R, runner, bad)
               /\ \A y \in ToSet(runner) \cup ToSet(bad) : \A z \in ToSet(good) : y.score <= z.score
    BY <1>1, <2>2 DEF Top, NoneBetter
  <2>3. CASE x.score > good[1].score
    <3> DEFINE w == good[1]
               h == HeapPush(Lower, HeapPop(Lower, good), x)
               a == AdmitToRunnerUp(R, runner, bad, w)
    <3>1. good' = h /\ runner' = a.runner /\ bad' = a.bad
      BY <1>5, <2>3, RupOps DEF Rup!Admit, Rup!ToRunnerUp
    <3>2. /\ Tiers(Lower, h, a.runner, a.bad) /\ Len(h) = M
          /\ ToSet(h) = (ToSet(good) \ {w}) \cup {x}
          /\ ToSet(a.runner) \cup ToSet(a.bad) = ToSet(runner) \cup ToSet(bad) \cup {w}
          /\ Ranked(R, runner, bad) => Ranked(R, a.runner, a.bad)
      BY <1>1, <1>3, <1>5, EvictFacts
    <3> HIDE DEF w, h, a
    <3>3. /\ Tiers(Lower, good', runner', bad') /\ Len(good') = M
          /\ ToSet(good') = (ToSet(good) \ {w}) \cup {x}
          /\ ToSet(runner') \cup ToSet(bad') = ToSet(runner) \cup ToSet(bad) \cup {w}
          /\ Ranked(R, runner, bad) => Ranked(R, runner', bad')
      BY <3>1, <3>2
    <3>4. handed = 0 => Top(good', runner', bad')
      <4> SUFFICES ASSUME handed = 0 PROVE Top(good', runner', bad') OBVIOUS
      <4>1. ~(Len(good') < M) BY <1>2, <3>3
      <4>2. w.score \in Nat /\ w \in ToSet(good) /\ w.score < x.score
        BY <1>3, <2>1, <2>3 DEF w
      <4>3. ASSUME NEW y \in ToSet(runner') \cup ToSet(bad'), NEW z \in ToSet(good')
            PROVE  y.score <= z.score
        <5>1. y = w \/ y \in ToSet(runner) \cup ToSet(bad) BY <3>3
        <5>2. z = x \/ z \in ToSet(good) BY <3>3
        <5>3. y.score \in Nat /\ y.score <= w.score
          <6>1. CASE y = w BY <4>2, <6>1
          <6>2. CASE y \in ToSet(runner) \cup ToSet(bad)
            <7>1. y \in Entry BY <1>2, <6>2
            <7> QED BY <1>3, <2>2, <4>2, <6>2, <7>1
          <6> QED BY <5>1, <6>1, <6>2
        <5>4. z.score \in Nat /\ w.score <= z.score
          <6>1. CASE z = x BY <1>3, <4>2, <6>1
          <6>2. CASE z \in ToSet(good) BY <2>1, <6>2 DEF w
          <6> QED BY <5>2, <6>1, <6>2
        <5> QED BY <4>2, <5>3, <5>4
      <4> QED BY <2>2, <3>3, <4>1, <4>3 DEF Top, NoneBetter
    <3>5. w \in ToSet(good) BY <2>1 DEF w
    <3>6. Queued' = Queued \cup {x} BY <3>3, <3>5 DEF Queued
    <3> QED BY <1>1, <3>3, <3>4, <3>6 DEF RupInv
  <2>4. CASE ~(x.score > good[1].score)
    <3> DEFINE a == AdmitToRunnerUp(R, runner, bad, x)
    <3>1. good' = good /\ runner' = a.runner /\ bad' = a.bad
      BY <1>5, <2>4, RupOps DEF Rup!Admit, Rup!ToRunnerUp
    <3>2. /\ Tiers(Lower, good, a.runner, a.bad) /\ Len(good) = M
          /\ ToSet(a.runner) \cup ToSet(a.bad) = ToSet(runner) \cup ToSet(bad) \cup {x}
          /\ Ranked(R, runner, bad) => Ranked(R, a.runner, a.bad)
      BY <1>1, <1>3, <1>5, PassFacts
    <3> HIDE DEF a
    <3>3. /\ Tiers(Lower, good', runner', bad') /\ Len(good') = M /\ good' = good
          /\ ToSet(runner') \cup ToSet(bad') = ToSet(runner) \cup ToSet(bad) \cup {x}
          /\ Ranked(R, runner, bad) => Ranked(R, runner', bad')
      BY <3>1, <3>2
    <3>4. handed = 0 => Top(good', runner', bad')
      <4> SUFFICES ASSUME handed = 0 PROVE Top(good', runner', bad') OBVIOUS
      <4>1. ~(Len(good') < M) BY <1>2, <3>3
      <4>2. ASSUME NEW y \in ToSet(runner') \cup ToSet(bad'), NEW z \in ToSet(good)
            PROVE  y.score <= z.score
        <5>1. CASE y = x
          <6>1. z.score \in Nat /\ good[1].score <= z.score BY <2>1
          <6>2. x.score <= good[1].score BY <1>3, <2>1, <2>4
          <6> QED BY <1>3, <2>1, <5>1, <6>1, <6>2
        <5>2. CASE y \in ToSet(runner) \cup ToSet(bad) BY <2>2, <5>2
        <5> QED BY <3>3, <5>1, <5>2
      <4> QED BY <2>2, <3>3, <4>1, <4>2 DEF Top, NoneBetter
    <3>5. Queued' = Queued \cup {x} BY <3>3 DEF Queued
    <3> QED BY <1>1, <3>3, <3>4, <3>5 DEF RupInv
  <2> QED BY <2>3, <2>4
<1> QED BY <1>4, <1>5

\* A dequeue of a tiered queue that promotes the best runner-up.
LEMMA PromoteStep ==
  ASSUME QueueAssumption, NEW dir \in Dir, NEW x, NEW h, Tiers(dir, good, runner, bad),
         Takes(dir, good, x, h), bad' = bad,
         IF runner = <<>> THEN good' = h /\ runner' = runner
         ELSE good' = HeapPush(dir, h, Last(runner)) /\ runner' = Front(runner)
  PROVE  Tiers(dir, good', runner', bad') /\ x \in Queued /\ Queued' = Queued \ {x}
<1>1. /\ x \in ToSet(good) /\ x \notin ToSet(runner) /\ x \notin ToSet(bad)
      /\ ToSet(h) = ToSet(good) \ {x}
  BY DEF Takes, Tiers, Apart
<1>2. /\ runner = <<>> => Tiers(dir, h, runner, bad)
      /\ runner # <<>> => /\ Tiers(dir, HeapPush(dir, h, Last(runner)), Front(runner), bad)
                          /\ ToSet(HeapPush(dir, h, Last(runner))) \cup ToSet(Front(runner)) =
                               (ToSet(good) \cup ToSet(runner)) \ {x}
  BY PromoteFacts
<1>3. CASE runner = <<>>
  <2>1. good' = h /\ runner' = runner BY <1>3
  <2>2. Queued' = Queued \ {x} BY <1>1, <2>1 DEF Queued
  <2> QED BY <1>1, <1>2, <1>3, <2>1, <2>2 DEF Queued
<1>4. CASE runner # <<>>
  <2>1. good' = HeapPush(dir, h, Last(runner)) /\ runner' = Front(runner) BY <1>4
  <2>2. Queued' = Queued \ {x} BY <1>1, <1>2, <1>4, <2>1 DEF Queued
  <2> QED BY <1>1, <1>2, <1>4, <2>1, <2>2 DEF Queued
<1> QED BY <1>3, <1>4

\* A dequeue of a tiered queue that refills the good pile from the bad pile.
LEMMA RefillStep ==
  ASSUME QueueAssumption, NEW dir \in Dir, NEW x, Tiers(dir, good, runner, bad),
         good = <<>>, runner = <<>>, bad # <<>>,
         Takes(dir, RefillFrom(dir, M, bad), x, good'), runner' = runner, bad' = <<>>
  PROVE  /\ Tiers(dir, good', runner', bad') /\ x \in Queued /\ Queued' \subseteq Queued \ {x}
         /\ \A y \in (Queued \ {x}) \ Queued' : \A z \in Queued' \cup {x} : ~Above(dir, z, y)
<1> DEFINE f == RefillFrom(dir, M, bad)
<1>1. bad \in Seq(Entry) /\ Once(bad) /\ Len(runner) <= R BY DEF Tiers, Apart
<1>2. M \in Nat /\ M > 0 BY DEF QueueAssumption
<1>3. Refills(dir, M, ToSet(bad), f) BY <1>1, <1>2, RefillFacts
<1> HIDE DEF f
<1>4. /\ f \in Seq(Entry) /\ Len(f) <= M /\ ToSet(f) \subseteq ToSet(bad)
      /\ \A y \in ToSet(bad) \ ToSet(f) : \A z \in ToSet(f) : ~Above(dir, z, y)
  BY <1>3 DEF Refills
<1>5. /\ good' \in Seq(Entry) /\ IsHeap(dir, good') /\ Once(good') /\ Len(good') = Len(f) - 1
      /\ x \in ToSet(f) /\ ToSet(good') = ToSet(f) \ {x}
  BY DEF Takes, f
<1>6. Len(good') <= M
  <2>1. Len(f) \in Nat BY <1>4
  <2> QED BY <1>2, <1>4, <1>5, <2>1
<1>7. Tiers(dir, good', runner', bad') BY <1>1, <1>5, <1>6, EmptyFacts DEF Tiers, Apart
<1>8. Queued = ToSet(bad) /\ Queued' = ToSet(good') BY EmptyFacts DEF Queued
<1>9. x \in Queued /\ Queued' \subseteq Queued \ {x} BY <1>4, <1>5, <1>8
<1>10. (Queued \ {x}) \ Queued' = ToSet(bad) \ ToSet(f) /\ Queued' \cup {x} = ToSet(f)
  BY <1>4, <1>5, <1>8
<1> QED BY <1>4, <1>7, <1>9, <1>10

LEMMA RunnerUpStep ==
  ASSUME QueueAssumption, Fresh, RupInv, RunnerUp, impl' = impl
  PROVE  RupInv' /\ Steps
<1>1. impl = "runner_up" /\ Tiers(Lower, good, runner, bad) /\ handed \in Nat /\ Lower \in Dir
  BY DEF RunnerUp, RupInv, Dir
<1>2. good \in Seq(Entry) /\ IsHeap(Lower, good) /\ Once(good) /\ (good = <<>> => runner = <<>>)
  BY <1>1 DEF Tiers, Apart
<1>3. CASE Rup!Enqueue
  <2>1. PICK s \in Score : Rup!Admit([id |-> lastId + 1, score |-> s]) BY <1>3 DEF Rup!Enqueue
  <2>2. lastId' = lastId + 1 /\ out' = out /\ handed' = handed BY <1>3 DEF Rup!Enqueue
  <2> DEFINE x == [id |-> lastId + 1, score |-> s]
  <2>3. x \in Entry /\ x \notin Queued BY NewEntry
  <2>4. RupInv' /\ Queued' = Queued \cup {x} BY <2>1, <2>2, <2>3, RupAdmit
  <2>5. Fresh' /\ Promise!CQEnqueue BY <2>2, <2>4, EnqueueStep
  <2> QED BY <2>4, <2>5 DEF Steps
<1>4. CASE Rup!TakeLeaf
  <2> DEFINE x == Last(good)
             h == Front(good)
  <2>1. /\ good # <<>> /\ out' = x /\ bad' = bad /\ lastId' = lastId /\ handed' = handed + 1
        /\ IF runner = <<>> THEN good' = h /\ runner' = runner
           ELSE good' = HeapPush(Lower, h, Last(runner)) /\ runner' = Front(runner)
    BY <1>4, RupOps DEF Rup!TakeLeaf
  <2>2. Takes(Lower, good, x, h) BY <1>1, <1>2, <2>1, TakeFacts
  <2> HIDE DEF x, h
  <2>3. Tiers(Lower, good', runner', bad') /\ x \in Queued /\ Queued' = Queued \ {x}
    BY <1>1, <2>1, <2>2, PromoteStep
  <2>4. RupInv'
    <3>1. handed' \in Nat /\ handed' # 0 BY <1>1, <2>1
    <3> QED BY <2>3, <3>1 DEF RupInv
  <2>5. Promise!MayKeep(x, Queued')
    BY <1>1, <2>3 DEF Promise!MayKeep, Promise!NoBetter, Queued
  <2>6. Fresh' /\ Promise!CQDequeue BY <2>1, <2>3, <2>5, DequeueStep
  <2> QED BY <2>4, <2>6 DEF Steps
<1>5. CASE Rup!Refill
  <2> DEFINE f == RefillFrom(Lower, M, bad)
             x == Last(f)
  <2>1. /\ good = <<>> /\ runner = <<>> /\ bad # <<>> /\ out' = x /\ good' = Front(f)
        /\ bad' = <<>> /\ runner' = runner /\ handed' = handed + 1 /\ lastId' = lastId
    BY <1>5, RupOps DEF Rup!Refill, Rup!Refilled
  <2>2. Takes(Lower, f, x, good')
    <3>1. bad \in Seq(Entry) /\ Once(bad) BY <1>1 DEF Tiers, Apart
    <3>2. M \in Nat /\ M > 0 BY DEF QueueAssumption
    <3>3. Refills(Lower, M, ToSet(bad), f) BY <1>1, <3>1, <3>2, RefillFacts
    <3>4. ToSet(bad) # {}
      <4>1. ToSet(bad) = {bad[i] : i \in 1..Len(bad)} /\ Len(bad) \in Nat BY <3>1, ToSetIs
      <4>2. 1 \in 1..Len(bad) BY <2>1, <3>1
      <4> QED BY <4>1, <4>2
    <3> HIDE DEF f
    <3>5. f \in Seq(Entry) /\ f # <<>> /\ IsHeap(Lower, f) /\ Once(f) BY <3>3, <3>4 DEF Refills
    <3> QED BY <1>1, <2>1, <3>5, TakeFacts
  <2> HIDE DEF x
  <2>3. /\ Tiers(Lower, good', runner', bad') /\ x \in Queued /\ Queued' \subseteq Queued \ {x}
        /\ \A y \in (Queued \ {x}) \ Queued' : \A z \in Queued' \cup {x} : ~Above(Lower, z, y)
    BY <1>1, <2>1, <2>2, RefillStep
  <2>4. RupInv'
    <3>1. handed' \in Nat /\ handed' # 0 BY <1>1, <2>1
    <3> QED BY <2>3, <3>1 DEF RupInv
  <2>5. ASSUME NEW y \in (Queued \ {x}) \ Queued', NEW z \in Queued' \cup {x} PROVE y.score <= z.score
    <3>1. y \in Entry /\ z \in Entry
      <4>1. Queued \subseteq Entry BY <1>1, TiersTypes DEF Queued
      <4> QED BY <2>3, <4>1
    <3>2. ~(z.score < y.score) BY <2>3, <3>1, AboveIs
    <3>3. y.score \in Nat /\ z.score \in Nat BY <3>1 DEF Entry
    <3> QED BY <3>2, <3>3
  <2>6. Promise!MayKeep(x, Queued')
    <3>1. Promise!NoBetter((Queued \ {x}) \ Queued', Queued' \cup {x}) BY <2>5 DEF Promise!NoBetter
    <3> QED BY <1>1, <3>1 DEF Promise!MayKeep, Queued
  <2>7. Fresh' /\ Promise!CQDequeue BY <2>1, <2>3, <2>6, DequeueStep
  <2> QED BY <2>4, <2>7 DEF Steps
<1>6. CASE Rup!DequeueNull
  <2>1. /\ good = <<>> /\ (runner # <<>> \/ bad = <<>>) /\ out' = Null
        /\ good' = good /\ runner' = runner /\ bad' = bad /\ lastId' = lastId /\ handed' = handed
    BY <1>6 DEF Rup!DequeueNull
  <2>2. runner = <<>> /\ bad = <<>> BY <1>2, <2>1
  <2>3. Queued = {} /\ Queued' = {} BY <2>1, <2>2, EmptyFacts DEF Queued
  <2>4. Fresh' /\ Promise!CQDequeue BY <2>1, <2>3, NullStep
  <2>5. RupInv' BY <2>1 DEF RupInv
  <2> QED BY <2>4, <2>5 DEF Steps
<1> QED BY <1>3, <1>4, <1>5, <1>6 DEF RunnerUp, Rup!Next

\* mhb_enqueue while the good pile has room: the threshold follows the least score.
LEMMA MhbRoom ==
  ASSUME QueueAssumption, MhbInv, handed' = handed, NEW x \in Entry, x \notin Queued,
         Len(good) < M, Mhb!AdmitToRoom(x)
  PROVE  MhbInv' /\ Queued' = Queued \cup {x}
<1> DEFINE g == HeapPush(Higher, good, x)
<1>1. Tiers(Higher, good, runner, bad) /\ handed \in Nat /\ filling \in BOOLEAN /\ threshold \in Nat
  BY DEF MhbInv
<1>2. good \in Seq(Entry) /\ Higher \in Dir /\ x.score \in Nat /\ M \in Nat
      /\ x \notin ToSet(good) \cup ToSet(runner) \cup ToSet(bad)
  BY <1>1 DEF Tiers, Dir, Queued, Entry, QueueAssumption
<1>3. /\ good' = g /\ runner' = runner /\ bad' = bad
      /\ filling' = (filling /\ Len(g) # M)
      /\ threshold' = IF Len(g) = M THEN Mhb!MinScore(g)
                      ELSE IF filling /\ (Len(g) = 1 \/ x.score < threshold) THEN x.score
                      ELSE threshold
  BY MhbOps DEF Mhb!AdmitToRoom
<1>4. g \in Seq(Entry) /\ Len(g) = Len(good) + 1 /\ ToSet(g) = ToSet(good) \cup {x} BY <1>2, PushFacts
<1>5. Tiers(Higher, g, runner, bad)
  <2>1. Tiers(Higher, good, runner, bad) BY <1>1
  <2>2. Higher \in Dir /\ x \notin ToSet(good) \cup ToSet(runner) \cup ToSet(bad) BY <1>2
  <2> QED BY <2>1, <2>2, RoomFacts
<1> HIDE DEF g
<1>6. Len(good) \in Nat /\ g # <<>> /\ (Len(g) = 1 <=> good = <<>>) /\ Len(g) <= M
  <2>1. Len(good) \in Nat /\ (Len(good) = 0 <=> good = <<>>) BY <1>2
  <2> QED BY <1>2, <1>4, <2>1
<1>7. Mhb!MinScore(g) \in Nat BY <1>4, <1>6, MinScoreFacts
<1>8. filling' \in BOOLEAN BY <1>1, <1>3
<1>9. threshold' \in Nat BY <1>1, <1>2, <1>3, <1>7
<1>10. handed = 0 => filling BY DEF MhbInv
<1>11. ASSUME handed = 0 PROVE threshold' = Mhb!MinScore(g)
  <2>1. CASE Len(g) = M BY <1>3, <2>1
  <2>2. CASE Len(g) # M
    <3>1. threshold' = IF Len(g) = 1 \/ x.score < threshold THEN x.score ELSE threshold
      BY <1>3, <1>10, <1>11, <2>2
    <3>2. CASE good = <<>>
      <4>1. threshold' = x.score BY <1>6, <3>1, <3>2
      <4>2. ToSet(g) = {x} BY <1>4, <3>2, EmptyFacts
      <4>3. x.score <= x.score BY <1>2
      <4> QED BY <1>2, <1>4, <1>6, <4>1, <4>2, <4>3, MinScoreFacts
    <3>3. CASE good # <<>>
      <4>1. threshold = Mhb!MinScore(good) BY <1>11, <3>3 DEF MhbInv
      <4>2. /\ \E y \in ToSet(good) : y.score = threshold
            /\ \A y \in ToSet(good) : threshold <= y.score
        BY <1>2, <3>3, <4>1, MinScoreFacts
      <4>3. threshold' = IF x.score < threshold THEN x.score ELSE threshold BY <1>6, <3>1, <3>3
      <4>4. \A y \in ToSet(good) : y.score \in Nat BY <1>2, ToSetIs DEF Entry
      <4>5. \E y \in ToSet(g) : y.score = threshold'
        <5>1. CASE x.score < threshold BY <1>4, <4>3, <5>1
        <5>2. CASE ~(x.score < threshold) BY <1>4, <4>2, <4>3, <5>2
        <5> QED BY <5>1, <5>2
      <4>6. ASSUME NEW y \in ToSet(g) PROVE threshold' <= y.score
        <5>1. CASE y = x BY <1>1, <1>2, <4>3, <5>1
        <5>2. CASE y \in ToSet(good)
          <6>1. threshold <= y.score /\ y.score \in Nat BY <4>2, <4>4, <5>2
          <6> QED BY <1>1, <1>2, <4>3, <6>1
        <5> QED BY <1>4, <5>1, <5>2
      <4> QED BY <1>4, <1>6, <1>9, <4>5, <4>6, MinScoreFacts
    <3> QED BY <3>2, <3>3
  <2> QED BY <2>1, <2>2
<1>12. ASSUME handed = 0, Len(g) < M PROVE filling'
  <2>1. Len(g) # M BY <1>2, <1>12
  <2> QED BY <1>3, <1>10, <1>12, <2>1
<1>13. MhbInv' BY <1>1, <1>3, <1>5, <1>8, <1>9, <1>11, <1>12 DEF MhbInv
<1>14. Queued' = Queued \cup {x} BY <1>3, <1>4 DEF Queued
<1> QED BY <1>13, <1>14

\* mhb_enqueue with a full good pile.
LEMMA MhbFull ==
  ASSUME QueueAssumption, MhbInv, handed' = handed, NEW x \in Entry, x \notin Queued,
         ~(Len(good) < M), Mhb!AdmitToFull(x)
  PROVE  MhbInv' /\ Queued' = Queued \cup {x}
<1>1. Tiers(Higher, good, runner, bad) /\ handed \in Nat /\ filling \in BOOLEAN /\ threshold \in Nat
  BY DEF MhbInv
<1>2. /\ good \in Seq(Entry) /\ Higher \in Dir /\ M \in Nat /\ M > 0
      /\ x \notin ToSet(good) \cup ToSet(runner) \cup ToSet(bad)
  BY <1>1 DEF Tiers, Dir, Queued, QueueAssumption
<1>3. CASE x.score > threshold
  <2> DEFINE w == good[1]
             h == HeapPush(Higher, HeapPop(Higher, good), x)
             a == AdmitToRunnerUp(R, runner, bad, w)
  <2>1. /\ good' = h /\ runner' = a.runner /\ bad' = a.bad
        /\ threshold' = Mhb!MinScore(h) /\ filling' = filling
    BY <1>3, MhbOps DEF Mhb!AdmitToFull, Mhb!ToRunnerUp
  <2>2. /\ Tiers(Higher, h, a.runner, a.bad) /\ Len(h) = M
        /\ w \in ToSet(good) /\ ToSet(h) = (ToSet(good) \ {w}) \cup {x}
        /\ ToSet(a.runner) \cup ToSet(a.bad) = ToSet(runner) \cup ToSet(bad) \cup {w}
    BY <1>1, <1>2, EvictFacts
  <2> HIDE DEF w, h, a
  <2>3. /\ Tiers(Higher, good', runner', bad') /\ Len(good') = M /\ w \in ToSet(good)
        /\ ToSet(good') = (ToSet(good) \ {w}) \cup {x}
        /\ ToSet(runner') \cup ToSet(bad') = ToSet(runner) \cup ToSet(bad) \cup {w}
        /\ threshold' = Mhb!MinScore(good')
    BY <2>1, <2>2
  <2>4. ~(Len(good') < M) /\ good' # <<>> BY <1>2, <2>3, EmptyFacts
  <2>5. threshold' \in Nat
    <3>1. good' \in Seq(Entry) BY <2>3 DEF Tiers
    <3> QED BY <2>3, <2>4, <3>1, MinScoreFacts
  <2>6. MhbInv' BY <1>1, <2>1, <2>3, <2>4, <2>5 DEF MhbInv
  <2>7. Queued' = Queued \cup {x} BY <2>3 DEF Queued
  <2> QED BY <2>6, <2>7
<1>4. CASE ~(x.score > threshold)
  <2> DEFINE a == AdmitToRunnerUp(R, runner, bad, x)
  <2>1. /\ good' = good /\ runner' = a.runner /\ bad' = a.bad
        /\ threshold' = threshold /\ filling' = filling
    BY <1>4, MhbOps DEF Mhb!AdmitToFull, Mhb!ToRunnerUp
  <2>2. /\ Tiers(Higher, good, a.runner, a.bad) /\ Len(good) = M
        /\ ToSet(a.runner) \cup ToSet(a.bad) = ToSet(runner) \cup ToSet(bad) \cup {x}
    BY <1>1, <1>2, PassFacts
  <2> HIDE DEF a
  <2>3. /\ Tiers(Higher, good', runner', bad')
        /\ ToSet(runner') \cup ToSet(bad') = ToSet(runner) \cup ToSet(bad) \cup {x}
    BY <2>1, <2>2
  <2>4. MhbInv' BY <1>1, <2>1, <2>3 DEF MhbInv
  <2>5. Queued' = Queued \cup {x} BY <2>1, <2>3 DEF Queued
  <2> QED BY <2>4, <2>5
<1> QED BY <1>3, <1>4

LEMMA MaxheapBucketStep ==
  ASSUME QueueAssumption, Fresh, MhbInv, MaxheapBucket, impl' = impl
  PROVE  MhbInv' /\ Steps
<1>1. /\ impl = "maxheap_bucket" /\ Tiers(Higher, good, runner, bad) /\ handed \in Nat
      /\ filling \in BOOLEAN /\ threshold \in Nat /\ Higher \in Dir
  BY DEF MaxheapBucket, MhbInv, Dir
<1>2. good \in Seq(Entry) /\ IsHeap(Higher, good) /\ Once(good) /\ (good = <<>> => runner = <<>>)
  BY <1>1 DEF Tiers, Apart
<1>3. ASSUME NEW x \in Queued, out' = x, Queued' \subseteq Queued \ {x}, lastId' = lastId
      PROVE  Fresh' /\ Promise!CQDequeue
  <2>1. Promise!MayKeep(x, Queued') BY <1>1 DEF Promise!MayKeep
  <2> QED BY <1>3, <2>1, DequeueStep
<1>4. CASE Mhb!Enqueue
  <2>1. PICK s \in Score : LET x == [id |-> lastId + 1, score |-> s]
                           IN  IF Len(good) < M THEN Mhb!AdmitToRoom(x) ELSE Mhb!AdmitToFull(x)
    BY <1>4 DEF Mhb!Enqueue
  <2>2. lastId' = lastId + 1 /\ out' = out /\ handed' = handed BY <1>4 DEF Mhb!Enqueue
  <2> DEFINE x == [id |-> lastId + 1, score |-> s]
  <2>3. x \in Entry /\ x \notin Queued BY NewEntry
  <2>4. MhbInv' /\ Queued' = Queued \cup {x}
    <3>1. CASE Len(good) < M
      <4>1. Mhb!AdmitToRoom(x) BY <2>1, <3>1
      <4> HIDE DEF x
      <4> QED BY <2>2, <2>3, <3>1, <4>1, MhbRoom
    <3>2. CASE ~(Len(good) < M)
      <4>1. Mhb!AdmitToFull(x) BY <2>1, <3>2
      <4> HIDE DEF x
      <4> QED BY <2>2, <2>3, <3>2, <4>1, MhbFull
    <3> QED BY <3>1, <3>2
  <2>5. Fresh' /\ Promise!CQEnqueue BY <2>2, <2>4, EnqueueStep
  <2> QED BY <2>4, <2>5 DEF Steps
<1>5. CASE Mhb!TakeMax
  <2> DEFINE x == good[1]
             h == HeapPop(Higher, good)
  <2>1. /\ good # <<>> /\ out' = Head(good) /\ bad' = bad /\ lastId' = lastId /\ handed' = handed + 1
        /\ threshold' = threshold /\ filling' = filling
        /\ IF runner = <<>> THEN good' = h /\ runner' = runner
           ELSE good' = HeapPush(Higher, h, Last(runner)) /\ runner' = Front(runner)
    BY <1>5, MhbOps DEF Mhb!TakeMax
  <2>2. out' = x BY <1>2, <2>1
  <2>3. Takes(Higher, good, x, h) BY <1>1, <1>2, <2>1, TakeFacts
  <2> HIDE DEF x, h
  <2>4. Tiers(Higher, good', runner', bad') /\ x \in Queued /\ Queued' = Queued \ {x}
    BY <1>1, <2>1, <2>3, PromoteStep
  <2>5. MhbInv'
    <3>1. handed' \in Nat /\ handed' # 0 BY <1>1, <2>1
    <3> QED BY <1>1, <2>1, <2>4, <3>1 DEF MhbInv
  <2>6. Fresh' /\ Promise!CQDequeue BY <1>3, <2>1, <2>2, <2>4
  <2> QED BY <2>5, <2>6 DEF Steps
<1>6. CASE Mhb!Refill
  <2> DEFINE f == RefillFrom(Higher, M, bad)
             x == f[1]
  <2>1. /\ good = <<>> /\ runner = <<>> /\ bad # <<>> /\ out' = Head(f) /\ good' = HeapPop(Higher, f)
        /\ bad' = <<>> /\ runner' = runner /\ handed' = handed + 1 /\ lastId' = lastId
        /\ threshold' = Mhb!MinScore(f) /\ filling' = filling
    BY <1>6, MhbOps DEF Mhb!Refill, Mhb!Refilled
  <2>2. f \in Seq(Entry) /\ f # <<>> /\ IsHeap(Higher, f) /\ Once(f)
    <3>1. bad \in Seq(Entry) /\ Once(bad) BY <1>1 DEF Tiers, Apart
    <3>2. M \in Nat /\ M > 0 BY DEF QueueAssumption
    <3>3. Refills(Higher, M, ToSet(bad), f) BY <1>1, <3>1, <3>2, RefillFacts
    <3>4. ToSet(bad) # {}
      <4>1. ToSet(bad) = {bad[i] : i \in 1..Len(bad)} /\ Len(bad) \in Nat BY <3>1, ToSetIs
      <4>2. 1 \in 1..Len(bad) BY <2>1, <3>1
      <4> QED BY <4>1, <4>2
    <3> HIDE DEF f
    <3> QED BY <3>3, <3>4 DEF Refills
  <2>3. Takes(Higher, f, x, good')
    <3> HIDE DEF f
    <3> QED BY <1>1, <2>1, <2>2, TakeFacts
  <2>4. out' = x /\ threshold' \in Nat
    <3> HIDE DEF f
    <3>1. threshold' \in Nat BY <2>1, <2>2, MinScoreFacts
    <3>2. out' = x BY <2>1, <2>2
    <3> QED BY <3>1, <3>2
  <2> HIDE DEF x
  <2>5. Tiers(Higher, good', runner', bad') /\ x \in Queued /\ Queued' \subseteq Queued \ {x}
    BY <1>1, <2>1, <2>3, RefillStep
  <2>6. MhbInv'
    <3>1. handed' \in Nat /\ handed' # 0 BY <1>1, <2>1
    <3> QED BY <1>1, <2>1, <2>4, <2>5, <3>1 DEF MhbInv
  <2>7. Fresh' /\ Promise!CQDequeue BY <1>3, <2>1, <2>4, <2>5
  <2> QED BY <2>6, <2>7 DEF Steps
<1>7. CASE Mhb!DequeueNull
  <2>1. /\ good = <<>> /\ (runner # <<>> \/ bad = <<>>) /\ out' = Null
        /\ good' = good /\ runner' = runner /\ bad' = bad /\ lastId' = lastId /\ handed' = handed
        /\ threshold' = threshold /\ filling' = filling
    BY <1>7 DEF Mhb!DequeueNull
  <2>2. runner = <<>> /\ bad = <<>> BY <1>2, <2>1
  <2>3. Queued = {} /\ Queued' = {} BY <2>1, <2>2, EmptyFacts DEF Queued
  <2>4. Fresh' /\ Promise!CQDequeue BY <2>1, <2>3, NullStep
  <2>5. MhbInv' BY <2>1 DEF MhbInv
  <2> QED BY <2>4, <2>5 DEF Steps
<1> QED BY <1>4, <1>5, <1>6, <1>7 DEF MaxheapBucket, Mhb!Next

-----------------------------------------------------------------------------
(* The theorems.                                                           *)

LEMMA QueueInit == Init => QueueInv /\ Promise!CQInit
<1> SUFFICES ASSUME Init PROVE QueueInv /\ Promise!CQInit OBVIOUS
<1>1. /\ impl \in Impl /\ good = <<>> /\ runner = <<>> /\ bad = <<>> /\ badCap = BadCap /\ ops = 0
      /\ threshold = 0 /\ filling = TRUE /\ lastId = 0 /\ out = Null /\ handed = 0
  BY DEF Init, Mh!Init, Tbq!Init, Mhb!Init
<1>2. Queued = {} BY <1>1, EmptyFacts DEF Queued
<1>3. Fresh BY <1>1, <1>2 DEF Fresh
<1>4. /\ M \in Nat /\ M > 0 /\ R \in Nat /\ T \in Nat /\ T > 0 /\ BadCap \in Nat /\ BadCap > 0
  BY QueueAssumption DEF QueueAssumption
<1>5. HeapInv BY <1>1, EmptyFacts DEF HeapInv
<1>6. TbqInv
  <2>1. TbqPiles(good, bad)
    <3>1. Len(<<>>) <= M BY <1>4, EmptyFacts
    <3> QED BY <1>1, <3>1, EmptyFacts DEF TbqPiles, Apart
  <2>2. Len(bad) <= badCap /\ ops < T /\ badCap \in Nat /\ badCap > 0 /\ ops \in Nat
    BY <1>1, <1>4, EmptyFacts
  <2> QED BY <1>1, <2>1, <2>2 DEF TbqInv
<1>7. \A dir \in Dir : Tiers(dir, good, runner, bad)
  <2>1. Len(<<>>) <= M /\ Len(<<>>) <= R BY <1>4, EmptyFacts
  <2> QED BY <1>1, <2>1, EmptyFacts DEF Tiers, Apart
<1>8. RupInv
  <2>1. Top(good, runner, bad) BY <1>1, EmptyFacts DEF Top, NoneBetter, Ranked
  <2> QED BY <1>1, <1>7, <2>1 DEF RupInv, Dir
<1>9. MhbInv BY <1>1, <1>7 DEF MhbInv, Dir
<1>10. Promise!CQInit BY <1>1, <1>2 DEF Promise!CQInit, Queued
<1> QED BY <1>1, <1>3, <1>5, <1>6, <1>8, <1>9, <1>10 DEF QueueInv

LEMMA QueueNext ==
  QueueInv /\ [Next]_vars =>
    QueueInv' /\ [Promise!CQEnqueue \/ Promise!CQDequeue]_(Promise!cqVars)
<1> SUFFICES ASSUME QueueInv, [Next]_vars
             PROVE  QueueInv' /\ [Promise!CQEnqueue \/ Promise!CQDequeue]_(Promise!cqVars)
  OBVIOUS
<1>0. QueueAssumption BY QueueAssumption
<1>1. Fresh /\ impl \in Impl BY DEF QueueInv
<1>2. CASE UNCHANGED vars
  <2>1. /\ impl' = impl /\ good' = good /\ runner' = runner /\ bad' = bad /\ badCap' = badCap
        /\ ops' = ops /\ threshold' = threshold /\ filling' = filling /\ lastId' = lastId
        /\ out' = out /\ handed' = handed
    BY <1>2 DEF vars
  <2>2. Queued' = Queued BY <2>1 DEF Queued
  <2>3. Fresh' BY <1>1, <2>1, <2>2 DEF Fresh
  <2>4. QueueInv' BY <2>1, <2>3 DEF QueueInv, HeapInv, TbqInv, RupInv, MhbInv
  <2>5. UNCHANGED Promise!cqVars BY <2>1, <2>2 DEF Promise!cqVars, Queued
  <2> QED BY <2>4, <2>5
<1>3. CASE Next
  <2>1. impl' = impl BY <1>3 DEF Next
  <2>2. CASE Maxheap
    <3>1. impl = "maxheap" BY <2>2 DEF Maxheap
    <3>2. HeapInv' /\ Steps BY <1>0, <1>1, <2>1, <2>2, <3>1, MaxheapStep DEF QueueInv
    <3> QED BY <1>1, <2>1, <3>1, <3>2 DEF QueueInv, Steps
  <2>3. CASE ThresholdBucket
    <3>1. impl = "threshold_bucket" BY <2>3 DEF ThresholdBucket
    <3>2. TbqInv' /\ Steps BY <1>0, <1>1, <2>1, <2>3, <3>1, ThresholdBucketStep DEF QueueInv
    <3> QED BY <1>1, <2>1, <3>1, <3>2 DEF QueueInv, Steps
  <2>4. CASE RunnerUp
    <3>1. impl = "runner_up" BY <2>4 DEF RunnerUp
    <3>2. RupInv' /\ Steps BY <1>0, <1>1, <2>1, <2>4, <3>1, RunnerUpStep DEF QueueInv
    <3> QED BY <1>1, <2>1, <3>1, <3>2 DEF QueueInv, Steps
  <2>5. CASE MaxheapBucket
    <3>1. impl = "maxheap_bucket" BY <2>5 DEF MaxheapBucket
    <3>2. MhbInv' /\ Steps BY <1>0, <1>1, <2>1, <2>5, <3>1, MaxheapBucketStep DEF QueueInv
    <3> QED BY <1>1, <2>1, <3>1, <3>2 DEF QueueInv, Steps
  <2> QED BY <1>3, <2>2, <2>3, <2>4, <2>5 DEF Next
<1> QED BY <1>2, <1>3

LEMMA InvariantSound == QueueInv => TiersSound
<1> SUFFICES ASSUME QueueInv PROVE TiersSound OBVIOUS
<1>1. PilesInShape
  <2>1. impl = "maxheap" => IsHeap(Higher, good) BY DEF QueueInv, HeapInv
  <2>2. impl = "threshold_bucket" => Tbq!GoodPileIsHeap
    BY TbqOps DEF QueueInv, TbqInv, TbqPiles, Tbq!GoodPileIsHeap
  <2>3. impl = "runner_up" => Rup!TiersInShape
    BY RupOps DEF QueueInv, RupInv, Tiers, Rup!TiersInShape
  <2>4. impl = "maxheap_bucket" => Mhb!TiersInShape
    BY MhbOps DEF QueueInv, MhbInv, Tiers, Mhb!TiersInShape
  <2> QED BY <2>1, <2>2, <2>3, <2>4 DEF PilesInShape
<1>2. BadPileFits BY DEF QueueInv, TbqInv, BadPileFits, Tbq!BadPileFits
<1>3. RebuiltInTime BY DEF QueueInv, TbqInv, RebuiltInTime, Tbq!RebuiltInTime
<1>4. TiersOrdered
  <2> SUFFICES ASSUME impl = "runner_up", handed = 0
               PROVE  /\ \A x \in ToSet(good) : \A y \in ToSet(runner) \cup ToSet(bad) : x.score >= y.score
                      /\ \A x \in ToSet(runner) : \A y \in ToSet(bad) : x.score >= y.score
    BY RupOps DEF TiersOrdered, Rup!TiersOrdered
  <2>1. Top(good, runner, bad) /\ Tiers(Lower, good, runner, bad) BY DEF QueueInv, RupInv
  <2>2. /\ \A y \in ToSet(runner) \cup ToSet(bad), x \in ToSet(good) : y.score <= x.score
        /\ \A y \in ToSet(bad), x \in ToSet(runner) : y.score <= x.score
    BY <2>1 DEF Top, Ranked, NoneBetter
  <2>3. \A x \in ToSet(good) \cup ToSet(runner) \cup ToSet(bad) : x.score \in Nat
    BY <2>1, QueueAssumption, TiersTypes DEF Entry
  <2> QED BY <2>2, <2>3
<1>5. ThresholdExact
  BY DEF QueueInv, MhbInv, ThresholdExact, Mhb!ThresholdExactWhileEnqueuing
<1> QED BY <1>1, <1>2, <1>3, <1>4, <1>5 DEF TiersSound

\* Whichever of the four queues sgf_queue_create makes, and over any calls: the heaps
\* stay heaps and the runner-up buffer sorted, no tier outgrows its array, a rebuild is
\* never overdue, and until the first dequeue the tiers are ranked and the cached
\* threshold is the least score of the good pile.
THEOREM TiersCorrect == Spec => []TiersSound
<1>1. QueueInv /\ [Next]_vars => QueueInv' BY QueueNext
<1> QED BY <1>1, QueueInit, InvariantSound, PTL DEF Spec

\* Every implementation behaves like the set of entries of CandidateQueue: a step of any
\* of them adds the new entry, returns a queued one and drops what it may drop, returns
\* NULL when nothing is queued, or changes nothing that a caller sees.
THEOREM QueuesImplement == Spec => ImplementsQueue
<1>1. QueueInv /\ [Next]_vars => QueueInv' BY QueueNext
<1>2. QueueInv /\ [Next]_vars => [Promise!CQEnqueue \/ Promise!CQDequeue]_(Promise!cqVars)
  BY QueueNext
<1>3. Init => QueueInv /\ Promise!CQInit BY QueueInit
<1> QED BY <1>1, <1>2, <1>3, PTL DEF Spec, ImplementsQueue, Promise!CQSpec

-----------------------------------------------------------------------------
(* The corpus.                                                             *)

Assigned == 0..(maxId - 1)    \* the ids handed out so far

TypeInv ==
  /\ pc \in {"top", "fuzz", "lost"}
  /\ maxId \in 1..MaxIds
  /\ buf \in Seq(Assigned) /\ Len(buf) \in Nat \ {0}
  /\ mother \in [Ids -> Ids \cup {NoEntry}]
  /\ fuzzed \subseteq Assigned /\ bounded \subseteq Assigned
  /\ disabled \subseteq 0..(Seeds - 1) /\ Seeds <= maxId
  /\ pending \in Int /\ compacted \in BOOLEAN

\* Before a compaction queue_buf holds every entry at the index that is its id.
Identity == ~compacted => Len(buf) = maxId /\ \A i \in 1..Len(buf) : buf[i] = i - 1

CurLive == pc = "fuzz" => cur \in InCorpus

Inv ==
  /\ TypeInv /\ Identity /\ CurLive
  /\ SeedFirst /\ MothersLive /\ PendingExact /\ EntryIndexExact /\ CandidatesFresh
  /\ ~compacted => disabled \subseteq fuzzed

\* Facts about the entries of a buffer.
LEMMA CorpusFinite ==
  ASSUME TypeInv
  PROVE  /\ IsFiniteSet(Assigned) /\ InCorpus \subseteq Assigned /\ Assigned \subseteq Ids
         /\ \A i \in 1..Len(buf) : buf[i] \in InCorpus
         /\ \A S : S \subseteq Assigned => IsFiniteSet(S)
<1>1. maxId \in Int BY CorpusAssumption DEF TypeInv
<1>2. IsFiniteSet(Assigned) BY <1>1, FS_Interval DEF Assigned
<1>3. InCorpus \subseteq Assigned /\ \A i \in 1..Len(buf) : buf[i] \in InCorpus
  BY DEF TypeInv, InCorpus, ToSet
<1>4. Assigned \subseteq Ids BY CorpusAssumption DEF TypeInv, Assigned, Ids
<1> QED BY <1>2, <1>3, <1>4, FS_Subset

-----------------------------------------------------------------------------
LEMMA InvInit == CorpusInit => Inv
<1> SUFFICES ASSUME CorpusInit PROVE Inv OBVIOUS
<1> USE CorpusAssumption
<1>1. Seeds \in 1..MaxIds /\ maxId = Seeds BY DEF CorpusInit
<1>2. buf = [i \in 1..Seeds |-> i - 1] /\ Len(buf) = Seeds BY <1>1 DEF CorpusInit
<1>3. buf \in Seq(Assigned) BY <1>1, <1>2 DEF Assigned
<1>4. InCorpus = 0..(Seeds - 1)
  <2>1. \A i \in 1..Seeds : i - 1 \in 0..(Seeds - 1) BY <1>1
  <2>2. \A i \in 0..(Seeds - 1) : i + 1 \in 1..Seeds /\ (i + 1) - 1 = i BY <1>1
  <2>3. DOMAIN buf = 1..Seeds BY <1>2
  <2>4. \A i \in 1..Seeds : buf[i] = i - 1 BY <1>2
  <2>5. InCorpus = {buf[i] : i \in 1..Seeds} BY <2>3 DEF InCorpus, ToSet
  <2>6. \A x \in InCorpus : x \in 0..(Seeds - 1) BY <2>1, <2>4, <2>5
  <2>7. \A x \in 0..(Seeds - 1) : x \in InCorpus BY <2>2, <2>4, <2>5
  <2> QED BY <2>6, <2>7
<1>5. disabled \subseteq 0..(Seeds - 1) /\ fuzzed = disabled BY DEF CorpusInit
<1>6. IsFiniteSet(0..(Seeds - 1)) /\ Cardinality(0..(Seeds - 1)) = Seeds
  BY <1>1, FS_Interval
<1>7. IsFiniteSet(disabled) /\ Cardinality(disabled) \in Nat
  BY <1>5, <1>6, FS_Subset, FS_CardinalityType
<1>8. PendingExact
  <2>1. Cardinality(0..(Seeds - 1) \ disabled)
          = Seeds - Cardinality(0..(Seeds - 1) \cap disabled)
    BY <1>6, FS_Difference
  <2>2. 0..(Seeds - 1) \cap disabled = disabled BY <1>5
  <2> QED BY <1>4, <1>5, <2>1, <2>2 DEF CorpusInit, PendingExact
<1>9. TypeInv
  <2>1. Assigned = 0..(Seeds - 1) BY <1>1 DEF Assigned
  <2>2. fuzzed \subseteq Assigned /\ bounded \subseteq Assigned BY <1>5, <2>1 DEF CorpusInit
  <2>3. mother \in [Ids -> Ids \cup {NoEntry}] BY DEF CorpusInit
  <2>4. pending \in Int BY <1>1, <1>7 DEF CorpusInit
  <2>5. compacted \in BOOLEAN /\ pc = "top" BY DEF CorpusInit
  <2> QED BY <1>1, <1>2, <1>3, <1>5, <2>2, <2>3, <2>4, <2>5 DEF TypeInv
<1>10. Identity /\ SeedFirst BY <1>1, <1>2 DEF Identity, SeedFirst
<1>11. MothersLive
  BY <1>1, <1>4 DEF CorpusInit, MothersLive, Ids
<1> QED BY <1>4, <1>5, <1>8, <1>9, <1>10, <1>11
        DEF CorpusInit, Inv, CurLive, EntryIndexExact, EntryIndexExactAlways, CandidatesFresh,
            SelectedIsLive
-----------------------------------------------------------------------------
LEMMA InvSelect == Inv /\ Select => Inv'
<1> SUFFICES ASSUME Inv, Select PROVE Inv' OBVIOUS
<1> USE CorpusAssumption
<1>a. TypeInv BY DEF Inv
<1>b. UNCHANGED <<buf, mother, maxId, fuzzed, pending, disabled, compacted>> /\ InCorpus' = InCorpus
  BY DEF Select, InCorpus
<1>c. PICK i \in 1..Len(buf) :
        \/ /\ bounded = {} /\ cur' = buf[i] /\ currentEntry' = i - 1 /\ pc' = "fuzz"
           /\ bounded' = bounded
        \/ \E b \in bounded :
             /\ bounded' \in Dequeued(b)
             /\ IF b \in InCorpus
                THEN TakeBounded(b, i) /\ pc' = "fuzz"
                ELSE pc' = "lost" /\ UNCHANGED <<cur, currentEntry>>
  BY DEF Select
<1>d. pc' \in {"fuzz", "lost"} /\ bounded' \subseteq bounded BY <1>c DEF Dequeued
<1>1. TypeInv' BY <1>a, <1>b, <1>d DEF TypeInv, Assigned
<1>2. Identity' /\ SeedFirst' /\ MothersLive' /\ PendingExact'
  BY <1>b DEF Inv, Identity, SeedFirst, MothersLive, PendingExact
<1>3. CurLive'
  <2>1. buf[i] \in InCorpus BY <1>a, CorpusFinite
  <2> QED BY <1>b, <1>c, <2>1 DEF CurLive, TakeBounded
<1>4. CandidatesFresh'
  <2> SUFFICES ASSUME ~compacted
               PROVE  /\ pc' # "lost" /\ bounded' \subseteq InCorpus \ fuzzed
                      /\ cur' \notin bounded'
    BY <1>b DEF CandidatesFresh, SelectedIsLive
  <2>1. bounded \subseteq InCorpus \ fuzzed BY DEF Inv, CandidatesFresh
  <2>2. pc' # "lost" BY <1>c, <2>1
  <2>3. cur' \notin bounded' BY <1>c, <2>1 DEF TakeBounded, Dequeued
  <2> QED BY <1>d, <2>1, <2>2, <2>3
<1>5. EntryIndexExact'
  <2> SUFFICES ASSUME ~compacted, pc' = "fuzz"
               PROVE  currentEntry' < Len(buf) /\ buf[currentEntry' + 1] = cur'
    BY <1>b DEF EntryIndexExact, EntryIndexExactAlways
  <2>1. CASE bounded = {} /\ cur' = buf[i] /\ currentEntry' = i - 1
    BY <1>a, <2>1 DEF TypeInv
  <2>2. CASE \E b \in bounded : b \in InCorpus /\ TakeBounded(b, i)
    <3>1. PICK b \in InCorpus : cur' = b /\ currentEntry' = b BY <2>2 DEF TakeBounded
    <3>2. b \in 0..(maxId - 1) BY <1>a, CorpusFinite DEF Assigned
    <3>3. Len(buf) = maxId /\ \A k \in 1..Len(buf) : buf[k] = k - 1 BY DEF Inv, Identity
    <3>4. b + 1 \in 1..Len(buf) /\ (b + 1) - 1 = b /\ b < Len(buf)
      BY <1>a, <3>2, <3>3 DEF TypeInv
    <3> QED BY <3>1, <3>3, <3>4
  <2> QED BY <1>c, <2>1, <2>2
<1>6. ~compacted' => disabled' \subseteq fuzzed' BY <1>b DEF Inv
<1> QED BY <1>1, <1>2, <1>3, <1>4, <1>5, <1>6 DEF Inv

LEMMA InvFuzzOne ==
  ASSUME Inv, NEW n \in 0..MaxKids, NEW kids \in [1..n -> SUBSET Edges], FuzzOne(kids)
  PROVE  Inv'
<1> USE CorpusAssumption
<1> DEFINE new == [k \in 1..Len(kids) |-> maxId + k - 1]
           New == maxId..(maxId + n - 1)
<1>a. TypeInv /\ maxId \in 1..MaxIds /\ n \in Nat BY DEF Inv, TypeInv
<1>b. Len(kids) = n /\ new = [k \in 1..n |-> maxId + k - 1] /\ maxId' = maxId + n
      /\ maxId' \in 1..MaxIds
  <2>1. Len(kids) = n BY <1>a
  <2> QED BY <1>a, <2>1 DEF FuzzOne
<1>c. ToSet(new) = New
  <2>1. ToSet(new) = {new[k] : k \in 1..n} BY <1>b DEF ToSet
  <2>2. \A k \in 1..n : new[k] = maxId + k - 1 /\ new[k] \in New BY <1>a, <1>b
  <2>3. \A x \in New : x - maxId + 1 \in 1..n /\ maxId + (x - maxId + 1) - 1 = x BY <1>a
  <2>4. \A x \in New : x \in ToSet(new) BY <2>1, <2>2, <2>3
  <2> HIDE DEF New, new
  <2> QED BY <2>1, <2>2, <2>4
<1>d. /\ pc = "fuzz" /\ pc' = "top" /\ buf' = buf \o new
      /\ mother' = [i \in Ids |-> IF i \in New THEN cur ELSE mother[i]]
      /\ bounded' = bounded \cup New
      /\ fuzzed' = fuzzed \cup {cur}
      /\ pending' = pending + n - (IF cur \in fuzzed THEN 0 ELSE 1)
      /\ UNCHANGED <<cur, currentEntry, disabled, compacted>>
  <2> HIDE DEF New
  <2> QED BY <1>b, <1>c DEF FuzzOne, MarkFuzzed
<1>e. cur \in InCorpus /\ InCorpus \subseteq Assigned /\ Assigned \subseteq Ids
      /\ IsFiniteSet(InCorpus)
  BY <1>a, <1>d, CorpusFinite DEF Inv, CurLive
<1>f. /\ buf \in Seq(Assigned) /\ new \in Seq(New)
      /\ Len(buf') = Len(buf) + n
      /\ \A i \in 1..Len(buf) : buf'[i] = buf[i]
      /\ \A i \in (Len(buf) + 1)..(Len(buf) + n) : buf'[i] = maxId + i - Len(buf) - 1
  <2>1. buf \in Seq(Assigned) /\ new \in Seq(New) /\ Len(new) = n BY <1>a, <1>b DEF TypeInv
  <2> QED BY <1>a, <1>b, <1>d, <2>1
<1>g. Assigned' = Assigned \cup New /\ Assigned \cap New = {}
  BY <1>a, <1>b DEF Assigned
<1>h. InCorpus' = InCorpus \cup New
  <2>1. DOMAIN buf = 1..Len(buf) /\ DOMAIN buf' = 1..(Len(buf) + n) /\ Len(buf) \in Nat
    BY <1>a, <1>d, <1>f DEF TypeInv
  <2>2. InCorpus = {buf[i] : i \in 1..Len(buf)}
        /\ InCorpus' = {buf'[i] : i \in 1..(Len(buf) + n)}
    BY <2>1 DEF InCorpus, ToSet
  <2>3. \A x \in InCorpus : x \in InCorpus'
    BY <1>a, <1>f, <2>1, <2>2
  <2>4. \A x \in New : x \in InCorpus'
    <3> SUFFICES ASSUME NEW x \in New PROVE x \in InCorpus' OBVIOUS
    <3> DEFINE k == x - maxId + Len(buf) + 1
    <3>1. /\ k \in (Len(buf) + 1)..(Len(buf) + n) /\ k \in 1..(Len(buf) + n)
          /\ maxId + k - Len(buf) - 1 = x
      BY <1>a, <2>1
    <3> HIDE DEF k
    <3>2. buf'[k] = maxId + k - Len(buf) - 1 BY <1>f, <3>1
    <3> QED BY <2>2, <3>1, <3>2
  <2>5. \A x \in InCorpus' : x \in InCorpus \cup New
    <3> SUFFICES ASSUME NEW i \in 1..(Len(buf) + n) PROVE buf'[i] \in InCorpus \cup New
      BY <2>2
    <3>1. CASE i \in 1..Len(buf) BY <1>f, <2>2, <3>1
    <3>2. CASE i \in (Len(buf) + 1)..(Len(buf) + n) BY <1>a, <1>f, <2>1, <3>2
    <3> QED BY <1>a, <2>1, <3>1, <3>2
  <2> HIDE DEF New
  <2> QED BY <2>3, <2>4, <2>5
<1>1. TypeInv'
  <2>1. buf' \in Seq(Assigned') /\ Len(buf') \in Nat \ {0}
    BY <1>a, <1>d, <1>f, <1>g DEF TypeInv
  <2>2. New \subseteq Ids BY <1>a, <1>b DEF Ids
  <2>3. mother' \in [Ids -> Ids \cup {NoEntry}]
    <3> HIDE DEF New
    <3> QED BY <1>a, <1>d, <1>e DEF TypeInv
  <2>4. fuzzed' \subseteq Assigned' /\ bounded' \subseteq Assigned'
    <3> HIDE DEF New
    <3> QED BY <1>a, <1>d, <1>e, <1>g DEF TypeInv
  <2>5. pending' \in Int BY <1>a, <1>d DEF TypeInv
  <2> QED BY <1>a, <1>b, <1>d, <2>1, <2>3, <2>4, <2>5 DEF TypeInv
<1>2. Identity'
  <2> SUFFICES ASSUME ~compacted
               PROVE  Len(buf') = maxId' /\ \A i \in 1..Len(buf') : buf'[i] = i - 1
    BY <1>d DEF Identity
  <2>1. Len(buf) = maxId /\ \A i \in 1..Len(buf) : buf[i] = i - 1 BY DEF Inv, Identity
  <2> QED BY <1>a, <1>b, <1>f, <2>1
<1>3. CurLive' /\ EntryIndexExact' BY <1>d DEF CurLive, EntryIndexExact, EntryIndexExactAlways
<1>4. SeedFirst'
  <2>1. Len(buf) \in Nat \ {0} /\ \A i \in 1..Len(buf) : buf[i] \in 0..(maxId - 1)
    BY <1>a, <1>f DEF TypeInv, Assigned
  <2>2. buf[1] = 0 /\ \A i, j \in 1..Len(buf) : i < j => buf[i] < buf[j] BY DEF Inv, SeedFirst
  <2>3. ASSUME NEW i \in 1..Len(buf'), NEW j \in 1..Len(buf'), i < j PROVE buf'[i] < buf'[j]
    <3>1. CASE i <= Len(buf) /\ j <= Len(buf) BY <1>a, <1>f, <2>1, <2>2, <2>3, <3>1
    <3>2. CASE i <= Len(buf) /\ j > Len(buf) BY <1>a, <1>f, <2>1, <2>3, <3>2
    <3>3. CASE i > Len(buf) BY <1>a, <1>f, <2>1, <2>3, <3>3
    <3> QED BY <1>a, <2>1, <3>1, <3>2, <3>3
  <2> QED BY <1>f, <2>1, <2>2, <2>3 DEF SeedFirst
<1>5. MothersLive'
  <2> HIDE DEF New
  <2> QED BY <1>d, <1>e, <1>h, <1>1 DEF Inv, MothersLive, TypeInv, Ids, Assigned
<1>6. PendingExact'
  <2> DEFINE old == InCorpus \ fuzzed
  <2>1. IsFiniteSet(New) /\ Cardinality(New) = n BY <1>a, FS_Interval
  <2>2. IsFiniteSet(old) /\ Cardinality(old) \in Nat /\ pending = Cardinality(old)
    BY <1>e, FS_Subset, FS_CardinalityType DEF Inv, PendingExact
  <2>3. IsFiniteSet(old \ {cur})
        /\ Cardinality(old \ {cur}) = Cardinality(old) - (IF cur \in fuzzed THEN 0 ELSE 1)
    BY <1>e, <2>2, FS_RemoveElement
  <2>4. New \cap fuzzed = {} /\ New \cap InCorpus = {} BY <1>a, <1>e, <1>g DEF TypeInv
  <2>5. InCorpus' \ fuzzed' = (old \ {cur}) \cup New /\ (old \ {cur}) \cap New = {}
    <3> HIDE DEF New
    <3> QED BY <1>d, <1>e, <1>h, <2>4
  <2>6. Cardinality((old \ {cur}) \cup New) = Cardinality(old \ {cur}) + n
    <3> HIDE DEF New, old
    <3>1. Cardinality((old \ {cur}) \cap New) = 0 BY <2>5, FS_EmptySet
    <3>2. Cardinality(old \ {cur}) \in Nat BY <2>3, FS_CardinalityType
    <3>3. Cardinality((old \ {cur}) \cup New)
            = Cardinality(old \ {cur}) + Cardinality(New) - Cardinality((old \ {cur}) \cap New)
      BY <2>1, <2>3, FS_Union
    <3> QED BY <1>a, <2>1, <3>1, <3>2, <3>3
  <2> HIDE DEF New, old
  <2>7. pending' = Cardinality(old \ {cur}) + n BY <1>a, <1>d, <2>2, <2>3
  <2> QED BY <2>5, <2>6, <2>7 DEF PendingExact
<1>7. CandidatesFresh'
  <2>1. New \cap fuzzed = {} /\ cur \notin New BY <1>a, <1>e, <1>g DEF TypeInv
  <2> HIDE DEF New
  <2> QED BY <1>d, <1>h, <2>1 DEF Inv, CandidatesFresh, SelectedIsLive
<1>8. ~compacted' => disabled' \subseteq fuzzed' BY <1>d DEF Inv
<1> QED BY <1>1, <1>2, <1>3, <1>4, <1>5, <1>6, <1>7, <1>8 DEF Inv

LEMMA InvCompact == Inv /\ ClearAndCompact => Inv'
<1> SUFFICES ASSUME Inv, ClearAndCompact PROVE Inv' OBVIOUS
<1> USE CorpusAssumption
<1>a. PICK rank \in Rankings : Compact(Survivors(rank)) BY DEF ClearAndCompact
<1> DEFINE kept == Survivors(rank)
           n == Cardinality(kept)
<1>b. TypeInv /\ pc = "top" /\ compacted' = TRUE
      /\ UNCHANGED <<pc, maxId, bounded, disabled>> /\ Assigned' = Assigned
  BY DEF Inv, ClearAndCompact, Assigned
<1>c. buf[1] = 0 /\ \A i, j \in 1..Len(buf) : i < j => buf[i] < buf[j] BY DEF Inv, SeedFirst
<1>d. kept \subseteq InCorpus /\ 0 \in kept
  <2>1. 1 \in 1..Len(buf) BY <1>b DEF TypeInv
  <2>2. buf[1] \in InCorpus BY <1>b, <2>1, CorpusFinite
  <2>3. \A e : BestHolders(e, rank) \subseteq InCorpus BY DEF BestHolders, Holders
  <2> HIDE DEF BestHolders, InCorpus
  <2> QED BY <1>c, <2>2, <2>3 DEF Survivors
<1>e. InCorpus \subseteq Assigned /\ Assigned \subseteq Ids /\ IsFiniteSet(kept)
  BY <1>b, <1>d, CorpusFinite
<1>f. n \in Nat BY <1>e, FS_CardinalityType
<1> HIDE DEF kept
<1>g. PICK at \in [1..n -> 1..Len(buf)] :
        /\ \A i, j \in 1..n : i < j => at[i] < at[j]
        /\ {buf[at[i]] : i \in 1..n} = kept
        /\ buf' = [i \in 1..n |-> buf[at[i]]]
  <2>1. CompactBuf(kept) BY <1>a DEF Compact, kept
  <2> QED BY <2>1 DEF CompactBuf
<1>h. /\ mother' = [i \in Ids |-> IF i \in kept /\ mother[i] \notin kept THEN NoEntry ELSE mother[i]]
      /\ pending' = n /\ fuzzed' = fuzzed \ kept
  BY <1>a DEF Compact, MothersAmong, kept
<1>i. n > 0 BY <1>d, <1>e, <1>f, FS_EmptySet
<1>j. Len(buf) \in Nat /\ buf \in Seq(Assigned) BY <1>b DEF TypeInv
<1>k. Len(buf') = n /\ DOMAIN buf' = 1..n /\ \A i \in 1..n : buf'[i] = buf[at[i]]
  BY <1>f, <1>g
<1>l. InCorpus' = kept
  <2>1. InCorpus' = {buf'[i] : i \in 1..n} BY <1>k DEF InCorpus, ToSet
  <2> QED BY <1>g, <1>k, <2>1
<1>1. TypeInv'
  <2>1. buf' \in Seq(Assigned')
    <3>1. \A i \in 1..n : buf[at[i]] \in Assigned BY <1>g, <1>j
    <3> QED BY <1>b, <1>f, <1>g, <3>1
  <2>2. Len(buf') \in Nat \ {0} BY <1>f, <1>i, <1>k
  <2>3. mother' \in [Ids -> Ids \cup {NoEntry}] BY <1>b, <1>h DEF TypeInv
  <2>4. fuzzed' \subseteq Assigned' /\ bounded' \subseteq Assigned' BY <1>b, <1>h DEF TypeInv
  <2>5. pending' \in Int BY <1>f, <1>h
  <2> QED BY <1>b, <2>1, <2>2, <2>3, <2>4, <2>5 DEF TypeInv
<1>2. SeedFirst'
  <2>1. ASSUME NEW i \in 1..n, NEW j \in 1..n, i < j PROVE buf'[i] < buf'[j]
    BY <1>c, <1>g, <1>k, <2>1
  <2>2. PICK k \in 1..n : buf'[k] = 0 BY <1>d, <1>g, <1>k
  <2>3. buf'[1] \in Nat
    <3>1. 1 \in 1..n BY <1>f, <1>i
    <3>2. buf'[1] \in Assigned BY <1>g, <1>j, <1>k, <3>1
    <3> QED BY <1>b, <3>2 DEF Assigned, TypeInv
  <2>4. k = 1
    <3>1. 1 \in 1..n BY <1>f, <1>i
    <3>2. k > 1 => buf'[1] < buf'[k] BY <2>1, <3>1
    <3> QED BY <1>f, <2>2, <2>3, <3>2
  <2> QED BY <1>k, <2>1, <2>2, <2>4 DEF SeedFirst
<1>3. MothersLive' BY <1>d, <1>e, <1>h, <1>l DEF MothersLive
<1>4. PendingExact'
  <2>1. kept \ (fuzzed \ kept) = kept OBVIOUS
  <2> QED BY <1>h, <1>l, <2>1 DEF PendingExact
<1>5. Identity' /\ CurLive' /\ EntryIndexExact' /\ CandidatesFresh'
  BY <1>b DEF Identity, CurLive, EntryIndexExact, CandidatesFresh
<1> QED BY <1>b, <1>1, <1>2, <1>3, <1>4, <1>5 DEF Inv

LEMMA InvStutter == Inv /\ UNCHANGED corpusVars => Inv'
<1> SUFFICES ASSUME Inv, UNCHANGED corpusVars PROVE Inv' OBVIOUS
<1>a. UNCHANGED <<pc, buf, mother, maxId, fuzzed, pending, bounded, cur, currentEntry, disabled,
                  compacted>> /\ InCorpus' = InCorpus
  BY DEF corpusVars, InCorpus
<1>1. TypeInv' BY <1>a DEF Inv, TypeInv, Assigned
<1>2. Identity' /\ CurLive' /\ SeedFirst' BY <1>a DEF Inv, Identity, CurLive, SeedFirst
<1>3. MothersLive' /\ PendingExact' BY <1>a DEF Inv, MothersLive, PendingExact
<1>4. EntryIndexExact' BY <1>a DEF Inv, EntryIndexExact, EntryIndexExactAlways
<1>5. CandidatesFresh' BY <1>a DEF Inv, CandidatesFresh, SelectedIsLive
<1> QED BY <1>a, <1>1, <1>2, <1>3, <1>4, <1>5 DEF Inv

LEMMA InvAlways == CorpusSpec => []Inv
<1>1. Inv /\ [CorpusNext]_corpusVars => Inv'
  <2> SUFFICES ASSUME Inv, [CorpusNext]_corpusVars PROVE Inv' OBVIOUS
  <2>1. CASE \E n \in 0..MaxKids : \E kids \in [1..n -> SUBSET Edges] : FuzzOne(kids)
    BY <2>1, InvFuzzOne
  <2> QED BY <2>1, InvSelect, InvCompact, InvStutter DEF CorpusNext
<1> QED BY <1>1, InvInit, PTL DEF CorpusSpec

-----------------------------------------------------------------------------
\* Whatever is fuzzed, added and compacted, the seed with id 0 stays the first entry
\* of queue_buf, the entries stay in the order of their ids, none has a freed mother,
\* and until the first compaction current_entry is the index of queue_cur.
THEOREM QueueCorrect == CorpusSpec => []QueueSound
<1>1. Inv => QueueSound BY DEF Inv, QueueSound
<1> QED BY <1>1, InvAlways, PTL

\* pending_not_fuzzed is the number of entries without was_fuzzed, through repeated
\* fuzzing of an entry and through compactions; until the first one it counts the
\* entries still to be fuzzed.
THEOREM PendingCorrect == CorpusSpec => []PendingCounts
<1>1. Inv => PendingDrains
  <2> SUFFICES ASSUME Inv, ~compacted PROVE PendingDrainsAlways BY DEF PendingDrains
  <2>1. fuzzed \cup disabled = fuzzed BY DEF Inv
  <2> QED BY <2>1 DEF Inv, PendingExact, PendingDrainsAlways
<1>2. Inv => PendingCounts BY <1>1 DEF Inv, PendingCounts
<1> QED BY <1>2, InvAlways, PTL

\* Until the first compaction the bounded queue hands out each entry at most once, and
\* only entries that are in memory.
THEOREM CandidatesCorrect == CorpusSpec => []CandidatesFresh
<1>1. Inv => CandidatesFresh BY DEF Inv
<1> QED BY <1>1, InvAlways, PTL
-----------------------------------------------------------------------------
\* What fuzzing adds and what a compaction leaves.
LEMMA FuzzGrows ==
  ASSUME Inv, NEW n \in 0..MaxKids, NEW kids \in [1..n -> SUBSET Edges], FuzzOne(kids)
  PROVE  /\ Len(buf') = Len(buf) + n
         /\ InCorpus \subseteq InCorpus'
         /\ \A q \in InCorpus : graph'[q] = graph[q]
<1> DEFINE new == [k \in 1..n |-> maxId + k - 1]
<1>1. TypeInv /\ maxId \in 1..MaxIds /\ MaxIds \in Nat /\ MaxKids \in Nat /\ n \in Nat
  BY CorpusAssumption DEF Inv, TypeInv
<1>2. Len(kids) = n BY <1>1
<1>3. /\ buf' = buf \o new
      /\ graph' = [i \in Ids |-> IF i \in ToSet(new) THEN kids[i - maxId + 1] ELSE graph[i]]
  BY <1>2 DEF FuzzOne
<1>4. buf \in Seq(Assigned) /\ Len(buf) \in Nat /\ new \in Seq(Nat) /\ Len(new) = n
  BY <1>1 DEF TypeInv
<1>5. Len(buf') = Len(buf) + n /\ DOMAIN buf' = 1..(Len(buf) + n)
      /\ \A i \in 1..Len(buf) : buf'[i] = buf[i]
  BY <1>1, <1>3, <1>4
<1>6. InCorpus = {buf[i] : i \in 1..Len(buf)} /\ InCorpus' = {buf'[i] : i \in 1..(Len(buf) + n)}
  BY <1>4, <1>5 DEF InCorpus, ToSet
<1>7. InCorpus \subseteq InCorpus'
  <2>1. \A i \in 1..Len(buf) : i \in 1..(Len(buf) + n) BY <1>1, <1>4
  <2> QED BY <1>5, <1>6, <2>1
<1>8. ASSUME NEW q \in InCorpus PROVE graph'[q] = graph[q]
  <2>1. q \in 0..(maxId - 1) /\ q \in Ids BY <1>1, CorpusFinite DEF Assigned
  <2>2. ToSet(new) = {new[k] : k \in 1..n} BY DEF ToSet
  <2>3. \A k \in 1..n : new[k] >= maxId BY <1>1
  <2>4. q \notin ToSet(new) BY <1>1, <2>1, <2>2, <2>3
  <2> QED BY <1>3, <2>1, <2>4
<1> QED BY <1>5, <1>7, <1>8

LEMMA CompactKeeps ==
  ASSUME Inv, NEW rank \in Rankings, Compact(Survivors(rank))
  PROVE  /\ InCorpus' = Survivors(rank) /\ Len(buf') = Cardinality(Survivors(rank))
         /\ IsFiniteSet(InCorpus) /\ InCorpus \subseteq Nat
<1> DEFINE kept == Survivors(rank)
           n == Cardinality(kept)
<1>1. TypeInv /\ Len(buf) \in Nat \ {0} BY DEF Inv, TypeInv
<1>2. buf[1] \in InCorpus /\ InCorpus \subseteq Assigned /\ IsFiniteSet(InCorpus)
  BY <1>1, CorpusFinite
<1>3. kept \subseteq InCorpus
  <2>1. \A e : BestHolders(e, rank) \subseteq InCorpus BY DEF BestHolders, Holders
  <2> HIDE DEF BestHolders, InCorpus
  <2> QED BY <1>2, <2>1 DEF Survivors
<1>4. n \in Nat BY <1>2, <1>3, FS_Subset, FS_CardinalityType
<1> HIDE DEF kept
<1>5. CompactBuf(kept) BY DEF Compact, kept
<1>6. PICK at \in [1..n -> 1..Len(buf)] :
        {buf[at[i]] : i \in 1..n} = kept /\ buf' = [i \in 1..n |-> buf[at[i]]]
  BY <1>5 DEF CompactBuf
<1>7. Len(buf') = n /\ DOMAIN buf' = 1..n /\ \A i \in 1..n : buf'[i] = buf[at[i]]
  BY <1>4, <1>6
<1>8. InCorpus' = {buf'[i] : i \in 1..n} BY <1>7 DEF InCorpus, ToSet
<1>9. InCorpus \subseteq Nat BY <1>1, <1>2, CorpusAssumption DEF TypeInv, Assigned
<1> QED BY <1>2, <1>6, <1>7, <1>8, <1>9 DEF kept

\* An edge that has holders has one that ranks first, which no compaction drops.
LEMMA BestHolderSurvives ==
  ASSUME Inv, NEW e \in Edges, Holders(e) # {}, NEW rank \in Rankings
  PROVE  \E q \in Holders(e) : q \in Survivors(rank)
<1> DEFINE ranks == {rank[q] : q \in Holders(e)}
<1>1. Holders(e) \subseteq InCorpus BY DEF Holders
<1>2. \A q \in Holders(e) : rank[q] \in Nat
  <2>1. Len(buf) \in Nat /\ rank \in [InCorpus -> 1..Len(buf)]
    BY DEF Inv, TypeInv, Rankings, Injection
  <2> QED BY <1>1, <2>1
<1>3. PICK r \in ranks : \A s \in ranks : r <= s
  <2>1. ranks \subseteq Nat /\ ranks # {} BY <1>2
  <2> HIDE DEF ranks
  <2> QED BY <2>1, LeastNumber
<1>4. PICK q \in Holders(e) : rank[q] = r OBVIOUS
<1>5. {p \in Holders(e) : rank[p] < rank[q]} = {}
  <2>1. \A p \in Holders(e) : rank[q] <= rank[p] /\ rank[p] \in Nat BY <1>2, <1>3, <1>4
  <2> QED BY <1>2, <2>1
<1>6. q \in BestHolders(e, rank)
  BY <1>4, <1>5, FS_EmptySet, CorpusAssumption DEF BestHolders
<1> QED BY <1>4, <1>6 DEF Survivors

\* No step loses an edge: fuzz_one only adds, and a compaction keeps the best holder of
\* every edge.
THEOREM EdgesCorrect == CorpusSpec => EdgesKept
<1>1. ASSUME Inv, [CorpusNext]_corpusVars, NEW e \in Edges, Holders(e) # {} PROVE Holders(e)' # {}
  <2>1. PICK q \in InCorpus : e \in graph[q] BY <1>1 DEF Holders
  <2>2. CASE Select \/ UNCHANGED corpusVars
    <3>1. InCorpus' = InCorpus /\ graph' = graph BY <2>2 DEF Select, corpusVars, InCorpus
    <3> QED BY <2>1, <3>1 DEF Holders
  <2>3. CASE \E n \in 0..MaxKids : \E kids \in [1..n -> SUBSET Edges] : FuzzOne(kids)
    <3>1. InCorpus \subseteq InCorpus' /\ graph'[q] = graph[q] BY <1>1, <2>1, <2>3, FuzzGrows
    <3> QED BY <2>1, <3>1 DEF Holders
  <2>4. CASE ClearAndCompact
    <3>1. PICK rank \in Rankings : Compact(Survivors(rank))
      BY <2>4 DEF ClearAndCompact
    <3>2. InCorpus' = Survivors(rank) /\ InCorpus \subseteq Nat BY <1>1, <3>1, CompactKeeps
    <3>3. PICK p \in Holders(e) : p \in Survivors(rank)
      BY <1>1, <3>1, <3>2, BestHolderSurvives
    <3>4. graph' = graph BY <2>4 DEF ClearAndCompact
    <3> QED BY <3>2, <3>3, <3>4 DEF Holders
  <2> QED BY <1>1, <2>2, <2>3, <2>4 DEF CorpusNext
<1>2. Inv /\ [CorpusNext]_corpusVars => [\A e \in Edges : Holders(e) # {} => Holders(e)' # {}]_corpusVars
  BY <1>1
<1> QED BY <1>2, InvAlways, PTL DEF CorpusSpec, EdgesKept

-----------------------------------------------------------------------------
\* The table is made for the whole corpus, or will be before the next draw.  After a
\* compaction prev_queued_items may exceed the corpus: then no entry has was_fuzzed, so
\* that the first to be fuzzed asks for a new table.
TableInv ==
  /\ table \in Nat /\ prevItems \in Nat /\ reinit \in BOOLEAN
  /\ reinit \/ prevItems < Len(buf) \/ table = Len(buf)
  /\ reinit \/ prevItems <= Len(buf) \/ InCorpus \cap fuzzed = {}

LEMMA TableStep == Inv /\ TableInv /\ [CorpusNext]_corpusVars => TableInv'
<1> SUFFICES ASSUME Inv, TableInv, [CorpusNext]_corpusVars PROVE TableInv' OBVIOUS
<1>a. Len(buf) \in Nat \ {0} BY DEF Inv, TypeInv
<1>1. CASE UNCHANGED corpusVars BY <1>1 DEF TableInv, corpusVars, InCorpus
<1>2. CASE Select
  <2>1. UNCHANGED <<buf, fuzzed>> /\ InCorpus' = InCorpus BY <1>2 DEF Select, InCorpus
  <2>2. CASE UNCHANGED <<table, prevItems, reinit>> BY <2>1, <2>2 DEF TableInv
  <2>3. CASE MakeTable
    <3>1. CASE prevItems < Len(buf) \/ reinit
      <4>1. table' = Len(buf) /\ prevItems' = Len(buf) /\ reinit' = FALSE
        BY <2>3, <3>1 DEF MakeTable
      <4>2. table' \in Nat /\ prevItems' \in Nat /\ table' = Len(buf') /\ prevItems' <= Len(buf')
        BY <1>a, <2>1, <4>1
      <4>3. reinit' \in BOOLEAN BY <4>1
      <4> QED BY <4>2, <4>3 DEF TableInv
    <3>2. CASE ~(prevItems < Len(buf) \/ reinit)
      <4>1. UNCHANGED <<table, prevItems>> /\ reinit' = FALSE BY <2>3, <3>2 DEF MakeTable
      <4> QED BY <2>1, <3>2, <4>1 DEF TableInv
    <3> QED BY <3>1, <3>2
  <2> QED BY <1>2, <2>2, <2>3 DEF Select, StockChoice
<1>3. ASSUME NEW n \in 0..MaxKids, NEW kids \in [1..n -> SUBSET Edges], FuzzOne(kids)
      PROVE  TableInv'
  <2>1. Len(buf') = Len(buf) + n BY <1>3, FuzzGrows
  <2>2. n \in Nat BY CorpusAssumption
  <2>3. UNCHANGED <<table, prevItems>> /\ reinit' = (reinit \/ cur \notin fuzzed)
    BY <1>3 DEF FuzzOne, MarkFuzzed
  <2>4. cur \in InCorpus BY <1>3 DEF FuzzOne, Inv, CurLive
  <2>5. CASE reinit \/ cur \notin fuzzed BY <2>3, <2>5 DEF TableInv
  <2>6. CASE ~reinit /\ cur \in fuzzed
    <3>1. prevItems <= Len(buf) BY <2>4, <2>6 DEF TableInv
    <3> QED BY <1>a, <2>1, <2>2, <2>3, <2>6, <3>1 DEF TableInv
  <2> QED BY <2>5, <2>6
<1>4. CASE ClearAndCompact
  <2>1. PICK rank \in Rankings : Compact(Survivors(rank))
    BY <1>4 DEF ClearAndCompact
  <2>2. InCorpus' = Survivors(rank) /\ Len(buf') = Cardinality(Survivors(rank))
    BY <2>1, CompactKeeps
  <2>3. fuzzed' = fuzzed \ Survivors(rank) /\ table' = Len(buf') /\ reinit' = FALSE
    BY <2>1 DEF Compact
  <2>4. InCorpus' \cap fuzzed' = {} BY <2>2, <2>3
  <2>5. Inv' BY <1>4, InvCompact
  <2>6. Len(buf') \in Nat BY <2>5 DEF Inv, TypeInv
  <2>7. prevItems' = prevItems BY <1>4 DEF ClearAndCompact
  <2> QED BY <2>3, <2>4, <2>6, <2>7 DEF TableInv
<1> QED BY <1>1, <1>2, <1>3, <1>4 DEF CorpusNext

\* Whenever the stock choice is drawn from the alias table, the table has been made for
\* the corpus as it is, also when it shrank in a compaction and grew again.
THEOREM TableCorrect == CorpusSpec => TableCoversCorpus
<1>1. CorpusInit => TableInv
  <2> SUFFICES ASSUME CorpusInit PROVE TableInv OBVIOUS
  <2>1. Len(buf) = Seeds /\ Seeds \in Nat \ {0} BY CorpusAssumption DEF CorpusInit
  <2>2. table = 0 /\ prevItems = 0 /\ reinit = FALSE BY DEF CorpusInit
  <2>3. /\ table \in Nat /\ prevItems \in Nat
        /\ prevItems < Len(buf) /\ prevItems <= Len(buf)
    BY <2>1, <2>2
  <2>4. reinit \in BOOLEAN BY <2>2
  <2> QED BY <2>3, <2>4 DEF TableInv
<1>2. Inv /\ TableInv /\ [CorpusNext]_corpusVars
        => [pc # "fuzz" /\ pc' # pc /\ favored = {} => table' = Len(buf)]_corpusVars
  <2> SUFFICES ASSUME Inv, TableInv, CorpusNext, pc # "fuzz", pc' # pc, favored = {}
               PROVE  table' = Len(buf)
    OBVIOUS
  <2>1. Select BY DEF CorpusNext, FuzzOne, ClearAndCompact
  <2>2. MakeTable BY <2>1 DEF Select, StockChoice
  <2> QED BY <2>2 DEF MakeTable, TableInv, Inv, TypeInv
<1> QED BY <1>1, <1>2, InvAlways, TableStep, PTL DEF CorpusSpec, TableCoversCorpus
=============================================================================
