------------------------- MODULE GraphMutatorProofs -------------------------
(***************************************************************************)
(* What the skeleton graph mutator keeps, for every program, seed graph,   *)
(* set of threads and locations that the assumptions of GraphMutator       *)
(* allow.                                                                  *)
(*                                                                         *)
(* A step is a graph edit.  The argument is about the part of the graph    *)
(* that the edit leaves alone: no edge of the new graph enters it from the *)
(* rest, so both graphs agree on every path into it, on its races, its     *)
(* coherence and what a search in it finds.  The events outside it are     *)
(* put back one by one, each fitting and reading nothing stale.  From the  *)
(* invariant, GraphSound, follow the run's six: the edges, coherence, the  *)
(* stored races and potential, the search for consistent writes and the    *)
(* check for sequential consistency.                                       *)
(***************************************************************************)
EXTENDS GraphSoundness, DataLemmas, TLAPS

\* What the first n elements of a sequence are, and in which order they come.
In(t, n, a) == \E i \in 1..n : a = t[i]
InOrder(t, n, a, b) == \E i, j \in 1..n : i < j /\ a = t[i] /\ b = t[j]

\* The pairs of a sequence in their order.
Order(s) == {<<s[q[1]], s[q[2]]>> : q \in {r \in (1..Len(s)) \X (1..Len(s)) : r[1] < r[2]}}

\* What the pairs of a sequence's order are, in terms of its indices.
LEMMA OrderIs ==
  ASSUME NEW X, NEW s \in Seq(X)
  PROVE  /\ \A a, b : <<a, b>> \in Order(s) <=> InOrder(s, Len(s), a, b)
         /\ Order(s) \subseteq ToSet(s) \X ToSet(s)
         /\ \A a : a \in ToSet(s) <=> In(s, Len(s), a)
         /\ ToSet(s) \subseteq X
<1>0. DOMAIN s = 1..Len(s) /\ Len(s) \in Nat OBVIOUS
<1>1. ASSUME NEW a, NEW b
      PROVE  <<a, b>> \in Order(s) <=> \E i, j \in 1..Len(s) : i < j /\ a = s[i] /\ b = s[j]
  <2>1. ASSUME <<a, b>> \in Order(s) PROVE \E i, j \in 1..Len(s) : i < j /\ a = s[i] /\ b = s[j]
    <3>1. PICK q \in (1..Len(s)) \X (1..Len(s)) : q[1] < q[2] /\ <<a, b>> = <<s[q[1]], s[q[2]]>>
      BY <2>1 DEF Order
    <3> QED BY <3>1
  <2>2. ASSUME NEW i \in 1..Len(s), NEW j \in 1..Len(s), i < j, a = s[i], b = s[j]
        PROVE  <<a, b>> \in Order(s)
    <3> DEFINE q == <<i, j>>
    <3>1. q \in {r \in (1..Len(s)) \X (1..Len(s)) : r[1] < r[2]} /\ <<a, b>> = <<s[q[1]], s[q[2]]>>
      BY <2>2
    <3> QED BY <3>1 DEF Order
  <2> QED BY <2>1, <2>2
<1>2. \A a : a \in ToSet(s) <=> \E i \in 1..Len(s) : a = s[i] BY <1>0 DEF ToSet
<1>3. ASSUME NEW p \in Order(s) PROVE p \in ToSet(s) \X ToSet(s)
  <2>1. PICK q \in (1..Len(s)) \X (1..Len(s)) : p = <<s[q[1]], s[q[2]]>> BY DEF Order
  <2>2. s[q[1]] \in ToSet(s) /\ s[q[2]] \in ToSet(s) BY <1>2
  <2> QED BY <2>1, <2>2
<1>4. ToSet(s) \subseteq X BY <1>2
<1> QED BY <1>1, <1>2, <1>3, <1>4 DEF In, InOrder

\* Only goes through the sequence from the left.
OnlyDef(k, s, S) ==
  k = [n \in 0..Len(s) |-> IF n = 0 THEN <<>>
                           ELSE IF s[n] \in S THEN Append(k[n - 1], s[n]) ELSE k[n - 1]]

OnlyStep(k, s, S, n) == k[n] = IF s[n] \in S THEN Append(k[n - 1], s[n]) ELSE k[n - 1]
OnlyTo(k, s, S, X) ==
  /\ k \in [0..Len(s) -> Seq(X)] /\ Only(s, S) = k[Len(s)] /\ k[0] = <<>>
  /\ \A n \in 1..Len(s) : OnlyStep(k, s, S, n)

\* Only(s, S) is built by one pass over s.
LEMMA OnlySteps == ASSUME NEW X, NEW s \in Seq(X), NEW S PROVE \E k : OnlyTo(k, s, S, X)
<1> DEFINE F == [q \in (1..Len(s)) \X Seq(X) |-> IF s[q[1]] \in S THEN Append(q[2], s[q[1]]) ELSE q[2]]
<1>1. F \in [(1..Len(s)) \X Seq(X) -> Seq(X)] OBVIOUS
<1>2. Len(s) \in Nat /\ <<>> \in Seq(X) OBVIOUS
<1>f. \A n \in 1..Len(s), t \in Seq(X) : F[<<n, t>>] = IF s[n] \in S THEN Append(t, s[n]) ELSE t OBVIOUS
<1> HIDE DEF F
<1>3. PICK f \in [0..Len(s) -> Seq(X)] : Iterates(f, Len(s), <<>>, F) BY <1>1, <1>2, Iteration
<1>4. f[0] = <<>> /\ \A n \in 1..Len(s) : f[n] = IF s[n] \in S THEN Append(f[n - 1], s[n]) ELSE f[n - 1]
  <2>1. f[0] = <<>> /\ \A n \in 1..Len(s) : f[n] = F[<<n, f[n - 1]>>] BY <1>3 DEF Iterates
  <2>2. \A n \in 1..Len(s) : f[n - 1] \in Seq(X) BY <1>2
  <2> QED BY <2>1, <2>2, <1>f
<1>5. OnlyDef(f, s, S)
  <2>1. ASSUME NEW n \in 0..Len(s), n # 0
        PROVE  f[n] = IF s[n] \in S THEN Append(f[n - 1], s[n]) ELSE f[n - 1]
    <3>1. n \in 1..Len(s) BY <1>2, <2>1
    <3> QED BY <1>4, <3>1
  <2>2. \A n \in 0..Len(s) : f[n] = IF n = 0 THEN <<>> ELSE IF s[n] \in S THEN Append(f[n - 1], s[n]) ELSE f[n - 1]
    BY <1>4, <2>1
  <2>3. f = [n \in 0..Len(s) |-> f[n]] OBVIOUS
  <2> QED BY <2>2, <2>3 DEF OnlyDef
<1> DEFINE k == CHOOSE d : OnlyDef(d, s, S)
<1>6. OnlyDef(k, s, S) BY <1>5
<1>7. Only(s, S) = k[Len(s)] BY DEF Only, OnlyDef
<1> HIDE DEF k
<1>8. \A n \in 0..Len(s) : k[n] = f[n]
  <2> DEFINE L == {n \in Nat : n <= Len(s) => k[n] = f[n]}
  <2>1. 0 \in L BY <1>2, <1>4, <1>6 DEF OnlyDef
  <2>2. ASSUME NEW n \in Nat, n \in L PROVE n + 1 \in L
    <3> SUFFICES ASSUME n + 1 <= Len(s) PROVE k[n + 1] = f[n + 1] OBVIOUS
    <3>1. n + 1 \in 1..Len(s) /\ n + 1 \in 0..Len(s) /\ (n + 1) - 1 = n /\ n + 1 # 0 /\ k[n] = f[n] BY <1>2, <2>2
    <3>2. k[n + 1] = IF s[n + 1] \in S THEN Append(k[n], s[n + 1]) ELSE k[n] BY <1>6, <3>1 DEF OnlyDef
    <3> QED BY <1>4, <3>1, <3>2
  <2> HIDE DEF L
  <2>3. \A n \in Nat : n \in L BY <2>1, <2>2, SetInduction
  <2> QED BY <1>2, <2>3 DEF L
<1>9. Only(s, S) = f[Len(s)] BY <1>2, <1>7, <1>8
<1> QED BY <1>4, <1>9 DEF OnlyTo, OnlyStep

\* One more element.
LEMMA InNext ==
  ASSUME NEW s, NEW n \in Nat
  PROVE  /\ \A a : In(s, n + 1, a) <=> In(s, n, a) \/ a = s[n + 1]
         /\ \A a, b : InOrder(s, n + 1, a, b) <=> InOrder(s, n, a, b) \/ (In(s, n, a) /\ b = s[n + 1])
<1>1. \A i : i \in 1..(n + 1) <=> i \in 1..n \/ i = n + 1 OBVIOUS
<1>2. \A i \in 1..n : i < n + 1 OBVIOUS
<1>3. \A i, j \in 1..(n + 1) : i < j => i \in 1..n OBVIOUS
<1>4. \A a : In(s, n + 1, a) <=> In(s, n, a) \/ a = s[n + 1] BY <1>1 DEF In
<1>5. ASSUME NEW a, NEW b, InOrder(s, n + 1, a, b)
      PROVE  InOrder(s, n, a, b) \/ (In(s, n, a) /\ b = s[n + 1])
  <2>1. PICK i, j \in 1..(n + 1) : i < j /\ a = s[i] /\ b = s[j] BY <1>5 DEF InOrder
  <2>2. i \in 1..n BY <1>3, <2>1
  <2>3. CASE j \in 1..n BY <2>1, <2>2, <2>3 DEF InOrder
  <2>4. CASE j = n + 1 BY <2>1, <2>2, <2>4 DEF In
  <2> QED BY <1>1, <2>3, <2>4
<1>6. ASSUME NEW a, NEW b, InOrder(s, n, a, b) PROVE InOrder(s, n + 1, a, b) BY <1>1, <1>6 DEF InOrder
<1>7. ASSUME NEW a, In(s, n, a) PROVE InOrder(s, n + 1, a, s[n + 1])
  <2>1. PICK i \in 1..n : a = s[i] BY <1>7 DEF In
  <2>2. i \in 1..(n + 1) /\ n + 1 \in 1..(n + 1) /\ i < n + 1 BY <1>1, <1>2
  <2> QED BY <2>1, <2>2 DEF InOrder
<1> QED BY <1>4, <1>5, <1>6, <1>7

\* Appending x puts it after all that is there and changes no other pair.
LEMMA AppendOrder ==
  ASSUME NEW X, NEW t \in Seq(X), NEW x \in X
  PROVE  /\ Append(t, x) \in Seq(X)
         /\ \A a : In(Append(t, x), Len(Append(t, x)), a) <=> In(t, Len(t), a) \/ a = x
         /\ \A a, b : InOrder(Append(t, x), Len(Append(t, x)), a, b)
                         <=> InOrder(t, Len(t), a, b) \/ (In(t, Len(t), a) /\ b = x)
<1>1. PICK u : u = Append(t, x) OBVIOUS
<1>2. Len(t) \in Nat /\ u \in Seq(X) /\ Len(u) = Len(t) + 1 /\ u[Len(t) + 1] = x BY <1>1
<1>3. \A i \in 1..Len(t) : u[i] = t[i] BY <1>1
<1>4. \A a : In(u, Len(t), a) <=> In(t, Len(t), a) BY <1>3 DEF In
<1>5. \A a, b : InOrder(u, Len(t), a, b) <=> InOrder(t, Len(t), a, b) BY <1>3 DEF InOrder
<1>6. PICK n \in Nat : n = Len(t) BY <1>2
<1>7. /\ \A a : In(u, n + 1, a) <=> In(u, n, a) \/ a = u[n + 1]
      /\ \A a, b : InOrder(u, n + 1, a, b) <=> InOrder(u, n, a, b) \/ (In(u, n, a) /\ b = u[n + 1])
  BY InNext
<1> QED BY <1>1, <1>2, <1>4, <1>5, <1>6, <1>7

\* t is what S leaves of the first n elements of s.
KeptOf(t, s, S, n) ==
  /\ \A a : In(t, Len(t), a) <=> In(s, n, a) /\ a \in S
  /\ \A a, b : InOrder(t, Len(t), a, b) <=> InOrder(s, n, a, b) /\ a \in S /\ b \in S

\* What Only keeps, and that it keeps the order.
LEMMA OnlyKeeps ==
  ASSUME NEW X, NEW s \in Seq(X), NEW S
  PROVE  /\ Only(s, S) \in Seq(X)
         /\ ToSet(Only(s, S)) = ToSet(s) \cap S
         /\ Order(Only(s, S)) = {p \in Order(s) : p[1] \in S /\ p[2] \in S}
<1>0. Len(s) \in Nat OBVIOUS
<1>1. PICK k : OnlyTo(k, s, S, X) BY OnlySteps
<1>k. k \in [0..Len(s) -> Seq(X)] /\ k[0] = <<>> /\ Only(s, S) = k[Len(s)] BY <1>1 DEF OnlyTo
<1> DEFINE Good(n) == KeptOf(k[n], s, S, n)
           L == {n \in Nat : n <= Len(s) => Good(n)}
<1>2. 0 \in L
  <2>1. Len(k[0]) = 0 /\ \A i : ~(i \in 1..0) BY <1>k
  <2>2. \A t : (\A a : ~In(t, 0, a)) /\ (\A a, b : ~InOrder(t, 0, a, b)) BY <2>1 DEF In, InOrder
  <2> QED BY <2>1, <2>2 DEF KeptOf
<1>3. ASSUME NEW n \in Nat, n \in L PROVE n + 1 \in L
  <2> SUFFICES ASSUME n + 1 <= Len(s) PROVE Good(n + 1) OBVIOUS
  <2>1. n + 1 \in 1..Len(s) /\ n \in 0..Len(s) /\ (n + 1) - 1 = n /\ s[n + 1] \in X BY <1>0
  <2>0. Good(n) /\ k[n] \in Seq(X) BY <1>k, <1>3, <2>1
  <2>2. k[n + 1] = IF s[n + 1] \in S THEN Append(k[n], s[n + 1]) ELSE k[n]
    BY <1>1, <2>1 DEF OnlyTo, OnlyStep
  <2> HIDE DEF Good
  <2>3. PICK t : t = k[n] OBVIOUS
  <2>4. PICK x : x = s[n + 1] OBVIOUS
  <2>5. t \in Seq(X) /\ x \in X /\ KeptOf(t, s, S, n) BY <2>0, <2>1, <2>3, <2>4 DEF Good
  <2>6. \A a : In(s, n + 1, a) <=> In(s, n, a) \/ a = x BY <2>4, InNext
  <2>7. \A a, b : InOrder(s, n + 1, a, b) <=> InOrder(s, n, a, b) \/ (In(s, n, a) /\ b = x) BY <2>4, InNext
  <2>8. CASE x \in S
    <3>1. k[n + 1] = Append(t, x) BY <2>2, <2>3, <2>4, <2>8
    <3>2. PICK u : u = Append(t, x) OBVIOUS
    <3>3. KeptOf(u, s, S, n + 1) BY <2>5, <2>6, <2>7, <2>8, <3>2, AppendOrder DEF KeptOf
    <3> QED BY <3>1, <3>2, <3>3 DEF Good
  <2>9. CASE x \notin S
    <3>1. k[n + 1] = t BY <2>2, <2>3, <2>4, <2>9
    <3>2. KeptOf(t, s, S, n + 1) BY <2>5, <2>6, <2>7, <2>9 DEF KeptOf
    <3> QED BY <3>1, <3>2 DEF Good
  <2> QED BY <2>8, <2>9
<1> HIDE DEF L
<1>4. \A n \in Nat : n \in L BY <1>2, <1>3, SetInduction
<1>5. KeptOf(k[Len(s)], s, S, Len(s)) BY <1>0, <1>4 DEF L
<1>6. PICK t : t = Only(s, S) OBVIOUS
<1>7. t \in Seq(X) /\ KeptOf(t, s, S, Len(s)) BY <1>0, <1>k, <1>5, <1>6
<1>8. \A a : a \in ToSet(t) <=> a \in ToSet(s) /\ a \in S BY <1>7, OrderIs DEF KeptOf
<1>9. \A a, b : <<a, b>> \in Order(t) <=> <<a, b>> \in Order(s) /\ a \in S /\ b \in S BY <1>7, OrderIs DEF KeptOf
<1>10. Order(t) \subseteq ToSet(t) \X ToSet(t) /\ Order(s) \subseteq ToSet(s) \X ToSet(s) BY <1>7, OrderIs
<1>11. Order(t) = {p \in Order(s) : p[1] \in S /\ p[2] \in S}
  <2>1. \A p \in Order(t) : p = <<p[1], p[2]>> BY <1>10
  <2>2. \A p \in Order(s) : p = <<p[1], p[2]>> BY <1>10
  <2> QED BY <1>9, <2>1, <2>2
<1> QED BY <1>6, <1>7, <1>8, <1>11

\* Only keeps a prefix as it is.
LEMMA OnlyPrefix ==
  ASSUME NEW X, NEW s \in Seq(X), NEW S, NEW m \in 0..Len(s), \A i \in 1..Len(s) : s[i] \in S <=> i <= m
  PROVE  Only(s, S) = [i \in 1..m |-> s[i]]
<1>0. Len(s) \in Nat /\ m \in Nat /\ m <= Len(s) OBVIOUS
<1>1. PICK k : OnlyTo(k, s, S, X) BY OnlySteps
<1>k. k \in [0..Len(s) -> Seq(X)] /\ k[0] = <<>> /\ Only(s, S) = k[Len(s)] BY <1>1 DEF OnlyTo
<1> DEFINE Initial(n) == [i \in 1..n |-> s[i]]
           L == {n \in Nat : n <= Len(s) => (n <= m => k[n] = Initial(n)) /\ (m <= n => k[n] = Initial(m))}
<1>2. 0 \in L
  <2>1. Initial(0) = <<>> OBVIOUS
  <2>2. m <= 0 => m = 0 BY <1>0
  <2> QED BY <1>k, <2>1, <2>2
<1>3. ASSUME NEW n \in Nat, n \in L PROVE n + 1 \in L
  <2> SUFFICES ASSUME n + 1 <= Len(s)
               PROVE  (n + 1 <= m => k[n + 1] = Initial(n + 1)) /\ (m <= n + 1 => k[n + 1] = Initial(m))
    OBVIOUS
  <2>1. n + 1 \in 1..Len(s) /\ n \in 0..Len(s) /\ (n + 1) - 1 = n /\ n <= Len(s) BY <1>0
  <2>2. k[n + 1] = IF s[n + 1] \in S THEN Append(k[n], s[n + 1]) ELSE k[n]
    BY <1>1, <2>1 DEF OnlyTo, OnlyStep
  <2>3. (n <= m => k[n] = Initial(n)) /\ (m <= n => k[n] = Initial(m)) BY <1>3, <2>1
  <2>4. CASE n + 1 <= m
    <3>1. n <= m /\ s[n + 1] \in S BY <1>0, <2>1, <2>4
    <3>2. k[n + 1] = Append(Initial(n), s[n + 1]) BY <2>2, <2>3, <3>1
    <3>3. Initial(n) \in Seq(X) /\ Len(Initial(n)) = n
      <4>1. \A i \in 1..n : s[i] \in X BY <2>1
      <4> QED BY <4>1
    <3>4. Append(Initial(n), s[n + 1]) = Initial(n + 1)
      <4>1. \A i \in 1..(n + 1) : i \in 1..n \/ i = n + 1 OBVIOUS
      <4>2. s[n + 1] \in X BY <2>1
      <4>3. Append(Initial(n), s[n + 1]) = [i \in 1..(n + 1) |-> IF i = n + 1 THEN s[n + 1] ELSE Initial(n)[i]]
        <5> HIDE DEF Initial
        <5> QED BY <3>3, <4>2
      <4> QED BY <4>1, <4>3
    <3>5. n + 1 = m \/ ~(m <= n + 1) BY <1>0, <2>4
    <3> HIDE DEF Initial
    <3> QED BY <3>2, <3>4, <3>5
  <2>5. CASE ~(n + 1 <= m)
    <3>1. m <= n /\ s[n + 1] \notin S BY <1>0, <2>1, <2>5
    <3> QED BY <2>2, <2>3, <2>5, <3>1
  <2> QED BY <2>4, <2>5
<1> HIDE DEF L
<1>4. \A n \in Nat : n \in L BY <1>2, <1>3, SetInduction
<1>5. k[Len(s)] = Initial(m) BY <1>0, <1>4 DEF L
<1> QED BY <1>k, <1>5

\* Restricting a sequence to a set with all its elements changes nothing.
LEMMA OnlyAll ==
  ASSUME NEW X, NEW s \in Seq(X), NEW S, ToSet(s) \subseteq S
  PROVE  Only(s, S) = s
<1>1. Len(s) \in 0..Len(s) /\ \A i \in 1..Len(s) : s[i] \in S <=> i <= Len(s) BY DEF ToSet
<1>2. Only(s, S) = [i \in 1..Len(s) |-> s[i]] BY <1>1, OnlyPrefix
<1> QED BY <1>2

\* A sequence without repetitions is a strict total order of its elements.
Distinct(s) == \A p \in Order(s) : p[1] # p[2]

\* Distinct says that no element has two positions.
LEMMA DistinctIs ==
  ASSUME NEW X, NEW s \in Seq(X)
  PROVE  Distinct(s) <=> \A i, j \in 1..Len(s) : s[i] = s[j] => i = j
<1>1. ASSUME Distinct(s), NEW i \in 1..Len(s), NEW j \in 1..Len(s), s[i] = s[j], i < j PROVE FALSE
  <2>1. <<s[i], s[j]>> \in Order(s) BY <1>1, OrderIs DEF InOrder
  <2> QED BY <1>1, <2>1 DEF Distinct
<1>2. ASSUME \A i, j \in 1..Len(s) : s[i] = s[j] => i = j, NEW p \in Order(s) PROVE p[1] # p[2]
  <2>1. p = <<p[1], p[2]>> BY OrderIs
  <2>2. PICK i, j \in 1..Len(s) : i < j /\ p[1] = s[i] /\ p[2] = s[j] BY <2>1, OrderIs DEF InOrder
  <2> QED BY <1>2, <2>2
<1> QED BY <1>1, <1>2 DEF Distinct

\* Any two elements of a sequence are ordered by it.
LEMMA OrderTotal ==
  ASSUME NEW X, NEW s \in Seq(X)
  PROVE  \A a, b \in ToSet(s) : a # b => <<a, b>> \in Order(s) \/ <<b, a>> \in Order(s)
<1> SUFFICES ASSUME NEW a \in ToSet(s), NEW b \in ToSet(s), a # b
             PROVE  <<a, b>> \in Order(s) \/ <<b, a>> \in Order(s)
  OBVIOUS
<1>1. PICK i \in 1..Len(s) : a = s[i] BY OrderIs DEF In
<1>2. PICK j \in 1..Len(s) : b = s[j] BY OrderIs DEF In
<1>3. i < j \/ j < i BY <1>1, <1>2
<1> QED BY <1>1, <1>2, <1>3, OrderIs DEF InOrder

\* A sequence without repetitions orders its elements strictly.
LEMMA OrderStrict ==
  ASSUME NEW X, NEW s \in Seq(X), Distinct(s)
  PROVE  /\ \A a, b : <<a, b>> \in Order(s) => <<b, a>> \notin Order(s)
         /\ \A a, b, c : <<a, b>> \in Order(s) /\ <<b, c>> \in Order(s) => <<a, c>> \in Order(s)
         /\ \A a : <<a, a>> \notin Order(s)
<1>1. \A i, j \in 1..Len(s) : s[i] = s[j] => i = j BY DistinctIs
<1>2. \A a, b : <<a, b>> \in Order(s) <=> InOrder(s, Len(s), a, b) BY OrderIs
<1>3. ASSUME NEW a, NEW b, NEW c, <<a, b>> \in Order(s), <<b, c>> \in Order(s) PROVE <<a, c>> \in Order(s) /\ a # c
  <2>1. PICK i, j \in 1..Len(s) : i < j /\ a = s[i] /\ b = s[j] BY <1>2, <1>3 DEF InOrder
  <2>2. PICK m, n \in 1..Len(s) : m < n /\ b = s[m] /\ c = s[n] BY <1>2, <1>3 DEF InOrder
  <2>3. j = m BY <1>1, <2>1, <2>2
  <2>4. i < n BY <2>1, <2>2, <2>3
  <2> QED BY <1>1, <1>2, <2>1, <2>2, <2>4 DEF InOrder
<1> QED BY <1>3 DEF Distinct

\* Position finds an element that is there.
LEMMA PositionIs ==
  ASSUME NEW X, NEW s \in Seq(X), NEW e \in ToSet(s)
  PROVE  Position(s, e) \in 1..Len(s) /\ s[Position(s, e)] = e
BY OrderIs DEF In, Position

\* The elements of a concatenation, index by index.
LEMMA ConcatIs ==
  ASSUME NEW X, NEW s \in Seq(X), NEW t \in Seq(X)
  PROVE  /\ s \o t \in Seq(X) /\ Len(s \o t) = Len(s) + Len(t)
         /\ \A i \in 1..Len(s) : (s \o t)[i] = s[i]
         /\ \A i \in 1..(Len(s) + Len(t)) : ~(i <= Len(s)) => (s \o t)[i] = t[i - Len(s)]
OBVIOUS

\* InsertAt puts an element between two parts of a sequence.
LEMMA InsertOrder ==
  ASSUME NEW X, NEW s \in Seq(X), Distinct(s), NEW e \in X, NEW w \in ToSet(s),
         NEW u, u = InsertAt(s, Position(s, w) + 1, e)
  PROVE  /\ u \in Seq(X)
         /\ ToSet(u) = ToSet(s) \cup {e}
         /\ \A a, b : <<a, b>> \in Order(u) <=>
              \/ <<a, b>> \in Order(s)
              \/ a = w /\ b = e
              \/ <<a, w>> \in Order(s) /\ b = e
              \/ a = e /\ <<w, b>> \in Order(s)
<1>0. \A i, j \in 1..Len(s) : s[i] = s[j] => i = j BY DistinctIs
<1>1. PICK m \in 1..Len(s) : m = Position(s, w) /\ s[m] = w BY PositionIs
<1>2. Len(s) \in Nat /\ m \in Nat /\ m <= Len(s) /\ (m + 1) - 1 = m /\ 1 <= m OBVIOUS
<1>3. PICK n \in Nat : n = Len(s) BY <1>2
<1>4. u = SubSeq(s, 1, m) \o <<e>> \o SubSeq(s, m + 1, n) BY <1>1, <1>2, <1>3 DEF InsertAt
<1>5. PICK c : c = SubSeq(s, 1, m) OBVIOUS
<1>6. PICK d : d = SubSeq(s, m + 1, n) OBVIOUS
<1>7. c \in Seq(X) /\ Len(c) = m /\ \A i \in 1..m : c[i] = s[i] BY <1>2, <1>3, <1>5
<1>8. d \in Seq(X) /\ Len(d) = n - m /\ \A i \in 1..(n - m) : d[i] = s[m + i]
  <2>1. \A i \in (m + 1)..n : s[i] \in X BY <1>2, <1>3
  <2> QED BY <1>2, <1>3, <1>6, <2>1
<1>9. PICK f : f = c \o <<e>> OBVIOUS
<1>10. f \in Seq(X) /\ Len(f) = m + 1 /\ f[m + 1] = e /\ \A i \in 1..m : f[i] = s[i] BY <1>2, <1>7, <1>9
<1>11. u = f \o d BY <1>4, <1>5, <1>6, <1>9
<1>12. u \in Seq(X) /\ Len(u) = n + 1
  <2>1. Len(f) + Len(d) = n + 1 BY <1>2, <1>3, <1>8, <1>10
  <2>2. f \o d \in Seq(X) /\ Len(f \o d) = Len(f) + Len(d) BY <1>8, <1>10, ConcatIs
  <2> QED BY <1>11, <2>1, <2>2
<1>13. \A i \in 1..(m + 1) : u[i] = f[i] BY <1>8, <1>10, <1>11, ConcatIs
<1>14. \A i \in (m + 2)..(n + 1) : u[i] = s[i - 1]
  <2> SUFFICES ASSUME NEW i \in (m + 2)..(n + 1) PROVE u[i] = s[i - 1] OBVIOUS
  <2>1. i \in 1..(n + 1) /\ ~(i <= m + 1) /\ i - (m + 1) \in 1..(n - m) /\ m + (i - (m + 1)) = i - 1
    BY <1>2, <1>3
  <2>3. Len(f) + Len(d) = n + 1 /\ Len(f) = m + 1 BY <1>2, <1>3, <1>8, <1>10
  <2>4. \A j \in 1..(Len(f) + Len(d)) : ~(j <= Len(f)) => (f \o d)[j] = d[j - Len(f)]
    BY <1>8, <1>10, ConcatIs
  <2>2. u[i] = d[i - (m + 1)] BY <1>11, <2>1, <2>3, <2>4
  <2> QED BY <1>8, <2>1, <2>2
<1>15. /\ \A i \in 1..m : u[i] = s[i]
       /\ u[m + 1] = e
       /\ \A i \in (m + 1)..n : u[i + 1] = s[i]
  <2>1. \A i \in 1..m : i \in 1..(m + 1) BY <1>2
  <2>2. m + 1 \in 1..(m + 1) BY <1>2
  <2>3. \A i \in (m + 1)..n : i + 1 \in (m + 2)..(n + 1) /\ (i + 1) - 1 = i BY <1>2, <1>3
  <2> QED BY <1>10, <1>13, <1>14, <2>1, <2>2, <2>3
<1> DEFINE to(i) == IF i <= m THEN i ELSE i + 1
<1>16. \A i \in 1..n : to(i) \in 1..(n + 1) /\ u[to(i)] = s[i] /\ to(i) # m + 1 BY <1>2, <1>3, <1>15
<1>17. \A i \in 1..(n + 1) : i = m + 1 \/ \E j \in 1..n : i = to(j)
  <2> SUFFICES ASSUME NEW i \in 1..(n + 1), i # m + 1 PROVE \E j \in 1..n : i = to(j) OBVIOUS
  <2>1. CASE i <= m
    <3>1. i \in 1..n /\ i = to(i) BY <1>2, <1>3, <2>1
    <3> QED BY <3>1
  <2>2. CASE ~(i <= m)
    <3>1. i - 1 \in 1..n /\ i = to(i - 1) BY <1>2, <1>3, <2>2
    <3> QED BY <3>1
  <2> QED BY <2>1, <2>2
<1>18. \A i, j \in 1..n : to(i) < to(j) <=> i < j BY <1>2, <1>3
<1>19. \A i \in 1..n : (to(i) < m + 1 <=> i <= m) /\ (m + 1 < to(i) <=> m < i) BY <1>2, <1>3
<1>20. \A a : In(u, Len(u), a) <=> In(s, Len(s), a) \/ a = e
  <2> HIDE DEF to
  <2>1. m + 1 \in 1..(n + 1) BY <1>2, <1>3
  <2>2. ASSUME NEW a, In(u, n + 1, a) PROVE In(s, n, a) \/ a = e
    <3>1. PICK i \in 1..(n + 1) : a = u[i] BY <2>2 DEF In
    <3>2. CASE i = m + 1 BY <1>15, <3>1, <3>2
    <3>3. CASE i # m + 1
      <4>1. PICK j \in 1..n : i = to(j) BY <1>17, <3>3
      <4> QED BY <1>16, <3>1, <4>1 DEF In
    <3> QED BY <3>2, <3>3
  <2>3. ASSUME NEW a, In(s, n, a) PROVE In(u, n + 1, a) BY <1>16, <2>3 DEF In
  <2>4. In(u, n + 1, e) BY <1>15, <2>1 DEF In
  <2> QED BY <1>3, <1>12, <2>2, <2>3, <2>4
<1>21. ToSet(u) = ToSet(s) \cup {e} BY <1>12, <1>20, OrderIs
<1>22. ASSUME NEW a, NEW b
       PROVE  InOrder(u, n + 1, a, b) <=>
                \/ InOrder(s, n, a, b)
                \/ (\E i \in 1..n : i <= m /\ a = s[i]) /\ b = e
                \/ a = e /\ (\E i \in 1..n : m < i /\ b = s[i])
  <2> HIDE DEF to
  <2>0. m + 1 \in 1..(n + 1) BY <1>2, <1>3
  <2>1. ASSUME InOrder(u, n + 1, a, b)
        PROVE  \/ InOrder(s, n, a, b)
               \/ (\E i \in 1..n : i <= m /\ a = s[i]) /\ b = e
               \/ a = e /\ (\E i \in 1..n : m < i /\ b = s[i])
    <3>1. PICK i, j \in 1..(n + 1) : i < j /\ a = u[i] /\ b = u[j] BY <2>1 DEF InOrder
    <3>2. CASE i = m + 1
      <4>1. j # m + 1 BY <3>1, <3>2
      <4>2. PICK x \in 1..n : j = to(x) BY <1>17, <4>1
      <4>3. m < x /\ b = s[x] /\ a = e BY <1>15, <1>16, <1>19, <3>1, <3>2, <4>2
      <4> QED BY <4>3
    <3>3. CASE j = m + 1
      <4>1. i # m + 1 BY <3>1, <3>3
      <4>2. PICK x \in 1..n : i = to(x) BY <1>17, <4>1
      <4>3. x <= m /\ a = s[x] /\ b = e BY <1>15, <1>16, <1>19, <3>1, <3>3, <4>2
      <4> QED BY <4>3
    <3>4. CASE i # m + 1 /\ j # m + 1
      <4>1. PICK x \in 1..n : i = to(x) BY <1>17, <3>4
      <4>2. PICK y \in 1..n : j = to(y) BY <1>17, <3>4
      <4>3. x < y /\ a = s[x] /\ b = s[y] BY <1>16, <1>18, <3>1, <4>1, <4>2
      <4> QED BY <4>3 DEF InOrder
    <3> QED BY <3>2, <3>3, <3>4
  <2>2. ASSUME InOrder(s, n, a, b) PROVE InOrder(u, n + 1, a, b)
    <3>1. PICK i, j \in 1..n : i < j /\ a = s[i] /\ b = s[j] BY <2>2 DEF InOrder
    <3>2. to(i) < to(j) /\ a = u[to(i)] /\ b = u[to(j)] /\ to(i) \in 1..(n + 1) /\ to(j) \in 1..(n + 1)
      BY <1>16, <1>18, <3>1
    <3> QED BY <3>2 DEF InOrder
  <2>3. ASSUME NEW i \in 1..n, i <= m, a = s[i], b = e PROVE InOrder(u, n + 1, a, b)
    <3>1. to(i) < m + 1 /\ a = u[to(i)] /\ b = u[m + 1] /\ to(i) \in 1..(n + 1)
      BY <1>15, <1>16, <1>19, <2>3
    <3> QED BY <2>0, <3>1 DEF InOrder
  <2>4. ASSUME NEW i \in 1..n, m < i, b = s[i], a = e PROVE InOrder(u, n + 1, a, b)
    <3>1. m + 1 < to(i) /\ b = u[to(i)] /\ a = u[m + 1] /\ to(i) \in 1..(n + 1)
      BY <1>15, <1>16, <1>19, <2>4
    <3> QED BY <2>0, <3>1 DEF InOrder
  <2> QED BY <2>1, <2>2, <2>3, <2>4
<1>23. \A a : (\E i \in 1..n : i <= m /\ a = s[i]) <=> a = w \/ InOrder(s, n, a, w)
  <2>1. ASSUME NEW i \in 1..n, i <= m PROVE s[i] = w \/ InOrder(s, n, s[i], w)
    <3>1. i = m \/ i < m BY <1>2, <2>1
    <3> QED BY <1>1, <1>3, <3>1 DEF InOrder
  <2>2. ASSUME NEW a, InOrder(s, n, a, w) PROVE \E i \in 1..n : i <= m /\ a = s[i]
    <3>1. PICK i, j \in 1..n : i < j /\ a = s[i] /\ w = s[j] BY <2>2 DEF InOrder
    <3>2. j = m BY <1>0, <1>1, <1>3, <3>1
    <3>3. i <= m BY <1>2, <3>1, <3>2
    <3> QED BY <3>1, <3>3
  <2>3. m \in 1..n /\ m <= m BY <1>2, <1>3
  <2> QED BY <1>1, <2>1, <2>2, <2>3
<1>24. \A b : (\E i \in 1..n : m < i /\ b = s[i]) <=> InOrder(s, n, w, b)
  <2>1. ASSUME NEW i \in 1..n, m < i PROVE InOrder(s, n, w, s[i]) BY <1>1, <1>3, <2>1 DEF InOrder
  <2>2. ASSUME NEW b, InOrder(s, n, w, b) PROVE \E i \in 1..n : m < i /\ b = s[i]
    <3>1. PICK i, j \in 1..n : i < j /\ w = s[i] /\ b = s[j] BY <2>2 DEF InOrder
    <3>2. i = m BY <1>0, <1>1, <1>3, <3>1
    <3> QED BY <3>1, <3>2
  <2> QED BY <2>1, <2>2
<1>25. \A a, b : <<a, b>> \in Order(u) <=>
              \/ <<a, b>> \in Order(s)
              \/ a = w /\ b = e
              \/ <<a, w>> \in Order(s) /\ b = e
              \/ a = e /\ <<w, b>> \in Order(s)
  <2>1. \A a, b : <<a, b>> \in Order(u) <=> InOrder(u, n + 1, a, b)
    <3>1. u \in Seq(X) /\ Len(u) = n + 1 BY <1>12
    <3>0. \A t \in Seq(X) : \A a, b : <<a, b>> \in Order(t) <=> InOrder(t, Len(t), a, b) BY OrderIs
    <3>2. \A a, b : <<a, b>> \in Order(u) <=> InOrder(u, Len(u), a, b) BY <3>0, <3>1
    <3> QED BY <3>1, <3>2
  <2>2. \A a, b : <<a, b>> \in Order(s) <=> InOrder(s, n, a, b) BY <1>3, OrderIs
  <2>3. \A a, b : <<a, b>> \in Order(u) <=> \/ InOrder(s, n, a, b)
                                            \/ (a = w \/ InOrder(s, n, a, w)) /\ b = e
                                            \/ a = e /\ InOrder(s, n, w, b)
    BY <1>22, <1>23, <1>24, <2>1
  <2> QED BY <2>2, <2>3
<1> QED BY <1>12, <1>21, <1>25

\* Sets that only grow stop growing after as many steps as there are elements.
ChainOf(f, n, N, E) ==
  /\ f \in [0..n -> SUBSET E] /\ N \in [SUBSET E -> SUBSET E]
  /\ (\A k \in 1..n : f[k] = N[f[k - 1]]) /\ (\A k \in 0..n : f[k] \subseteq N[f[k]])

\* A chain of growing subsets of a finite set stops after as many steps as the set has elements.
LEMMA ChainEnds ==
  ASSUME NEW E, IsFiniteSet(E), NEW n, n = Cardinality(E), NEW f, NEW N, ChainOf(f, n, N, E)
  PROVE  N[f[n]] = f[n]
<1>0. n \in Nat BY FS_CardinalityType
<1>f. f \in [0..n -> SUBSET E] /\ N \in [SUBSET E -> SUBSET E] BY DEF ChainOf
<1>1. \A S \in SUBSET E : IsFiniteSet(S) /\ Cardinality(S) \in Nat BY FS_Subset, FS_CardinalityType
<1> DEFINE Fixed(k) == N[f[k]] = f[k]
           L == {k \in Nat : k <= n => Fixed(k) \/ k <= Cardinality(f[k])}
<1>2. 0 \in L
  <2>1. f[0] \in SUBSET E BY <1>0, <1>f
  <2> QED BY <1>1, <2>1
<1>3. ASSUME NEW k \in Nat, k \in L PROVE k + 1 \in L
  <2> SUFFICES ASSUME k + 1 <= n, ~Fixed(k + 1) PROVE k + 1 <= Cardinality(f[k + 1]) OBVIOUS
  <2>1. k + 1 \in 1..n /\ k \in 0..n /\ k + 1 \in 0..n /\ (k + 1) - 1 = k BY <1>0
  <2>2. f[k + 1] = N[f[k]] /\ f[k] \in SUBSET E /\ f[k + 1] \in SUBSET E /\ f[k] \subseteq f[k + 1] BY <1>f, <2>1 DEF ChainOf
  <2>3. ~Fixed(k) BY <2>2
  <2>4. k <= Cardinality(f[k]) BY <1>3, <2>1, <2>3
  <2>5. f[k] # f[k + 1] BY <2>2, <2>3
  <2>6. Cardinality(f[k]) < Cardinality(f[k + 1])
    <3>1. IsFiniteSet(f[k + 1]) BY <1>1, <2>2
    <3>2. Cardinality(f[k]) <= Cardinality(f[k + 1]) /\ Cardinality(f[k]) # Cardinality(f[k + 1])
      BY <2>2, <2>5, <3>1, FS_Subset
    <3> QED BY <1>1, <2>2, <3>2
  <2> QED BY <1>1, <2>2, <2>4, <2>6
<1> HIDE DEF L
<1>4. \A k \in Nat : k \in L BY <1>2, <1>3, SetInduction
<1>5. Fixed(n) \/ n <= Cardinality(f[n]) BY <1>0, <1>4 DEF L
<1>6. f[n] \in SUBSET E /\ N[f[n]] \in SUBSET E /\ f[n] \subseteq N[f[n]] BY <1>0, <1>f DEF ChainOf
<1>7. CASE n <= Cardinality(f[n])
  <2>1. Cardinality(f[n]) <= n /\ Cardinality(f[n]) \in Nat BY <1>1, <1>6, FS_Subset
  <2>2. Cardinality(f[n]) = Cardinality(E) BY <1>0, <1>7, <2>1
  <2>3. f[n] = E BY <1>6, <2>2, FS_Subset
  <2> QED BY <1>6, <2>3
<1> QED BY <1>5, <1>7

\* A set that the pairs of R do not leave.
Closed(R, C) == \A p \in R : p[1] \in C => p[2] \in C
ReachStep(R, seen) == seen \cup {p[2] : p \in {q \in R : q[1] \in seen}}
ReachDef(w, R, S, n) == w = [k \in 0..n |-> IF k = 0 THEN S ELSE ReachStep(R, w[k - 1])]

\* Reach is the least closed set around S.
LEMMA ReachIs ==
  ASSUME NEW E, IsFiniteSet(E), NEW R, R \subseteq E \X E, NEW S, S \subseteq E
  PROVE  /\ S \subseteq Reach(R, S, Cardinality(E)) /\ Reach(R, S, Cardinality(E)) \subseteq E
         /\ Closed(R, Reach(R, S, Cardinality(E)))
         /\ \A C : S \subseteq C /\ Closed(R, C) => Reach(R, S, Cardinality(E)) \subseteq C
<1> DEFINE n == Cardinality(E)
           N == [seen \in SUBSET E |-> ReachStep(R, seen)]
           F == [q \in (1..n) \X SUBSET E |-> ReachStep(R, q[2])]
<1>0. n \in Nat BY FS_CardinalityType
<1>1. \A seen \in SUBSET E : ReachStep(R, seen) \in SUBSET E BY DEF ReachStep
<1>2. N \in [SUBSET E -> SUBSET E] /\ \A seen \in SUBSET E : N[seen] = ReachStep(R, seen) BY <1>1
<1>3. F \in [(1..n) \X SUBSET E -> SUBSET E] /\ \A i \in 1..n, s \in SUBSET E : F[<<i, s>>] = ReachStep(R, s)
  BY <1>1
<1> HIDE DEF n, N, F
<1>4. PICK f \in [0..n -> SUBSET E] : Iterates(f, n, S, F) BY <1>0, <1>3, Iteration
<1>5. f[0] = S /\ \A k \in 1..n : f[k] = ReachStep(R, f[k - 1])
  <2>1. f[0] = S /\ \A k \in 1..n : f[k] = F[<<k, f[k - 1]>>] BY <1>4 DEF Iterates
  <2>2. \A k \in 1..n : f[k - 1] \in SUBSET E BY <1>0
  <2> QED BY <1>3, <2>1, <2>2
<1>6. ReachDef(f, R, S, n)
  <2>1. \A k \in 0..n : f[k] = IF k = 0 THEN S ELSE ReachStep(R, f[k - 1])
    <3> SUFFICES ASSUME NEW k \in 0..n, k # 0 PROVE f[k] = ReachStep(R, f[k - 1]) BY <1>5
    <3>1. k \in 1..n BY <1>0
    <3> QED BY <1>5, <3>1
  <2>2. f = [k \in 0..n |-> f[k]] OBVIOUS
  <2> QED BY <2>1, <2>2 DEF ReachDef
<1> DEFINE w == CHOOSE d : ReachDef(d, R, S, n)
<1>7. ReachDef(w, R, S, n) BY <1>6
<1>8. Reach(R, S, n) = w[n] BY DEF Reach, ReachDef, ReachStep
<1> HIDE DEF w
<1>9. \A k \in 0..n : w[k] = f[k]
  <2> DEFINE L == {k \in Nat : k <= n => w[k] = f[k]}
  <2>1. 0 \in L BY <1>0, <1>5, <1>7 DEF ReachDef
  <2>2. ASSUME NEW k \in Nat, k \in L PROVE k + 1 \in L
    <3> SUFFICES ASSUME k + 1 <= n PROVE w[k + 1] = f[k + 1] OBVIOUS
    <3>1. k + 1 \in 1..n /\ k + 1 \in 0..n /\ (k + 1) - 1 = k /\ k + 1 # 0 /\ w[k] = f[k] BY <1>0, <2>2
    <3>2. w[k + 1] = ReachStep(R, w[k]) BY <1>7, <3>1 DEF ReachDef
    <3>3. f[k + 1] = ReachStep(R, f[k]) BY <1>5, <3>1
    <3> QED BY <3>1, <3>2, <3>3
  <2> HIDE DEF L
  <2>3. \A k \in Nat : k \in L BY <2>1, <2>2, SetInduction
  <2> QED BY <1>0, <2>3 DEF L
<1>10. Reach(R, S, n) = f[n] BY <1>0, <1>8, <1>9
<1>11. ReachStep(R, f[n]) = f[n]
  <2>1. \A k \in 0..n : f[k] \in SUBSET E OBVIOUS
  <2>2. \A k \in 1..n : f[k] = N[f[k - 1]]
    <3>1. \A k \in 1..n : k - 1 \in 0..n BY <1>0
    <3> QED BY <1>2, <1>5, <2>1, <3>1
  <2>3. \A k \in 0..n : f[k] \subseteq N[f[k]] BY <1>2, <2>1 DEF ReachStep
  <2>5. n = Cardinality(E) BY DEF n
  <2>6. ChainOf(f, n, N, E) BY <1>2, <2>2, <2>3 DEF ChainOf
  <2>7. \A m, h, M : m = Cardinality(E) /\ ChainOf(h, m, M, E) => M[h[m]] = h[m] BY ChainEnds
  <2>4. N[f[n]] = f[n] BY <2>5, <2>6, <2>7
  <2> QED BY <1>0, <1>2, <2>1, <2>4
<1>12. Closed(R, f[n]) BY <1>11 DEF Closed, ReachStep
<1>13. f[n] \in SUBSET E BY <1>0
<1>14. S \subseteq f[n]
  <2> DEFINE L == {k \in Nat : k <= n => S \subseteq f[k]}
  <2>1. 0 \in L BY <1>5
  <2>2. ASSUME NEW k \in Nat, k \in L PROVE k + 1 \in L
    <3> SUFFICES ASSUME k + 1 <= n PROVE S \subseteq f[k + 1] OBVIOUS
    <3>1. k + 1 \in 1..n /\ (k + 1) - 1 = k /\ S \subseteq f[k] BY <1>0, <2>2
    <3>3. f[k + 1] = ReachStep(R, f[k]) BY <1>5, <3>1
    <3> QED BY <3>1, <3>3 DEF ReachStep
  <2> HIDE DEF L
  <2>3. \A k \in Nat : k \in L BY <2>1, <2>2, SetInduction
  <2> QED BY <1>0, <2>3 DEF L
<1>15. ASSUME NEW C, S \subseteq C, Closed(R, C) PROVE f[n] \subseteq C
  <2> DEFINE L == {k \in Nat : k <= n => f[k] \subseteq C}
  <2>1. 0 \in L BY <1>5, <1>15
  <2>2. ASSUME NEW k \in Nat, k \in L PROVE k + 1 \in L
    <3> SUFFICES ASSUME k + 1 <= n PROVE f[k + 1] \subseteq C OBVIOUS
    <3>1. k + 1 \in 1..n /\ (k + 1) - 1 = k /\ f[k] \subseteq C BY <1>0, <2>2
    <3>3. f[k + 1] = ReachStep(R, f[k]) BY <1>5, <3>1
    <3> QED BY <1>15, <3>1, <3>3 DEF ReachStep, Closed
  <2> HIDE DEF L
  <2>3. \A k \in Nat : k \in L BY <2>1, <2>2, SetInduction
  <2> QED BY <1>0, <2>3 DEF L
<1> QED BY <1>10, <1>12, <1>13, <1>14, <1>15 DEF n

-----------------------------------------------------------------------------
(* The transitive closure.                                                 *)

\* Targets and Sources of a relation over E.
LEMMA TargetsIs ==
  ASSUME NEW E, NEW R, R \subseteq E \X E
  PROVE  /\ \A a, b : b \in Targets(R, a) <=> <<a, b>> \in R
         /\ \A a, b : a \in Sources(R, b) <=> <<a, b>> \in R
         /\ \A a : Targets(R, a) \subseteq E /\ Sources(R, a) \subseteq E
<1>1. \A p \in R : p = <<p[1], p[2]>> /\ p[1] \in E /\ p[2] \in E OBVIOUS
<1>2. ASSUME NEW a, NEW b PROVE b \in Targets(R, a) <=> <<a, b>> \in R
  <2>1. ASSUME b \in Targets(R, a) PROVE <<a, b>> \in R BY <1>1, <2>1 DEF Targets
  <2>2. ASSUME <<a, b>> \in R PROVE b \in Targets(R, a)
    <3> DEFINE p == <<a, b>>
    <3>1. p \in {q \in R : q[1] = a} /\ p[2] = b BY <2>2
    <3> QED BY <3>1 DEF Targets
  <2> QED BY <2>1, <2>2
<1>3. ASSUME NEW a, NEW b PROVE a \in Sources(R, b) <=> <<a, b>> \in R
  <2>1. ASSUME a \in Sources(R, b) PROVE <<a, b>> \in R BY <1>1, <2>1 DEF Sources
  <2>2. ASSUME <<a, b>> \in R PROVE a \in Sources(R, b)
    <3> DEFINE p == <<a, b>>
    <3>1. p \in {q \in R : q[2] = b} /\ p[1] = a BY <2>2
    <3> QED BY <3>1 DEF Sources
  <2> QED BY <2>1, <2>2
<1>4. \A a : Targets(R, a) \subseteq E /\ Sources(R, a) \subseteq E BY <1>1 DEF Targets, Sources
<1> QED BY <1>2, <1>3, <1>4

\* Plus(R, E) holds pairs of E only, and b is one of them when the search from a's successors finds it.
LEMMA PlusIn ==
  ASSUME NEW E, IsFiniteSet(E), NEW R, R \subseteq E \X E
  PROVE  /\ Plus(R, E) \subseteq E \X E
         /\ \A a, b : <<a, b>> \in Plus(R, E)
                        <=> a \in E /\ b \in Reach(R, Targets(R, a), Cardinality(E))
<1>1. ASSUME NEW a, NEW b
      PROVE  <<a, b>> \in Plus(R, E) <=> a \in E /\ b \in Reach(R, Targets(R, a), Cardinality(E))
  <2>1. Targets(R, a) \subseteq E BY TargetsIs
  <2>2. Reach(R, Targets(R, a), Cardinality(E)) \subseteq E BY <2>1, ReachIs
  <2> DEFINE p == <<a, b>>
  <2>3. p \in Plus(R, E) <=> p \in E \X E /\ p[2] \in Reach(R, Targets(R, p[1]), Cardinality(E)) BY DEF Plus
  <2>4. p[1] = a /\ p[2] = b /\ (p \in E \X E <=> a \in E /\ b \in E) OBVIOUS
  <2> QED BY <2>2, <2>3, <2>4
<1>2. Plus(R, E) \subseteq E \X E BY DEF Plus
<1> QED BY <1>1, <1>2

\* Plus contains the relation and is closed under one more step of it.
LEMMA PlusStep ==
  ASSUME NEW E, IsFiniteSet(E), NEW R, R \subseteq E \X E
  PROVE  /\ R \subseteq Plus(R, E)
         /\ \A a, b, c : <<a, b>> \in Plus(R, E) /\ <<b, c>> \in R => <<a, c>> \in Plus(R, E)
<1>1. ASSUME NEW a, NEW b, <<a, b>> \in R PROVE <<a, b>> \in Plus(R, E)
  <2>1. a \in E /\ Targets(R, a) \subseteq E /\ b \in Targets(R, a) BY <1>1, TargetsIs
  <2>2. Targets(R, a) \subseteq Reach(R, Targets(R, a), Cardinality(E)) BY <2>1, ReachIs
  <2> QED BY <2>1, <2>2, PlusIn
<1>2. ASSUME NEW a, NEW b, NEW c, <<a, b>> \in Plus(R, E), <<b, c>> \in R PROVE <<a, c>> \in Plus(R, E)
  <2>1. a \in E /\ b \in Reach(R, Targets(R, a), Cardinality(E)) BY <1>2, PlusIn
  <2>2. Targets(R, a) \subseteq E BY TargetsIs
  <2>3. Closed(R, Reach(R, Targets(R, a), Cardinality(E))) BY <2>2, ReachIs
  <2>4. c \in Reach(R, Targets(R, a), Cardinality(E)) BY <1>2, <2>1, <2>3 DEF Closed
  <2> QED BY <2>1, <2>4, PlusIn
<1>3. \A p \in R : p = <<p[1], p[2]>> OBVIOUS
<1> QED BY <1>1, <1>2, <1>3

\* What a is related to lies in every closed set that has the targets of a.
LEMMA PlusLeast ==
  ASSUME NEW E, IsFiniteSet(E), NEW R, R \subseteq E \X E, NEW a, NEW C,
         \A b : <<a, b>> \in R => b \in C, Closed(R, C)
  PROVE  \A b : <<a, b>> \in Plus(R, E) => b \in C
<1>1. Targets(R, a) \subseteq E /\ Targets(R, a) \subseteq C BY TargetsIs
<1>2. Reach(R, Targets(R, a), Cardinality(E)) \subseteq C BY <1>1, ReachIs
<1> QED BY <1>2, PlusIn

\* The last step, the first step, and transitivity.
LEMMA PlusLast ==
  ASSUME NEW E, IsFiniteSet(E), NEW R, R \subseteq E \X E, NEW a, NEW b, <<a, b>> \in Plus(R, E)
  PROVE  <<a, b>> \in R \/ \E c \in E : <<a, c>> \in Plus(R, E) /\ <<c, b>> \in R
<1> DEFINE C == {d \in E : <<a, d>> \in R \/ \E c \in E : <<a, c>> \in Plus(R, E) /\ <<c, d>> \in R}
<1>1. \A d : <<a, d>> \in R => d \in C OBVIOUS
<1>2. Closed(R, C)
  <2>1. ASSUME NEW p \in R, p[1] \in C PROVE p[2] \in C
    <3>1. p = <<p[1], p[2]>> /\ p[1] \in E /\ p[2] \in E BY <2>1
    <3>2. <<a, p[1]>> \in Plus(R, E) BY <2>1, PlusStep
    <3> QED BY <3>1, <3>2
  <2> QED BY <2>1 DEF Closed
<1> HIDE DEF C
<1>3. b \in C BY <1>1, <1>2, PlusLeast
<1> QED BY <1>3 DEF C

\* Plus is transitive.
LEMMA PlusTransitive ==
  ASSUME NEW E, IsFiniteSet(E), NEW R, R \subseteq E \X E
  PROVE  \A a, b, c : <<a, b>> \in Plus(R, E) /\ <<b, c>> \in Plus(R, E) => <<a, c>> \in Plus(R, E)
<1> SUFFICES ASSUME NEW a, NEW b, NEW c, <<a, b>> \in Plus(R, E), <<b, c>> \in Plus(R, E)
             PROVE  <<a, c>> \in Plus(R, E)
  OBVIOUS
<1> DEFINE C == {d \in E : <<a, d>> \in Plus(R, E)}
<1>1. \A d : <<b, d>> \in R => d \in C BY PlusStep
<1>2. Closed(R, C)
  <2>1. ASSUME NEW p \in R, p[1] \in C PROVE p[2] \in C
    <3>1. p = <<p[1], p[2]>> /\ p[1] \in E /\ p[2] \in E BY <2>1
    <3> QED BY <2>1, <3>1, PlusStep
  <2> QED BY <2>1 DEF Closed
<1> HIDE DEF C
<1>3. c \in C BY <1>1, <1>2, PlusLeast
<1> QED BY <1>3 DEF C

\* A path is a single step, or a step and a path.
LEMMA PlusFirst ==
  ASSUME NEW E, IsFiniteSet(E), NEW R, R \subseteq E \X E, NEW a, NEW b, <<a, b>> \in Plus(R, E)
  PROVE  <<a, b>> \in R \/ \E c \in E : <<a, c>> \in R /\ <<c, b>> \in Plus(R, E)
<1> DEFINE C == {d \in E : <<a, d>> \in R \/ \E c \in E : <<a, c>> \in R /\ <<c, d>> \in Plus(R, E)}
<1>1. \A d : <<a, d>> \in R => d \in C OBVIOUS
<1>2. Closed(R, C)
  <2>1. ASSUME NEW p \in R, p[1] \in C PROVE p[2] \in C
    <3>1. p = <<p[1], p[2]>> /\ p[1] \in E /\ p[2] \in E BY <2>1
    <3>2. CASE <<a, p[1]>> \in R
      <4>1. p \in Plus(R, E) BY PlusStep
      <4> QED BY <3>1, <3>2, <4>1
    <3>3. CASE \E c \in E : <<a, c>> \in R /\ <<c, p[1]>> \in Plus(R, E)
      <4>1. PICK c \in E : <<a, c>> \in R /\ <<c, p[1]>> \in Plus(R, E) BY <3>3
      <4>2. <<c, p[2]>> \in Plus(R, E) BY <3>1, <4>1, PlusStep
      <4> QED BY <3>1, <4>1, <4>2
    <3> QED BY <2>1, <3>2, <3>3
  <2> QED BY <2>1 DEF Closed
<1> HIDE DEF C
<1>3. b \in C BY <1>1, <1>2, PlusLeast
<1> QED BY <1>3 DEF C

\* The closure grows with the relation.
LEMMA PlusMonotone ==
  ASSUME NEW E, IsFiniteSet(E), NEW R, R \subseteq E \X E, NEW D, IsFiniteSet(D), NEW T, T \subseteq D \X D,
         R \subseteq T
  PROVE  Plus(R, E) \subseteq Plus(T, D)
<1>1. ASSUME NEW a, NEW b, <<a, b>> \in Plus(R, E) PROVE <<a, b>> \in Plus(T, D)
  <2> DEFINE C == {c \in D : <<a, c>> \in Plus(T, D)}
  <2>1. \A d : <<a, d>> \in R => d \in C
    <3>1. ASSUME NEW d, <<a, d>> \in R PROVE d \in C
      <4>1. <<a, d>> \in T /\ <<a, d>> \in Plus(T, D) BY <3>1, PlusStep
      <4>2. d \in D BY <4>1
      <4> QED BY <4>1, <4>2
    <3> QED BY <3>1
  <2>2. Closed(R, C)
    <3>1. ASSUME NEW p \in R, p[1] \in C PROVE p[2] \in C
      <4>0. p = <<p[1], p[2]>> /\ p \in T BY <3>1
      <4>1. p = <<p[1], p[2]>> /\ p \in T /\ p[2] \in D /\ <<a, p[1]>> \in Plus(T, D) BY <3>1, <4>0
      <4>2. <<a, p[2]>> \in Plus(T, D) BY <4>1, PlusStep
      <4> QED BY <4>1, <4>2
    <3> QED BY <3>1 DEF Closed
  <2> HIDE DEF C
  <2>3. b \in C BY <1>1, <2>1, <2>2, PlusLeast
  <2> QED BY <2>3 DEF C
<1>2. \A p \in Plus(R, E) : p = <<p[1], p[2]>> BY PlusIn
<1> QED BY <1>1, <1>2

\* Two relations with the same pairs into a set K, all of them from K, have the same
\* closure in K.
SameInto(R, T, K) == \A p : p[2] \in K => (p \in R <=> p \in T) /\ (p \in R => p[1] \in K)

\* Two relations that agree on what leads into K have the same paths into K.
LEMMA PlusInto ==
  ASSUME NEW E, IsFiniteSet(E), NEW R, R \subseteq E \X E, NEW D, IsFiniteSet(D), NEW T, T \subseteq D \X D,
         NEW K, SameInto(R, T, K)
  PROVE  \A a, b : b \in K /\ <<a, b>> \in Plus(R, E) => a \in K /\ <<a, b>> \in Plus(T, D)
<1> SUFFICES ASSUME NEW a, NEW b, b \in K, <<a, b>> \in Plus(R, E) PROVE a \in K /\ <<a, b>> \in Plus(T, D)
  OBVIOUS
<1> DEFINE C == {d \in E : d \in K => a \in K /\ <<a, d>> \in Plus(T, D)}
<1>1. \A d : <<a, d>> \in R => d \in C
  <2>1. ASSUME NEW d, <<a, d>> \in R, d \in K PROVE a \in K /\ <<a, d>> \in Plus(T, D)
    <3> DEFINE p == <<a, d>>
    <3>1. p[1] = a /\ p[2] = d /\ p \in R BY <2>1
    <3>2. p \in T /\ a \in K BY <2>1, <3>1 DEF SameInto
    <3> QED BY <3>2, PlusStep
  <2>2. \A d : <<a, d>> \in R => d \in E OBVIOUS
  <2> QED BY <2>1, <2>2
<1>2. Closed(R, C)
  <2>1. ASSUME NEW p \in R, p[1] \in C PROVE p[2] \in C
    <3>1. p = <<p[1], p[2]>> /\ p[1] \in E /\ p[2] \in E BY <2>1
    <3>2. CASE p[2] \in K
      <4>1. p \in T /\ p[1] \in K BY <3>2 DEF SameInto
      <4>2. a \in K /\ <<a, p[1]>> \in Plus(T, D) BY <2>1, <4>1
      <4>3. <<a, p[2]>> \in Plus(T, D) BY <3>1, <4>1, <4>2, PlusStep
      <4> QED BY <3>1, <4>2, <4>3
    <3> QED BY <3>1, <3>2
  <2> QED BY <2>1 DEF Closed
<1> HIDE DEF C
<1>3. b \in C BY <1>1, <1>2, PlusLeast
<1> QED BY <1>3 DEF C

\* What no pair of R leaves, no pair of its closure leaves.
LEMMA PlusSink ==
  ASSUME NEW E, IsFiniteSet(E), NEW R, R \subseteq E \X E, NEW x, \A b : <<x, b>> \notin R
  PROVE  \A b : <<x, b>> \notin Plus(R, E)
BY PlusFirst

-----------------------------------------------------------------------------
(* Graphs.                                                                 *)

EventRecord ==
  [type : {"WRITE", "READ", "RMW", "CAS_SUCCESS", "CAS_FAIL", "FENCE"},
   mode : {"NON_ATOMIC", "RLX", "ACQ", "REL", "ACQ_REL", "SC"}, loc : Locations \cup {NoLocation}]

IsRecord(h) == h = [ev |-> h.ev, po |-> h.po, rf |-> h.rf, sw |-> h.sw, tcj |-> h.tcj, mo |-> h.mo]
EventsTyped(h) ==
  /\ IsFiniteSet(Events(h)) /\ h.ev \in [Events(h) -> EventRecord]
  /\ \A e \in Events(h) : Kind(h, e) # "FENCE" => Loc(h, e) \in Locations
\* The events of a thread are numbered from one.
PoTyped(h) ==
  /\ h.po \in [Threads -> Seq(Events(h))]
  /\ \A t \in Threads : \A i \in 1..Len(h.po[t]) : h.po[t][i] = <<t, i>>
  /\ \A e \in Events(h) : e = <<e[1], e[2]>> /\ e[1] \in Threads /\ e[2] \in 1..Len(h.po[e[1]])
EdgesTyped(h) ==
  h.rf \subseteq Events(h) \X Events(h) /\ h.sw \subseteq Events(h) \X Events(h)
    /\ h.tcj \subseteq Events(h) \X Events(h)
MoTyped(h) ==
  /\ h.mo \in [Locations -> Seq(Events(h))]
  /\ \A l \in Locations : Distinct(h.mo[l]) /\ \A e \in ToSet(h.mo[l]) : Loc(h, e) = l
IsGraph(h) == IsRecord(h) /\ EventsTyped(h) /\ PoTyped(h) /\ EdgesTyped(h) /\ MoTyped(h)

\* Program order is given by the numbers.
LEMMA PoIs ==
  ASSUME NEW h, PoTyped(h)
  PROVE  /\ PoEdges(h) \subseteq Events(h) \X Events(h)
         /\ \A a, b : <<a, b>> \in PoEdges(h)
                        <=> a \in Events(h) /\ b \in Events(h) /\ a[1] = b[1] /\ b[2] = a[2] + 1
<1>1. ASSUME NEW p \in PoEdges(h)
      PROVE  p \in Events(h) \X Events(h) /\ p[1][1] = p[2][1] /\ p[2][2] = p[1][2] + 1
  <2>1. PICK t \in Threads : p \in {<<h.po[t][i - 1], h.po[t][i]>> : i \in 2..Len(h.po[t])}
    BY <1>1 DEF PoEdges
  <2>2. PICK i \in 2..Len(h.po[t]) : p = <<h.po[t][i - 1], h.po[t][i]>> BY <2>1
  <2>3. h.po[t] \in Seq(Events(h)) /\ Len(h.po[t]) \in Nat BY DEF PoTyped
  <2>4. i \in 1..Len(h.po[t]) /\ i - 1 \in 1..Len(h.po[t]) /\ i = (i - 1) + 1 BY <2>3
  <2>5. h.po[t][i] = <<t, i>> /\ h.po[t][i - 1] = <<t, i - 1>> BY <2>4 DEF PoTyped
  <2>6. h.po[t][i] \in Events(h) /\ h.po[t][i - 1] \in Events(h) BY <2>3, <2>4
  <2> QED BY <2>2, <2>4, <2>5, <2>6
<1>2. ASSUME NEW a \in Events(h), NEW b \in Events(h), a[1] = b[1], b[2] = a[2] + 1
      PROVE  <<a, b>> \in PoEdges(h)
  <2>1. PICK t \in Threads : t = a[1] BY DEF PoTyped
  <2>2. a = <<t, a[2]>> /\ b = <<t, b[2]>> /\ a[2] \in 1..Len(h.po[t]) /\ b[2] \in 1..Len(h.po[t])
    BY <1>2, <2>1 DEF PoTyped
  <2>3. h.po[t][a[2]] = a /\ h.po[t][b[2]] = b BY <2>2 DEF PoTyped
  <2>4. Len(h.po[t]) \in Nat BY DEF PoTyped
  <2>5. b[2] \in 2..Len(h.po[t]) /\ b[2] - 1 = a[2] BY <1>2, <2>2, <2>4
  <2>6. <<h.po[t][b[2] - 1], h.po[t][b[2]]>> = <<a, b>> BY <2>3, <2>5
  <2>7. <<a, b>> \in {<<h.po[t][i - 1], h.po[t][i]>> : i \in 2..Len(h.po[t])} BY <2>5, <2>6
  <2> QED BY <2>7 DEF PoEdges
<1>3. ASSUME NEW a, NEW b, <<a, b>> \in PoEdges(h)
      PROVE  a \in Events(h) /\ b \in Events(h) /\ a[1] = b[1] /\ b[2] = a[2] + 1
  <2> DEFINE p == <<a, b>>
  <2>1. p \in PoEdges(h) /\ p[1] = a /\ p[2] = b BY <1>3
  <2> HIDE DEF p
  <2>2. p \in Events(h) \X Events(h) /\ p[1][1] = p[2][1] /\ p[2][2] = p[1][2] + 1 BY <1>1, <2>1
  <2> QED BY <2>1, <2>2
<1> QED BY <1>1, <1>2, <1>3

\* Modification order is one strict order for each location.
LEMMA MoIs ==
  ASSUME NEW h, MoTyped(h)
  PROVE  /\ MoBefore(h) \subseteq Events(h) \X Events(h)
         /\ \A a, b : <<a, b>> \in MoBefore(h) <=> \E l \in Locations : <<a, b>> \in Order(h.mo[l])
         /\ \A l \in Locations : h.mo[l] \in Seq(Events(h)) /\ ToSet(h.mo[l]) \subseteq Events(h)
         /\ \A l \in Locations : \A a, b : <<a, b>> \in Order(h.mo[l])
                                             => a \in ToSet(h.mo[l]) /\ b \in ToSet(h.mo[l])
<1>1. \A l \in Locations : h.mo[l] \in Seq(Events(h)) BY DEF MoTyped
<1>2. \A l \in Locations : ToSet(h.mo[l]) \subseteq Events(h) /\ Order(h.mo[l]) \subseteq ToSet(h.mo[l]) \X ToSet(h.mo[l])
  BY <1>1, OrderIs
<1>3. MoBefore(h) = UNION {Order(h.mo[l]) : l \in Locations} BY DEF MoBefore, Order
<1>4. \A p : p \in MoBefore(h) <=> \E l \in Locations : p \in Order(h.mo[l]) BY <1>3
<1> QED BY <1>1, <1>2, <1>4

\* The modification orders are strict total orders, one for each location.
LEMMA MoStrict ==
  ASSUME NEW h, MoTyped(h)
  PROVE  /\ \A a, b : <<a, b>> \in MoBefore(h) => <<b, a>> \notin MoBefore(h)
         /\ \A a, b, c : <<a, b>> \in MoBefore(h) /\ <<b, c>> \in MoBefore(h) => <<a, c>> \in MoBefore(h)
         /\ \A a, b : <<a, b>> \in MoBefore(h) => a # b /\ Loc(h, a) = Loc(h, b)
         /\ \A l \in Locations : \A a, b \in ToSet(h.mo[l]) :
              a # b => <<a, b>> \in MoBefore(h) \/ <<b, a>> \in MoBefore(h)
         /\ \A l \in Locations : \A a, b : a \in ToSet(h.mo[l]) \/ b \in ToSet(h.mo[l]) =>
              (<<a, b>> \in MoBefore(h) <=> <<a, b>> \in Order(h.mo[l]))
<1>1. \A l \in Locations : h.mo[l] \in Seq(Events(h)) /\ Distinct(h.mo[l]) BY DEF MoTyped
<1>2. \A l \in Locations : \A e \in ToSet(h.mo[l]) : Loc(h, e) = l BY DEF MoTyped
<1>3. \A l \in Locations :
        /\ \A a, b : <<a, b>> \in Order(h.mo[l]) => <<b, a>> \notin Order(h.mo[l])
        /\ \A a, b, c : <<a, b>> \in Order(h.mo[l]) /\ <<b, c>> \in Order(h.mo[l]) => <<a, c>> \in Order(h.mo[l])
        /\ \A a : <<a, a>> \notin Order(h.mo[l])
  BY <1>1, OrderStrict
<1>4. \A l \in Locations : \A a, b \in ToSet(h.mo[l]) :
        a # b => <<a, b>> \in Order(h.mo[l]) \/ <<b, a>> \in Order(h.mo[l])
  BY <1>1, OrderTotal
<1>5. \A a, b : <<a, b>> \in MoBefore(h) =>
        \E l \in Locations : /\ <<a, b>> \in Order(h.mo[l]) /\ Loc(h, a) = l /\ Loc(h, b) = l
                             /\ a \in ToSet(h.mo[l]) /\ b \in ToSet(h.mo[l])
  <2> SUFFICES ASSUME NEW a, NEW b, <<a, b>> \in MoBefore(h)
               PROVE  \E l \in Locations : /\ <<a, b>> \in Order(h.mo[l]) /\ Loc(h, a) = l /\ Loc(h, b) = l
                                           /\ a \in ToSet(h.mo[l]) /\ b \in ToSet(h.mo[l])
    OBVIOUS
  <2>1. PICK l \in Locations : <<a, b>> \in Order(h.mo[l]) BY MoIs
  <2>2. a \in ToSet(h.mo[l]) /\ b \in ToSet(h.mo[l]) BY <2>1, MoIs
  <2>3. Loc(h, a) = l /\ Loc(h, b) = l BY <1>2, <2>2
  <2> QED BY <2>1, <2>2, <2>3
<1>6. \A l \in Locations : \A a, b : <<a, b>> \in MoBefore(h) /\ (Loc(h, a) = l \/ Loc(h, b) = l) => <<a, b>> \in Order(h.mo[l])
  BY <1>5
<1>7. \A l \in Locations : \A a, b : <<a, b>> \in Order(h.mo[l]) => <<a, b>> \in MoBefore(h) BY MoIs
<1>8. ASSUME NEW a, NEW b, <<a, b>> \in MoBefore(h)
      PROVE  /\ <<b, a>> \notin MoBefore(h) /\ a # b /\ Loc(h, a) = Loc(h, b)
             /\ \A c : <<b, c>> \in MoBefore(h) => <<a, c>> \in MoBefore(h)
  <2>1. PICK l \in Locations : <<a, b>> \in Order(h.mo[l]) /\ Loc(h, a) = l /\ Loc(h, b) = l BY <1>5, <1>8
  <2>2. <<b, a>> \in MoBefore(h) => <<b, a>> \in Order(h.mo[l]) BY <1>6, <2>1
  <2>3. \A c : <<b, c>> \in MoBefore(h) => <<b, c>> \in Order(h.mo[l]) BY <1>6, <2>1
  <2>4. <<b, a>> \notin MoBefore(h) BY <1>3, <2>1, <2>2
  <2>5. a # b BY <1>3, <2>1
  <2>6. \A c : <<b, c>> \in MoBefore(h) => <<a, c>> \in MoBefore(h) BY <1>3, <1>7, <2>1, <2>3
  <2> QED BY <2>1, <2>4, <2>5, <2>6
<1>9. \A l \in Locations : \A a, b \in ToSet(h.mo[l]) :
        a # b => <<a, b>> \in MoBefore(h) \/ <<b, a>> \in MoBefore(h)
  BY <1>4, <1>7
<1>10. \A l \in Locations : \A a, b : a \in ToSet(h.mo[l]) \/ b \in ToSet(h.mo[l]) =>
              (<<a, b>> \in MoBefore(h) <=> <<a, b>> \in Order(h.mo[l]))
  BY <1>2, <1>6, <1>7
<1> QED BY <1>8, <1>9, <1>10

\* finalize changes nothing when no event is missing.
LEMMA FinalizeIs ==
  ASSUME NEW h, IsRecord(h)
  PROVE  /\ IsRecord(Finalize(h)) /\ Finalize(h).ev = h.ev
         /\ Finalize(h).po = [t \in Threads |-> Only(h.po[t], Events(h))]
         /\ Finalize(h).mo = [l \in Locations |-> Only(h.mo[l], Events(h))]
         /\ Finalize(h).rf = {p \in h.rf : p[1] \in Events(h) /\ p[2] \in Events(h)}
         /\ Finalize(h).sw = {p \in h.sw : p[1] \in Events(h) /\ p[2] \in Events(h)}
         /\ Finalize(h).tcj = {p \in h.tcj : p[1] \in Events(h) /\ p[2] \in Events(h)}
<1> DEFINE E == Events(h)
           rf == {p \in h.rf : p[1] \in E /\ p[2] \in E}
           sw == {p \in h.sw : p[1] \in E /\ p[2] \in E}
           tcj == {p \in h.tcj : p[1] \in E /\ p[2] \in E}
           po == [t \in Threads |-> Only(h.po[t], E)]
           mo == [l \in Locations |-> Only(h.mo[l], E)]
<1>1. Finalize(h) = [h EXCEPT !.rf = rf, !.sw = sw, !.tcj = tcj, !.po = po, !.mo = mo] BY DEF Finalize
<1> HIDE DEF E, rf, sw, tcj, po, mo
<1>2. Finalize(h) = [ev |-> h.ev, po |-> po, rf |-> rf, sw |-> sw, tcj |-> tcj, mo |-> mo]
  BY <1>1 DEF IsRecord
<1>3. IsRecord(Finalize(h)) BY <1>2 DEF IsRecord
<1> QED BY <1>2, <1>3 DEF E, rf, sw, tcj, po, mo

\* finalize() changes nothing in a graph that names only events it has.
LEMMA FinalizeSame == ASSUME NEW h, IsGraph(h) PROVE Finalize(h) = h
<1> USE DEF IsGraph
<1>1. \A t \in Threads : Only(h.po[t], Events(h)) = h.po[t]
  <2> SUFFICES ASSUME NEW t \in Threads PROVE Only(h.po[t], Events(h)) = h.po[t] OBVIOUS
  <2>1. h.po[t] \in Seq(Events(h)) BY DEF PoTyped
  <2>2. ToSet(h.po[t]) \subseteq Events(h) BY <2>1, OrderIs
  <2> QED BY <2>1, <2>2, OnlyAll
<1>2. \A l \in Locations : Only(h.mo[l], Events(h)) = h.mo[l]
  <2> SUFFICES ASSUME NEW l \in Locations PROVE Only(h.mo[l], Events(h)) = h.mo[l] OBVIOUS
  <2>1. h.mo[l] \in Seq(Events(h)) BY DEF MoTyped
  <2>2. ToSet(h.mo[l]) \subseteq Events(h) BY <2>1, OrderIs
  <2> QED BY <2>1, <2>2, OnlyAll
<1>3. [t \in Threads |-> Only(h.po[t], Events(h))] = h.po BY <1>1 DEF PoTyped
<1>4. [l \in Locations |-> Only(h.mo[l], Events(h))] = h.mo BY <1>2 DEF MoTyped
<1>5. \A R : R \subseteq Events(h) \X Events(h) => {p \in R : p[1] \in Events(h) /\ p[2] \in Events(h)} = R OBVIOUS
<1>6. Finalize(h).po = h.po /\ Finalize(h).mo = h.mo /\ Finalize(h).ev = h.ev BY <1>3, <1>4, FinalizeIs
<1>7. Finalize(h).rf = h.rf /\ Finalize(h).sw = h.sw /\ Finalize(h).tcj = h.tcj
  BY <1>5, FinalizeIs DEF EdgesTyped
<1>8. IsRecord(Finalize(h)) BY FinalizeIs
<1> QED BY <1>6, <1>7, <1>8 DEF IsRecord

\* The edges of a graph relate its events.
LEMMA EdgesIn ==
  ASSUME NEW h, PoTyped(h), EdgesTyped(h)
  PROVE  Edges(h) \subseteq Events(h) \X Events(h)
BY PoIs DEF Edges, EdgesTyped

\* The maximum of a non-empty set of positions is in it and bounds it.
LEMMA MaxIs ==
  ASSUME NEW n \in Nat, NEW S, S \subseteq 1..n, S # {}
  PROVE  Max(S) \in S /\ \A y \in S : y <= Max(S)
<1> DEFINE T == {n - y : y \in S}
<1>0. \A y \in S : y \in 1..n /\ n - y \in Nat OBVIOUS
<1>1. T \subseteq Nat /\ T # {} BY <1>0
<1>2. PICK x \in T : \A y \in T : x <= y
  <2> HIDE DEF T
  <2> QED BY <1>1, LeastNumber
<1>3. PICK z \in S : x = n - z BY <1>2
<1>4. \A y \in S : y <= z
  <2>1. \A y \in S : x <= n - y /\ y \in Int /\ z \in Int BY <1>2
  <2> QED BY <1>3, <2>1
<1>5. z \in S /\ \A y \in S : z >= y BY <1>4
<1>6. Max(S) \in S /\ \A y \in S : Max(S) >= y BY <1>5 DEF Max
<1> QED BY <1>6

\* The edges of happens-before, and those the search goes back along.
HbEdges(h) == PoEdges(h) \cup h.sw \cup h.tcj
SearchEdges(h, loc) == HbEdges(h) \cup {p \in h.rf : Loc(h, p[2]) = loc /\ Kind(h, p[2]) \in ReadKinds}
Visited(h, last, loc) == Reach(Converse(SearchEdges(h, loc)), {last}, Cardinality(Events(h)))

\* Happens-before is the closure of po, sw and tcj over the events.
LEMMA HbIn ==
  ASSUME NEW h, PoTyped(h), EdgesTyped(h)
  PROVE  HbEdges(h) \subseteq Events(h) \X Events(h) /\ HappensBefore(h) = Plus(HbEdges(h), Events(h))
BY PoIs DEF HbEdges, EdgesTyped, HappensBefore

\* A set closed under the converse is one that its edges only enter from inside.
LEMMA ConverseIs ==
  ASSUME NEW E, NEW R, R \subseteq E \X E
  PROVE  Converse(R) \subseteq E \X E /\ \A C : Closed(Converse(R), C) <=> \A p \in R : p[2] \in C => p[1] \in C
<1>1. Converse(R) \subseteq E \X E BY DEF Converse
<1>2. ASSUME NEW C, Closed(Converse(R), C), NEW p \in R, p[2] \in C PROVE p[1] \in C
  <2> DEFINE q == <<p[2], p[1]>>
  <2>1. q \in Converse(R) /\ q[1] = p[2] /\ q[2] = p[1] BY DEF Converse
  <2> QED BY <1>2, <2>1 DEF Closed
<1>3. ASSUME NEW C, \A p \in R : p[2] \in C => p[1] \in C PROVE Closed(Converse(R), C)
  BY <1>3 DEF Closed, Converse
<1> QED BY <1>1, <1>2, <1>3

\* What the search visits is the least set with its start that the edges do not enter
\* from outside.
LEMMA VisitedIs ==
  ASSUME NEW h, EventsTyped(h), PoTyped(h), EdgesTyped(h), NEW last \in Events(h), NEW loc
  PROVE  /\ last \in Visited(h, last, loc) /\ Visited(h, last, loc) \subseteq Events(h)
         /\ \A p \in SearchEdges(h, loc) : p[2] \in Visited(h, last, loc) => p[1] \in Visited(h, last, loc)
         /\ \A C : last \in C /\ (\A p \in SearchEdges(h, loc) : p[2] \in C => p[1] \in C)
                     => Visited(h, last, loc) \subseteq C
<1>1. SearchEdges(h, loc) \subseteq Events(h) \X Events(h) BY HbIn DEF SearchEdges, EdgesTyped
<1>2. PICK R : R = Converse(SearchEdges(h, loc)) OBVIOUS
<1>3. R \subseteq Events(h) \X Events(h) BY <1>1, <1>2, ConverseIs
<1>4. \A C : Closed(R, C) <=> \A p \in SearchEdges(h, loc) : p[2] \in C => p[1] \in C
  BY <1>1, <1>2, ConverseIs
<1>5. PICK V : V = Visited(h, last, loc) OBVIOUS
<1>6. V = Reach(R, {last}, Cardinality(Events(h))) BY <1>2, <1>5 DEF Visited
<1>7. {last} \subseteq V /\ V \subseteq Events(h) /\ Closed(R, V) /\ \A C : {last} \subseteq C /\ Closed(R, C) => V \subseteq C
  BY <1>3, <1>6, ReachIs DEF EventsTyped
<1> QED BY <1>4, <1>5, <1>7

Consumed(h, w) == \E r \in OfKind(h, RmwKinds) : <<w, r>> \in h.rf

\* The writes found are those that no write visited comes after.
LEMMA SearchIs ==
  ASSUME NEW h, EventsTyped(h), PoTyped(h), EdgesTyped(h), MoTyped(h), NEW last, NEW loc \in Locations,
         NEW rmw \in BOOLEAN
  PROVE  \A w : w \in FindConsistentWrites(h, last, loc, rmw) <=>
           /\ w \in ToSet(h.mo[loc])
           /\ \A v \in Visited(h, last, loc) : Kind(h, v) \in WriteKinds => <<w, v>> \notin MoBefore(h)
           /\ rmw => ~Consumed(h, w)
<1> DEFINE order == h.mo[loc]
           V == Visited(h, last, loc)
           aware == {i \in 1..Len(order) : order[i] \in V /\ Kind(h, order[i]) \in WriteKinds}
           cutoff == IF aware = {} THEN 1 ELSE Max(aware)
           consumed == {w \in Events(h) : Targets(h.rf, w) \cap OfKind(h, RmwKinds) # {}}
<1>1. FindConsistentWrites(h, last, loc, rmw) = {order[i] : i \in cutoff..Len(order)} \ (IF rmw THEN consumed ELSE {})
  BY DEF FindConsistentWrites, Visited, SearchEdges, HbEdges
<1>2. \A w : w \in consumed <=> Consumed(h, w)
  <2>1. \A w, r : r \in Targets(h.rf, w) <=> <<w, r>> \in h.rf BY TargetsIs DEF EdgesTyped
  <2>2. \A w, r : <<w, r>> \in h.rf => w \in Events(h) BY DEF EdgesTyped
  <2> QED BY <2>1, <2>2 DEF Consumed
<1> HIDE DEF consumed
<1>3. order \in Seq(Events(h)) /\ Distinct(order) /\ Len(order) \in Nat BY DEF MoTyped
<1>4. \A i, j \in 1..Len(order) : order[i] = order[j] => i = j BY <1>3, DistinctIs
<1> HIDE DEF V
<1>5. aware \subseteq 1..Len(order) OBVIOUS
<1>6. cutoff \in 1..(Len(order) + 1) /\ \A i \in 1..Len(order) : cutoff <= i <=> \A j \in aware : j <= i
  <2>1. CASE aware = {} BY <1>3, <2>1
  <2>2. CASE aware # {}
    <3>1. Max(aware) \in aware /\ \A j \in aware : j <= Max(aware)
      <4> HIDE DEF aware
      <4> QED BY <1>3, <1>5, <2>2, MaxIs
    <3>2. cutoff = Max(aware) BY <2>2
    <3> HIDE DEF aware, cutoff
    <3>3. cutoff \in 1..Len(order) /\ cutoff \in aware /\ \A j \in aware : j <= cutoff BY <1>5, <3>1, <3>2
    <3>4. cutoff \in 1..(Len(order) + 1) BY <1>3, <3>3
    <3>5. ASSUME NEW i \in 1..Len(order) PROVE cutoff <= i <=> \A j \in aware : j <= i
      <4>1. ASSUME cutoff <= i, NEW j \in aware PROVE j <= i
        <5>1. j \in 1..Len(order) /\ j <= cutoff BY <1>5, <3>3
        <5> QED BY <1>3, <3>3, <4>1, <5>1
      <4>2. (\A j \in aware : j <= i) => cutoff <= i BY <3>3
      <4> QED BY <4>1, <4>2
    <3> QED BY <3>4, <3>5
  <2> QED BY <2>1, <2>2
<1>7. \A a, b : <<a, b>> \in Order(order) <=> InOrder(order, Len(order), a, b) BY <1>3, OrderIs
<1>8. \A l \in Locations : \A a, b : a \in ToSet(h.mo[l]) \/ b \in ToSet(h.mo[l]) =>
              (<<a, b>> \in MoBefore(h) <=> <<a, b>> \in Order(h.mo[l]))
  BY MoStrict
<1>9. ASSUME NEW i \in 1..Len(order)
      PROVE  cutoff <= i <=> \A v \in V : Kind(h, v) \in WriteKinds => <<order[i], v>> \notin MoBefore(h)
  <2>0. order[i] \in ToSet(order) BY <1>3, OrderIs DEF In
  <2>1. ASSUME cutoff <= i, NEW v \in V, Kind(h, v) \in WriteKinds, <<order[i], v>> \in MoBefore(h) PROVE FALSE
    <3>1. InOrder(order, Len(order), order[i], v) BY <1>7, <1>8, <2>0, <2>1
    <3>2. PICK m, j \in 1..Len(order) : m < j /\ order[i] = order[m] /\ v = order[j] BY <3>1 DEF InOrder
    <3>3. j \in aware BY <2>1, <3>2
    <3>4. j <= i BY <1>6, <2>1, <3>3
    <3>5. i = m BY <1>4, <3>2
    <3> QED BY <3>2, <3>4, <3>5
  <2>2. ASSUME \A v \in V : Kind(h, v) \in WriteKinds => <<order[i], v>> \notin MoBefore(h) PROVE cutoff <= i
    <3>1. ASSUME NEW j \in aware, ~(j <= i) PROVE FALSE
      <4>1. j \in 1..Len(order) /\ order[j] \in V /\ Kind(h, order[j]) \in WriteKinds OBVIOUS
      <4>2. i < j BY <3>1, <4>1
      <4>3. InOrder(order, Len(order), order[i], order[j]) BY <4>1, <4>2 DEF InOrder
      <4>4. <<order[i], order[j]>> \in MoBefore(h) BY <1>7, <1>8, <2>0, <4>3
      <4> QED BY <2>2, <4>1, <4>4
    <3> QED BY <1>6, <3>1
  <2> QED BY <2>1, <2>2
<1>10. \A w : w \in {order[i] : i \in cutoff..Len(order)} <=> \E i \in 1..Len(order) : cutoff <= i /\ w = order[i]
  <2>1. \A i : i \in cutoff..Len(order) <=> i \in 1..Len(order) /\ cutoff <= i
    <3> HIDE DEF cutoff
    <3> QED BY <1>3, <1>6
  <2> HIDE DEF cutoff
  <2> QED BY <2>1
<1>11. \A w : w \in ToSet(order) <=> \E i \in 1..Len(order) : w = order[i] BY <1>3, OrderIs DEF In
<1> HIDE DEF order, cutoff, aware
<1>12. \A w : w \in {order[i] : i \in cutoff..Len(order)} <=>
           /\ w \in ToSet(order)
           /\ \A v \in V : Kind(h, v) \in WriteKinds => <<w, v>> \notin MoBefore(h)
  BY <1>9, <1>10, <1>11
<1>13. \A w : w \in FindConsistentWrites(h, last, loc, rmw) <=>
          w \in {order[i] : i \in cutoff..Len(order)} /\ (rmw => ~Consumed(h, w))
  BY <1>1, <1>2
<1> QED BY <1>12, <1>13 DEF V, order

-----------------------------------------------------------------------------
(* Graphs that agree on a set of events that no edge enters from outside.  *)

Agrees(h, k, K) ==
  /\ K \subseteq Events(h) /\ K \subseteq Events(k)
  /\ \A e \in K : h.ev[e] = k.ev[e]
  /\ SameInto(PoEdges(h), PoEdges(k), K) /\ SameInto(h.rf, k.rf, K)
  /\ SameInto(h.sw, k.sw, K) /\ SameInto(h.tcj, k.tcj, K)
  /\ \A a, b \in K : <<a, b>> \in MoBefore(h) <=> <<a, b>> \in MoBefore(k)
  /\ \A l \in Locations : \A a \in K : a \in ToSet(h.mo[l]) <=> a \in ToSet(k.mo[l])

\* Agreement on K does not depend on which graph is named first.
LEMMA AgreesSymmetric == ASSUME NEW h, NEW k, NEW K, Agrees(h, k, K) PROVE Agrees(k, h, K)
BY DEF Agrees, SameInto

\* Agreement on K carries over a third graph.
LEMMA AgreesTransitive ==
  ASSUME NEW h, NEW k, NEW j, NEW K, Agrees(h, k, K), Agrees(k, j, K) PROVE Agrees(h, j, K)
BY DEF Agrees, SameInto

\* Agreement on less: on any part that no edge enters from outside.
LEMMA AgreesLess ==
  ASSUME NEW h, NEW k, NEW K, NEW M, Agrees(h, k, K), M \subseteq K,
         \A p \in Edges(h) : p[2] \in M => p[1] \in M
  PROVE  Agrees(h, k, M)
<1>1. ASSUME NEW R, NEW T, R \subseteq Edges(h), SameInto(R, T, K) PROVE SameInto(R, T, M)
  BY <1>1 DEF SameInto
<1>2. PoEdges(h) \subseteq Edges(h) /\ h.rf \subseteq Edges(h) /\ h.sw \subseteq Edges(h) /\ h.tcj \subseteq Edges(h)
  BY DEF Edges
<1>3. SameInto(PoEdges(h), PoEdges(k), M) /\ SameInto(h.rf, k.rf, M) /\ SameInto(h.sw, k.sw, M) /\ SameInto(h.tcj, k.tcj, M)
  BY <1>1, <1>2 DEF Agrees
<1> QED BY <1>3 DEF Agrees

\* Relations that agree into K still do after a union.
LEMMA SameUnion ==
  ASSUME NEW R, NEW T, NEW A, NEW B, NEW K, SameInto(R, T, K), SameInto(A, B, K)
  PROVE  SameInto(R \cup A, T \cup B, K)
BY DEF SameInto

\* Graphs that agree on K have the same edges of every kind into K.
LEMMA AgreesEdges ==
  ASSUME NEW h, NEW k, NEW K, Agrees(h, k, K)
  PROVE  /\ SameInto(HbEdges(h), HbEdges(k), K) /\ SameInto(Edges(h), Edges(k), K)
         /\ \A loc : SameInto(SearchEdges(h, loc), SearchEdges(k, loc), K)
<1>1. SameInto(HbEdges(h), HbEdges(k), K) BY SameUnion DEF Agrees, HbEdges
<1>2. SameInto(Edges(h), Edges(k), K)
  <2>1. SameInto(PoEdges(h) \cup h.rf, PoEdges(k) \cup k.rf, K) BY SameUnion DEF Agrees
  <2>2. SameInto(h.sw, k.sw, K) /\ SameInto(h.tcj, k.tcj, K) BY DEF Agrees
  <2>3. SameInto((PoEdges(h) \cup h.rf) \cup h.sw, (PoEdges(k) \cup k.rf) \cup k.sw, K) BY <2>1, <2>2, SameUnion
  <2>4. SameInto(((PoEdges(h) \cup h.rf) \cup h.sw) \cup h.tcj, ((PoEdges(k) \cup k.rf) \cup k.sw) \cup k.tcj, K)
    BY <2>2, <2>3, SameUnion
  <2> QED BY <2>4 DEF Edges
<1>3. ASSUME NEW loc PROVE SameInto(SearchEdges(h, loc), SearchEdges(k, loc), K)
  <2> DEFINE A == {p \in h.rf : Loc(h, p[2]) = loc /\ Kind(h, p[2]) \in ReadKinds}
             B == {p \in k.rf : Loc(k, p[2]) = loc /\ Kind(k, p[2]) \in ReadKinds}
  <2>1. \A e \in K : Loc(h, e) = Loc(k, e) /\ Kind(h, e) = Kind(k, e) BY DEF Agrees, Loc, Kind
  <2>2. SameInto(A, B, K) BY <2>1 DEF Agrees, SameInto
  <2> HIDE DEF A, B
  <2>3. SameInto(HbEdges(h) \cup A, HbEdges(k) \cup B, K) BY <1>1, <2>2, SameUnion
  <2> QED BY <2>3 DEF A, B, SearchEdges
<1> QED BY <1>1, <1>2, <1>3

Shaped(h) == EventsTyped(h) /\ PoTyped(h) /\ EdgesTyped(h)

\* Graphs that agree on K have the same happens-before into K.
LEMMA AgreesHb ==
  ASSUME NEW h, NEW k, NEW K, Shaped(h), Shaped(k), Agrees(h, k, K)
  PROVE  /\ \A a, b : b \in K => (<<a, b>> \in HappensBefore(h) <=> <<a, b>> \in HappensBefore(k))
         /\ \A a, b : b \in K /\ <<a, b>> \in HappensBefore(h) => a \in K
         /\ \A a, b : b \in K => (<<a, b>> \in Plus(Edges(h), Events(h)) <=> <<a, b>> \in Plus(Edges(k), Events(k)))
         /\ \A a, b : b \in K => (<<a, b>> \in Plus(PoEdges(h), Events(h)) <=> <<a, b>> \in Plus(PoEdges(k), Events(k)))
         /\ \A a, b : b \in K /\ <<a, b>> \in Plus(PoEdges(h), Events(h)) => a \in K
<1> USE DEF Shaped
<1>1. ASSUME NEW R, NEW T, R \subseteq Events(h) \X Events(h), T \subseteq Events(k) \X Events(k), SameInto(R, T, K)
      PROVE  /\ \A a, b : b \in K => (<<a, b>> \in Plus(R, Events(h)) <=> <<a, b>> \in Plus(T, Events(k)))
             /\ \A a, b : b \in K /\ <<a, b>> \in Plus(R, Events(h)) => a \in K
  <2>1. SameInto(T, R, K) BY <1>1 DEF SameInto
  <2>2. IsFiniteSet(Events(h)) /\ IsFiniteSet(Events(k)) BY DEF EventsTyped
  <2>3. \A a, b : b \in K /\ <<a, b>> \in Plus(R, Events(h)) => a \in K /\ <<a, b>> \in Plus(T, Events(k))
    BY <1>1, <2>2, PlusInto
  <2>4. \A a, b : b \in K /\ <<a, b>> \in Plus(T, Events(k)) => a \in K /\ <<a, b>> \in Plus(R, Events(h))
    BY <1>1, <2>1, <2>2, PlusInto
  <2> QED BY <2>3, <2>4
<1>2. HbEdges(h) \subseteq Events(h) \X Events(h) /\ HbEdges(k) \subseteq Events(k) \X Events(k) BY HbIn
<1>3. Edges(h) \subseteq Events(h) \X Events(h) /\ Edges(k) \subseteq Events(k) \X Events(k) BY EdgesIn
<1>4. PoEdges(h) \subseteq Events(h) \X Events(h) /\ PoEdges(k) \subseteq Events(k) \X Events(k) BY PoIs
<1>5. SameInto(HbEdges(h), HbEdges(k), K) /\ SameInto(Edges(h), Edges(k), K) BY AgreesEdges
<1>6. SameInto(PoEdges(h), PoEdges(k), K) BY DEF Agrees
<1>7. HappensBefore(h) = Plus(HbEdges(h), Events(h)) /\ HappensBefore(k) = Plus(HbEdges(k), Events(k)) BY HbIn
<1> HIDE DEF Shaped
<1>8. /\ \A a, b : b \in K => (<<a, b>> \in HappensBefore(h) <=> <<a, b>> \in HappensBefore(k))
      /\ \A a, b : b \in K /\ <<a, b>> \in HappensBefore(h) => a \in K
  BY <1>1, <1>2, <1>5, <1>7
<1>9. \A a, b : b \in K => (<<a, b>> \in Plus(Edges(h), Events(h)) <=> <<a, b>> \in Plus(Edges(k), Events(k)))
  BY <1>1, <1>3, <1>5
<1>10. /\ \A a, b : b \in K => (<<a, b>> \in Plus(PoEdges(h), Events(h)) <=> <<a, b>> \in Plus(PoEdges(k), Events(k)))
       /\ \A a, b : b \in K /\ <<a, b>> \in Plus(PoEdges(h), Events(h)) => a \in K
  BY <1>1, <1>4, <1>6
<1> QED BY <1>8, <1>9, <1>10

\* The search from an event of K visits the same events in both graphs.
LEMMA AgreesVisited ==
  ASSUME NEW h, NEW k, NEW K, Shaped(h), Shaped(k), Agrees(h, k, K), NEW last \in K, NEW loc
  PROVE  Visited(h, last, loc) = Visited(k, last, loc) /\ Visited(h, last, loc) \subseteq K
<1>1. \A j, m : Shaped(j) /\ Shaped(m) /\ Agrees(j, m, K)
                  => Visited(j, last, loc) \subseteq Visited(m, last, loc) \cap K
  <2> SUFFICES ASSUME NEW j, NEW m, Shaped(j), Shaped(m), Agrees(j, m, K)
               PROVE  Visited(j, last, loc) \subseteq Visited(m, last, loc) \cap K
    OBVIOUS
  <2>1. last \in Events(j) /\ last \in Events(m) BY DEF Agrees
  <2>2. PICK C : C = Visited(m, last, loc) \cap K OBVIOUS
  <2>3. last \in C BY <2>1, <2>2, VisitedIs DEF Shaped
  <2>4. SameInto(SearchEdges(j, loc), SearchEdges(m, loc), K) BY AgreesEdges
  <2>5. ASSUME NEW p \in SearchEdges(j, loc), p[2] \in C PROVE p[1] \in C
    <3>1. p \in SearchEdges(m, loc) /\ p[1] \in K BY <2>2, <2>4, <2>5 DEF SameInto
    <3>2. p[1] \in Visited(m, last, loc) BY <2>1, <2>2, <2>5, <3>1, VisitedIs DEF Shaped
    <3> QED BY <2>2, <3>1, <3>2
  <2> QED BY <2>1, <2>2, <2>3, <2>5, VisitedIs DEF Shaped
<1>2. Agrees(k, h, K) BY AgreesSymmetric
<1> QED BY <1>1, <1>2

-----------------------------------------------------------------------------
(* Races.                                                                  *)

IsRace(h, e, f) ==
  /\ e # f /\ e \in OfKind(h, ReadKinds \cup WriteKinds) /\ f \in OfKind(h, ReadKinds \cup WriteKinds)
  /\ Loc(h, e) = Loc(h, f) /\ {Kind(h, e), Kind(h, f)} \cap WriteKinds # {}
  /\ "NON_ATOMIC" \in {Mode(h, e), Mode(h, f)}
  /\ <<e, f>> \notin HappensBefore(h) /\ <<f, e>> \notin HappensBefore(h)
RacesOf(h) ==
  {s \in SUBSET OfKind(h, ReadKinds \cup WriteKinds) :
     \E e, f \in s : /\ e # f /\ s = {e, f} /\ Loc(h, e) = Loc(h, f)
                     /\ {Kind(h, e), Kind(h, f)} \cap WriteKinds # {}
                     /\ "NON_ATOMIC" \in {Mode(h, e), Mode(h, f)}
                     /\ {<<e, f>>, <<f, e>>} \cap HappensBefore(h) = {}}

\* has_happens_before_path answers whether the events are equal or ordered by happens-before.
LEMMA PathIs ==
  ASSUME NEW h, Shaped(h), NEW e \in Events(h)
  PROVE  \A f : HasHappensBeforePath(h, e, f) <=> e = f \/ <<e, f>> \in HappensBefore(h)
<1>1. PICK R : R = HbEdges(h) OBVIOUS
<1>2. PICK E : E = Events(h) OBVIOUS
<1>3. IsFiniteSet(E) /\ R \subseteq E \X E /\ HappensBefore(h) = Plus(R, E) /\ e \in E
  BY <1>1, <1>2, HbIn DEF Shaped, EventsTyped
<1>4. PICK V : V = Reach(R, {e}, Cardinality(E)) OBVIOUS
<1>5. \A f : HasHappensBeforePath(h, e, f) <=> f \in V BY <1>1, <1>2, <1>4 DEF HasHappensBeforePath, HbEdges
<1>6. {e} \subseteq V /\ V \subseteq E /\ Closed(R, V) /\ \A C : {e} \subseteq C /\ Closed(R, C) => V \subseteq C
  BY <1>3, <1>4, ReachIs
<1>7. ASSUME NEW f, <<e, f>> \in Plus(R, E) PROVE f \in V
  <2>1. \A b : <<e, b>> \in R => b \in V BY <1>6 DEF Closed
  <2> QED BY <1>3, <1>6, <1>7, <2>1, PlusLeast
<1>8. ASSUME NEW f, f \in V PROVE e = f \/ <<e, f>> \in Plus(R, E)
  <2> DEFINE C == {d \in E : e = d \/ <<e, d>> \in Plus(R, E)}
  <2>1. {e} \subseteq C BY <1>3
  <2>2. ASSUME NEW p \in R, p[1] \in C PROVE p[2] \in C
    <3>1. p = <<p[1], p[2]>> /\ p[1] \in E /\ p[2] \in E BY <1>3, <2>2
    <3>2. p \in Plus(R, E) BY <1>3, PlusStep
    <3>3. <<e, p[1]>> \in Plus(R, E) => <<e, p[2]>> \in Plus(R, E) BY <1>3, <3>1, PlusStep
    <3> QED BY <2>2, <3>1, <3>2, <3>3
  <2>3. Closed(R, C) BY <2>2 DEF Closed
  <2> HIDE DEF C
  <2>4. f \in C BY <1>6, <1>8, <2>1, <2>3
  <2> QED BY <2>4 DEF C
<1> QED BY <1>3, <1>5, <1>6, <1>7, <1>8

\* check_data_race finds exactly the writes and reads that race with e.
LEMMA RaceIs ==
  ASSUME NEW h, Shaped(h), NEW e \in Events(h)
  PROVE  \A f : f \in CheckDataRace(h, e) <=> IsRace(h, e, f)
<1>1. \A f \in Events(h) : /\ HasHappensBeforePath(h, e, f) <=> e = f \/ <<e, f>> \in HappensBefore(h)
                           /\ HasHappensBeforePath(h, f, e) <=> e = f \/ <<f, e>> \in HappensBefore(h)
  BY PathIs
<1>2. \A f : f \in OfKind(h, ReadKinds \cup WriteKinds) => f \in Events(h) BY DEF OfKind
<1> QED BY <1>1, <1>2 DEF CheckDataRace, IsRace

\* A race has no first and second event.
LEMMA RaceSymmetric == ASSUME NEW h, NEW e, NEW f, IsRace(h, e, f) PROVE IsRace(h, f, e)
BY DEF IsRace

\* A stored pair is the set of two events that race.
LEMMA RacesOfIs ==
  ASSUME NEW h
  PROVE  \A s : s \in RacesOf(h) <=> \E e, f : IsRace(h, e, f) /\ s = {e, f}
<1>1. ASSUME NEW s \in RacesOf(h) PROVE \E e, f : IsRace(h, e, f) /\ s = {e, f}
  <2>1. PICK e, f \in s : /\ e # f /\ s = {e, f} /\ Loc(h, e) = Loc(h, f)
                          /\ {Kind(h, e), Kind(h, f)} \cap WriteKinds # {}
                          /\ "NON_ATOMIC" \in {Mode(h, e), Mode(h, f)}
                          /\ {<<e, f>>, <<f, e>>} \cap HappensBefore(h) = {}
    BY DEF RacesOf
  <2>2. s \subseteq OfKind(h, ReadKinds \cup WriteKinds) BY DEF RacesOf
  <2>3. IsRace(h, e, f) BY <2>1, <2>2 DEF IsRace
  <2> QED BY <2>1, <2>3
<1>2. ASSUME NEW e, NEW f, IsRace(h, e, f) PROVE {e, f} \in RacesOf(h)
  <2>1. PICK s : s = {e, f} OBVIOUS
  <2>2. e \in s /\ f \in s /\ s \in SUBSET OfKind(h, ReadKinds \cup WriteKinds) BY <1>2, <2>1 DEF IsRace
  <2>3. /\ e # f /\ s = {e, f} /\ Loc(h, e) = Loc(h, f)
        /\ {Kind(h, e), Kind(h, f)} \cap WriteKinds # {}
        /\ "NON_ATOMIC" \in {Mode(h, e), Mode(h, f)}
        /\ {<<e, f>>, <<f, e>>} \cap HappensBefore(h) = {}
    BY <1>2, <2>1 DEF IsRace
  <2>4. s \in RacesOf(h) BY <2>2, <2>3 DEF RacesOf
  <2> QED BY <2>1, <2>4
<1> QED BY <1>1, <1>2

\* Every write is in the modification order of its location, where there is nothing else.
MoComplete(h) ==
  \A l \in Locations : ToSet(h.mo[l]) = {e \in OfKind(h, WriteKinds) : Loc(h, e) = l}

\* The collection from scratch stores exactly the races of the graph.
LEMMA CollectIs ==
  ASSUME NEW h, Shaped(h), MoComplete(h)
  PROVE  CollectRacePairs(h) = RacesOf(h)
<1> DEFINE D == {d \in Events(h) : Loc(h, d) \in {l \in Locations : h.mo[l] # <<>>}}
<1>1. ASSUME NEW e, NEW f, IsRace(h, e, f) PROVE e \in D
  <2>1. e \in Events(h) /\ f \in Events(h) /\ Loc(h, e) = Loc(h, f) BY <1>1 DEF IsRace, OfKind
  <2>2. PICK d \in {e, f} : Kind(h, d) \in WriteKinds BY <1>1 DEF IsRace
  <2>3. d \in Events(h) /\ Loc(h, d) = Loc(h, e) BY <2>1, <2>2
  <2>4. Loc(h, d) \in Locations
    <3>1. Kind(h, d) # "FENCE" BY <2>2 DEF WriteKinds
    <3> QED BY <2>3, <3>1 DEF Shaped, EventsTyped
  <2>5. d \in ToSet(h.mo[Loc(h, d)]) BY <2>2, <2>3, <2>4 DEF MoComplete, OfKind
  <2>6. h.mo[Loc(h, d)] # <<>> BY <2>5 DEF ToSet
  <2> QED BY <2>1, <2>3, <2>4, <2>6
<1>2. CollectRacePairs(h) = UNION {{{e, f} : f \in CheckDataRace(h, e)} : e \in D} BY DEF CollectRacePairs
<1>3. D \subseteq Events(h) OBVIOUS
<1> HIDE DEF D
<1>4. ASSUME NEW s PROVE s \in CollectRacePairs(h) <=> \E e, f : IsRace(h, e, f) /\ s = {e, f}
  <2>1. s \in CollectRacePairs(h) <=> \E e \in D : \E f \in CheckDataRace(h, e) : s = {e, f} BY <1>2
  <2>2. \A e \in D : \A f : f \in CheckDataRace(h, e) <=> IsRace(h, e, f) BY <1>3, RaceIs
  <2> QED BY <1>1, <2>1, <2>2
<1>5. \A s : s \in CollectRacePairs(h) <=> s \in RacesOf(h) BY <1>4, RacesOfIs
<1> QED BY <1>5

\* The pairs of an earlier graph, refreshed at one event x, when the two graphs agree on
\* all others.
SameRaces(h, k, K) == \A a, b \in K : IsRace(h, a, b) <=> IsRace(k, a, b)

\* When only x is new or changed, replacing its pairs turns the races of h into those of k.
LEMMA UpdateIs ==
  ASSUME NEW h, NEW k, NEW K, NEW x, Shaped(k), x \in Events(k), K \subseteq Events(h),
         Events(k) = K \cup {x}, x \notin K, SameRaces(h, k, K)
  PROVE  UpdateRacePairs(RacesOf(h), k, x) = RacesOf(k)
<1>0. \A j, a, b : IsRace(j, a, b) => a \in Events(j) /\ b \in Events(j) BY DEF IsRace, OfKind
<1>1. ASSUME NEW s \in UpdateRacePairs(RacesOf(h), k, x) PROVE s \in RacesOf(k)
  <2>1. CASE s \in RacesOf(h) /\ s \subseteq Events(k) /\ x \notin s
    <3>1. PICK e, f : IsRace(h, e, f) /\ s = {e, f} BY <2>1, RacesOfIs
    <3>2. e \in K /\ f \in K BY <2>1, <3>1
    <3> QED BY <3>1, <3>2, RacesOfIs DEF SameRaces
  <2>2. CASE \E f \in CheckDataRace(k, x) : s = {x, f} BY <2>2, RaceIs, RacesOfIs
  <2> QED BY <2>1, <2>2 DEF UpdateRacePairs
<1>2. ASSUME NEW s \in RacesOf(k) PROVE s \in UpdateRacePairs(RacesOf(h), k, x)
  <2>1. PICK e, f : IsRace(k, e, f) /\ s = {e, f} BY RacesOfIs
  <2>2. e \in Events(k) /\ f \in Events(k) BY <1>0, <2>1
  <2>3. CASE x = e
    <3>1. f \in CheckDataRace(k, x) BY <2>1, <2>3, RaceIs
    <3>2. s \in {{x, d} : d \in CheckDataRace(k, x)} BY <2>1, <2>3, <3>1
    <3> QED BY <3>2 DEF UpdateRacePairs
  <2>4. CASE x = f
    <3>1. e \in CheckDataRace(k, x) BY <2>1, <2>4, RaceIs, RaceSymmetric
    <3>0. s = {x, e} BY <2>1, <2>4
    <3>2. s \in {{x, d} : d \in CheckDataRace(k, x)} BY <3>0, <3>1
    <3> QED BY <3>2 DEF UpdateRacePairs
  <2>5. CASE x # e /\ x # f
    <3>1. e \in K /\ f \in K BY <2>2, <2>5
    <3>2. IsRace(h, e, f) BY <2>1, <3>1 DEF SameRaces
    <3>3. s \in RacesOf(h) /\ s \subseteq Events(k) /\ x \notin s BY <2>1, <2>2, <2>5, <3>2, RacesOfIs
    <3> QED BY <3>3 DEF UpdateRacePairs
  <2> QED BY <2>3, <2>4, <2>5
<1> QED BY <1>1, <1>2

\* Graphs that agree on K have the same races in K.
LEMMA AgreesRaces ==
  ASSUME NEW h, NEW k, NEW K, Shaped(h), Shaped(k), Agrees(h, k, K)
  PROVE  SameRaces(h, k, K)
<1>1. \A e \in K : /\ e \in Events(h) /\ e \in Events(k)
                   /\ Kind(h, e) = Kind(k, e) /\ Loc(h, e) = Loc(k, e) /\ Mode(h, e) = Mode(k, e)
  BY DEF Agrees, Kind, Loc, Mode
<1>2. \A a, b \in K : <<a, b>> \in HappensBefore(h) <=> <<a, b>> \in HappensBefore(k) BY AgreesHb
<1>3. \A e \in K : e \in OfKind(h, ReadKinds \cup WriteKinds) <=> e \in OfKind(k, ReadKinds \cup WriteKinds)
  BY <1>1 DEF OfKind
<1> QED BY <1>1, <1>2, <1>3 DEF SameRaces, IsRace

-----------------------------------------------------------------------------
(* What the operations on graphs do.                                       *)

\* A part of a thread that loses, with an event, all later ones keeps its first events.
LEMMA FirstEvents ==
  ASSUME NEW h, PoTyped(h), NEW K, NEW t \in Threads,
         \A i \in 1..Len(h.po[t]) : i + 1 \in 1..Len(h.po[t]) /\ <<t, i + 1>> \in K => <<t, i>> \in K
  PROVE  \E m \in 0..Len(h.po[t]) :
           /\ Only(h.po[t], K) = [i \in 1..m |-> <<t, i>>]
           /\ \A i \in 1..Len(h.po[t]) : <<t, i>> \in K <=> i <= m
<1>1. PICK s : s = h.po[t] OBVIOUS
<1>2. s \in Seq(Events(h)) /\ Len(s) \in Nat /\ \A i \in 1..Len(s) : s[i] = <<t, i>>
  <2>1. s \in Seq(Events(h)) BY <1>1 DEF PoTyped
  <2>2. \A i \in 1..Len(s) : s[i] = <<t, i>> BY <1>1 DEF PoTyped
  <2> QED BY <2>1, <2>2
<1> DEFINE D == {i \in 1..Len(s) : <<t, i>> \notin K}
<1>3. \E m \in 0..Len(s) : \A i \in 1..Len(s) : <<t, i>> \in K <=> i <= m
  <2>1. CASE D = {}
    <3>1. Len(s) \in 0..Len(s) /\ \A i \in 1..Len(s) : <<t, i>> \in K <=> i <= Len(s) BY <1>2, <2>1
    <3> QED BY <3>1
  <2>2. CASE D # {}
    <3>1. D \subseteq Nat BY <1>2
    <3>2. PICK x \in D : \A y \in D : x <= y
      <4> HIDE DEF D
      <4> QED BY <2>2, <3>1, LeastNumber
    <3>3. x \in 1..Len(s) /\ <<t, x>> \notin K OBVIOUS
    <3> DEFINE L == {j \in Nat : x + j <= Len(s) => <<t, x + j>> \notin K}
    <3>4. 0 \in L BY <1>2, <3>3
    <3>5. ASSUME NEW j \in Nat, j \in L PROVE j + 1 \in L
      <4> SUFFICES ASSUME x + (j + 1) <= Len(s) PROVE <<t, x + (j + 1)>> \notin K OBVIOUS
      <4>1. x + j \in 1..Len(s) /\ (x + j) + 1 \in 1..Len(s) /\ (x + j) + 1 = x + (j + 1) /\ x + j <= Len(s)
        BY <1>2, <3>3
      <4>2. <<t, x + j>> \notin K BY <3>5, <4>1
      <4> QED BY <1>1, <4>1, <4>2
    <3> HIDE DEF L
    <3>6. \A j \in Nat : j \in L BY <3>4, <3>5, SetInduction
    <3>7. \A i \in 1..Len(s) : x <= i => <<t, i>> \notin K
      <4> SUFFICES ASSUME NEW i \in 1..Len(s), x <= i PROVE <<t, i>> \notin K OBVIOUS
      <4>1. i - x \in Nat /\ x + (i - x) = i BY <1>2, <3>3
      <4>2. i - x \in L BY <3>6, <4>1
      <4> QED BY <1>2, <4>1, <4>2 DEF L
    <3>8. x - 1 \in 0..Len(s) /\ \A i \in 1..Len(s) : <<t, i>> \in K <=> i <= x - 1
      <4>1. \A i \in 1..Len(s) : i <= x - 1 <=> ~(x <= i) BY <1>2, <3>3
      <4>2. \A i \in 1..Len(s) : ~(x <= i) => <<t, i>> \in K BY <3>2
      <4>3. x - 1 \in 0..Len(s) BY <1>2, <3>3
      <4> QED BY <3>7, <4>1, <4>2, <4>3
    <3> QED BY <3>8
  <2> QED BY <2>1, <2>2
<1>4. PICK m \in 0..Len(s) : \A i \in 1..Len(s) : <<t, i>> \in K <=> i <= m BY <1>3
<1>5. \A i \in 1..Len(s) : s[i] \in K <=> i <= m BY <1>2, <1>4
<1>6. Only(s, K) = [i \in 1..m |-> s[i]] BY <1>2, <1>5, OnlyPrefix
<1>7. \A i \in 1..m : s[i] = <<t, i>> BY <1>2
<1>8. Only(s, K) = [i \in 1..m |-> <<t, i>>] BY <1>6, <1>7
<1> QED BY <1>1, <1>4, <1>8

\* Dropping events that are followed only by dropped ones.
Dropped(h, K) == Finalize([h EXCEPT !.ev = Restrict(@, K)])

\* Removing events that no kept event depends on leaves a graph that agrees on the rest.
LEMMA DropIs ==
  ASSUME NEW h, IsGraph(h), NEW K, K \subseteq Events(h), \A p \in Edges(h) : p[2] \in K => p[1] \in K,
         NEW k, k = Dropped(h, K)
  PROVE  /\ IsGraph(k) /\ Events(k) = K /\ Agrees(h, k, K)
         /\ k.rf \subseteq h.rf /\ k.sw \subseteq h.sw /\ k.tcj \subseteq h.tcj /\ Edges(k) \subseteq Edges(h)
         /\ \A l \in Locations : ToSet(k.mo[l]) = ToSet(h.mo[l]) \cap K
         /\ \A t \in Threads : Len(k.po[t]) <= Len(h.po[t])
<1> USE DEF IsGraph
<1>1. PICK f : f = [h EXCEPT !.ev = Restrict(@, K)] OBVIOUS
<1>2. /\ IsRecord(f) /\ f.ev = [x \in K |-> h.ev[x]] /\ f.po = h.po /\ f.mo = h.mo
      /\ f.rf = h.rf /\ f.sw = h.sw /\ f.tcj = h.tcj
  BY <1>1 DEF IsRecord, Restrict
<1>3. Events(f) = K BY <1>2 DEF Events
<1>4. /\ IsRecord(k) /\ k.ev = [x \in K |-> h.ev[x]]
      /\ k.po = [t \in Threads |-> Only(h.po[t], K)] /\ k.mo = [l \in Locations |-> Only(h.mo[l], K)]
      /\ k.rf = {p \in h.rf : p[1] \in K /\ p[2] \in K}
      /\ k.sw = {p \in h.sw : p[1] \in K /\ p[2] \in K}
      /\ k.tcj = {p \in h.tcj : p[1] \in K /\ p[2] \in K}
  <2>1. k = Finalize(f) BY <1>1 DEF Dropped
  <2> QED BY <1>2, <1>3, <2>1, FinalizeIs
<1>5. Events(k) = K BY <1>4 DEF Events
<1>6. \A d \in K : k.ev[d] = h.ev[d] /\ Loc(k, d) = Loc(h, d) /\ Kind(k, d) = Kind(h, d) BY <1>4 DEF Loc, Kind
<1>7. EventsTyped(k)
  <2>1. IsFiniteSet(K) BY FS_Subset DEF EventsTyped
  <2>2. \A d \in K : h.ev[d] \in EventRecord BY DEF EventsTyped
  <2>3. k.ev \in [K -> EventRecord] BY <1>4, <2>2
  <2> QED BY <1>5, <1>6, <2>1, <2>3 DEF EventsTyped
<1>8. EdgesTyped(k) BY <1>4, <1>5 DEF EdgesTyped
<1>9. PoEdges(h) \subseteq Edges(h) /\ h.rf \subseteq Edges(h) /\ h.sw \subseteq Edges(h) /\ h.tcj \subseteq Edges(h)
  BY DEF Edges
<1>10. ASSUME NEW t \in Threads
       PROVE  \E m \in 0..Len(h.po[t]) :
           /\ k.po[t] = [i \in 1..m |-> <<t, i>>]
           /\ \A i \in 1..Len(h.po[t]) : <<t, i>> \in K <=> i <= m
  <2>1. ASSUME NEW i \in 1..Len(h.po[t]), i + 1 \in 1..Len(h.po[t]), <<t, i + 1>> \in K PROVE <<t, i>> \in K
    <3>1. h.po[t] \in Seq(Events(h)) /\ h.po[t][i] = <<t, i>> /\ h.po[t][i + 1] = <<t, i + 1>> BY <2>1 DEF PoTyped
    <3>2. <<t, i>> \in Events(h) /\ <<t, i + 1>> \in Events(h)
      <4>1. Len(h.po[t]) \in Nat /\ \A j \in 1..Len(h.po[t]) : h.po[t][j] \in Events(h) BY <3>1
      <4>2. h.po[t][i] \in Events(h) /\ h.po[t][i + 1] \in Events(h) BY <2>1, <4>1
      <4> QED BY <3>1, <4>2
    <3>3. PICK a : a = <<t, i>> OBVIOUS
    <3>4. PICK b : b = <<t, i + 1>> OBVIOUS
    <3>5. a[1] = b[1] /\ b[2] = a[2] + 1 /\ a \in Events(h) /\ b \in Events(h) BY <3>2, <3>3, <3>4
    <3>6. <<a, b>> \in PoEdges(h) BY <3>5, PoIs
    <3>7. <<a, b>> \in Edges(h) BY <1>9, <3>6
    <3>8. b \in K => a \in K
      <4> DEFINE p == <<a, b>>
      <4>1. p \in Edges(h) /\ p[1] = a /\ p[2] = b BY <3>7
      <4> QED BY <4>1
    <3> QED BY <2>1, <3>3, <3>4, <3>8
  <2>2. k.po[t] = Only(h.po[t], K) BY <1>4
  <2> QED BY <2>1, <2>2, FirstEvents
<1>11. \A t \in Threads :
         /\ Len(k.po[t]) \in Nat /\ Len(k.po[t]) <= Len(h.po[t])
         /\ \A i \in 1..Len(k.po[t]) : k.po[t][i] = <<t, i>>
         /\ \A i \in 1..Len(h.po[t]) : <<t, i>> \in K <=> i <= Len(k.po[t])
         /\ k.po[t] \in Seq(K)
  <2> SUFFICES ASSUME NEW t \in Threads
               PROVE  /\ Len(k.po[t]) \in Nat /\ Len(k.po[t]) <= Len(h.po[t])
                      /\ \A i \in 1..Len(k.po[t]) : k.po[t][i] = <<t, i>>
                      /\ \A i \in 1..Len(h.po[t]) : <<t, i>> \in K <=> i <= Len(k.po[t])
                      /\ k.po[t] \in Seq(K)
    OBVIOUS
  <2>1. PICK m \in 0..Len(h.po[t]) : /\ k.po[t] = [i \in 1..m |-> <<t, i>>]
                                     /\ \A i \in 1..Len(h.po[t]) : <<t, i>> \in K <=> i <= m
    BY <1>10
  <2>2. Len(h.po[t]) \in Nat BY DEF PoTyped
  <2>3. m \in Nat /\ \A i \in 1..m : i \in 1..Len(h.po[t]) /\ i <= m BY <2>2
  <2>4. \A i \in 1..m : <<t, i>> \in K BY <2>1, <2>3
  <2>5. Len(k.po[t]) = m /\ k.po[t] \in Seq(K) /\ \A i \in 1..m : k.po[t][i] = <<t, i>> BY <2>1, <2>3, <2>4
  <2> QED BY <2>1, <2>2, <2>3, <2>5
<1>12. PoTyped(k)
  <2>1. k.po \in [Threads -> Seq(K)] BY <1>4, <1>11
  <2>2. ASSUME NEW d \in K PROVE d = <<d[1], d[2]>> /\ d[1] \in Threads /\ d[2] \in 1..Len(k.po[d[1]])
    <3>1. d = <<d[1], d[2]>> /\ d[1] \in Threads /\ d[2] \in 1..Len(h.po[d[1]]) BY DEF PoTyped
    <3>2. d[2] <= Len(k.po[d[1]]) /\ Len(k.po[d[1]]) \in Nat BY <1>11, <3>1
    <3>3. Len(h.po[d[1]]) \in Nat BY <3>1 DEF PoTyped
    <3> QED BY <3>1, <3>2, <3>3
  <2> QED BY <1>5, <1>11, <2>1, <2>2 DEF PoTyped
<1>13. \A l \in Locations : /\ k.mo[l] \in Seq(K) /\ ToSet(k.mo[l]) = ToSet(h.mo[l]) \cap K
                            /\ Order(k.mo[l]) = {p \in Order(h.mo[l]) : p[1] \in K /\ p[2] \in K}
  <2> SUFFICES ASSUME NEW l \in Locations
               PROVE  /\ k.mo[l] \in Seq(K) /\ ToSet(k.mo[l]) = ToSet(h.mo[l]) \cap K
                      /\ Order(k.mo[l]) = {p \in Order(h.mo[l]) : p[1] \in K /\ p[2] \in K}
    OBVIOUS
  <2>1. h.mo[l] \in Seq(Events(h)) /\ k.mo[l] = Only(h.mo[l], K) BY <1>4 DEF MoTyped
  <2>2. /\ k.mo[l] \in Seq(Events(h)) /\ ToSet(k.mo[l]) = ToSet(h.mo[l]) \cap K
        /\ Order(k.mo[l]) = {p \in Order(h.mo[l]) : p[1] \in K /\ p[2] \in K}
    BY <2>1, OnlyKeeps
  <2>3. \A i \in 1..Len(k.mo[l]) : k.mo[l][i] \in K
    <3>1. \A i \in 1..Len(k.mo[l]) : k.mo[l][i] \in ToSet(k.mo[l]) BY <2>2, OrderIs DEF In
    <3> QED BY <2>2, <3>1
  <2>4. k.mo[l] \in Seq(K) BY <2>2, <2>3
  <2> QED BY <2>2, <2>4
<1>14. MoTyped(k)
  <2>1. k.mo \in [Locations -> Seq(K)] BY <1>4, <1>13
  <2>2. \A l \in Locations : Distinct(k.mo[l]) BY <1>13 DEF Distinct, MoTyped
  <2>3. \A l \in Locations : \A d \in ToSet(k.mo[l]) : Loc(k, d) = l BY <1>6, <1>13 DEF MoTyped
  <2> QED BY <1>5, <2>1, <2>2, <2>3 DEF MoTyped
<1>15. IsGraph(k) BY <1>4, <1>7, <1>8, <1>12, <1>14
<1>16. \A p : p \in PoEdges(k) <=> p \in PoEdges(h) /\ p[1] \in K /\ p[2] \in K
  <2>0. \A j : PoTyped(j) =>
          /\ PoEdges(j) \subseteq Events(j) \X Events(j)
          /\ \A a, b : <<a, b>> \in PoEdges(j) <=> a \in Events(j) /\ b \in Events(j) /\ a[1] = b[1] /\ b[2] = a[2] + 1
    BY PoIs
  <2>1. \A a, b : <<a, b>> \in PoEdges(k) <=> a \in K /\ b \in K /\ a[1] = b[1] /\ b[2] = a[2] + 1
    <3>1. \A a, b : <<a, b>> \in PoEdges(k) <=> a \in Events(k) /\ b \in Events(k) /\ a[1] = b[1] /\ b[2] = a[2] + 1
      BY ONLY <1>12, <2>0
    <3> QED BY ONLY <1>5, <3>1
  <2>2. \A a, b : <<a, b>> \in PoEdges(h) <=> a \in Events(h) /\ b \in Events(h) /\ a[1] = b[1] /\ b[2] = a[2] + 1
    BY PoIs
  <2>3. \A p : p \in PoEdges(k) \/ p \in PoEdges(h) => p = <<p[1], p[2]>>
    <3>1. PoEdges(k) \subseteq Events(k) \X Events(k) /\ PoEdges(h) \subseteq Events(h) \X Events(h) BY <1>12, <2>0
    <3> QED BY <3>1
  <2>4. \A a, b : <<a, b>> \in PoEdges(k) <=> <<a, b>> \in PoEdges(h) /\ a \in K /\ b \in K BY <2>1, <2>2
  <2>5. ASSUME NEW p, p \in PoEdges(k) PROVE p \in PoEdges(h) /\ p[1] \in K /\ p[2] \in K BY <2>3, <2>4, <2>5
  <2>6. ASSUME NEW p, p \in PoEdges(h), p[1] \in K, p[2] \in K PROVE p \in PoEdges(k) BY <2>3, <2>4, <2>6
  <2> QED BY <2>5, <2>6
<1>17. \A a, b \in K : <<a, b>> \in MoBefore(h) <=> <<a, b>> \in MoBefore(k)
  <2>1. \A l \in Locations : \A a, b \in K : <<a, b>> \in Order(h.mo[l]) <=> <<a, b>> \in Order(k.mo[l])
    BY <1>13
  <2>2. \A a, b : <<a, b>> \in MoBefore(h) <=> \E l \in Locations : <<a, b>> \in Order(h.mo[l]) BY MoIs
  <2>3. \A a, b : <<a, b>> \in MoBefore(k) <=> \E l \in Locations : <<a, b>> \in Order(k.mo[l]) BY <1>14, MoIs
  <2> QED BY <2>1, <2>2, <2>3
<1>18. ASSUME NEW R, NEW T, R \subseteq Edges(h), \A p : p \in T <=> p \in R /\ p[1] \in K /\ p[2] \in K
       PROVE  SameInto(R, T, K)
  <2>1. \A p \in R : p[2] \in K => p[1] \in K BY <1>18
  <2> QED BY <1>18, <2>1 DEF SameInto
<1>19. SameInto(PoEdges(h), PoEdges(k), K) BY <1>9, <1>16, <1>18
<1>20. SameInto(h.rf, k.rf, K) /\ SameInto(h.sw, k.sw, K) /\ SameInto(h.tcj, k.tcj, K)
  <2>1. \A p : p \in k.rf <=> p \in h.rf /\ p[1] \in K /\ p[2] \in K BY <1>4
  <2>2. \A p : p \in k.sw <=> p \in h.sw /\ p[1] \in K /\ p[2] \in K BY <1>4
  <2>3. \A p : p \in k.tcj <=> p \in h.tcj /\ p[1] \in K /\ p[2] \in K BY <1>4
  <2> QED BY <1>9, <1>18, <2>1, <2>2, <2>3
<1>21. Agrees(h, k, K) BY <1>5, <1>6, <1>13, <1>17, <1>19, <1>20 DEF Agrees
<1>22. k.rf \subseteq h.rf /\ k.sw \subseteq h.sw /\ k.tcj \subseteq h.tcj BY <1>4
<1>23. Edges(k) \subseteq Edges(h) BY <1>16, <1>22 DEF Edges
<1> QED BY <1>5, <1>11, <1>13, <1>15, <1>21, <1>22, <1>23

\* remove_po_rf_sw_successors removes all that depends on e, and nothing kept depends on what is removed.
LEMMA RemoveIs ==
  ASSUME NEW h, IsGraph(h), NEW e \in Events(h), NEW k, k = RemoveSuccessors(h, e),
         NEW K, K = {d \in Events(h) : <<e, d>> \notin Plus(Edges(h), Events(h))}
  PROVE  /\ k = Dropped(h, K) /\ \A p \in Edges(h) : p[2] \in K => p[1] \in K
         /\ \A b : <<e, b>> \in Edges(h) => b \notin K
<1>1. IsFiniteSet(Events(h)) /\ Edges(h) \subseteq Events(h) \X Events(h) BY EdgesIn DEF IsGraph, EventsTyped
<1>2. PICK gone : gone = Reach(Edges(h), Targets(Edges(h), e), Cardinality(Events(h))) OBVIOUS
<1>3. \A d : <<e, d>> \in Plus(Edges(h), Events(h)) <=> d \in gone BY <1>1, <1>2, PlusIn
<1>4. K = Events(h) \ gone BY <1>3
<1>5. k = Dropped(h, K) BY <1>2, <1>4 DEF RemoveSuccessors, Dropped
<1>6. \A b : <<e, b>> \in Edges(h) => b \notin K BY <1>1, PlusStep
<1>7. ASSUME NEW p \in Edges(h), p[2] \in K PROVE p[1] \in K
  <2>1. p = <<p[1], p[2]>> /\ p[1] \in Events(h) BY <1>1, <1>7
  <2>2. ASSUME <<e, p[1]>> \in Plus(Edges(h), Events(h)) PROVE FALSE
    <3>1. <<e, p[2]>> \in Plus(Edges(h), Events(h)) BY <1>1, <1>7, <2>1, <2>2, PlusStep
    <3> QED BY <1>7, <3>1
  <2> QED BY <2>1, <2>2
<1> QED BY <1>5, <1>6, <1>7

-----------------------------------------------------------------------------
(* What is asked of a graph, for a part of it that no edge enters.         *)

PoPlus(h) == Plus(PoEdges(h), Events(h))
IsRead(h, e) == Kind(h, e) \in ReadKinds
IsWrite(h, e) == Kind(h, e) \in WriteKinds
IsRmw(h, e) == Kind(h, e) \in RmwKinds
IsFence(h, e) == Kind(h, e) = "FENCE"

ReadsFrom(h, w, e) ==
  /\ IsWrite(h, w) /\ Loc(h, w) = Loc(h, e) /\ \A v : <<v, e>> \in h.rf <=> v = w
CompleteOn(h, K) ==
  /\ \A e \in K : IsRead(h, e) => \E w \in K : ReadsFrom(h, w, e)
  /\ \A v, e : e \in K /\ <<v, e>> \in h.rf => IsRead(h, e)
  /\ \A l \in Locations : \A e \in K : e \in ToSet(h.mo[l]) <=> IsWrite(h, e) /\ Loc(h, e) = l
ExclusiveOn(h, K) ==
  \A v, e : e \in K /\ <<v, e>> \in h.rf /\ IsRmw(h, e) =>
    /\ <<v, e>> \in MoBefore(h)
    /\ \A r \in K : <<v, r>> \in h.rf /\ IsRmw(h, r) => r = e

\* The write v and the read r that are the reason of the sw edge from s to e.
Justifies(h, v, r, s, e) ==
  /\ <<v, r>> \in h.rf /\ Mode(h, s) \in ReleaseModes
  /\ s = v \/ (IsFence(h, s) /\ <<s, v>> \in PoPlus(h))
  /\ e = r \/ (IsFence(h, e) /\ <<r, e>> \in PoPlus(h))
JustifiedOn(h, K) ==
  \A s, e : e \in K /\ <<s, e>> \in h.sw => \E v, r \in K : Justifies(h, v, r, s, e)
AcyclicOn(h, K) == \A e \in K : <<e, e>> \notin Plus(Edges(h), Events(h))
Precedes(h, q, e) == <<q, e>> \in PoEdges(h) \/ <<q, e>> \in h.tcj
ParentedOn(h, K) == \A e \in K : IsRead(h, e) => \E q : Precedes(h, q, e)
GoodOn(h, K) ==
  CompleteOn(h, K) /\ ExclusiveOn(h, K) /\ JustifiedOn(h, K) /\ AcyclicOn(h, K) /\ ParentedOn(h, K)

\* b comes after a in extended coherence order.
OverMo(h, b, u) == <<b, u>> \in MoBefore(h) \/ \E v : <<v, b>> \in h.rf /\ <<v, u>> \in MoBefore(h)
Eco(h, b, a) ==
  <<b, a>> \in h.rf \/ OverMo(h, b, a) \/ \E u : OverMo(h, b, u) /\ <<u, a>> \in h.rf
CoherentOn(h, K) == \A a, b : b \in K /\ <<a, b>> \in HappensBefore(h) => a # b /\ ~Eco(h, b, a)

\* What a composition relates.
LEMMA ComposeIs ==
  ASSUME NEW A, NEW B, NEW R, R \subseteq A \X B, NEW C, NEW S, S \subseteq B \X C
  PROVE  /\ Compose(R, S) \subseteq A \X C
         /\ \A a, c : <<a, c>> \in Compose(R, S) <=> \E b : <<a, b>> \in R /\ <<b, c>> \in S
<1>1. ASSUME NEW p \in Compose(R, S) PROVE \E b : p \in A \X C /\ <<p[1], b>> \in R /\ <<b, p[2]>> \in S
  <2>1. PICK q \in R \X S : q[1][2] = q[2][1] /\ p = <<q[1][1], q[2][2]>> BY <1>1 DEF Compose
  <2>2. q[1] \in R /\ q[2] \in S BY <2>1
  <2>3. q[1] = <<q[1][1], q[1][2]>> /\ q[2] = <<q[2][1], q[2][2]>> /\ q[1][1] \in A /\ q[2][2] \in C BY <2>2
  <2>4. p[1] = q[1][1] /\ p[2] = q[2][2] /\ p \in A \X C BY <2>1, <2>3
  <2>5. <<p[1], q[1][2]>> \in R /\ <<q[1][2], p[2]>> \in S BY <2>1, <2>2, <2>3, <2>4
  <2> QED BY <2>4, <2>5
<1>2. ASSUME NEW a, NEW b, NEW c, <<a, b>> \in R, <<b, c>> \in S PROVE <<a, c>> \in Compose(R, S)
  <2> DEFINE x == <<a, b>>
             y == <<b, c>>
             q == <<x, y>>
  <2>1. q \in R \X S BY <1>2
  <2>2. q[1][2] = q[2][1] /\ q[1][1] = a /\ q[2][2] = c OBVIOUS
  <2>3. <<q[1][1], q[2][2]>> \in Compose(R, S) BY <2>1, <2>2 DEF Compose
  <2> QED BY <2>2, <2>3
<1>3. ASSUME NEW a, NEW c, <<a, c>> \in Compose(R, S) PROVE \E b : <<a, b>> \in R /\ <<b, c>> \in S
  <2> DEFINE p == <<a, c>>
  <2>1. p[1] = a /\ p[2] = c /\ p \in Compose(R, S) BY <1>3
  <2>2. PICK b : <<p[1], b>> \in R /\ <<b, p[2]>> \in S BY <1>1, <2>1
  <2> QED BY <2>1, <2>2
<1>4. Compose(R, S) \subseteq A \X C BY <1>1
<1> QED BY <1>2, <1>3, <1>4

\* What a converse relates.
LEMMA ConversePair ==
  ASSUME NEW E, NEW R, R \subseteq E \X E
  PROVE  Converse(R) \subseteq E \X E /\ \A a, b : <<a, b>> \in Converse(R) <=> <<b, a>> \in R
<1>1. Converse(R) \subseteq E \X E BY DEF Converse
<1>2. ASSUME NEW a, NEW b, <<a, b>> \in Converse(R) PROVE <<b, a>> \in R
  <2>1. PICK p \in R : <<a, b>> = <<p[2], p[1]>> BY <1>2 DEF Converse
  <2>2. p = <<p[1], p[2]>> /\ a = p[2] /\ b = p[1] BY <2>1
  <2> QED BY <2>1, <2>2
<1>3. ASSUME NEW a, NEW b, <<b, a>> \in R PROVE <<a, b>> \in Converse(R)
  <2> DEFINE p == <<b, a>>
  <2>1. p \in R /\ p[1] = b /\ p[2] = a BY <1>3
  <2>2. <<p[2], p[1]>> \in Converse(R) BY <2>1 DEF Converse
  <2> QED BY <2>1, <2>2
<1> QED BY <1>1, <1>2, <1>3

\* IsCoherent, spelled out with the extended coherence order of pairs.
LEMMA CoherentIs ==
  ASSUME NEW h, Shaped(h), MoTyped(h)
  PROVE  IsCoherent(h) <=> CoherentOn(h, Events(h))
<1>1. PICK E : E = Events(h) OBVIOUS
<1>2. PICK M : M = MoBefore(h) OBVIOUS
<1>3. PICK R : R = h.rf OBVIOUS
<1>4. R \subseteq E \X E /\ M \subseteq E \X E BY <1>1, <1>2, <1>3, MoIs DEF Shaped, EdgesTyped
<1>5. Converse(R) \subseteq E \X E /\ \A a, b : <<a, b>> \in Converse(R) <=> <<b, a>> \in R BY <1>4, ConversePair
<1>6. /\ Compose(Converse(R), M) \subseteq E \X E
      /\ \A a, c : <<a, c>> \in Compose(Converse(R), M) <=> \E b : <<a, b>> \in Converse(R) /\ <<b, c>> \in M
  BY <1>4, <1>5, ComposeIs
<1>7. PICK O : O = M \cup Compose(Converse(R), M) OBVIOUS
<1>8. O \subseteq E \X E BY <1>4, <1>6, <1>7
<1>9. \A b, u : <<b, u>> \in O <=> OverMo(h, b, u)
  <2>1. \A b, u : <<b, u>> \in O <=> <<b, u>> \in M \/ \E v : <<v, b>> \in R /\ <<v, u>> \in M
    BY <1>5, <1>6, <1>7
  <2> QED BY <1>2, <1>3, <2>1 DEF OverMo
<1>10. \A b, a : <<b, a>> \in Compose(O, R) <=> \E u : <<b, u>> \in O /\ <<u, a>> \in R
  BY <1>4, <1>8, ComposeIs
<1>11. PICK eco : eco = R \cup O \cup Compose(O, R) OBVIOUS
<1>12. \A a, b : <<b, a>> \in eco <=> Eco(h, b, a) BY <1>3, <1>9, <1>10, <1>11 DEF Eco
<1>13. IsCoherent(h) <=> \A p \in HappensBefore(h) : p[1] # p[2] /\ <<p[2], p[1]>> \notin eco
  BY <1>2, <1>3, <1>7, <1>11 DEF IsCoherent, FromReads
<1>14. HappensBefore(h) \subseteq E \X E
  <2>1. HappensBefore(h) = Plus(HbEdges(h), Events(h)) /\ HbEdges(h) \subseteq Events(h) \X Events(h)
    BY HbIn DEF Shaped
  <2> QED BY <1>1, <2>1, PlusIn DEF Shaped, EventsTyped
<1>15. ASSUME IsCoherent(h), NEW a, NEW b, <<a, b>> \in HappensBefore(h) PROVE a # b /\ ~Eco(h, b, a)
  <2> DEFINE p == <<a, b>>
  <2>1. p \in HappensBefore(h) /\ p[1] = a /\ p[2] = b BY <1>15
  <2> QED BY <1>12, <1>13, <1>15, <2>1
<1>16. ASSUME CoherentOn(h, Events(h)), NEW p \in HappensBefore(h) PROVE p[1] # p[2] /\ <<p[2], p[1]>> \notin eco
  <2>1. p = <<p[1], p[2]>> /\ p[2] \in Events(h) BY <1>1, <1>14
  <2> QED BY <1>12, <1>16, <2>1 DEF CoherentOn
<1> QED BY <1>13, <1>15, <1>16 DEF CoherentOn

\* The pairs into K are the same, and come from K.
SamePairs(h, k, K) ==
  \A a, b : b \in K =>
    /\ (<<a, b>> \in h.rf <=> <<a, b>> \in k.rf) /\ (<<a, b>> \in h.sw <=> <<a, b>> \in k.sw)
    /\ (<<a, b>> \in h.tcj <=> <<a, b>> \in k.tcj) /\ (<<a, b>> \in PoEdges(h) <=> <<a, b>> \in PoEdges(k))
    /\ (<<a, b>> \in PoPlus(h) <=> <<a, b>> \in PoPlus(k))
    /\ (<<a, b>> \in h.rf \/ <<a, b>> \in h.sw \/ <<a, b>> \in h.tcj \/ <<a, b>> \in PoEdges(h)
          \/ <<a, b>> \in PoPlus(h)) => a \in K

\* Graphs that agree on K have the same rf, mo and happens-before pairs into K.
LEMMA SamePairsIs ==
  ASSUME NEW h, NEW k, NEW K, Shaped(h), Shaped(k), Agrees(h, k, K)
  PROVE  SamePairs(h, k, K)
<1>1. ASSUME NEW R, NEW T, SameInto(R, T, K), NEW a, NEW b, b \in K
      PROVE  (<<a, b>> \in R <=> <<a, b>> \in T) /\ (<<a, b>> \in R => a \in K)
  <2> DEFINE p == <<a, b>>
  <2>1. p[1] = a /\ p[2] = b OBVIOUS
  <2>2. (p \in R <=> p \in T) /\ (p \in R => p[1] \in K)
    <3> HIDE DEF p
    <3> QED BY <1>1, <2>1 DEF SameInto
  <2> QED BY <2>1, <2>2
<1>2. SameInto(h.rf, k.rf, K) /\ SameInto(h.sw, k.sw, K) /\ SameInto(h.tcj, k.tcj, K)
      /\ SameInto(PoEdges(h), PoEdges(k), K)
  BY DEF Agrees
<1>3. \A a, b : b \in K => (<<a, b>> \in h.rf <=> <<a, b>> \in k.rf) /\ (<<a, b>> \in h.rf => a \in K)
  BY <1>1, <1>2
<1>4. \A a, b : b \in K => (<<a, b>> \in h.sw <=> <<a, b>> \in k.sw) /\ (<<a, b>> \in h.sw => a \in K)
  BY <1>1, <1>2
<1>5. \A a, b : b \in K => (<<a, b>> \in h.tcj <=> <<a, b>> \in k.tcj) /\ (<<a, b>> \in h.tcj => a \in K)
  BY <1>1, <1>2
<1>6. \A a, b : b \in K => (<<a, b>> \in PoEdges(h) <=> <<a, b>> \in PoEdges(k)) /\ (<<a, b>> \in PoEdges(h) => a \in K)
  BY <1>1, <1>2
<1>7. /\ \A a, b : b \in K => (<<a, b>> \in PoPlus(h) <=> <<a, b>> \in PoPlus(k))
      /\ \A a, b : b \in K /\ <<a, b>> \in PoPlus(h) => a \in K
  BY AgreesHb DEF PoPlus
<1> QED BY <1>3, <1>4, <1>5, <1>6, <1>7 DEF SamePairs

\* Graphs that agree on K have the same kinds of event there.
LEMMA SameKinds ==
  ASSUME NEW h, NEW k, NEW K, Agrees(h, k, K)
  PROVE  \A e \in K : /\ Kind(h, e) = Kind(k, e) /\ Loc(h, e) = Loc(k, e) /\ Mode(h, e) = Mode(k, e)
                      /\ (IsRead(h, e) <=> IsRead(k, e)) /\ (IsWrite(h, e) <=> IsWrite(k, e))
                      /\ (IsRmw(h, e) <=> IsRmw(k, e)) /\ (IsFence(h, e) <=> IsFence(k, e))
BY DEF Agrees, Kind, Loc, Mode, IsRead, IsWrite, IsRmw, IsFence

\* All of it is passed on to a graph that agrees.
LEMMA GoodAgrees ==
  ASSUME NEW h, NEW k, NEW K, Shaped(h), Shaped(k), Agrees(h, k, K), GoodOn(h, K)
  PROVE  GoodOn(k, K)
<1>1. SamePairs(h, k, K) BY SamePairsIs
<1>2. \A e \in K : /\ Kind(h, e) = Kind(k, e) /\ Loc(h, e) = Loc(k, e) /\ Mode(h, e) = Mode(k, e)
                   /\ (IsRead(h, e) <=> IsRead(k, e)) /\ (IsWrite(h, e) <=> IsWrite(k, e))
                   /\ (IsRmw(h, e) <=> IsRmw(k, e)) /\ (IsFence(h, e) <=> IsFence(k, e))
  BY SameKinds
<1>3. /\ \A a, b \in K : <<a, b>> \in MoBefore(h) <=> <<a, b>> \in MoBefore(k)
      /\ \A l \in Locations : \A a \in K : a \in ToSet(h.mo[l]) <=> a \in ToSet(k.mo[l])
  BY DEF Agrees
<1>4. \A w \in K : \A e \in K : ReadsFrom(h, w, e) <=> ReadsFrom(k, w, e)
  <2>1. ASSUME NEW w \in K, NEW e \in K PROVE ReadsFrom(h, w, e) <=> ReadsFrom(k, w, e)
    <3>1. \A v : <<v, e>> \in h.rf <=> <<v, e>> \in k.rf BY <1>1, <2>1 DEF SamePairs
    <3>2. (IsWrite(h, w) <=> IsWrite(k, w)) /\ Loc(h, w) = Loc(k, w) /\ Loc(h, e) = Loc(k, e) BY <1>2, <2>1
    <3> QED BY <3>1, <3>2 DEF ReadsFrom
  <2> QED BY <2>1
<1>5. CompleteOn(k, K)
  <2>1. \A e \in K : IsRead(k, e) => \E w \in K : ReadsFrom(k, w, e) BY <1>2, <1>4 DEF GoodOn, CompleteOn
  <2>2. \A v, e : e \in K /\ <<v, e>> \in k.rf => IsRead(k, e) BY <1>1, <1>2 DEF GoodOn, CompleteOn, SamePairs
  <2>3. \A l \in Locations : \A e \in K : e \in ToSet(k.mo[l]) <=> IsWrite(k, e) /\ Loc(k, e) = l
    BY <1>2, <1>3 DEF GoodOn, CompleteOn
  <2> QED BY <2>1, <2>2, <2>3 DEF CompleteOn
<1>6. ExclusiveOn(k, K)
  <2>1. ASSUME NEW v, NEW e \in K, <<v, e>> \in k.rf, IsRmw(k, e)
        PROVE  <<v, e>> \in MoBefore(k) /\ \A r \in K : <<v, r>> \in k.rf /\ IsRmw(k, r) => r = e
    <3>1. <<v, e>> \in h.rf /\ v \in K /\ IsRmw(h, e) BY <1>1, <1>2, <2>1 DEF SamePairs
    <3>2. <<v, e>> \in MoBefore(h) /\ \A r \in K : <<v, r>> \in h.rf /\ IsRmw(h, r) => r = e
      BY <3>1 DEF GoodOn, ExclusiveOn
    <3>3. \A r \in K : <<v, r>> \in k.rf /\ IsRmw(k, r) => <<v, r>> \in h.rf /\ IsRmw(h, r)
      BY <1>1, <1>2 DEF SamePairs
    <3> QED BY <1>3, <3>1, <3>2, <3>3
  <2> QED BY <2>1 DEF ExclusiveOn
<1>7. JustifiedOn(k, K)
  <2>1. ASSUME NEW s, NEW e \in K, <<s, e>> \in k.sw PROVE \E v, r \in K : Justifies(k, v, r, s, e)
    <3>1. <<s, e>> \in h.sw /\ s \in K BY <1>1, <2>1 DEF SamePairs
    <3>2. PICK v \in K, r \in K : Justifies(h, v, r, s, e) BY <3>1 DEF GoodOn, JustifiedOn
    <3>3. Justifies(k, v, r, s, e)
      <4>1. <<v, r>> \in k.rf /\ Mode(k, s) \in ReleaseModes BY <1>1, <1>2, <3>1, <3>2 DEF Justifies, SamePairs
      <4>2. s = v \/ (IsFence(k, s) /\ <<s, v>> \in PoPlus(k)) BY <1>1, <1>2, <3>1, <3>2 DEF Justifies, SamePairs
      <4>3. e = r \/ (IsFence(k, e) /\ <<r, e>> \in PoPlus(k)) BY <1>1, <1>2, <3>1, <3>2 DEF Justifies, SamePairs
      <4> QED BY <4>1, <4>2, <4>3 DEF Justifies
    <3> QED BY <3>3
  <2> QED BY <2>1 DEF JustifiedOn
<1>8. AcyclicOn(k, K) BY AgreesHb DEF GoodOn, AcyclicOn
<1>9. ParentedOn(k, K)
  <2>1. \A q, e : e \in K => (Precedes(h, q, e) <=> Precedes(k, q, e)) BY <1>1 DEF Precedes, SamePairs
  <2> QED BY <1>2, <2>1 DEF GoodOn, ParentedOn
<1> QED BY <1>5, <1>6, <1>7, <1>8, <1>9 DEF GoodOn

\* Coherence of a part is a matter of that part alone.
LEMMA CoherentAgrees ==
  ASSUME NEW h, NEW k, NEW K, Shaped(h), Shaped(k), MoTyped(h), MoTyped(k), Agrees(h, k, K),
         CompleteOn(h, K), CoherentOn(h, K)
  PROVE  CoherentOn(k, K)
<1>1. \A a, b : b \in K => (<<a, b>> \in h.rf <=> <<a, b>> \in k.rf) /\ (<<a, b>> \in h.rf => a \in K)
  BY SamePairsIs DEF SamePairs
<1>2. \A a, b \in K : <<a, b>> \in MoBefore(h) <=> <<a, b>> \in MoBefore(k) BY DEF Agrees
<1>3. /\ \A a, b : b \in K => (<<a, b>> \in HappensBefore(h) <=> <<a, b>> \in HappensBefore(k))
      /\ \A a, b : b \in K /\ <<a, b>> \in HappensBefore(h) => a \in K
  BY AgreesHb
<1>4. ASSUME NEW b \in K, NEW u \in K PROVE OverMo(h, b, u) <=> OverMo(k, b, u)
  BY <1>1, <1>2, <1>4 DEF OverMo
<1>5. ASSUME NEW b \in K, NEW a \in K PROVE Eco(h, b, a) <=> Eco(k, b, a)
  <2>1. \A u : <<u, a>> \in h.rf => u \in K BY <1>1, <1>5
  <2> QED BY <1>1, <1>4, <1>5, <2>1 DEF Eco
<1> QED BY <1>3, <1>5 DEF CoherentOn

\* Every edge into the part K and the event x beside it comes from K.
Extends(k, K, x) ==
  /\ K \subseteq Events(k) /\ x \in Events(k) /\ x \notin K
  /\ \A a, b : b \in K \cup {x} /\ <<a, b>> \in Edges(k) => a \in K

\* When nothing in K follows x, all paths to K and to x come from K.
LEMMA ExtendsIs ==
  ASSUME NEW k, Shaped(k), NEW K, NEW x, Extends(k, K, x)
  PROVE  /\ \A a, b : b \in K /\ <<a, b>> \in Plus(Edges(k), Events(k)) => a \in K
         /\ \A a : <<a, x>> \in Plus(Edges(k), Events(k)) => a \in K
         /\ \A a, b : b \in K \cup {x} /\ <<a, b>> \in HappensBefore(k) => a \in K
         /\ \A a, b : b \in K \cup {x} /\ <<a, b>> \in k.rf => a \in K
         /\ \A a, b : b \in K \cup {x} /\ <<a, b>> \in HbEdges(k) => a \in K
         /\ \A a, b : <<a, b>> \in PoPlus(k) => <<a, b>> \in HappensBefore(k)
<1>1. PICK E : E = Events(k) OBVIOUS
<1>2. PICK R : R = Edges(k) OBVIOUS
<1>3. IsFiniteSet(E) /\ R \subseteq E \X E BY <1>1, <1>2, EdgesIn DEF Shaped, EventsTyped
<1>4. \A p \in R : p = <<p[1], p[2]>> BY <1>3
<1>5. SameInto(R, R, K)
  <2>1. \A p \in R : p[2] \in K => p[1] \in K BY <1>2, <1>4 DEF Extends
  <2> QED BY <2>1 DEF SameInto
<1>6. \A a, b : b \in K /\ <<a, b>> \in Plus(R, E) => a \in K /\ <<a, b>> \in Plus(R, E)
  BY <1>3, <1>5, PlusInto
<1>7. ASSUME NEW a, <<a, x>> \in Plus(R, E) PROVE a \in K
  <2>1. <<a, x>> \in R \/ \E c \in E : <<a, c>> \in Plus(R, E) /\ <<c, x>> \in R BY <1>3, <1>7, PlusLast
  <2>2. \A c : <<c, x>> \in R => c \in K BY <1>2 DEF Extends
  <2> QED BY <1>6, <2>1, <2>2
<1>8. HbEdges(k) \subseteq R /\ k.rf \subseteq R /\ PoEdges(k) \subseteq HbEdges(k) BY <1>2 DEF HbEdges, Edges
<1>9. HappensBefore(k) = Plus(HbEdges(k), E) /\ HbEdges(k) \subseteq E \X E BY <1>1, HbIn DEF Shaped
<1>10. HappensBefore(k) \subseteq Plus(R, E)
  <2>1. Plus(HbEdges(k), E) \subseteq Plus(R, E) BY <1>3, <1>8, <1>9, PlusMonotone
  <2> QED BY <1>9, <2>1
<1>11. PoPlus(k) \subseteq HappensBefore(k)
  <2>1. PoEdges(k) \subseteq E \X E BY <1>8, <1>9
  <2>2. Plus(PoEdges(k), E) \subseteq Plus(HbEdges(k), E) BY <1>3, <1>8, <1>9, <2>1, PlusMonotone
  <2> QED BY <1>1, <1>9, <2>2 DEF PoPlus
<1>12. \A a, b : b \in K \cup {x} /\ <<a, b>> \in HappensBefore(k) => a \in K BY <1>6, <1>7, <1>10
<1>13. \A a, b : b \in K \cup {x} /\ <<a, b>> \in R => a \in K BY <1>2 DEF Extends
<1> QED BY <1>1, <1>2, <1>6, <1>7, <1>8, <1>11, <1>12, <1>13

\* What is asked of the event beside the part.
Reason(k, K, x, s) == \E v \in K : \E r \in K \cup {x} : Justifies(k, v, r, s, x)
Fits(k, K, x) ==
  /\ IsRead(k, x) => (\E w \in K : ReadsFrom(k, w, x)) /\ \E q : Precedes(k, q, x)
  /\ \A v : <<v, x>> \in k.rf =>
       /\ IsRead(k, x)
       /\ IsRmw(k, x) => <<v, x>> \in MoBefore(k) /\ \A r \in K : <<v, r>> \in k.rf => ~IsRmw(k, r)
  /\ \A l \in Locations : x \in ToSet(k.mo[l]) <=> IsWrite(k, x) /\ Loc(k, x) = l
  /\ \A s : <<s, x>> \in k.sw => Reason(k, K, x, s)

\* A good part with one more event that fits is good.
LEMMA GoodExtends ==
  ASSUME NEW k, Shaped(k), NEW K, NEW x, Extends(k, K, x), GoodOn(k, K), Fits(k, K, x)
  PROVE  GoodOn(k, K \cup {x})
<1>1. /\ \A a : <<a, x>> \in Plus(Edges(k), Events(k)) => a \in K
      /\ \A a, b : b \in K \cup {x} /\ <<a, b>> \in k.rf => a \in K
  BY ExtendsIs
<1>2. CompleteOn(k, K \cup {x})
  <2>1. \A e \in K \cup {x} : IsRead(k, e) => \E w \in K \cup {x} : ReadsFrom(k, w, e)
    BY DEF GoodOn, CompleteOn, Fits
  <2>2. \A v, e : e \in K \cup {x} /\ <<v, e>> \in k.rf => IsRead(k, e) BY DEF GoodOn, CompleteOn, Fits
  <2>3. \A l \in Locations : \A e \in K \cup {x} : e \in ToSet(k.mo[l]) <=> IsWrite(k, e) /\ Loc(k, e) = l
    BY DEF GoodOn, CompleteOn, Fits
  <2> QED BY <2>1, <2>2, <2>3 DEF CompleteOn
<1>3. ExclusiveOn(k, K \cup {x})
  <2>1. ASSUME NEW v, NEW e \in K \cup {x}, <<v, e>> \in k.rf, IsRmw(k, e)
        PROVE  <<v, e>> \in MoBefore(k) /\ \A r \in K \cup {x} : <<v, r>> \in k.rf /\ IsRmw(k, r) => r = e
    BY <2>1 DEF GoodOn, ExclusiveOn, Fits
  <2> QED BY <2>1 DEF ExclusiveOn
<1>4. JustifiedOn(k, K \cup {x})
  <2>1. ASSUME NEW s, NEW e \in K \cup {x}, <<s, e>> \in k.sw
        PROVE  \E v, r \in K \cup {x} : Justifies(k, v, r, s, e)
    BY <2>1 DEF GoodOn, JustifiedOn, Fits, Reason
  <2> QED BY <2>1 DEF JustifiedOn
<1>5. AcyclicOn(k, K \cup {x}) BY <1>1 DEF GoodOn, AcyclicOn, Extends
<1>6. ParentedOn(k, K \cup {x}) BY DEF GoodOn, ParentedOn, Fits
<1> QED BY <1>2, <1>3, <1>4, <1>5, <1>6 DEF GoodOn

\* A read of w by an event after a would be one of something that is overwritten.
Stale(k, w, a) == <<w, a>> \in MoBefore(k) \/ \E u : <<u, a>> \in k.rf /\ <<w, u>> \in MoBefore(k)
Fresh(k, q, w) == ~Stale(k, w, q) /\ \A a : <<a, q>> \in HappensBefore(k) => ~Stale(k, w, a)
\* The event beside the part overwrites no more than what it reads does.
Above(k, K, x) == \A b \in K : <<x, b>> \in MoBefore(k) =>
                    \E w : <<w, x>> \in k.rf /\ <<w, b>> \in MoBefore(k)
NothingStale(k, x) == \A w, q : <<w, x>> \in k.rf /\ Precedes(k, q, x) => Fresh(k, q, w)

\* It stays coherent when x reads nothing stale and nothing it is before in mo is behind it.
LEMMA CoherentExtends ==
  ASSUME NEW k, Shaped(k), MoTyped(k), NEW K, NEW x, Extends(k, K, x), GoodOn(k, K), Fits(k, K, x),
         CoherentOn(k, K), Above(k, K, x), NothingStale(k, x)
  PROVE  CoherentOn(k, K \cup {x})
<1>1. /\ \A a, b : b \in K \cup {x} /\ <<a, b>> \in HappensBefore(k) => a \in K
      /\ \A a, b : b \in K \cup {x} /\ <<a, b>> \in k.rf => a \in K
      /\ \A a, b : b \in K \cup {x} /\ <<a, b>> \in HbEdges(k) => a \in K
      /\ \A a, b : <<a, b>> \in PoPlus(k) => <<a, b>> \in HappensBefore(k)
  BY ExtendsIs
<1>2. \A b \in K : OverMo(k, x, b) => \E w : <<w, x>> \in k.rf /\ <<w, b>> \in MoBefore(k)
  BY DEF OverMo, Above
<1>3. x \notin K BY DEF Extends
<1>4. PICK R : R = HbEdges(k) OBVIOUS
<1>5. PICK E : E = Events(k) OBVIOUS
<1>6. IsFiniteSet(E) /\ R \subseteq E \X E /\ HappensBefore(k) = Plus(R, E)
  BY <1>4, <1>5, HbIn DEF Shaped, EventsTyped
<1>7. \A a, b, c : <<a, b>> \in HappensBefore(k) /\ <<b, c>> \in HappensBefore(k) => <<a, c>> \in HappensBefore(k)
  BY <1>6, PlusTransitive
<1>8. ASSUME NEW w, <<w, x>> \in k.rf, NEW a, a = w \/ <<a, w>> \in HappensBefore(k) PROVE ~Stale(k, w, a)
  <2>1. w \in K BY <1>1, <1>8
  <2>2. CASE a = w
    <3>1. <<w, w>> \notin MoBefore(k) BY MoStrict
    <3>2. ASSUME NEW u, <<u, w>> \in k.rf, <<w, u>> \in MoBefore(k) PROVE FALSE
      <4>1. IsRead(k, w) BY <2>1, <3>2 DEF GoodOn, CompleteOn
      <4>2. IsWrite(k, w)
        <5>1. IsRead(k, x) BY <1>8 DEF Fits
        <5>2. PICK v \in K : ReadsFrom(k, v, x) BY <5>1 DEF Fits
        <5> QED BY <1>8, <5>2 DEF ReadsFrom
      <4>3. IsRmw(k, w) BY <4>1, <4>2 DEF IsRead, IsWrite, IsRmw, ReadKinds, WriteKinds, RmwKinds
      <4>4. <<u, w>> \in MoBefore(k) BY <2>1, <3>2, <4>3 DEF GoodOn, ExclusiveOn
      <4> QED BY <3>2, <4>4, MoStrict
    <3> QED BY <2>2, <3>1, <3>2 DEF Stale
  <2>3. CASE <<a, w>> \in HappensBefore(k)
    <3>1. ~Eco(k, w, a) BY <2>1, <2>3 DEF CoherentOn
    <3> QED BY <3>1 DEF Eco, OverMo, Stale
  <2> QED BY <1>8, <2>2, <2>3
<1>9. ASSUME NEW w, <<w, x>> \in k.rf, NEW c, <<c, x>> \in k.sw PROVE c = w \/ <<c, w>> \in HappensBefore(k)
  <2>1. PICK v \in K, r \in K \cup {x} : Justifies(k, v, r, c, x) BY <1>9 DEF Fits, Reason
  <2>2. IsRead(k, x) BY <1>9 DEF Fits
  <2>3. ~IsFence(k, x) BY <2>2 DEF IsRead, IsFence, ReadKinds
  <2>4. <<v, x>> \in k.rf BY <2>1, <2>3 DEF Justifies
  <2>5. v = w
    <3>1. PICK u \in K : ReadsFrom(k, u, x) BY <2>2 DEF Fits
    <3> QED BY <1>9, <2>4, <3>1 DEF ReadsFrom
  <2> QED BY <1>1, <2>1, <2>5 DEF Justifies
<1>10. ASSUME NEW w, <<w, x>> \in k.rf, NEW a, <<a, x>> \in HappensBefore(k) PROVE ~Stale(k, w, a)
  <2>1. <<a, x>> \in R \/ \E c \in E : <<a, c>> \in Plus(R, E) /\ <<c, x>> \in R
    BY <1>6, <1>10, PlusLast
  <2>2. PICK c : (a = c \/ <<a, c>> \in HappensBefore(k)) /\ <<c, x>> \in R BY <1>6, <2>1
  <2>3. Precedes(k, c, x) \/ <<c, x>> \in k.sw BY <1>4, <2>2 DEF HbEdges, Precedes
  <2>4. CASE Precedes(k, c, x)
    <3>1. Fresh(k, c, w) BY <1>10, <2>4 DEF NothingStale
    <3> QED BY <2>2, <3>1 DEF Fresh
  <2>5. CASE <<c, x>> \in k.sw
    <3>1. c = w \/ <<c, w>> \in HappensBefore(k) BY <1>9, <1>10, <2>5
    <3>2. a = w \/ <<a, w>> \in HappensBefore(k) BY <1>7, <2>2, <3>1
    <3> QED BY <1>8, <1>10, <3>2
  <2> QED BY <2>3, <2>4, <2>5
<1>11. ASSUME NEW a, <<a, x>> \in HappensBefore(k) PROVE a # x /\ ~Eco(k, x, a)
  <2>1. a \in K BY <1>1, <1>11
  <2>2. <<x, a>> \notin k.rf BY <1>1, <1>3, <2>1
  <2>3. ~OverMo(k, x, a) BY <1>2, <1>10, <1>11, <2>1 DEF Stale
  <2>4. ASSUME NEW u, OverMo(k, x, u), <<u, a>> \in k.rf PROVE FALSE
    <3>1. u \in K BY <1>1, <2>1, <2>4
    <3>2. PICK w : <<w, x>> \in k.rf /\ <<w, u>> \in MoBefore(k) BY <1>2, <2>4, <3>1
    <3> QED BY <1>10, <1>11, <2>4, <3>2 DEF Stale
  <2> QED BY <1>3, <2>1, <2>2, <2>3, <2>4 DEF Eco
<1>12. ASSUME NEW a, NEW b \in K \cup {x}, <<a, b>> \in HappensBefore(k) PROVE a # b /\ ~Eco(k, b, a)
  <2>1. CASE b \in K BY <1>12, <2>1 DEF CoherentOn
  <2>2. CASE b = x BY <1>11, <1>12, <2>2
  <2> QED BY <2>1, <2>2
<1> QED BY <1>12 DEF CoherentOn

\* What the search allows is not stale after the event that it started from.
LEMMA SearchFresh ==
  ASSUME NEW h, NEW k, NEW K, Shaped(h), Shaped(k), MoTyped(h), MoTyped(k), Agrees(h, k, K), CompleteOn(h, K),
         NEW q \in K, NEW w \in K, NEW loc \in Locations, NEW rmw \in BOOLEAN,
         w \in FindConsistentWrites(h, q, loc, rmw)
  PROVE  Fresh(k, q, w)
<1>1. PICK V : V = Visited(h, q, loc) OBVIOUS
<1>2. /\ w \in ToSet(h.mo[loc])
      /\ \A v \in V : IsWrite(h, v) => <<w, v>> \notin MoBefore(h)
  BY <1>1, SearchIs DEF Shaped, IsWrite
<1>3. q \in V /\ \A p \in SearchEdges(h, loc) : p[2] \in V => p[1] \in V
  BY <1>1, VisitedIs DEF Shaped, Agrees
<1>4. \A a, b : b \in V /\ <<a, b>> \in SearchEdges(h, loc) => a \in V
  <2>1. ASSUME NEW a, NEW b, b \in V, <<a, b>> \in SearchEdges(h, loc) PROVE a \in V
    <3> DEFINE p == <<a, b>>
    <3>1. p \in SearchEdges(h, loc) /\ p[1] = a /\ p[2] = b BY <2>1
    <3> QED BY <1>3, <2>1, <3>1
  <2> QED BY <2>1
<1>5. V \subseteq K BY <1>1, AgreesVisited
<1>6. \A a : <<a, q>> \in HappensBefore(h) => a \in V
  <2>1. PICK R : R = HbEdges(h) OBVIOUS
  <2>2. PICK E : E = Events(h) OBVIOUS
  <2>3. IsFiniteSet(E) /\ R \subseteq E \X E /\ HappensBefore(h) = Plus(R, E)
    BY <2>1, <2>2, HbIn DEF Shaped, EventsTyped
  <2>4. SameInto(R, R, V)
    <3>1. R \subseteq SearchEdges(h, loc) BY <2>1 DEF SearchEdges
    <3> QED BY <1>3, <3>1 DEF SameInto
  <2> QED BY <1>3, <2>3, <2>4, PlusInto
<1>7. \A l \in Locations : \A e \in ToSet(h.mo[l]) : Loc(h, e) = l BY DEF MoTyped
<1>8. ASSUME NEW b, <<w, b>> \in MoBefore(h) PROVE b \in ToSet(h.mo[loc]) /\ Loc(h, b) = loc
  <2>1. <<w, b>> \in Order(h.mo[loc]) BY <1>2, <1>8, MoStrict
  <2>2. b \in ToSet(h.mo[loc]) BY <2>1, MoIs
  <2> QED BY <1>7, <2>2
<1>9. \A b \in K : b \in ToSet(h.mo[loc]) => IsWrite(h, b) BY DEF CompleteOn
<1>10. ASSUME NEW a \in V PROVE ~Stale(k, w, a)
  <2>1. a \in K BY <1>5
  <2>2. ASSUME <<w, a>> \in MoBefore(k) PROVE FALSE
    <3>1. <<w, a>> \in MoBefore(h) BY <2>1, <2>2 DEF Agrees
    <3> QED BY <1>2, <1>8, <1>9, <2>1, <3>1
  <2>3. ASSUME NEW u, <<u, a>> \in k.rf, <<w, u>> \in MoBefore(k) PROVE FALSE
    <3>1. <<u, a>> \in h.rf /\ u \in K BY <2>1, <2>3, SamePairsIs DEF SamePairs
    <3>2. <<w, u>> \in MoBefore(h) BY <2>3, <3>1 DEF Agrees
    <3>3. IsWrite(h, u) /\ Loc(h, u) = loc BY <1>8, <1>9, <3>1, <3>2
    <3>4. IsRead(h, a) BY <2>1, <3>1 DEF CompleteOn
    <3>5. Loc(h, a) = loc
      <4>1. PICK v \in K : ReadsFrom(h, v, a) BY <2>1, <3>4 DEF CompleteOn
      <4>2. v = u /\ Loc(h, v) = Loc(h, a) BY <3>1, <4>1 DEF ReadsFrom
      <4> QED BY <3>3, <4>2
    <3>6. <<u, a>> \in SearchEdges(h, loc)
      <4> DEFINE p == <<u, a>>
      <4>1. p \in h.rf /\ p[2] = a BY <3>1
      <4>2. p \in SearchEdges(h, loc) BY <3>4, <3>5, <4>1 DEF SearchEdges, IsRead
      <4> QED BY <4>2
    <3> QED BY <1>2, <1>4, <3>2, <3>3, <3>6
  <2> QED BY <2>2, <2>3 DEF Stale
<1>11. \A a : <<a, q>> \in HappensBefore(k) => <<a, q>> \in HappensBefore(h) BY AgreesHb
<1> QED BY <1>3, <1>6, <1>10, <1>11 DEF Fresh

-----------------------------------------------------------------------------
(* The edits: what they change, and that what is left is a graph.          *)

\* Graphs with the same records and pairs for K, that no edge of either enters, agree on it.
LEMMA EditAgrees ==
  ASSUME NEW h, NEW k, NEW K, IsGraph(h), IsGraph(k), K \subseteq Events(h), K \subseteq Events(k),
         \A e \in K : h.ev[e] = k.ev[e],
         \A a, b : b \in K /\ (<<a, b>> \in Edges(h) \/ <<a, b>> \in Edges(k)) => a \in K,
         \A a, b \in K : (<<a, b>> \in h.rf <=> <<a, b>> \in k.rf) /\ (<<a, b>> \in h.sw <=> <<a, b>> \in k.sw)
                         /\ (<<a, b>> \in h.tcj <=> <<a, b>> \in k.tcj),
         \A a, b \in K : <<a, b>> \in MoBefore(h) <=> <<a, b>> \in MoBefore(k),
         \A l \in Locations : \A a \in K : a \in ToSet(h.mo[l]) <=> a \in ToSet(k.mo[l])
  PROVE  Agrees(h, k, K)
<1>1. \A j : PoTyped(j) =>
        /\ PoEdges(j) \subseteq Events(j) \X Events(j)
        /\ \A a, b : <<a, b>> \in PoEdges(j) <=> a \in Events(j) /\ b \in Events(j) /\ a[1] = b[1] /\ b[2] = a[2] + 1
  BY PoIs
<1>2. \A a, b : <<a, b>> \in PoEdges(h) <=> a \in Events(h) /\ b \in Events(h) /\ a[1] = b[1] /\ b[2] = a[2] + 1
  BY ONLY <1>1, IsGraph(h) DEF IsGraph
<1>3. \A a, b : <<a, b>> \in PoEdges(k) <=> a \in Events(k) /\ b \in Events(k) /\ a[1] = b[1] /\ b[2] = a[2] + 1
  BY ONLY <1>1, IsGraph(k) DEF IsGraph
<1>4. \A a, b \in K : <<a, b>> \in PoEdges(h) <=> <<a, b>> \in PoEdges(k) BY <1>2, <1>3
<1>5. \A j : IsGraph(j) => /\ \A p \in Edges(j) : p = <<p[1], p[2]>>
                           /\ PoEdges(j) \subseteq Edges(j) /\ j.rf \subseteq Edges(j) /\ j.sw \subseteq Edges(j)
                           /\ j.tcj \subseteq Edges(j)
  <2>1. ASSUME NEW j, IsGraph(j) PROVE \A p \in Edges(j) : p = <<p[1], p[2]>>
    <3>1. Edges(j) \subseteq Events(j) \X Events(j) BY <2>1, EdgesIn DEF IsGraph
    <3> QED BY <3>1
  <2> QED BY <2>1 DEF Edges
<1>6. ASSUME NEW R, NEW T, R \subseteq Edges(h), T \subseteq Edges(k),
             \A a, b \in K : <<a, b>> \in R <=> <<a, b>> \in T
      PROVE  SameInto(R, T, K)
  <2>1. ASSUME NEW p, p[2] \in K, p \in R \/ p \in T PROVE p[1] \in K /\ p \in R /\ p \in T
    <3>1. p = <<p[1], p[2]>> BY <1>5, <1>6, <2>1
    <3>2. <<p[1], p[2]>> \in Edges(h) \/ <<p[1], p[2]>> \in Edges(k) BY <1>6, <2>1, <3>1
    <3>3. p[1] \in K BY <2>1, <3>2
    <3> QED BY <1>6, <2>1, <3>1, <3>3
  <2> QED BY <2>1 DEF SameInto
<1>7. SameInto(PoEdges(h), PoEdges(k), K) BY <1>4, <1>5, <1>6
<1>8. SameInto(h.rf, k.rf, K) /\ SameInto(h.sw, k.sw, K) /\ SameInto(h.tcj, k.tcj, K) BY <1>5, <1>6
<1> QED BY <1>7, <1>8 DEF Agrees

\* Program order reaches every later event of the thread.
LEMMA PoPlusIs ==
  ASSUME NEW h, Shaped(h)
  PROVE  \A a, b \in Events(h) : a[1] = b[1] /\ a[2] < b[2] => <<a, b>> \in PoPlus(h)
<1>1. PICK E : E = Events(h) OBVIOUS
<1>2. PICK R : R = PoEdges(h) OBVIOUS
<1>3. IsFiniteSet(E) /\ R \subseteq E \X E BY <1>1, <1>2, PoIs DEF Shaped, EventsTyped
<1>4. \A a, b : <<a, b>> \in R <=> a \in E /\ b \in E /\ a[1] = b[1] /\ b[2] = a[2] + 1
  <2>1. \A a, b : <<a, b>> \in PoEdges(h) <=> a \in Events(h) /\ b \in Events(h) /\ a[1] = b[1] /\ b[2] = a[2] + 1
    BY PoIs DEF Shaped
  <2> QED BY ONLY <1>1, <1>2, <2>1
<1>5. \A e \in E : e = <<e[1], e[2]>> /\ e[2] \in Nat
  <2>1. \A e \in E : e = <<e[1], e[2]>> /\ e[1] \in Threads /\ e[2] \in 1..Len(h.po[e[1]])
    BY <1>1 DEF Shaped, PoTyped
  <2>2. \A t \in Threads : Len(h.po[t]) \in Nat BY DEF Shaped, PoTyped
  <2> QED BY <2>1, <2>2
<1>6. ASSUME NEW b \in E, NEW i \in Nat, 1 <= i, i < b[2] PROVE <<b[1], i>> \in E
  <2>1. b[1] \in Threads /\ b[2] \in 1..Len(h.po[b[1]]) /\ h.po[b[1]] \in Seq(E) BY <1>1 DEF Shaped, PoTyped
  <2>2. i \in 1..Len(h.po[b[1]]) BY <1>5, <1>6, <2>1
  <2>3. h.po[b[1]][i] \in E BY <2>1, <2>2
  <2>4. h.po[b[1]][i] = <<b[1], i>> BY <2>1, <2>2 DEF Shaped, PoTyped
  <2> QED BY <2>3, <2>4
<1> DEFINE L == {n \in Nat : \A a, b \in E : a[1] = b[1] /\ b[2] = a[2] + (n + 1) => <<a, b>> \in Plus(R, E)}
<1>7. 0 \in L
  <2>1. ASSUME NEW a \in E, NEW b \in E, a[1] = b[1], b[2] = a[2] + (0 + 1) PROVE <<a, b>> \in Plus(R, E)
    <3>1. b[2] = a[2] + 1 BY <1>5, <2>1
    <3>2. <<a, b>> \in R BY <1>4, <2>1, <3>1
    <3> QED BY <1>3, <3>2, PlusStep
  <2> QED BY <2>1
<1>8. ASSUME NEW n \in Nat, n \in L PROVE n + 1 \in L
  <2>1. ASSUME NEW a \in E, NEW b \in E, a[1] = b[1], b[2] = a[2] + ((n + 1) + 1) PROVE <<a, b>> \in Plus(R, E)
    <3>1. PICK i : i = a[2] + (n + 1) OBVIOUS
    <3>2. i \in Nat /\ 1 <= i /\ i < b[2] /\ b[2] = i + 1 BY <1>5, <2>1, <3>1
    <3>3. PICK c : c = <<b[1], i>> OBVIOUS
    <3>4. c \in E /\ c[1] = b[1] /\ c[2] = i BY <1>6, <3>2, <3>3
    <3>5. <<a, c>> \in Plus(R, E) BY <1>8, <2>1, <3>1, <3>4
    <3>6. <<c, b>> \in R BY <1>4, <2>1, <3>2, <3>4
    <3> QED BY <1>3, <3>5, <3>6, PlusStep
  <2> QED BY <2>1
<1> HIDE DEF L
<1>9. \A n \in Nat : n \in L BY <1>7, <1>8, SetInduction
<1>10. ASSUME NEW a \in E, NEW b \in E, a[1] = b[1], a[2] < b[2] PROVE <<a, b>> \in Plus(R, E)
  <2>1. PICK n : n = b[2] - a[2] - 1 OBVIOUS
  <2>2. n \in Nat /\ b[2] = a[2] + (n + 1) BY <1>5, <1>10, <2>1
  <2> QED BY <1>9, <1>10, <2>2 DEF L
<1> QED BY <1>1, <1>2, <1>10 DEF PoPlus

\* The release that an sw edge may leave: w itself or a fence before it.
Releases(h, s, w) ==
  /\ s \in Events(h) /\ Mode(h, s) \in ReleaseModes
  /\ s = w \/ (IsFence(h, s) /\ <<s, w>> \in PoPlus(h))

\* The release fences found before a write precede it in its thread.
LEMMA FencesBefore ==
  ASSUME NEW h, Shaped(h), NEW w \in Events(h), IsWrite(h, w)
  PROVE  /\ Position(h.po[w[1]], w) \in Nat
         /\ \A i \in ReleaseFences(h, w[1], Position(h.po[w[1]], w)) : Releases(h, h.po[w[1]][i], w)
         /\ ReleaseFences(h, w[1], Position(h.po[w[1]], w)) \subseteq 1..Position(h.po[w[1]], w)
<1>1. PICK s : s = h.po[w[1]] OBVIOUS
<1>2. w = <<w[1], w[2]>> /\ w[1] \in Threads /\ w[2] \in 1..Len(s) /\ s \in Seq(Events(h))
  BY <1>1 DEF Shaped, PoTyped
<1>3. \A i \in 1..Len(s) : s[i] = <<w[1], i>> BY <1>1, <1>2 DEF Shaped, PoTyped
<1>4. w \in ToSet(s)
  <2>1. s[w[2]] = w BY <1>2, <1>3
  <2> QED BY <1>2, <2>1, OrderIs DEF In
<1>5. Position(s, w) \in 1..Len(s) /\ s[Position(s, w)] = w BY <1>2, <1>4, PositionIs
<1>6. Position(s, w) = w[2] /\ w[2] \in Nat /\ Len(s) \in Nat
  <2>1. <<w[1], Position(s, w)>> = <<w[1], w[2]>> BY <1>2, <1>3, <1>5
  <2> QED BY <1>2, <2>1
<1>7. ASSUME NEW i \in ReleaseFences(h, w[1], Position(s, w)) PROVE Releases(h, s[i], w)
  <2>1. i \in 1..w[2] /\ Kind(h, s[i]) = "FENCE" /\ Mode(h, s[i]) \in ReleaseModes
    BY <1>1, <1>6 DEF ReleaseFences
  <2>2. i # w[2] BY <1>2, <1>3, <2>1 DEF IsWrite, WriteKinds
  <2>3. i \in 1..Len(s) /\ i < w[2] BY <1>2, <1>6, <2>1, <2>2
  <2>4. PICK f : f = s[i] OBVIOUS
  <2>5. f \in Events(h) /\ f[1] = w[1] /\ f[2] = i BY <1>2, <1>3, <2>3, <2>4
  <2>6. <<f, w>> \in PoPlus(h) BY <2>3, <2>5, PoPlusIs
  <2> QED BY <2>1, <2>4, <2>5, <2>6 DEF Releases, IsFence
<1>8. ReleaseFences(h, w[1], Position(s, w)) \subseteq 1..Position(s, w) BY DEF ReleaseFences
<1> QED BY <1>1, <1>5, <1>6, <1>7, <1>8

\* The sw edges that a release chain gives leave something that releases its write.
LEMMA ChainSwIs ==
  ASSUME NEW h, Shaped(h), NEW w \in Events(h), IsWrite(h, w), NEW e
  PROVE  \A p \in ReleaseChainSw(h, w, e) : \E s : p = <<s, e>> /\ Releases(h, s, w)
<1>1. PICK s : s = h.po[w[1]] OBVIOUS
<1>2. PICK F : F = ReleaseFences(h, w[1], Position(s, w)) OBVIOUS
<1>3. PICK n : n = Position(s, w) OBVIOUS
<1>4. n \in Nat /\ F \subseteq 1..n /\ \A i \in F : Releases(h, s[i], w) BY <1>1, <1>2, <1>3, FencesBefore
<1>5. ReleaseChainSw(h, w, e) =
        IF Mode(h, w) \notin ReleaseModes THEN {}
        ELSE {<<w, e>>} \cup (IF F = {} THEN {} ELSE {<<s[Max(F)], e>>})
  BY <1>1, <1>2 DEF ReleaseChainSw
<1>6. Mode(h, w) \in ReleaseModes => Releases(h, w, w) BY DEF Releases
<1>7. F # {} => Max(F) \in F BY <1>4, MaxIs
<1>8. ASSUME NEW p \in ReleaseChainSw(h, w, e) PROVE \E x : p = <<x, e>> /\ Releases(h, x, w)
  <2>1. Mode(h, w) \in ReleaseModes BY <1>5
  <2>2. CASE p = <<w, e>> BY <1>6, <2>1, <2>2
  <2>3. CASE F # {} /\ p = <<s[Max(F)], e>>
    <3>1. Releases(h, s[Max(F)], w) BY <1>4, <1>7, <2>3
    <3> QED BY <2>3, <3>1
  <2>4. p = <<w, e>> \/ (F # {} /\ p = <<s[Max(F)], e>>) BY <1>5, <2>1
  <2> QED BY <2>2, <2>3, <2>4
<1> QED BY <1>8

\* The same graph but for rf, sw and mo.
SameBut(h, k) == k.ev = h.ev /\ k.po = h.po /\ k.tcj = h.tcj /\ IsGraph(k)

\* A graph with the same events, po and tcj has the same kinds and the same release sources.
LEMMA SameButIs ==
  ASSUME NEW h, NEW k, SameBut(h, k)
  PROVE  /\ Events(k) = Events(h) /\ \A e : k.ev[e] = h.ev[e]
         /\ \A e : /\ Kind(k, e) = Kind(h, e) /\ Loc(k, e) = Loc(h, e) /\ Mode(k, e) = Mode(h, e)
                   /\ (IsRead(k, e) <=> IsRead(h, e)) /\ (IsWrite(k, e) <=> IsWrite(h, e))
                   /\ (IsRmw(k, e) <=> IsRmw(h, e)) /\ (IsFence(k, e) <=> IsFence(h, e))
         /\ PoEdges(k) = PoEdges(h) /\ PoPlus(k) = PoPlus(h)
         /\ \A q, e : Precedes(k, q, e) <=> Precedes(h, q, e)
         /\ \A s, w : Releases(k, s, w) <=> Releases(h, s, w)
<1>1. Events(k) = Events(h) /\ \A e : k.ev[e] = h.ev[e] BY DEF SameBut, Events
<1>2. \A e : /\ Kind(k, e) = Kind(h, e) /\ Loc(k, e) = Loc(h, e) /\ Mode(k, e) = Mode(h, e)
             /\ (IsRead(k, e) <=> IsRead(h, e)) /\ (IsWrite(k, e) <=> IsWrite(h, e))
             /\ (IsRmw(k, e) <=> IsRmw(h, e)) /\ (IsFence(k, e) <=> IsFence(h, e))
  BY <1>1 DEF Kind, Loc, Mode, IsRead, IsWrite, IsRmw, IsFence
<1>3. PoEdges(k) = PoEdges(h) BY DEF SameBut, PoEdges
<1>4. PoPlus(k) = PoPlus(h) BY <1>1, <1>3 DEF PoPlus
<1>5. \A q, e : Precedes(k, q, e) <=> Precedes(h, q, e) BY <1>3 DEF Precedes, SameBut
<1>6. \A s, w : Releases(k, s, w) <=> Releases(h, s, w) BY <1>1, <1>2, <1>4 DEF Releases
<1> QED BY <1>1, <1>2, <1>3, <1>4, <1>5, <1>6

\* With the same events and program order, typed edges and orders make a graph.
LEMMA GraphBut ==
  ASSUME NEW h, IsGraph(h), NEW k, IsRecord(k), k.ev = h.ev, k.po = h.po, EdgesTyped(k), MoTyped(k)
  PROVE  IsGraph(k)
<1>1. Events(k) = Events(h) BY DEF Events
<1>2. \A e : Kind(k, e) = Kind(h, e) /\ Loc(k, e) = Loc(h, e) BY DEF Kind, Loc
<1>3. EventsTyped(k) BY <1>1, <1>2 DEF IsGraph, EventsTyped
<1>4. PoTyped(k) BY <1>1 DEF IsGraph, PoTyped
<1> QED BY <1>3, <1>4 DEF IsGraph

\* disconnect_read takes away the edges of rf and sw into a read.
LEMMA DisconnectIs ==
  ASSUME NEW h, IsGraph(h), NEW e, NEW k, k = DisconnectRead(h, e)
  PROVE  /\ SameBut(h, k) /\ k.mo = h.mo
         /\ \A a, b : <<a, b>> \in k.rf <=> <<a, b>> \in h.rf /\ b # e
         /\ \A a, b : <<a, b>> \in k.sw <=> <<a, b>> \in h.sw /\ b # e
<1>1. /\ IsRecord(k) /\ k.ev = h.ev /\ k.po = h.po /\ k.tcj = h.tcj /\ k.mo = h.mo
      /\ k.rf = {p \in h.rf : p[2] # e} /\ k.sw = {p \in h.sw : p[2] # e}
  BY DEF DisconnectRead, IsGraph, IsRecord
<1>2. Events(k) = Events(h) BY <1>1 DEF Events
<1>3. EdgesTyped(k) BY <1>1, <1>2 DEF IsGraph, EdgesTyped
<1>4. MoTyped(k)
  <2>1. \A d : Loc(k, d) = Loc(h, d) BY <1>1 DEF Loc
  <2> QED BY <1>1, <1>2, <2>1 DEF IsGraph, MoTyped
<1>5. IsGraph(k) BY <1>1, <1>3, <1>4, GraphBut
<1>6. ASSUME NEW R, NEW a, NEW b PROVE <<a, b>> \in {p \in R : p[2] # e} <=> <<a, b>> \in R /\ b # e OBVIOUS
<1>7. \A a, b : <<a, b>> \in k.rf <=> <<a, b>> \in h.rf /\ b # e BY <1>1, <1>6
<1>8. \A a, b : <<a, b>> \in k.sw <=> <<a, b>> \in h.sw /\ b # e BY <1>1, <1>6
<1> QED BY <1>1, <1>5, <1>7, <1>8 DEF SameBut

\* add_rf adds one edge to rf, and to sw those from releases.
LEMMA AddRfIs ==
  ASSUME NEW h, IsGraph(h), NEW w \in Events(h), NEW e \in Events(h), IsWrite(h, w), NEW k, k = AddRf(h, w, e)
  PROVE  /\ SameBut(h, k) /\ k.mo = h.mo
         /\ \A a, b : <<a, b>> \in k.rf <=> <<a, b>> \in h.rf \/ (a = w /\ b = e)
         /\ \A a, b : <<a, b>> \in h.sw => <<a, b>> \in k.sw
         /\ \A a, b : <<a, b>> \in k.sw => <<a, b>> \in h.sw \/ (b = e /\ Releases(h, a, w))
<1>1. PICK S : S = IF Mode(h, e) \in AcquireModes THEN ReleaseChainSw(h, w, e) ELSE {} OBVIOUS
<1>2. \A p \in S : \E s : p = <<s, e>> /\ Releases(h, s, w)
  <2>1. Shaped(h) BY DEF IsGraph, Shaped
  <2>2. \A p \in ReleaseChainSw(h, w, e) : \E s : p = <<s, e>> /\ Releases(h, s, w) BY <2>1, ChainSwIs
  <2> QED BY <1>1, <2>2
<1>3. S \subseteq Events(h) \X Events(h)
  <2>1. ASSUME NEW p \in S PROVE p \in Events(h) \X Events(h)
    <3>1. PICK s : p = <<s, e>> /\ Releases(h, s, w) BY <1>2
    <3>2. s \in Events(h) BY <3>1 DEF Releases
    <3> QED BY <3>1, <3>2
  <2> QED BY <2>1
<1>4. /\ IsRecord(k) /\ k.ev = h.ev /\ k.po = h.po /\ k.tcj = h.tcj /\ k.mo = h.mo
      /\ k.rf = h.rf \cup {<<w, e>>} /\ k.sw = h.sw \cup S
  BY <1>1 DEF AddRf, IsGraph, IsRecord
<1>5. Events(k) = Events(h) BY <1>4 DEF Events
<1>6. EdgesTyped(k) BY <1>3, <1>4, <1>5 DEF IsGraph, EdgesTyped
<1>7. MoTyped(k)
  <2>1. \A d : Loc(k, d) = Loc(h, d) BY <1>4 DEF Loc
  <2> QED BY <1>4, <1>5, <2>1 DEF IsGraph, MoTyped
<1>8. IsGraph(k) BY <1>4, <1>6, <1>7, GraphBut
<1>9. \A a, b : <<a, b>> \in k.rf <=> <<a, b>> \in h.rf \/ (a = w /\ b = e) BY <1>4
<1>10. \A a, b : <<a, b>> \in h.sw => <<a, b>> \in k.sw BY <1>4
<1>11. ASSUME NEW a, NEW b, <<a, b>> \in k.sw PROVE <<a, b>> \in h.sw \/ (b = e /\ Releases(h, a, w))
  <2>1. CASE <<a, b>> \in h.sw BY <2>1
  <2>2. CASE <<a, b>> \in S
    <3>1. PICK s : <<a, b>> = <<s, e>> /\ Releases(h, s, w) BY <1>2, <2>2
    <3>2. a = s /\ b = e BY <3>1
    <3> QED BY <3>1, <3>2
  <2> QED BY <1>4, <1>11, <2>1, <2>2
<1> QED BY <1>4, <1>8, <1>9, <1>10, <1>11 DEF SameBut

\* An event that takes its place in a modification order.
Lacks(h, m, e, s) ==
  /\ s \in Seq(Events(h)) /\ Distinct(s) /\ ToSet(s) = ToSet(m) \ {e}
  /\ \A a, b : <<a, b>> \in Order(s) <=> <<a, b>> \in Order(m) /\ a # e /\ b # e

\* Without takes one event out of a modification order.
LEMMA WithoutIs ==
  ASSUME NEW h, NEW l \in Locations, NEW e, NEW s, IsGraph(h), s = Without(h.mo[l], e)
  PROVE  Lacks(h, h.mo[l], e, s)
<1>1. PICK m : m = h.mo[l] OBVIOUS
<1>2. m \in Seq(Events(h)) /\ Distinct(m) BY <1>1 DEF IsGraph, MoTyped
<1>3. /\ s \in Seq(Events(h)) /\ ToSet(s) = ToSet(m) \cap (ToSet(m) \ {e})
      /\ Order(s) = {p \in Order(m) : p[1] \in ToSet(m) \ {e} /\ p[2] \in ToSet(m) \ {e}}
  BY <1>1, <1>2, OnlyKeeps DEF Without
<1>4. Order(m) \subseteq ToSet(m) \X ToSet(m) BY <1>2, OrderIs
<1>5. Distinct(s) BY <1>2, <1>3 DEF Distinct
<1>6. ASSUME NEW a, NEW b PROVE <<a, b>> \in Order(s) <=> <<a, b>> \in Order(m) /\ a # e /\ b # e
  <2>1. <<a, b>> \in Order(m) => a \in ToSet(m) /\ b \in ToSet(m) BY <1>4
  <2> QED BY <1>3, <2>1
<1> QED BY <1>1, <1>3, <1>5, <1>6 DEF Lacks

\* h with another modification order of one location, off event e.
Reordered(h, k, l, s) ==
  /\ SameBut(h, k) /\ k.rf = h.rf /\ k.sw = h.sw
  /\ k.mo[l] = s /\ \A m \in Locations : m # l => k.mo[m] = h.mo[m]

\* Replacing one modification order by one without repetitions keeps the graph well shaped.
LEMMA MoSet ==
  ASSUME NEW h, NEW l \in Locations, NEW s \in Seq(Events(h)), NEW k, IsGraph(h), Distinct(s),
         \A d \in ToSet(s) : Loc(h, d) = l, k = [h EXCEPT !.mo[l] = s]
  PROVE  Reordered(h, k, l, s)
<1>1. /\ IsRecord(k) /\ k.ev = h.ev /\ k.po = h.po /\ k.tcj = h.tcj /\ k.rf = h.rf /\ k.sw = h.sw
      /\ k.mo = [h.mo EXCEPT ![l] = s]
  BY DEF IsGraph, IsRecord
<1>2. Events(k) = Events(h) BY <1>1 DEF Events
<1>3. h.mo \in [Locations -> Seq(Events(h))] BY DEF IsGraph, MoTyped
<1>4. k.mo \in [Locations -> Seq(Events(k))] /\ k.mo[l] = s /\ \A m \in Locations : m # l => k.mo[m] = h.mo[m]
  <2>1. PICK f : f = h.mo OBVIOUS
  <2>2. PICK T : T = Seq(Events(h)) OBVIOUS
  <2>3. f \in [Locations -> T] /\ s \in T BY <1>3, <2>1, <2>2
  <2>4. PICK m : m = [f EXCEPT ![l] = s] OBVIOUS
  <2>5. m \in [Locations -> T] /\ m[l] = s /\ \A i \in Locations : i # l => m[i] = f[i]
    BY ONLY <2>3, <2>4, l \in Locations
  <2> QED BY <1>1, <1>2, <2>1, <2>2, <2>4, <2>5
<1>5. EdgesTyped(k) BY <1>1, <1>2 DEF IsGraph, EdgesTyped
<1>6. MoTyped(k)
  <2>1. \A d : Loc(k, d) = Loc(h, d) BY <1>1 DEF Loc
  <2>2. \A m \in Locations : Distinct(h.mo[m]) /\ \A d \in ToSet(h.mo[m]) : Loc(h, d) = m BY DEF IsGraph, MoTyped
  <2> QED BY <1>4, <2>1, <2>2 DEF MoTyped
<1>7. IsGraph(k) BY <1>1, <1>5, <1>6, GraphBut
<1> QED BY <1>1, <1>4, <1>7 DEF SameBut, Reordered

\* MoBefore when one location got another order.
SameOrder(s, t, e) == \A a, b : a # e /\ b # e => (<<a, b>> \in s <=> <<a, b>> \in t)

\* If the new order differs only about e, so do the graph's mo pairs.
LEMMA MoSetBefore ==
  ASSUME NEW h, NEW l \in Locations, NEW k, NEW e, IsGraph(h), IsGraph(k), Events(k) = Events(h),
         \A m \in Locations : m # l => k.mo[m] = h.mo[m],
         SameOrder(Order(k.mo[l]), Order(h.mo[l]), e)
  PROVE  SameOrder(MoBefore(k), MoBefore(h), e)
<1>1. \A a, b : <<a, b>> \in MoBefore(k) <=> \E m \in Locations : <<a, b>> \in Order(k.mo[m]) BY MoIs DEF IsGraph
<1>2. \A a, b : <<a, b>> \in MoBefore(h) <=> \E m \in Locations : <<a, b>> \in Order(h.mo[m]) BY MoIs DEF IsGraph
<1> QED BY <1>1, <1>2 DEF SameOrder

\* insert_mo_after places e next to w.
Placed(h, k, w, e) ==
  /\ \A l \in Locations : \A a : a # e => (a \in ToSet(k.mo[l]) <=> a \in ToSet(h.mo[l]))
  /\ \A l \in Locations : e \in ToSet(k.mo[l]) <=> l = Loc(h, e)
  /\ \A a, b : a # e /\ b # e => (<<a, b>> \in MoBefore(k) <=> <<a, b>> \in MoBefore(h))
  /\ <<w, e>> \in MoBefore(k)
  /\ \A b : b # e => (<<e, b>> \in MoBefore(k) <=> <<w, b>> \in MoBefore(h))

\* insert_mo_after puts e right after w.
LEMMA InsertIs ==
  ASSUME NEW h, IsGraph(h), NEW e \in Events(h), Loc(h, e) \in Locations, NEW w \in ToSet(h.mo[Loc(h, e)]), w # e,
         NEW k, k = InsertMoAfter(h, w, e)
  PROVE  SameBut(h, k) /\ k.rf = h.rf /\ k.sw = h.sw /\ Placed(h, k, w, e)
<1>1. PICK l \in Locations : l = Loc(h, e) OBVIOUS
<1>2. PICK o : o = Without(h.mo[l], e) OBVIOUS
<1>3. /\ o \in Seq(Events(h)) /\ Distinct(o) /\ ToSet(o) = ToSet(h.mo[l]) \ {e}
      /\ \A a, b : <<a, b>> \in Order(o) <=> <<a, b>> \in Order(h.mo[l]) /\ a # e /\ b # e
  <2>1. Lacks(h, h.mo[l], e, o) BY <1>2, WithoutIs
  <2> QED BY <2>1 DEF Lacks
<1>4. w \in ToSet(o) BY <1>1, <1>3
<1>5. PICK s : s = InsertAt(o, Position(o, w) + 1, e) OBVIOUS
<1>6. k = [h EXCEPT !.mo[l] = s] BY <1>1, <1>2, <1>4, <1>5 DEF InsertMoAfter
<1>7. /\ s \in Seq(Events(h)) /\ ToSet(s) = ToSet(o) \cup {e}
      /\ \A a, b : <<a, b>> \in Order(s) <=>
              \/ <<a, b>> \in Order(o)
              \/ a = w /\ b = e
              \/ <<a, w>> \in Order(o) /\ b = e
              \/ a = e /\ <<w, b>> \in Order(o)
  BY <1>3, <1>4, <1>5, InsertOrder
<1>8. Distinct(s)
  <2>1. ASSUME NEW a, NEW b, <<a, b>> \in Order(s) PROVE a # b
    <3>1. \A c : <<c, c>> \notin Order(o) BY <1>3, OrderStrict
    <3>2. \A c, d : <<c, d>> \in Order(o) => c # e /\ d # e BY <1>3
    <3> QED BY <1>7, <2>1, <3>1, <3>2
  <2>2. Order(s) \subseteq ToSet(s) \X ToSet(s) BY <1>7, OrderIs
  <2>3. \A p \in Order(s) : p = <<p[1], p[2]>> BY <2>2
  <2> QED BY <2>1, <2>3 DEF Distinct
<1>9. \A d \in ToSet(s) : Loc(h, d) = l BY <1>1, <1>3, <1>7 DEF IsGraph, MoTyped
<1>10. /\ SameBut(h, k) /\ k.rf = h.rf /\ k.sw = h.sw
       /\ k.mo[l] = s /\ \A m \in Locations : m # l => k.mo[m] = h.mo[m]
  <2>1. Reordered(h, k, l, s) BY <1>6, <1>7, <1>8, <1>9, MoSet
  <2> QED BY <2>1 DEF Reordered
<1>11. \A m \in Locations : \A a : a # e => (a \in ToSet(k.mo[m]) <=> a \in ToSet(h.mo[m]))
  <2>1. \A a : a # e => (a \in ToSet(k.mo[l]) <=> a \in ToSet(h.mo[l])) BY <1>3, <1>7, <1>10
  <2> QED BY <1>10, <2>1
<1>12. \A m \in Locations : e \in ToSet(k.mo[m]) <=> m = Loc(h, e)
  <2>1. e \in ToSet(k.mo[l]) BY <1>7, <1>10
  <2>2. \A m \in Locations : e \in ToSet(k.mo[m]) => Loc(k, e) = m BY <1>10 DEF SameBut, IsGraph, MoTyped
  <2>3. Loc(k, e) = Loc(h, e) BY <1>10, SameButIs
  <2> QED BY <1>1, <2>1, <2>2, <2>3
<1>13. \A a, b : a # e /\ b # e => (<<a, b>> \in Order(k.mo[l]) <=> <<a, b>> \in Order(h.mo[l]))
  BY <1>3, <1>7, <1>10
<1>14. IsGraph(k) /\ Events(k) = Events(h) BY <1>10 DEF SameBut, Events
<1>15. \A a, b : a # e /\ b # e => (<<a, b>> \in MoBefore(k) <=> <<a, b>> \in MoBefore(h))
  <2>1. SameOrder(Order(k.mo[l]), Order(h.mo[l]), e) BY <1>13 DEF SameOrder
  <2>2. SameOrder(MoBefore(k), MoBefore(h), e) BY <1>10, <1>14, <2>1, MoSetBefore
  <2> QED BY <2>2 DEF SameOrder
<1>16. \A a, b : a \in ToSet(k.mo[l]) \/ b \in ToSet(k.mo[l]) => (<<a, b>> \in MoBefore(k) <=> <<a, b>> \in Order(k.mo[l]))
  BY <1>14, MoStrict DEF IsGraph
<1>17. e \in ToSet(k.mo[l]) BY <1>7, <1>10
<1>18. <<w, e>> \in MoBefore(k) BY <1>7, <1>10, <1>16, <1>17
<1>19. ASSUME NEW b, b # e PROVE <<e, b>> \in MoBefore(k) <=> <<w, b>> \in MoBefore(h)
  <2>1. <<e, b>> \in MoBefore(k) <=> <<e, b>> \in Order(s) BY <1>10, <1>16, <1>17
  <2>2. \A c, d : <<c, d>> \in Order(o) => c # e /\ d # e BY <1>3
  <2>3. <<e, b>> \in Order(s) <=> <<w, b>> \in Order(o) BY <1>7, <1>19, <2>2
  <2>4. <<w, b>> \in Order(o) <=> <<w, b>> \in Order(h.mo[l]) BY <1>3, <1>19
  <2>5. <<w, b>> \in Order(h.mo[l]) <=> <<w, b>> \in MoBefore(h) BY <1>1, MoStrict DEF IsGraph
  <2> QED BY <2>1, <2>3, <2>4, <2>5
<1> QED BY <1>10, <1>11, <1>12, <1>15, <1>18, <1>19 DEF Placed

\* An event that leaves its modification order.
Unplaced(h, k, e) ==
  /\ \A l \in Locations : \A a : a # e => (a \in ToSet(k.mo[l]) <=> a \in ToSet(h.mo[l]))
  /\ \A l \in Locations : e \notin ToSet(k.mo[l])
  /\ \A a, b : a # e /\ b # e => (<<a, b>> \in MoBefore(k) <=> <<a, b>> \in MoBefore(h))
  /\ MoBefore(k) \subseteq MoBefore(h)

\* Taking e out of its modification order leaves the other pairs.
LEMMA UnplaceIs ==
  ASSUME NEW h, IsGraph(h), NEW l \in Locations, NEW e, Loc(h, e) = l, NEW k, k = [h EXCEPT !.mo[l] = Without(@, e)]
  PROVE  SameBut(h, k) /\ k.rf = h.rf /\ k.sw = h.sw /\ Unplaced(h, k, e)
<1>2. PICK o : o = Without(h.mo[l], e) OBVIOUS
<1>3. /\ o \in Seq(Events(h)) /\ Distinct(o) /\ ToSet(o) = ToSet(h.mo[l]) \ {e}
      /\ \A a, b : <<a, b>> \in Order(o) <=> <<a, b>> \in Order(h.mo[l]) /\ a # e /\ b # e
  <2>1. Lacks(h, h.mo[l], e, o) BY <1>2, WithoutIs
  <2> QED BY <2>1 DEF Lacks
<1>4. k = [h EXCEPT !.mo[l] = o] BY <1>2
<1>5. \A d \in ToSet(o) : Loc(h, d) = l BY <1>3 DEF IsGraph, MoTyped
<1>6. /\ SameBut(h, k) /\ k.rf = h.rf /\ k.sw = h.sw
      /\ k.mo[l] = o /\ \A m \in Locations : m # l => k.mo[m] = h.mo[m]
  <2>1. Reordered(h, k, l, o) BY <1>3, <1>4, <1>5, MoSet
  <2> QED BY <2>1 DEF Reordered
<1>7. IsGraph(k) /\ Events(k) = Events(h) BY <1>6 DEF SameBut, Events
<1>8. \A m \in Locations : \A a : a # e => (a \in ToSet(k.mo[m]) <=> a \in ToSet(h.mo[m]))
  BY <1>3, <1>6
<1>9. \A m \in Locations : e \notin ToSet(k.mo[m])
  <2>1. \A m \in Locations : e \in ToSet(h.mo[m]) => Loc(h, e) = m BY DEF IsGraph, MoTyped
  <2> QED BY <1>3, <1>6, <2>1
<1>10. \A a, b : a # e /\ b # e => (<<a, b>> \in Order(k.mo[l]) <=> <<a, b>> \in Order(h.mo[l]))
  BY <1>3, <1>6
<1>11. \A a, b : a # e /\ b # e => (<<a, b>> \in MoBefore(k) <=> <<a, b>> \in MoBefore(h))
  <2>1. SameOrder(Order(k.mo[l]), Order(h.mo[l]), e) BY <1>10 DEF SameOrder
  <2>2. SameOrder(MoBefore(k), MoBefore(h), e) BY <1>6, <1>7, <2>1, MoSetBefore
  <2> QED BY <2>2 DEF SameOrder
<1>12. \A a, b : <<a, b>> \in MoBefore(k) => a # e /\ b # e
  <2>1. \A a, b : <<a, b>> \in MoBefore(k) <=> \E m \in Locations : <<a, b>> \in Order(k.mo[m])
    BY <1>7, MoIs DEF IsGraph
  <2>2. \A m \in Locations : \A a, b : <<a, b>> \in Order(k.mo[m]) => a \in ToSet(k.mo[m]) /\ b \in ToSet(k.mo[m])
    BY <1>7, MoIs DEF IsGraph
  <2> QED BY <1>9, <2>1, <2>2
<1>13. MoBefore(k) \subseteq MoBefore(h)
  <2>1. MoBefore(k) \subseteq Events(k) \X Events(k) BY <1>7, MoIs DEF IsGraph
  <2>2. \A p \in MoBefore(k) : p = <<p[1], p[2]>> BY <2>1
  <2>3. ASSUME NEW p \in MoBefore(k) PROVE p \in MoBefore(h)
    <3>1. p = <<p[1], p[2]>> BY <2>2
    <3>2. <<p[1], p[2]>> \in MoBefore(k) BY <3>1
    <3> QED BY <1>11, <1>12, <3>1, <3>2
  <2> QED BY <2>3
<1> QED BY <1>6, <1>8, <1>9, <1>11, <1>13 DEF Unplaced

\* Another kind for one event, of the same location.
LEMMA KindIs ==
  ASSUME NEW h, IsGraph(h), NEW e \in Events(h), Loc(h, e) \in Locations, NEW kind \in {"CAS_SUCCESS", "CAS_FAIL"},
         NEW k, k = [h EXCEPT !.ev[e].type = kind]
  PROVE  /\ IsGraph(k) /\ Events(k) = Events(h) /\ k.po = h.po /\ k.tcj = h.tcj /\ k.rf = h.rf /\ k.sw = h.sw
         /\ k.mo = h.mo
         /\ \A d \in Events(h) : d # e => k.ev[d] = h.ev[d]
         /\ Kind(k, e) = kind
         /\ \A d \in Events(h) : Loc(k, d) = Loc(h, d) /\ Mode(k, d) = Mode(h, d)
<1>1. PICK f : f = h.ev OBVIOUS
<1>2. PICK D : D = Events(h) OBVIOUS
<1>3. f \in [D -> EventRecord] /\ e \in D BY <1>1, <1>2 DEF IsGraph, EventsTyped
<1>4. PICK r : r = [f[e] EXCEPT !.type = kind] OBVIOUS
<1>5. r \in EventRecord /\ r.type = kind /\ r.mode = f[e].mode /\ r.loc = f[e].loc
  <2>1. f[e] \in EventRecord BY <1>3
  <2> QED BY <1>4, <2>1 DEF EventRecord
<1>6. PICK m : m = [f EXCEPT ![e] = r] OBVIOUS
<1>7. m \in [D -> EventRecord] /\ m[e] = r /\ \A d \in D : d # e => m[d] = f[d] BY ONLY <1>3, <1>5, <1>6
<1>8. /\ IsRecord(k) /\ k.ev = m /\ k.po = h.po /\ k.tcj = h.tcj /\ k.rf = h.rf /\ k.sw = h.sw /\ k.mo = h.mo
  <2>1. k = [h EXCEPT !.ev = m] BY <1>1, <1>4, <1>6 DEF IsGraph, IsRecord
  <2> QED BY <2>1 DEF IsGraph, IsRecord
<1>9. Events(k) = D BY <1>7, <1>8 DEF Events
<1>10. \A d \in D : Loc(k, d) = Loc(h, d) /\ Mode(k, d) = Mode(h, d)
  <2>1. \A d \in D : k.ev[d].loc = f[d].loc /\ k.ev[d].mode = f[d].mode BY <1>5, <1>7, <1>8
  <2> QED BY <1>1, <2>1 DEF Loc, Mode
<1>11. EventsTyped(k)
  <2>1. \A d \in D : Kind(k, d) # "FENCE" => Loc(k, d) \in Locations
    <3>1. \A d \in D : d # e => Kind(k, d) = Kind(h, d) BY <1>1, <1>7, <1>8 DEF Kind
    <3> QED BY <1>2, <1>10, <3>1 DEF IsGraph, EventsTyped
  <2> QED BY <1>2, <1>7, <1>8, <1>9, <2>1 DEF IsGraph, EventsTyped
<1>12. PoTyped(k) BY <1>2, <1>8, <1>9 DEF IsGraph, PoTyped
<1>13. EdgesTyped(k) BY <1>2, <1>8, <1>9 DEF IsGraph, EdgesTyped
<1>14. MoTyped(k)
  <2>1. \A l \in Locations : \A d \in ToSet(h.mo[l]) : d \in D BY <1>2, MoIs DEF IsGraph
  <2> QED BY <1>2, <1>8, <1>9, <1>10, <2>1 DEF IsGraph, MoTyped
<1>15. Kind(k, e) = kind BY <1>5, <1>7, <1>8 DEF Kind
<1> QED BY <1>1, <1>2, <1>7, <1>8, <1>9, <1>10, <1>11, <1>12, <1>13, <1>14, <1>15 DEF IsGraph

\* d is the part K of h and e, that nothing comes after and that reads nothing.
Cut(h, d, K, e) ==
  /\ IsGraph(d) /\ Events(d) = K \cup {e} /\ Events(d) \subseteq Events(h) /\ e \notin K
  /\ \A x \in K \cup {e} : d.ev[x] = h.ev[x]
  /\ Agrees(h, d, K)
  /\ \A a, b : <<a, b>> \in Edges(d) => a \in K /\ <<a, b>> \in Edges(h)
  /\ \A a : <<a, e>> \notin d.rf /\ <<a, e>> \notin d.sw
  /\ \A q : Precedes(h, q, e) <=> Precedes(d, q, e)
  /\ \A a, b \in K \cup {e} : <<a, b>> \in MoBefore(h) <=> <<a, b>> \in MoBefore(d)
  /\ \A l \in Locations : \A a \in K \cup {e} : a \in ToSet(h.mo[l]) <=> a \in ToSet(d.mo[l])

\* What does not come after e.
NotAfter(h, e) == {d \in Events(h) : <<e, d>> \notin Plus(Edges(h), Events(h))}

\* The cut before a mutation: what does not depend on e stays, e loses its rf and sw edges.
LEMMA DetachedIs ==
  ASSUME NEW h, NEW e \in Events(h), NEW d, IsGraph(h), <<e, e>> \notin Plus(Edges(h), Events(h)), d = Detached(h, e)
  PROVE  Cut(h, d, NotAfter(h, e) \ {e}, e)
<1>1. PICK K : K = NotAfter(h, e) OBVIOUS
<1>2. PICK f : f = RemoveSuccessors(h, e) OBVIOUS
<1>3. K \subseteq Events(h) /\ e \in K BY <1>1 DEF NotAfter
<1>4. /\ f = Dropped(h, K) /\ \A p \in Edges(h) : p[2] \in K => p[1] \in K
      /\ \A b : <<e, b>> \in Edges(h) => b \notin K
  BY <1>1, <1>2, RemoveIs DEF NotAfter
<1>5. /\ IsGraph(f) /\ Events(f) = K /\ Agrees(h, f, K) /\ Edges(f) \subseteq Edges(h)
  BY <1>3, <1>4, DropIs
<1>6. d = DisconnectRead(f, e) BY <1>2 DEF Detached
<1>7. /\ SameBut(f, d) /\ d.mo = f.mo
      /\ \A a, b : <<a, b>> \in d.rf <=> <<a, b>> \in f.rf /\ b # e
      /\ \A a, b : <<a, b>> \in d.sw <=> <<a, b>> \in f.sw /\ b # e
  BY <1>5, <1>6, DisconnectIs
<1>8. /\ IsGraph(d) /\ Events(d) = K /\ \A x : d.ev[x] = f.ev[x]
      /\ \A q, x : Precedes(d, q, x) <=> Precedes(f, q, x)
  BY <1>5, <1>7, SameButIs DEF SameBut
<1>9. Shaped(h) /\ Shaped(f) /\ Shaped(d) BY <1>5, <1>8 DEF IsGraph, Shaped
<1>10. \A x \in K : d.ev[x] = h.ev[x] BY <1>5, <1>8 DEF Agrees
<1>11. /\ \A a, b \in K : <<a, b>> \in MoBefore(h) <=> <<a, b>> \in MoBefore(d)
       /\ \A l \in Locations : \A a \in K : a \in ToSet(h.mo[l]) <=> a \in ToSet(d.mo[l])
  <2>1. MoBefore(d) = MoBefore(f) BY <1>7 DEF MoBefore
  <2> QED BY <1>5, <1>7, <2>1 DEF Agrees
<1>12. \A q : Precedes(h, q, e) <=> Precedes(d, q, e)
  <2>1. SamePairs(h, f, K) BY <1>5, <1>9, SamePairsIs
  <2>2. \A q : Precedes(h, q, e) <=> Precedes(f, q, e) BY <1>3, <2>1 DEF SamePairs, Precedes
  <2> QED BY <1>8, <2>2
<1>13. Edges(d) \subseteq Edges(f)
  <2>1. \A p \in d.rf : p \in f.rf
    <3>1. d.rf \subseteq Events(d) \X Events(d) BY <1>8 DEF IsGraph, EdgesTyped
    <3>2. \A p \in d.rf : p = <<p[1], p[2]>> BY <3>1
    <3> QED BY <1>7, <3>2
  <2>2. \A p \in d.sw : p \in f.sw
    <3>1. d.sw \subseteq Events(d) \X Events(d) BY <1>8 DEF IsGraph, EdgesTyped
    <3>2. \A p \in d.sw : p = <<p[1], p[2]>> BY <3>1
    <3> QED BY <1>7, <3>2
  <2>3. PoEdges(d) = PoEdges(f) /\ d.tcj = f.tcj BY <1>7, SameButIs DEF SameBut
  <2> QED BY <2>1, <2>2, <2>3 DEF Edges
<1>14. \A a, b : <<a, b>> \in Edges(d) => a \in K \ {e} /\ <<a, b>> \in Edges(h)
  <2>1. Edges(d) \subseteq Events(d) \X Events(d) BY <1>9, EdgesIn DEF Shaped
  <2>2. \A a, b : <<a, b>> \in Edges(d) => <<a, b>> \in Edges(h) /\ a \in K /\ b \in K BY <1>5, <1>8, <1>13, <2>1
  <2> QED BY <1>4, <2>2
<1>15. PICK M : M = K \ {e} OBVIOUS
<1>16. Agrees(h, d, M)
  <2>1. \A p \in Edges(h) : p[2] \in M => p[1] \in M
    <3>1. Edges(h) \subseteq Events(h) \X Events(h) BY <1>9, EdgesIn DEF Shaped
    <3>2. ASSUME NEW p \in Edges(h), p[2] \in M, p[1] = e PROVE FALSE
      <4>1. p = <<e, p[2]>> BY <3>1, <3>2
      <4>2. <<e, p[2]>> \in Edges(h) BY <4>1
      <4> QED BY <1>4, <1>15, <3>2, <4>2
    <3> QED BY <1>4, <1>15, <3>2
  <2>2. Agrees(h, f, M) BY <1>5, <1>15, <2>1, AgreesLess
  <2>3. \A a, b : b \in M /\ (<<a, b>> \in Edges(f) \/ <<a, b>> \in Edges(d)) => a \in M
    <3>1. ASSUME NEW a, NEW b \in M, <<a, b>> \in Edges(f) PROVE a \in M
      <4> DEFINE p == <<a, b>>
      <4>1. p \in Edges(h) /\ p[1] = a /\ p[2] = b BY <1>5, <3>1
      <4> QED BY <2>1, <4>1
    <3> QED BY <1>13, <3>1
  <2>4. \A a, b \in M : (<<a, b>> \in f.rf <=> <<a, b>> \in d.rf) /\ (<<a, b>> \in f.sw <=> <<a, b>> \in d.sw)
                         /\ (<<a, b>> \in f.tcj <=> <<a, b>> \in d.tcj)
    BY <1>7, <1>15 DEF SameBut
  <2>5. MoBefore(d) = MoBefore(f) BY <1>7 DEF MoBefore
  <2>6. \A l \in Locations : \A a \in M : a \in ToSet(f.mo[l]) <=> a \in ToSet(d.mo[l]) BY <1>7
  <2>7. M \subseteq Events(f) /\ M \subseteq Events(d) /\ \A x \in M : f.ev[x] = d.ev[x] BY <1>5, <1>8, <1>15
  <2>8. Agrees(f, d, M) BY <1>5, <1>8, <2>3, <2>4, <2>5, <2>6, <2>7, EditAgrees
  <2> QED BY <2>2, <2>8, AgreesTransitive
<1>17. M \cup {e} = K BY <1>3, <1>15
<1>18. Cut(h, d, M, e)
  <2>1. \A a : <<a, e>> \notin d.rf /\ <<a, e>> \notin d.sw BY <1>7
  <2> QED BY <1>3, <1>8, <1>10, <1>11, <1>12, <1>14, <1>15, <1>16, <1>17, <2>1 DEF Cut
<1> QED BY <1>1, <1>15, <1>18

\* What get_consistent_writes returns for an event with parents.
LEMMA WritesForExact ==
  ASSUME NEW d, NEW e, NEW q, IsGraph(d), Precedes(d, q, e)
  PROVE  \A w : w \in WritesFor(d, e) <=>
           /\ w \in ToSet(d.mo[Loc(d, e)])
           /\ \A r : Precedes(d, r, e) => w \in FindConsistentWrites(d, r, Loc(d, e), IsRmw(d, e))
<1>1. PICK R : R = PoEdges(d) \cup d.tcj OBVIOUS
<1>2. R \subseteq Events(d) \X Events(d) BY <1>1, PoIs DEF IsGraph, EdgesTyped
<1>3. \A r : r \in ParentEvents(d, e) <=> Precedes(d, r, e)
  <2>1. \A r : r \in Sources(R, e) <=> <<r, e>> \in R BY <1>2, TargetsIs
  <2> QED BY <1>1, <2>1 DEF ParentEvents, Precedes
<1>4. ParentEvents(d, e) # {} BY <1>3
<1>5. \A r, l, m : ForSingleParent(d, NoPotential, l, m, r) = FindConsistentWrites(d, r, l, m)
          \/ r \notin Events(d)
  <2>1. ASSUME NEW r \in Events(d), NEW l, NEW m
        PROVE  ForSingleParent(d, NoPotential, l, m, r) = FindConsistentWrites(d, r, l, m)
    <3>1. r[1] \in Threads BY DEF IsGraph, PoTyped
    <3>2. DOMAIN NoPotential[r[1]] = {} BY <3>1 DEF NoPotential
    <3> QED BY <3>2 DEF ForSingleParent
  <2> QED BY <2>1
<1>6. \A r : Precedes(d, r, e) => r \in Events(d)
  <2>1. \A r : <<r, e>> \in R => r \in Events(d) BY <1>2
  <2> QED BY <1>1, <2>1 DEF Precedes
<1>7. \A w : w \in WritesFor(d, e) <=>
        /\ w \in ToSet(d.mo[Loc(d, e)])
        /\ \A r \in ParentEvents(d, e) : w \in ForSingleParent(d, NoPotential, Loc(d, e), IsRmw(d, e), r)
  BY <1>4 DEF WritesFor, GetConsistentWrites, IsRmw
<1> QED BY <1>3, <1>5, <1>6, <1>7

\* What such an event takes, its parents' searches find.
LEMMA WritesForIs ==
  ASSUME NEW d, NEW e, NEW q, NEW w, IsGraph(d), Precedes(d, q, e), w \in WritesFor(d, e)
  PROVE  /\ w \in ToSet(d.mo[Loc(d, e)])
         /\ \A r : Precedes(d, r, e) => w \in FindConsistentWrites(d, r, Loc(d, e), IsRmw(d, e))
BY WritesForExact

\* A read fits when it reads a write that is there, and follows it in mo if it writes.
LEMMA ReadFits ==
  ASSUME NEW k, NEW K, NEW x, NEW w \in K, IsGraph(k), x \notin K, IsRead(k, x), ReadsFrom(k, w, x),
         \E q : Precedes(k, q, x),
         \A l \in Locations : x \in ToSet(k.mo[l]) <=> IsRmw(k, x) /\ Loc(k, x) = l,
         IsRmw(k, x) => <<w, x>> \in MoBefore(k) /\ \A r \in K : <<w, r>> \in k.rf => ~IsRmw(k, r),
         \A s : <<s, x>> \in k.sw => Releases(k, s, w)
  PROVE  Fits(k, K, x) /\ Above(k, K, x)
<1>1. \A v : <<v, x>> \in k.rf <=> v = w BY DEF ReadsFrom
<1>2. IsRmw(k, x) <=> IsWrite(k, x) BY DEF IsRead, IsRmw, IsWrite, ReadKinds, RmwKinds, WriteKinds
<1>3. \A s : <<s, x>> \in k.sw => Reason(k, K, x, s)
  <2>1. ASSUME NEW s, <<s, x>> \in k.sw PROVE Reason(k, K, x, s)
    <3>1. Releases(k, s, w) BY <2>1
    <3>2. Justifies(k, w, x, s, x) BY <1>1, <3>1 DEF Justifies, Releases
    <3> QED BY <3>2 DEF Reason
  <2> QED BY <2>1
<1>4. Fits(k, K, x) BY <1>1, <1>2, <1>3 DEF Fits
<1>5. ASSUME NEW b \in K, <<x, b>> \in MoBefore(k) PROVE <<w, b>> \in MoBefore(k)
  <2>1. \E l \in Locations : x \in ToSet(k.mo[l])
    <3>1. PICK l \in Locations : <<x, b>> \in Order(k.mo[l]) BY <1>5, MoIs DEF IsGraph
    <3>2. x \in ToSet(k.mo[l]) BY <3>1, MoIs DEF IsGraph
    <3> QED BY <3>2
  <2>2. <<w, x>> \in MoBefore(k) BY <2>1
  <2> QED BY <1>5, <2>2, MoStrict DEF IsGraph
<1>6. Above(k, K, x) BY <1>1, <1>5 DEF Above
<1> QED BY <1>4, <1>6

\* A graph that is complete but for what the read e, that nothing comes after, reads.
Open(d, K, e) ==
  /\ IsGraph(d) /\ Events(d) = K \cup {e} /\ e \notin K
  /\ \A a, b : <<a, b>> \in Edges(d) => a \in K
  /\ \A a : <<a, e>> \notin d.rf /\ <<a, e>> \notin d.sw
  /\ IsRead(d, e) /\ Loc(d, e) \in Locations /\ \E q : Precedes(d, q, e)
  /\ GoodOn(d, K)
  /\ ~IsRmw(d, e) => \A l \in Locations : e \notin ToSet(d.mo[l])

\* Good graphs that agree with d on K and have one event more.
Result(d, k, K, e) ==
  /\ IsGraph(k) /\ Events(k) = K \cup {e} /\ e \notin K /\ Agrees(d, k, K)
  /\ GoodOn(k, Events(k))
  /\ CoherentOn(d, K) => CoherentOn(k, Events(k))

\* In a cut graph no edge but those into e touches e.
LEMMA OpenIs ==
  ASSUME NEW d, NEW K, NEW e, Open(d, K, e)
  PROVE  /\ \A a, b : <<a, b>> \in d.rf => a \in K /\ b \in K
         /\ \A a, b : <<a, b>> \in d.sw => a \in K /\ b \in K
         /\ \A a, b : Precedes(d, a, b) => a \in K
         /\ \A a, b : <<a, b>> \in PoEdges(d) => a \in K
         /\ \A l \in Locations : \A a : a \in ToSet(d.mo[l]) /\ a # e => a \in K /\ IsWrite(d, a) /\ Loc(d, a) = l
         /\ \A s, w : w \in K /\ Releases(d, s, w) => s \in K
<1>1. \A a, b : <<a, b>> \in d.rf \/ <<a, b>> \in d.sw \/ <<a, b>> \in d.tcj \/ <<a, b>> \in PoEdges(d) => a \in K
  BY DEF Open, Edges
<1>2. \A a, b : <<a, b>> \in d.rf \/ <<a, b>> \in d.sw => b \in K
  <2>1. d.rf \subseteq Events(d) \X Events(d) /\ d.sw \subseteq Events(d) \X Events(d) BY DEF Open, IsGraph, EdgesTyped
  <2>2. \A a, b : <<a, b>> \in d.rf \/ <<a, b>> \in d.sw => b \in Events(d) BY <2>1
  <2> QED BY <2>2 DEF Open
<1>3. \A l \in Locations : \A a : a \in ToSet(d.mo[l]) /\ a # e => a \in K /\ IsWrite(d, a) /\ Loc(d, a) = l
  <2>1. \A l \in Locations : ToSet(d.mo[l]) \subseteq Events(d) BY MoIs DEF Open, IsGraph
  <2> QED BY <2>1 DEF Open, GoodOn, CompleteOn
<1>4. ASSUME NEW s, NEW w \in K, <<s, w>> \in PoPlus(d) PROVE s \in K
  <2>1. PICK R : R = PoEdges(d) OBVIOUS
  <2>2. R \subseteq Events(d) \X Events(d) /\ IsFiniteSet(Events(d)) BY <2>1, PoIs DEF Open, IsGraph, EventsTyped
  <2>3. <<s, w>> \in R \/ \E c \in Events(d) : <<s, c>> \in R /\ <<c, w>> \in Plus(R, Events(d))
    BY <1>4, <2>1, <2>2, PlusFirst DEF PoPlus
  <2> QED BY <1>1, <2>1, <2>3
<1>5. \A s, w : w \in K /\ Releases(d, s, w) => s \in K BY <1>4 DEF Releases
<1> QED BY <1>1, <1>2, <1>3, <1>5 DEF Precedes

\* Giving e a write it may read makes e fit again.
LEMMA RewiredIs ==
  ASSUME NEW d, NEW K, NEW e, NEW w, NEW k, Open(d, K, e), w \in WritesFor(d, e), w # e, k = Rewired(d, w, e)
  PROVE  Result(d, k, K, e)
<1>1. PICK l \in Locations : l = Loc(d, e) BY DEF Open
<1>2. IsGraph(d) /\ Events(d) = K \cup {e} /\ e \notin K BY DEF Open
<1>3. Shaped(d) /\ MoTyped(d) BY <1>2 DEF IsGraph, Shaped
<1>4. /\ w \in ToSet(d.mo[l])
      /\ \A q : Precedes(d, q, e) => w \in FindConsistentWrites(d, q, l, IsRmw(d, e))
  <2>1. PICK q : Precedes(d, q, e) BY DEF Open
  <2> QED BY <1>1, <1>2, <2>1, WritesForIs
<1>5. /\ \A a, b : <<a, b>> \in d.rf => a \in K /\ b \in K
      /\ \A a, b : <<a, b>> \in d.sw => a \in K /\ b \in K
      /\ \A a, b : Precedes(d, a, b) => a \in K
      /\ \A a, b : <<a, b>> \in PoEdges(d) => a \in K
      /\ \A s, v : v \in K /\ Releases(d, s, v) => s \in K
  BY OpenIs
<1>6. w \in K /\ IsWrite(d, w) /\ Loc(d, w) = l BY <1>4, OpenIs
<1>7. PICK f : f = AddRf(d, w, e) OBVIOUS
<1>8. /\ SameBut(d, f) /\ f.mo = d.mo
      /\ \A a, b : <<a, b>> \in f.rf <=> <<a, b>> \in d.rf \/ (a = w /\ b = e)
      /\ \A a, b : <<a, b>> \in d.sw => <<a, b>> \in f.sw
      /\ \A a, b : <<a, b>> \in f.sw => <<a, b>> \in d.sw \/ (b = e /\ Releases(d, a, w))
  BY <1>2, <1>6, <1>7, AddRfIs
<1>9. IsGraph(f) /\ Events(f) = Events(d) /\ Loc(f, e) = l BY <1>1, <1>8, SameButIs DEF SameBut
<1>10. /\ SameBut(d, k) /\ k.rf = f.rf /\ k.sw = f.sw
       /\ IsRmw(d, e) => Placed(f, k, w, e)
       /\ ~IsRmw(d, e) => k.mo = d.mo
  <2>1. Kind(d, e) \in RmwKinds <=> IsRmw(d, e) BY DEF IsRmw
  <2>2. CASE IsRmw(d, e)
    <3>1. PICK j : j = InsertMoAfter(f, w, e) OBVIOUS
    <3>2. SameBut(f, j) /\ j.rf = f.rf /\ j.sw = f.sw /\ Placed(f, j, w, e)
      <4>1. w \in ToSet(f.mo[Loc(f, e)]) /\ e \in Events(f) BY <1>1, <1>2, <1>4, <1>8, <1>9
      <4> QED BY <1>9, <3>1, <4>1, InsertIs
    <3>3. k = j
      <4>1. k = Finalize(j) BY <1>7, <2>1, <2>2, <3>1 DEF Rewired
      <4> QED BY <3>2, <4>1, FinalizeSame DEF SameBut
    <3> QED BY <1>8, <2>2, <3>2, <3>3 DEF SameBut
  <2>3. CASE ~IsRmw(d, e)
    <3>1. k = Finalize(f) BY <1>7, <2>1, <2>3 DEF Rewired
    <3>2. k = f BY <1>9, <3>1, FinalizeSame
    <3> QED BY <1>8, <2>3, <3>2
  <2> QED BY <2>2, <2>3
<1>11. /\ Events(k) = Events(d) /\ IsGraph(k) /\ PoEdges(k) = PoEdges(d) /\ k.tcj = d.tcj
       /\ \A x : k.ev[x] = d.ev[x]
       /\ \A x : /\ Kind(k, x) = Kind(d, x) /\ Loc(k, x) = Loc(d, x) /\ (IsRead(k, x) <=> IsRead(d, x))
                 /\ (IsWrite(k, x) <=> IsWrite(d, x)) /\ (IsRmw(k, x) <=> IsRmw(d, x))
       /\ \A q, x : Precedes(k, q, x) <=> Precedes(d, q, x)
       /\ \A s, v : Releases(k, s, v) <=> Releases(d, s, v)
  BY <1>10, SameButIs DEF SameBut
<1>12. Shaped(k) /\ MoTyped(k) BY <1>11 DEF IsGraph, Shaped
<1>13. /\ \A a, b : <<a, b>> \in k.rf <=> <<a, b>> \in d.rf \/ (a = w /\ b = e)
       /\ \A a, b : <<a, b>> \in d.sw => <<a, b>> \in k.sw
       /\ \A a, b : <<a, b>> \in k.sw => <<a, b>> \in d.sw \/ (b = e /\ Releases(d, a, w))
  BY <1>8, <1>10
<1>14. /\ \A a, b : a # e /\ b # e => (<<a, b>> \in MoBefore(k) <=> <<a, b>> \in MoBefore(d))
       /\ \A m \in Locations : \A a : a # e => (a \in ToSet(k.mo[m]) <=> a \in ToSet(d.mo[m]))
  <2>1. \A j : j.mo = d.mo => MoBefore(j) = MoBefore(d) BY DEF MoBefore
  <2> QED BY <1>8, <1>10, <2>1 DEF Placed
<1>15. \A m \in Locations : e \in ToSet(k.mo[m]) <=> IsRmw(k, e) /\ Loc(k, e) = m
  <2>1. CASE IsRmw(d, e) BY <1>1, <1>9, <1>10, <1>11, <2>1 DEF Placed
  <2>2. CASE ~IsRmw(d, e) BY <1>10, <1>11, <2>2 DEF Open
  <2> QED BY <2>1, <2>2
<1>16. \A a, b : <<a, b>> \in Edges(k) => a \in K
  <2>1. \A a, b : <<a, b>> \in k.rf => a \in K BY <1>5, <1>6, <1>13
  <2>2. \A a, b : <<a, b>> \in k.sw => a \in K BY <1>5, <1>6, <1>13
  <2>3. \A a, b : <<a, b>> \in k.tcj \/ <<a, b>> \in PoEdges(k) => a \in K BY <1>5, <1>11 DEF Precedes
  <2> QED BY <2>1, <2>2, <2>3 DEF Edges
<1>17. Extends(k, K, e) BY <1>2, <1>11, <1>16 DEF Extends
<1>18. Agrees(d, k, K)
  <2>1. \A a, b : b \in K /\ (<<a, b>> \in Edges(d) \/ <<a, b>> \in Edges(k)) => a \in K
    BY <1>16 DEF Open
  <2>2. \A a, b \in K : (<<a, b>> \in d.rf <=> <<a, b>> \in k.rf) /\ (<<a, b>> \in d.sw <=> <<a, b>> \in k.sw)
                         /\ (<<a, b>> \in d.tcj <=> <<a, b>> \in k.tcj)
    BY <1>2, <1>11, <1>13
  <2>3. \A a, b \in K : <<a, b>> \in MoBefore(d) <=> <<a, b>> \in MoBefore(k) BY <1>2, <1>14
  <2>4. \A m \in Locations : \A a \in K : a \in ToSet(d.mo[m]) <=> a \in ToSet(k.mo[m]) BY <1>2, <1>14
  <2>5. K \subseteq Events(d) /\ K \subseteq Events(k) /\ \A x \in K : d.ev[x] = k.ev[x] BY <1>2, <1>11
  <2> QED BY <1>2, <1>11, <2>1, <2>2, <2>3, <2>4, <2>5, EditAgrees
<1>19. GoodOn(k, K) BY <1>3, <1>12, <1>18, GoodAgrees DEF Open
<1>20. Fits(k, K, e) /\ Above(k, K, e)
  <2>1. ReadsFrom(k, w, e) BY <1>1, <1>5, <1>6, <1>11, <1>13, <1>2 DEF ReadsFrom
  <2>2. IsRead(k, e) /\ \E q : Precedes(k, q, e) BY <1>11 DEF Open
  <2>3. ASSUME IsRmw(k, e) PROVE <<w, e>> \in MoBefore(k) /\ \A r \in K : <<w, r>> \in k.rf => ~IsRmw(k, r)
    <3>1. IsRmw(d, e) BY <1>11, <2>3
    <3>2. <<w, e>> \in MoBefore(k) BY <1>10, <3>1 DEF Placed
    <3>3. PICK q : Precedes(d, q, e) BY DEF Open
    <3>4. ~Consumed(d, w)
      <4>1. w \in FindConsistentWrites(d, q, l, TRUE) BY <1>4, <3>1, <3>3
      <4> QED BY <1>3, <4>1, SearchIs DEF Shaped
    <3>5. ASSUME NEW r \in K, <<w, r>> \in k.rf, IsRmw(k, r) PROVE FALSE
      <4>1. <<w, r>> \in d.rf BY <1>2, <1>13, <3>5
      <4>2. r \in OfKind(d, RmwKinds) BY <1>2, <1>11, <3>5 DEF OfKind, IsRmw
      <4> QED BY <3>4, <4>1, <4>2 DEF Consumed
    <3> QED BY <3>2, <3>5
  <2>4. \A s : <<s, e>> \in k.sw => Releases(k, s, w) BY <1>2, <1>5, <1>11, <1>13
  <2> QED BY <1>2, <1>6, <1>11, <1>15, <2>1, <2>2, <2>3, <2>4, ReadFits
<1>21. NothingStale(k, e)
  <2>1. ASSUME NEW v, NEW q, <<v, e>> \in k.rf, Precedes(k, q, e) PROVE Fresh(k, q, v)
    <3>1. v = w BY <1>2, <1>5, <1>13, <2>1
    <3>2. q \in K /\ w \in FindConsistentWrites(d, q, l, IsRmw(d, e)) BY <1>4, <1>5, <1>11, <2>1
    <3>3. IsRmw(d, e) \in BOOLEAN BY DEF IsRmw
    <3>4. CompleteOn(d, K) BY DEF Open, GoodOn
    <3> QED BY <1>3, <1>6, <1>12, <1>18, <3>1, <3>2, <3>3, <3>4, SearchFresh
  <2> QED BY <2>1 DEF NothingStale
<1>22. GoodOn(k, K \cup {e}) BY <1>12, <1>17, <1>19, <1>20, GoodExtends
<1>23. ASSUME CoherentOn(d, K) PROVE CoherentOn(k, K \cup {e})
  <2>1. CoherentOn(k, K) BY <1>3, <1>12, <1>18, <1>23, CoherentAgrees DEF Open, GoodOn
  <2> QED BY <1>12, <1>17, <1>19, <1>20, <1>21, <2>1, CoherentExtends
<1> QED BY <1>2, <1>11, <1>18, <1>22, <1>23 DEF Result

-----------------------------------------------------------------------------
(* mutate_rf_edge.                                                         *)

GoodGraph(h) == IsGraph(h) /\ GoodOn(h, Events(h))

\* What holds of a graph holds of a part that no edge enters.
LEMMA GoodLess ==
  ASSUME NEW h, NEW k, NEW E, NEW K, Shaped(h), Shaped(k), Agrees(h, k, K), GoodOn(h, E), K \subseteq E
  PROVE  GoodOn(h, K)
<1>1. SamePairs(h, k, K) BY SamePairsIs
<1>2. CompleteOn(h, K)
  <2>1. ASSUME NEW e \in K, IsRead(h, e) PROVE \E w \in K : ReadsFrom(h, w, e)
    <3>1. PICK w \in E : ReadsFrom(h, w, e) BY <2>1 DEF GoodOn, CompleteOn
    <3>2. <<w, e>> \in h.rf BY <3>1 DEF ReadsFrom
    <3>3. w \in K BY <1>1, <2>1, <3>2 DEF SamePairs
    <3> QED BY <3>1, <3>3
  <2> QED BY <2>1 DEF GoodOn, CompleteOn
<1>3. ExclusiveOn(h, K) BY DEF GoodOn, ExclusiveOn
<1>4. JustifiedOn(h, K)
  <2>1. ASSUME NEW s, NEW e \in K, <<s, e>> \in h.sw PROVE \E v, r \in K : Justifies(h, v, r, s, e)
    <3>1. PICK v \in E, r \in E : Justifies(h, v, r, s, e) BY <2>1 DEF GoodOn, JustifiedOn
    <3>2. r \in K BY <1>1, <2>1, <3>1 DEF SamePairs, Justifies
    <3>3. v \in K BY <1>1, <3>1, <3>2 DEF SamePairs, Justifies
    <3> QED BY <3>1, <3>2, <3>3
  <2> QED BY <2>1 DEF JustifiedOn
<1>5. AcyclicOn(h, K) /\ ParentedOn(h, K) BY DEF GoodOn, AcyclicOn, ParentedOn
<1> QED BY <1>2, <1>3, <1>4, <1>5 DEF GoodOn

\* Events that are no reads and depend on no read stay.
Keeps(h, K) ==
  \A S : /\ S \subseteq Events(h) /\ \A s \in S : ~IsRead(h, s)
         /\ \A a, b : b \in S /\ <<a, b>> \in Edges(h) => a \in S
         => S \subseteq K

\* What does not depend on a read keeps its parents and the seed.
LEMMA KeepsNotAfter ==
  ASSUME NEW h, NEW e \in Events(h), Shaped(h), IsRead(h, e)
  PROVE  Keeps(h, NotAfter(h, e) \ {e})
<1>1. SUFFICES ASSUME NEW S, S \subseteq Events(h), \A s \in S : ~IsRead(h, s),
                      \A a, b : b \in S /\ <<a, b>> \in Edges(h) => a \in S
               PROVE  S \subseteq NotAfter(h, e) \ {e}
  BY DEF Keeps
<1>2. PICK R : R = Edges(h) OBVIOUS
<1>3. R \subseteq Events(h) \X Events(h) /\ IsFiniteSet(Events(h)) BY <1>2, EdgesIn DEF Shaped, EventsTyped
<1>4. SameInto(R, R, S)
  <2>1. \A p \in R : p = <<p[1], p[2]>> BY <1>3
  <2>2. \A p \in R : p[2] \in S => p[1] \in S BY <1>1, <1>2, <2>1
  <2> QED BY <2>2 DEF SameInto
<1>5. \A a, b : b \in S /\ <<a, b>> \in Plus(R, Events(h)) => a \in S BY <1>3, <1>4, PlusInto
<1>6. e \notin S BY <1>1
<1> QED BY <1>1, <1>2, <1>5, <1>6 DEF NotAfter

\* k comes from h by a mutation at e that keeps the part K.
Mutation(h, k, K, e) ==
  /\ GoodGraph(k) /\ Events(k) = K \cup {e} /\ e \notin K /\ Agrees(h, k, K) /\ Keeps(h, K)
  /\ IsCoherent(h) => IsCoherent(k)

\* The cut of a good graph is ready for a new rf edge.
LEMMA CutOpen ==
  ASSUME NEW h, NEW d, NEW K, NEW e \in Events(h), GoodGraph(h), IsRead(h, e), Cut(h, d, K, e)
  PROVE  Open(d, K, e)
<1>1. IsGraph(d) /\ Shaped(d) /\ Shaped(h) BY DEF GoodGraph, IsGraph, Shaped, Cut
<1>2. Agrees(h, d, K) /\ K \subseteq Events(h) BY DEF Cut
<1>3. GoodOn(h, K) BY <1>1, <1>2, GoodLess DEF GoodGraph
<1>4. GoodOn(d, K) BY <1>1, <1>2, <1>3, GoodAgrees
<1>5. d.ev[e] = h.ev[e] BY DEF Cut
<1>6. (IsRead(d, e) <=> IsRead(h, e)) /\ (IsRmw(d, e) <=> IsRmw(h, e)) /\ Loc(d, e) = Loc(h, e)
  BY <1>5 DEF IsRead, IsRmw, Kind, Loc
<1>7. Loc(h, e) \in Locations
  <2>1. Kind(h, e) # "FENCE" BY DEF IsRead, ReadKinds
  <2> QED BY <1>1, <2>1 DEF Shaped, EventsTyped
<1>8. \E q : Precedes(d, q, e)
  <2>1. \E q : Precedes(h, q, e) BY DEF GoodGraph, GoodOn, ParentedOn
  <2> QED BY <2>1 DEF Cut
<1>9. ASSUME ~IsRmw(d, e), NEW l \in Locations PROVE e \notin ToSet(d.mo[l])
  <2>1. e \in ToSet(d.mo[l]) <=> e \in ToSet(h.mo[l]) BY DEF Cut
  <2>2. ~IsWrite(h, e) BY <1>6, <1>9 DEF IsRead, IsWrite, IsRmw, ReadKinds, WriteKinds, RmwKinds
  <2> QED BY <2>1, <2>2 DEF GoodGraph, GoodOn, CompleteOn
<1> QED BY <1>1, <1>4, <1>6, <1>7, <1>8, <1>9 DEF Cut, Open

\* mutate_rf_edge makes a graph that agrees on all that does not depend on e, with e fitting again.
LEMMA MutateRfIs ==
  ASSUME NEW h, NEW e \in Events(h), NEW w, NEW k, GoodGraph(h), IsRead(h, e),
         w \in WritesFor(Detached(h, e), e), w # e, k = Rewired(Detached(h, e), w, e)
  PROVE  Mutation(h, k, NotAfter(h, e) \ {e}, e)
<1>1. PICK d : d = Detached(h, e) OBVIOUS
<1>2. PICK K : K = NotAfter(h, e) \ {e} OBVIOUS
<1>3. <<e, e>> \notin Plus(Edges(h), Events(h)) BY DEF GoodGraph, GoodOn, AcyclicOn
<1>4. Cut(h, d, K, e) BY <1>1, <1>2, <1>3, DetachedIs DEF GoodGraph
<1>5. Open(d, K, e) BY <1>4, CutOpen
<1>6. Result(d, k, K, e) BY <1>1, <1>5, RewiredIs
<1>7. Agrees(h, d, K) BY <1>4 DEF Cut
<1>8. Agrees(h, k, K) BY <1>6, <1>7, AgreesTransitive DEF Result
<1>9. Shaped(h) /\ MoTyped(h) /\ Shaped(d) /\ MoTyped(d) /\ Shaped(k) /\ MoTyped(k)
  BY <1>5, <1>6 DEF GoodGraph, IsGraph, Shaped, Open, Result
<1>10. Keeps(h, K) BY <1>2, <1>9, KeepsNotAfter
<1>11. ASSUME IsCoherent(h) PROVE IsCoherent(k)
  <2>1. CoherentOn(h, Events(h)) BY <1>9, <1>11, CoherentIs
  <2>2. K \subseteq Events(h) BY <1>2 DEF NotAfter
  <2>3. CoherentOn(h, K) BY <2>1, <2>2 DEF CoherentOn
  <2>4. CompleteOn(h, K)
    <3>1. GoodOn(h, K) BY <1>7, <1>9, <2>2, GoodLess DEF GoodGraph
    <3> QED BY <3>1 DEF GoodOn
  <2>5. CoherentOn(d, K) BY <1>7, <1>9, <2>3, <2>4, CoherentAgrees
  <2>6. CoherentOn(k, Events(k)) BY <1>6, <2>5 DEF Result
  <2> QED BY <1>9, <2>6, CoherentIs
<1> QED BY <1>2, <1>6, <1>8, <1>10, <1>11 DEF Mutation, GoodGraph, Result

\* A graph that is complete but for what two rmw-like events, old and e, read.
OpenTwo(d, M, old, e, l) ==
  /\ IsGraph(d) /\ Events(d) = M \cup {old, e} /\ old # e /\ old \notin M /\ e \notin M /\ l \in Locations
  /\ \A a, b : <<a, b>> \in Edges(d) => a \in M
  /\ \A a : <<a, e>> \notin d.rf /\ <<a, e>> \notin d.sw /\ <<a, old>> \notin d.rf /\ <<a, old>> \notin d.sw
  /\ \A x \in {old, e} : IsRead(d, x) /\ IsRmw(d, x) /\ Loc(d, x) = l /\ \E q : Precedes(d, q, x)
  /\ GoodOn(d, M)
  /\ \A m \in Locations : e \notin ToSet(d.mo[m]) /\ old \notin ToSet(d.mo[m])

ResultTwo(d, k, M, old, e) ==
  /\ IsGraph(k) /\ Events(k) = M \cup {old, e} /\ Agrees(d, k, M)
  /\ GoodOn(k, Events(k))
  /\ CoherentOn(d, M) => CoherentOn(k, Events(k))

BothRewired(d, w1, w2, old, e) ==
  Finalize(InsertMoAfter(InsertMoAfter(AddRf(AddRf(d, w1, old), w2, e), w2, e), w1, old))

\* The two edits of rf and the two of mo.
Wired(d, k1, k, w1, w2, old, e) ==
  /\ SameBut(d, k1) /\ SameBut(d, k) /\ k1.mo = d.mo
  /\ \A a, b : <<a, b>> \in k1.rf <=> <<a, b>> \in d.rf \/ (a = w1 /\ b = old)
  /\ \A a, b : <<a, b>> \in d.sw => <<a, b>> \in k1.sw
  /\ \A a, b : <<a, b>> \in k1.sw => <<a, b>> \in d.sw \/ (b = old /\ Releases(d, a, w1))
  /\ \A a, b : <<a, b>> \in k.rf <=> <<a, b>> \in d.rf \/ (a = w1 /\ b = old) \/ (a = w2 /\ b = e)
  /\ \A a, b : <<a, b>> \in d.sw => <<a, b>> \in k.sw
  /\ \A a, b : <<a, b>> \in k.sw =>
       <<a, b>> \in d.sw \/ (b = old /\ Releases(d, a, w1)) \/ (b = e /\ Releases(d, a, w2))
  /\ <<w1, old>> \in MoBefore(k) /\ <<w2, e>> \in MoBefore(k)
  /\ \A a, b : {a, b} \cap {old, e} = {} => (<<a, b>> \in MoBefore(k) <=> <<a, b>> \in MoBefore(d))
  /\ \A m \in Locations : \A a : a # e /\ a # old => (a \in ToSet(k.mo[m]) <=> a \in ToSet(d.mo[m]))
  /\ \A m \in Locations : (old \in ToSet(k.mo[m]) <=> m = Loc(d, old)) /\ (e \in ToSet(k.mo[m]) <=> m = Loc(d, e))

\* What the two new rf edges of a chain mutation and their sw edges are.
LEMMA BothWired ==
  ASSUME NEW d, NEW l \in Locations, NEW old, NEW e, NEW w1, NEW w2, NEW k1, NEW k, IsGraph(d),
         old \in Events(d), e \in Events(d), w1 \in Events(d), w2 \in Events(d), IsWrite(d, w1), IsWrite(d, w2),
         Loc(d, old) = l, Loc(d, e) = l, w1 \in ToSet(d.mo[l]), w2 \in ToSet(d.mo[l]),
         {w1, w2} \cap {old, e} = {}, old # e, k1 = AddRf(d, w1, old), k = BothRewired(d, w1, w2, old, e)
  PROVE  Wired(d, k1, k, w1, w2, old, e)
<1>1. /\ SameBut(d, k1) /\ k1.mo = d.mo
      /\ \A a, b : <<a, b>> \in k1.rf <=> <<a, b>> \in d.rf \/ (a = w1 /\ b = old)
      /\ \A a, b : <<a, b>> \in d.sw => <<a, b>> \in k1.sw
      /\ \A a, b : <<a, b>> \in k1.sw => <<a, b>> \in d.sw \/ (b = old /\ Releases(d, a, w1))
  BY AddRfIs
<1>2. /\ IsGraph(k1) /\ Events(k1) = Events(d) /\ IsWrite(k1, w2) /\ Loc(k1, old) = l /\ Loc(k1, e) = l
      /\ \A s, w : Releases(k1, s, w) <=> Releases(d, s, w)
  BY <1>1, SameButIs DEF SameBut
<1>3. PICK k2 : k2 = AddRf(k1, w2, e) OBVIOUS
<1>4. /\ SameBut(k1, k2) /\ k2.mo = k1.mo
      /\ \A a, b : <<a, b>> \in k2.rf <=> <<a, b>> \in k1.rf \/ (a = w2 /\ b = e)
      /\ \A a, b : <<a, b>> \in k1.sw => <<a, b>> \in k2.sw
      /\ \A a, b : <<a, b>> \in k2.sw => <<a, b>> \in k1.sw \/ (b = e /\ Releases(k1, a, w2))
  BY <1>2, <1>3, AddRfIs
<1>5. IsGraph(k2) /\ Events(k2) = Events(d) /\ Loc(k2, old) = l /\ Loc(k2, e) = l
  BY <1>2, <1>4, SameButIs DEF SameBut
<1>6. PICK k3 : k3 = InsertMoAfter(k2, w2, e) OBVIOUS
<1>7. SameBut(k2, k3) /\ k3.rf = k2.rf /\ k3.sw = k2.sw /\ Placed(k2, k3, w2, e)
  <2>1. w2 \in ToSet(k2.mo[Loc(k2, e)]) /\ w2 # e BY <1>1, <1>4, <1>5
  <2> QED BY <1>5, <1>6, <2>1, InsertIs
<1>8. IsGraph(k3) /\ Events(k3) = Events(d) /\ Loc(k3, old) = l BY <1>5, <1>7, SameButIs DEF SameBut
<1>9. PICK k4 : k4 = InsertMoAfter(k3, w1, old) OBVIOUS
<1>10. SameBut(k3, k4) /\ k4.rf = k3.rf /\ k4.sw = k3.sw /\ Placed(k3, k4, w1, old)
  <2>1. w1 # old /\ w1 # e BY DEF Wired
  <2>2. w1 \in ToSet(k3.mo[l]) BY <1>1, <1>4, <1>7, <2>1 DEF Placed
  <2> QED BY <1>8, <1>9, <2>1, <2>2, InsertIs
<1>11. k = k4 BY <1>3, <1>6, <1>9, <1>10, FinalizeSame DEF BothRewired, SameBut
<1>12. SameBut(d, k) BY <1>1, <1>4, <1>7, <1>10, <1>11 DEF SameBut
<1>13. \A a, b : <<a, b>> \in k.rf <=> <<a, b>> \in d.rf \/ (a = w1 /\ b = old) \/ (a = w2 /\ b = e)
  BY <1>1, <1>4, <1>7, <1>10, <1>11
<1>14. \A a, b : <<a, b>> \in d.sw => <<a, b>> \in k.sw BY <1>1, <1>4, <1>7, <1>10, <1>11
<1>15. \A a, b : <<a, b>> \in k.sw =>
         <<a, b>> \in d.sw \/ (b = old /\ Releases(d, a, w1)) \/ (b = e /\ Releases(d, a, w2))
  BY <1>1, <1>2, <1>4, <1>7, <1>10, <1>11
<1>16. MoBefore(k2) = MoBefore(d) BY <1>1, <1>4 DEF MoBefore
<1>17. \A a, b : {a, b} \cap {old, e} = {} => (<<a, b>> \in MoBefore(k) <=> <<a, b>> \in MoBefore(d))
  <2>1. ASSUME NEW a, NEW b, {a, b} \cap {old, e} = {} PROVE <<a, b>> \in MoBefore(k) <=> <<a, b>> \in MoBefore(d)
    <3>1. a # old /\ a # e /\ b # old /\ b # e BY <2>1
    <3>2. <<a, b>> \in MoBefore(k) <=> <<a, b>> \in MoBefore(k3) BY <1>10, <1>11, <3>1 DEF Placed
    <3>3. <<a, b>> \in MoBefore(k3) <=> <<a, b>> \in MoBefore(k2) BY <1>7, <3>1 DEF Placed
    <3> QED BY <1>16, <3>2, <3>3
  <2> QED BY <2>1
<1>18. <<w1, old>> \in MoBefore(k) BY <1>10, <1>11 DEF Placed
<1>19. <<w2, e>> \in MoBefore(k)
  <2>1. <<w2, e>> \in MoBefore(k3) BY <1>7 DEF Placed
  <2>2. w2 # old OBVIOUS
  <2> QED BY <1>10, <1>11, <2>1, <2>2 DEF Placed
<1>20. \A m \in Locations : \A a : a # e /\ a # old => (a \in ToSet(k.mo[m]) <=> a \in ToSet(d.mo[m]))
  BY <1>1, <1>4, <1>7, <1>10, <1>11 DEF Placed
<1>21. \A m \in Locations : (old \in ToSet(k.mo[m]) <=> m = Loc(d, old)) /\ (e \in ToSet(k.mo[m]) <=> m = Loc(d, e))
  <2>1. \A m \in Locations : old \in ToSet(k.mo[m]) <=> m = l BY <1>8, <1>10, <1>11 DEF Placed
  <2>2. \A m \in Locations : e \in ToSet(k3.mo[m]) <=> m = l BY <1>5, <1>7 DEF Placed
  <2>3. \A m \in Locations : e \in ToSet(k.mo[m]) <=> m = l BY <1>10, <1>11, <2>2 DEF Placed
  <2> QED BY <2>1, <2>3
<1> QED BY <1>1, <1>12, <1>13, <1>14, <1>15, <1>17, <1>18, <1>19, <1>20, <1>21 DEF Wired

Grows(k, K, x) == GoodOn(k, K \cup {x}) /\ (CoherentOn(k, K) => CoherentOn(k, K \cup {x}))

\* One of the two events, once the other edges of the final graph are known.
LEMMA TwoFits ==
  ASSUME NEW d, NEW k, NEW K, NEW x, NEW w \in K, NEW l \in Locations, IsGraph(k), SameBut(d, k), Extends(k, K, x),
         IsRead(d, x), IsRmw(d, x), Loc(d, x) = l, \E q : Precedes(d, q, x), IsWrite(d, w), Loc(d, w) = l,
         GoodOn(k, K), \A v : <<v, x>> \in k.rf <=> v = w,
         \A m \in Locations : x \in ToSet(k.mo[m]) <=> m = l, <<w, x>> \in MoBefore(k),
         \A r \in K : <<w, r>> \in k.rf => ~IsRmw(d, r), \A s : <<s, x>> \in k.sw => Releases(d, s, w),
         \A q : Precedes(d, q, x) => Fresh(k, q, w)
  PROVE  Grows(k, K, x)
<1>1. /\ \A y : /\ Kind(k, y) = Kind(d, y) /\ Loc(k, y) = Loc(d, y)
                /\ (IsRead(k, y) <=> IsRead(d, y)) /\ (IsWrite(k, y) <=> IsWrite(d, y)) /\ (IsRmw(k, y) <=> IsRmw(d, y))
      /\ \A q, y : Precedes(k, q, y) <=> Precedes(d, q, y)
      /\ \A s, v : Releases(k, s, v) <=> Releases(d, s, v)
  BY SameButIs
<1>2. ReadsFrom(k, w, x) BY <1>1 DEF ReadsFrom
<1>3. x \notin K /\ Shaped(k) /\ MoTyped(k) BY DEF Extends, IsGraph, Shaped
<1>4. Fits(k, K, x) /\ Above(k, K, x)
  <2>1. IsRead(k, x) /\ \E q : Precedes(k, q, x) BY <1>1
  <2>2. \A m \in Locations : x \in ToSet(k.mo[m]) <=> IsRmw(k, x) /\ Loc(k, x) = m BY <1>1
  <2>3. IsRmw(k, x) => <<w, x>> \in MoBefore(k) /\ \A r \in K : <<w, r>> \in k.rf => ~IsRmw(k, r) BY <1>1
  <2>4. \A s : <<s, x>> \in k.sw => Releases(k, s, w) BY <1>1
  <2> QED BY <1>2, <1>3, <2>1, <2>2, <2>3, <2>4, ReadFits
<1>5. NothingStale(k, x) BY <1>1 DEF NothingStale
<1>6. GoodOn(k, K \cup {x}) BY <1>3, <1>4, GoodExtends
<1>7. CoherentOn(k, K) => CoherentOn(k, K \cup {x}) BY <1>3, <1>4, <1>5, CoherentExtends
<1> QED BY <1>6, <1>7 DEF Grows

\* After them both rmw-like events fit.
LEMMA TwoRewiredIs ==
  ASSUME NEW d, NEW M, NEW old, NEW e, NEW l, NEW w1, NEW w2, NEW k, OpenTwo(d, M, old, e, l),
         w1 \in WritesFor(d, old), w2 \in WritesFor(AddRf(d, w1, old), e), k = BothRewired(d, w1, w2, old, e)
  PROVE  ResultTwo(d, k, M, old, e)
<1>1. /\ IsGraph(d) /\ Events(d) = M \cup {old, e} /\ old # e /\ old \notin M /\ e \notin M /\ l \in Locations
      /\ \A a, b : <<a, b>> \in Edges(d) => a \in M
      /\ \A a : <<a, e>> \notin d.rf /\ <<a, e>> \notin d.sw /\ <<a, old>> \notin d.rf /\ <<a, old>> \notin d.sw
      /\ \A x \in {old, e} : IsRead(d, x) /\ IsRmw(d, x) /\ Loc(d, x) = l /\ \E q : Precedes(d, q, x)
      /\ GoodOn(d, M)
      /\ \A m \in Locations : e \notin ToSet(d.mo[m]) /\ old \notin ToSet(d.mo[m])
  BY DEF OpenTwo
<1>2. Shaped(d) /\ MoTyped(d) BY <1>1 DEF IsGraph, Shaped
<1>3. \A a, b : Precedes(d, a, b) => a \in M BY <1>1 DEF Precedes, Edges
<1>4. \A a, b : <<a, b>> \in d.rf \/ <<a, b>> \in d.sw => a \in M /\ b \in M
  <2>1. d.rf \subseteq Events(d) \X Events(d) /\ d.sw \subseteq Events(d) \X Events(d) BY <1>2 DEF Shaped, EdgesTyped
  <2>2. \A a, b : <<a, b>> \in d.rf \/ <<a, b>> \in d.sw => b \in Events(d) BY <2>1
  <2>3. \A a, b : <<a, b>> \in d.rf \/ <<a, b>> \in d.sw => a \in M BY <1>1 DEF Edges
  <2> QED BY <1>1, <2>2, <2>3
<1>5. \A s, w : w \in M /\ Releases(d, s, w) => s \in M
  <2>1. ASSUME NEW s, NEW w \in M, <<s, w>> \in PoPlus(d) PROVE s \in M
    <3>1. PICK R : R = PoEdges(d) OBVIOUS
    <3>2. R \subseteq Events(d) \X Events(d) /\ IsFiniteSet(Events(d)) BY <1>2, <3>1, PoIs DEF Shaped, EventsTyped
    <3>3. <<s, w>> \in R \/ \E c \in Events(d) : <<s, c>> \in R /\ <<c, w>> \in Plus(R, Events(d))
      BY <2>1, <3>1, <3>2, PlusFirst DEF PoPlus
    <3> QED BY <1>1, <3>1, <3>3 DEF Edges
  <2> QED BY <2>1 DEF Releases
<1>6. \A m \in Locations : \A a \in ToSet(d.mo[m]) : a \in M /\ IsWrite(d, a) /\ Loc(d, a) = m
  <2>1. \A m \in Locations : ToSet(d.mo[m]) \subseteq Events(d) BY <1>2, MoIs
  <2> QED BY <1>1, <2>1 DEF GoodOn, CompleteOn
<1>7. w1 \in ToSet(d.mo[l]) /\ \A q : Precedes(d, q, old) => w1 \in FindConsistentWrites(d, q, l, IsRmw(d, old))
  <2>1. PICK q : Precedes(d, q, old) BY <1>1
  <2> QED BY <1>1, <2>1, WritesForIs
<1>8. w1 \in M /\ IsWrite(d, w1) /\ Loc(d, w1) = l BY <1>1, <1>6, <1>7
<1>9. PICK k1 : k1 = AddRf(d, w1, old) OBVIOUS
<1>10. SameBut(d, k1) /\ k1.mo = d.mo BY <1>1, <1>8, <1>9, AddRfIs
<1>11. /\ IsGraph(k1) /\ Events(k1) = Events(d)
       /\ \A x : /\ Kind(k1, x) = Kind(d, x) /\ Loc(k1, x) = Loc(d, x) /\ (IsRmw(k1, x) <=> IsRmw(d, x))
       /\ \A q, x : Precedes(k1, q, x) <=> Precedes(d, q, x)
  BY <1>10, SameButIs DEF SameBut
<1>12. w2 \in ToSet(k1.mo[l]) /\ \A q : Precedes(k1, q, e) => w2 \in FindConsistentWrites(k1, q, l, IsRmw(k1, e))
  <2>1. PICK q : Precedes(k1, q, e) BY <1>1, <1>11
  <2>2. Loc(k1, e) = l BY <1>1, <1>11
  <2> QED BY <1>9, <1>11, <2>1, <2>2, WritesForIs
<1>13. w2 \in M /\ IsWrite(d, w2) /\ Loc(d, w2) = l BY <1>1, <1>6, <1>10, <1>12
<1>14. Wired(d, k1, k, w1, w2, old, e)
  <2>1. {w1, w2} \cap {old, e} = {} BY <1>1, <1>8, <1>13
  <2>2. w2 \in ToSet(d.mo[l]) BY <1>10, <1>12
  <2>3. old \in Events(d) /\ e \in Events(d) /\ w1 \in Events(d) /\ w2 \in Events(d) BY <1>1, <1>8, <1>13
  <2>4. Loc(d, old) = l /\ Loc(d, e) = l BY <1>1
  <2> QED BY <1>1, <1>7, <1>8, <1>9, <1>13, <2>1, <2>2, <2>3, <2>4, BothWired
<1>40. /\ \A a, b : <<a, b>> \in k1.rf <=> <<a, b>> \in d.rf \/ (a = w1 /\ b = old)
       /\ \A a, b : <<a, b>> \in k.rf <=> <<a, b>> \in d.rf \/ (a = w1 /\ b = old) \/ (a = w2 /\ b = e)
  BY <1>14 DEF Wired
<1>41. /\ \A a, b : <<a, b>> \in d.sw => <<a, b>> \in k1.sw
       /\ \A a, b : <<a, b>> \in k1.sw => <<a, b>> \in d.sw \/ (b = old /\ Releases(d, a, w1))
       /\ \A a, b : <<a, b>> \in d.sw => <<a, b>> \in k.sw
       /\ \A a, b : <<a, b>> \in k.sw =>
            <<a, b>> \in d.sw \/ (b = old /\ Releases(d, a, w1)) \/ (b = e /\ Releases(d, a, w2))
  BY <1>14 DEF Wired
<1>15. /\ IsGraph(k) /\ Events(k) = Events(d) /\ PoEdges(k) = PoEdges(d) /\ k.tcj = d.tcj /\ k1.tcj = d.tcj
       /\ PoEdges(k1) = PoEdges(d)
       /\ \A x : k.ev[x] = d.ev[x] /\ k1.ev[x] = d.ev[x]
       /\ \A q, x : Precedes(k, q, x) <=> Precedes(d, q, x)
  <2>1. SameBut(d, k) /\ SameBut(d, k1) BY <1>14 DEF Wired
  <2> QED BY <2>1, SameButIs DEF SameBut
<1>16. Shaped(k) /\ MoTyped(k) /\ Shaped(k1) /\ MoTyped(k1) BY <1>11, <1>15 DEF IsGraph, Shaped
<1>17. \A a, b : <<a, b>> \in Edges(k) \/ <<a, b>> \in Edges(k1) => a \in M
  <2>1. \A a, b : <<a, b>> \in k.rf \/ <<a, b>> \in k1.rf => a \in M BY <1>4, <1>8, <1>13, <1>14 DEF Wired
  <2>2. \A a, b : <<a, b>> \in k.sw \/ <<a, b>> \in k1.sw => a \in M BY <1>4, <1>5, <1>8, <1>13, <1>14 DEF Wired
  <2>3. \A a, b : <<a, b>> \in d.tcj \/ <<a, b>> \in PoEdges(d) => a \in M BY <1>1 DEF Edges
  <2> QED BY <1>15, <2>1, <2>2, <2>3 DEF Edges
<1>18. Extends(k, M, old) /\ Extends(k, M \cup {old}, e) BY <1>1, <1>15, <1>17 DEF Extends
<1>19. Agrees(d, k, M) /\ Agrees(d, k1, M)
  <2>1. \A a, b : b \in M /\ (<<a, b>> \in Edges(d) \/ <<a, b>> \in Edges(k)) => a \in M BY <1>1, <1>17
  <2>2. \A a, b : b \in M /\ (<<a, b>> \in Edges(d) \/ <<a, b>> \in Edges(k1)) => a \in M BY <1>1, <1>17
  <2>3. \A a, b \in M : (<<a, b>> \in d.rf <=> <<a, b>> \in k.rf) /\ (<<a, b>> \in d.sw <=> <<a, b>> \in k.sw)
                         /\ (<<a, b>> \in d.tcj <=> <<a, b>> \in k.tcj)
    <3>1. ASSUME NEW a \in M, NEW b \in M PROVE <<a, b>> \in d.rf <=> <<a, b>> \in k.rf BY <1>1, <1>40
    <3>2. ASSUME NEW a \in M, NEW b \in M PROVE <<a, b>> \in d.sw <=> <<a, b>> \in k.sw BY <1>1, <1>41
    <3> QED BY <1>15, <3>1, <3>2
  <2>4. \A a, b \in M : (<<a, b>> \in d.rf <=> <<a, b>> \in k1.rf) /\ (<<a, b>> \in d.sw <=> <<a, b>> \in k1.sw)
                         /\ (<<a, b>> \in d.tcj <=> <<a, b>> \in k1.tcj)
    <3>1. ASSUME NEW a \in M, NEW b \in M PROVE <<a, b>> \in d.rf <=> <<a, b>> \in k1.rf BY <1>1, <1>40
    <3>2. ASSUME NEW a \in M, NEW b \in M PROVE <<a, b>> \in d.sw <=> <<a, b>> \in k1.sw BY <1>1, <1>41
    <3> QED BY <1>15, <3>1, <3>2
  <2>5. \A a, b \in M : <<a, b>> \in MoBefore(d) <=> <<a, b>> \in MoBefore(k)
    <3>1. \A a, b \in M : {a, b} \cap {old, e} = {} BY <1>1
    <3> QED BY <1>14, <3>1 DEF Wired
  <2>6. \A a, b \in M : <<a, b>> \in MoBefore(d) <=> <<a, b>> \in MoBefore(k1) BY <1>10 DEF MoBefore
  <2>7. \A m \in Locations : \A a \in M : a \in ToSet(d.mo[m]) <=> a \in ToSet(k.mo[m]) BY <1>1, <1>14 DEF Wired
  <2>8. \A m \in Locations : \A a \in M : a \in ToSet(d.mo[m]) <=> a \in ToSet(k1.mo[m]) BY <1>10
  <2>9. M \subseteq Events(d) /\ M \subseteq Events(k) /\ M \subseteq Events(k1)
        /\ \A x \in M : d.ev[x] = k.ev[x] /\ d.ev[x] = k1.ev[x]
    BY <1>1, <1>11, <1>15
  <2>10. Agrees(d, k, M) BY <1>1, <1>15, <2>1, <2>3, <2>5, <2>7, <2>9, EditAgrees
  <2>11. Agrees(d, k1, M) BY <1>1, <1>11, <2>2, <2>4, <2>6, <2>8, <2>9, EditAgrees
  <2> QED BY <2>10, <2>11
<1>20. GoodOn(k, M) /\ GoodOn(k1, M) BY <1>1, <1>2, <1>16, <1>19, GoodAgrees
<1>21. Agrees(k1, k, M) BY <1>19, AgreesSymmetric, AgreesTransitive
<1>22. \A q : Precedes(d, q, old) => Fresh(k, q, w1)
  <2>1. IsRmw(d, old) \in BOOLEAN BY DEF IsRmw
  <2> QED BY <1>1, <1>2, <1>3, <1>7, <1>8, <1>16, <1>19, <2>1, SearchFresh DEF GoodOn
<1>23. \A q : Precedes(d, q, e) => Fresh(k, q, w2)
  <2>1. IsRmw(k1, e) \in BOOLEAN BY DEF IsRmw
  <2>2. \A q : Precedes(d, q, e) => q \in M /\ w2 \in FindConsistentWrites(k1, q, l, IsRmw(k1, e))
    BY <1>3, <1>11, <1>12
  <2>3. CompleteOn(k1, M) BY <1>20 DEF GoodOn
  <2> QED BY <1>1, <1>13, <1>16, <1>21, <2>1, <2>2, <2>3, SearchFresh
<1>24. ~Consumed(d, w1) /\ ~Consumed(k1, w2)
  <2>1. ~Consumed(d, w1)
    <3>1. PICK q : Precedes(d, q, old) BY <1>1
    <3>2. IsRmw(d, old) = TRUE BY <1>1 DEF IsRmw
    <3>3. w1 \in FindConsistentWrites(d, q, l, TRUE) BY <1>7, <3>1, <3>2
    <3> QED BY <1>1, <1>2, <3>3, SearchIs DEF Shaped
  <2>2. ~Consumed(k1, w2)
    <3>1. PICK q : Precedes(k1, q, e) BY <1>1, <1>11
    <3>2. IsRmw(k1, e) = TRUE BY <1>1, <1>11 DEF IsRmw
    <3>3. w2 \in FindConsistentWrites(k1, q, l, TRUE) BY <1>12, <3>1, <3>2
    <3> QED BY <1>1, <1>16, <3>3, SearchIs DEF Shaped
  <2> QED BY <2>1, <2>2
<1>25. /\ \A r \in M : <<w1, r>> \in k.rf => ~IsRmw(d, r)
       /\ \A r \in M \cup {old} : <<w2, r>> \in k.rf => ~IsRmw(d, r)
  <2>1. ASSUME NEW r \in M, <<w1, r>> \in k.rf, IsRmw(d, r) PROVE FALSE
    <3>1. <<w1, r>> \in d.rf BY <1>1, <1>14, <2>1 DEF Wired
    <3>2. r \in OfKind(d, RmwKinds) BY <1>1, <2>1 DEF OfKind, IsRmw
    <3> QED BY <1>24, <3>1, <3>2 DEF Consumed
  <2>2. ASSUME NEW r \in M \cup {old}, <<w2, r>> \in k.rf, IsRmw(d, r) PROVE FALSE
    <3>1. <<w2, r>> \in k1.rf BY <1>1, <1>14, <2>2 DEF Wired
    <3>2. r \in OfKind(k1, RmwKinds) BY <1>1, <1>11, <2>2 DEF OfKind, IsRmw
    <3> QED BY <1>24, <3>1, <3>2 DEF Consumed
  <2> QED BY <2>1, <2>2
<1>26. Grows(k, M, old)
  <2>1. \A v : <<v, old>> \in k.rf <=> v = w1
    <3>1. old # e /\ \A v : <<v, old>> \notin d.rf BY <1>1
    <3> QED BY <1>40, <3>1
  <2>2. \A m \in Locations : old \in ToSet(k.mo[m]) <=> m = l BY <1>1, <1>14 DEF Wired
  <2>3. <<w1, old>> \in MoBefore(k) /\ SameBut(d, k) BY <1>14 DEF Wired
  <2>4. \A s : <<s, old>> \in k.sw => Releases(d, s, w1) BY <1>1, <1>41
  <2>5. IsRead(d, old) /\ IsRmw(d, old) /\ Loc(d, old) = l /\ \E q : Precedes(d, q, old) BY <1>1
  <2>6. \A r \in M : <<w1, r>> \in k.rf => ~IsRmw(d, r) BY <1>25
  <2>7. IsWrite(d, w1) /\ Loc(d, w1) = l /\ w1 \in M /\ l \in Locations BY <1>1, <1>8
  <2>8. IsGraph(k) /\ Extends(k, M, old) /\ GoodOn(k, M) BY <1>15, <1>18, <1>20
  <2> QED BY <1>22, <2>1, <2>2, <2>3, <2>4, <2>5, <2>6, <2>7, <2>8, TwoFits
<1>27. Grows(k, M \cup {old}, e)
  <2>1. \A v : <<v, e>> \in k.rf <=> v = w2 BY <1>1, <1>40
  <2>2. \A m \in Locations : e \in ToSet(k.mo[m]) <=> m = l BY <1>1, <1>14 DEF Wired
  <2>3. <<w2, e>> \in MoBefore(k) /\ SameBut(d, k) BY <1>14 DEF Wired
  <2>4. \A s : <<s, e>> \in k.sw => Releases(d, s, w2) BY <1>1, <1>41
  <2>5. IsRead(d, e) /\ IsRmw(d, e) /\ Loc(d, e) = l /\ \E q : Precedes(d, q, e) BY <1>1
  <2>6. w2 \in M \cup {old} BY <1>13
  <2>7. \A r \in M \cup {old} : <<w2, r>> \in k.rf => ~IsRmw(d, r) BY <1>25
  <2>8. IsWrite(d, w2) /\ Loc(d, w2) = l /\ l \in Locations BY <1>1, <1>13
  <2>9. IsGraph(k) /\ Extends(k, M \cup {old}, e) /\ GoodOn(k, M \cup {old}) BY <1>15, <1>18, <1>26 DEF Grows
  <2> QED BY <1>23, <2>1, <2>2, <2>3, <2>4, <2>5, <2>6, <2>7, <2>8, <2>9, TwoFits
<1>28. (M \cup {old}) \cup {e} = Events(k) BY <1>1, <1>15
<1>29. CoherentOn(d, M) => CoherentOn(k, M) BY <1>1, <1>2, <1>16, <1>19, CoherentAgrees DEF GoodOn
<1>30. GoodOn(k, Events(k)) BY <1>27, <1>28 DEF Grows
<1>31. CoherentOn(d, M) => CoherentOn(k, Events(k)) BY <1>26, <1>27, <1>28, <1>29 DEF Grows
<1> QED BY <1>1, <1>15, <1>19, <1>30, <1>31 DEF ResultTwo

\* What a step leaves of the graph before it: a part that agrees, with every event that
\* is no read and depends on none.
Kept(h, k) == \E K : Agrees(h, k, K) /\ Keeps(h, K)
Sound(h, k) == GoodGraph(k) /\ Kept(h, k) /\ (IsCoherent(h) => IsCoherent(k))

\* A mutation of a good graph is good, keeps the seed and keeps coherence.
LEMMA MutationSound == ASSUME NEW h, NEW k, NEW K, NEW e, Mutation(h, k, K, e) PROVE Sound(h, k)
BY DEF Mutation, Sound, Kept

\* A coherent graph stays so when the part that agrees is made whole again.
Whole(d, k, M) == GoodGraph(k) /\ Agrees(d, k, M) /\ (CoherentOn(d, M) => CoherentOn(k, Events(k)))

\* A graph completed from a kept part is sound for the graph the part came from.
LEMMA WholeSound ==
  ASSUME NEW h, NEW d, NEW k, NEW M, GoodGraph(h), IsGraph(d), M \subseteq Events(h), Agrees(h, d, M), Keeps(h, M),
         Whole(d, k, M)
  PROVE  Sound(h, k)
<1>1. Shaped(h) /\ MoTyped(h) /\ Shaped(d) /\ MoTyped(d) /\ Shaped(k) /\ MoTyped(k)
  BY DEF GoodGraph, IsGraph, Shaped, Whole
<1>2. Agrees(h, k, M) BY AgreesTransitive DEF Whole
<1>3. ASSUME IsCoherent(h) PROVE IsCoherent(k)
  <2>1. CoherentOn(h, Events(h)) BY <1>1, <1>3, CoherentIs
  <2>2. CoherentOn(h, M) BY <2>1 DEF CoherentOn
  <2>3. GoodOn(h, M) BY <1>1, GoodLess DEF GoodGraph
  <2>4. CoherentOn(d, M) BY <1>1, <2>2, <2>3, CoherentAgrees DEF GoodOn
  <2>5. CoherentOn(k, Events(k)) BY <2>4 DEF Whole
  <2> QED BY <1>1, <2>5, CoherentIs
<1> QED BY <1>2, <1>3 DEF Sound, Kept, Whole

\* The two rmw-like events of a chain leave mo.
Freed(h, k, e, old) ==
  /\ SameBut(h, k) /\ k.rf = h.rf /\ k.sw = h.sw
  /\ \A m \in Locations : \A a : a # e /\ a # old => (a \in ToSet(k.mo[m]) <=> a \in ToSet(h.mo[m]))
  /\ \A m \in Locations : e \notin ToSet(k.mo[m]) /\ old \notin ToSet(k.mo[m])
  /\ \A a, b : a # e /\ a # old /\ b # e /\ b # old => (<<a, b>> \in MoBefore(k) <=> <<a, b>> \in MoBefore(h))

\* Taking both rmw-like events out of mo leaves the pairs of the others.
LEMMA FreedIs ==
  ASSUME NEW h, NEW e, NEW old, NEW l \in Locations, NEW k, IsGraph(h), Loc(h, e) = l, Loc(h, old) = l,
         k = [h EXCEPT !.mo[l] = Without(Without(@, e), old)]
  PROVE  Freed(h, k, e, old)
<1>1. PICK j : j = [h EXCEPT !.mo[l] = Without(@, e)] OBVIOUS
<1>2. SameBut(h, j) /\ j.rf = h.rf /\ j.sw = h.sw /\ Unplaced(h, j, e) BY <1>1, UnplaceIs
<1>3. IsGraph(j) /\ Loc(j, old) = l BY <1>2, SameButIs DEF SameBut
<1>4. PICK i : i = [j EXCEPT !.mo[l] = Without(@, old)] OBVIOUS
<1>5. k = i
  <2>1. h.mo \in [Locations -> Seq(Events(h))] /\ IsRecord(h) BY DEF IsGraph, MoTyped
  <2>2. PICK s : s = Without(h.mo[l], e) OBVIOUS
  <2>3. PICK t : t = Without(s, old) OBVIOUS
  <2>4. k = [h EXCEPT !.mo[l] = t] BY <2>1, <2>2, <2>3 DEF IsRecord
  <2>5. j = [h EXCEPT !.mo[l] = s] BY <1>1, <2>2
  <2>6. j.mo[l] = s BY <2>1, <2>5 DEF IsRecord
  <2>7. i = [j EXCEPT !.mo[l] = t] BY <1>4, <2>3, <2>6
  <2>8. i.mo = k.mo BY <2>1, <2>4, <2>5, <2>7 DEF IsRecord
  <2>9. /\ i = [ev |-> h.ev, po |-> h.po, rf |-> h.rf, sw |-> h.sw, tcj |-> h.tcj, mo |-> i.mo]
        /\ k = [ev |-> h.ev, po |-> h.po, rf |-> h.rf, sw |-> h.sw, tcj |-> h.tcj, mo |-> k.mo]
    BY <2>1, <2>4, <2>5, <2>7 DEF IsRecord
  <2> QED BY <2>8, <2>9
<1>6. SameBut(j, k) /\ k.rf = j.rf /\ k.sw = j.sw /\ Unplaced(j, k, old) BY <1>3, <1>4, <1>5, UnplaceIs
<1>7. SameBut(h, k) BY <1>2, <1>6 DEF SameBut
<1>8. \A m \in Locations : \A a : a # e /\ a # old => (a \in ToSet(k.mo[m]) <=> a \in ToSet(h.mo[m]))
  BY <1>2, <1>6 DEF Unplaced
<1>9. \A m \in Locations : e \notin ToSet(k.mo[m]) /\ old \notin ToSet(k.mo[m]) BY <1>2, <1>6 DEF Unplaced
<1>10. \A a, b : a # e /\ a # old /\ b # e /\ b # old => (<<a, b>> \in MoBefore(k) <=> <<a, b>> \in MoBefore(h))
  BY <1>2, <1>6 DEF Unplaced
<1> QED BY <1>2, <1>6, <1>7, <1>8, <1>9, <1>10 DEF Freed

\* The graph of the RMW-chain case, before the two events choose again.
ChainCut(h, d, M, old, e) ==
  /\ IsGraph(d) /\ M \subseteq Events(h) /\ Agrees(h, d, M) /\ Keeps(h, M) /\ e \notin M /\ old \notin M /\ old # e
  /\ e \in Events(d) => OpenTwo(d, M, old, e, Loc(h, e))
  /\ e \notin Events(d) => Open(d, M, old) /\ Kind(d, old) \in RmwKinds /\ \A m \in Locations : old \notin ToSet(d.mo[m])
  /\ Loc(d, old) \in Locations /\ \E v : v \in ToSet(d.mo[Loc(d, old)])

\* The cut before a chain mutation: both rmw-like events are detached.
LEMMA ChainCutIs ==
  ASSUME NEW h, NEW e, NEW old, NEW d, GoodGraph(h), <<old, e>> \in h.rf,
         IsRmw(h, e), IsRmw(h, old), d = ChainDetached(Detached(h, e), e, old)
  PROVE  ChainCut(h, d, (NotAfter(h, e) \ {e}) \cap (Events(d) \ {old, e}), old, e)
<1>1. IsGraph(h) /\ Shaped(h) /\ e \in Events(h) /\ old \in Events(h) /\ IsRead(h, e) /\ IsRead(h, old)
  <2>1. IsGraph(h) /\ Shaped(h) BY DEF GoodGraph, IsGraph, Shaped
  <2>2. e \in Events(h) /\ old \in Events(h) BY <2>1 DEF Shaped, EdgesTyped
  <2> QED BY <2>1, <2>2 DEF IsRmw, IsRead, RmwKinds, ReadKinds
<1>2. PICK d0 : d0 = Detached(h, e) OBVIOUS
<1>3. PICK K0 : K0 = NotAfter(h, e) \ {e} OBVIOUS
<1>4. \A x \in Events(h) : <<x, x>> \notin Plus(Edges(h), Events(h)) BY DEF GoodGraph, GoodOn, AcyclicOn
<1>5. Cut(h, d0, K0, e) BY <1>1, <1>2, <1>3, <1>4, DetachedIs
<1>6. PICK l : l = Loc(h, e) OBVIOUS
<1>7. l \in Locations /\ Loc(h, old) = l
  <2>1. Kind(h, e) # "FENCE" BY DEF IsRmw, RmwKinds
  <2>2. l \in Locations BY <1>1, <1>6, <2>1 DEF Shaped, EventsTyped
  <2>3. PICK w \in Events(h) : ReadsFrom(h, w, e) BY <1>1 DEF GoodGraph, GoodOn, CompleteOn
  <2>4. w = old /\ Loc(h, w) = l BY <1>6, <2>3 DEF ReadsFrom
  <2> QED BY <2>2, <2>4
<1>8. old # e /\ old \in K0
  <2>1. PICK R : R = Edges(h) OBVIOUS
  <2>2. R \subseteq Events(h) \X Events(h) /\ IsFiniteSet(Events(h)) BY <1>1, <2>1, EdgesIn DEF Shaped, EventsTyped
  <2>3. <<old, e>> \in R BY <2>1 DEF Edges
  <2>4. \A a, b, c : <<a, b>> \in Plus(R, Events(h)) /\ <<b, c>> \in R => <<a, c>> \in Plus(R, Events(h))
    BY <2>2, PlusStep
  <2>5. R \subseteq Plus(R, Events(h)) BY <2>2, PlusStep
  <2>6. <<e, e>> \notin Plus(R, Events(h)) BY <1>1, <1>4, <2>1
  <2>7. old # e BY <2>3, <2>5, <2>6
  <2>8. <<e, old>> \notin Plus(R, Events(h)) BY <2>3, <2>4, <2>6
  <2> QED BY <1>1, <1>3, <2>1, <2>7, <2>8 DEF NotAfter
<1>9. /\ IsGraph(d0) /\ Events(d0) = K0 \cup {e} /\ K0 \subseteq Events(h) /\ e \notin K0
      /\ \A x \in K0 \cup {e} : d0.ev[x] = h.ev[x]
      /\ Agrees(h, d0, K0)
      /\ \A a, b : <<a, b>> \in Edges(d0) => a \in K0 /\ <<a, b>> \in Edges(h)
      /\ \A a : <<a, e>> \notin d0.rf /\ <<a, e>> \notin d0.sw
      /\ \A q : Precedes(h, q, e) <=> Precedes(d0, q, e)
  BY <1>1, <1>5 DEF Cut
<1>10. \A x \in {old, e} : Loc(d0, x) = l /\ IsRmw(d0, x) /\ IsRead(d0, x)
  BY <1>1, <1>6, <1>7, <1>8, <1>9 DEF Loc, IsRmw, IsRead, Kind
<1>11. PICK d1 : d1 = [d0 EXCEPT !.mo[l] = Without(Without(@, e), old)] OBVIOUS
<1>12. Freed(d0, d1, e, old)
  <2>1. Loc(d0, e) = l /\ Loc(d0, old) = l BY <1>10
  <2> QED BY <1>7, <1>9, <1>11, <2>1, FreedIs
<1>13. d = Detached(d1, old)
  <2>1. Loc(d0, e) = l BY <1>10
  <2> QED BY <1>2, <1>11, <2>1 DEF ChainDetached
<1>14. /\ IsGraph(d1) /\ Events(d1) = K0 \cup {e} /\ Edges(d1) = Edges(d0) /\ PoEdges(d1) = PoEdges(d0)
       /\ \A x : d1.ev[x] = d0.ev[x]
       /\ d1.rf = d0.rf /\ d1.sw = d0.sw /\ d1.tcj = d0.tcj
       /\ \A q, x : Precedes(d1, q, x) <=> Precedes(d0, q, x)
  <2>1. SameBut(d0, d1) /\ d1.rf = d0.rf /\ d1.sw = d0.sw BY <1>12 DEF Freed
  <2>2. IsGraph(d1) /\ d1.tcj = d0.tcj BY <2>1 DEF SameBut
  <2>3. /\ Events(d1) = Events(d0) /\ PoEdges(d1) = PoEdges(d0) /\ \A x : d1.ev[x] = d0.ev[x]
        /\ \A q, x : Precedes(d1, q, x) <=> Precedes(d0, q, x)
    BY <2>1, SameButIs
  <2>4. Edges(d1) = Edges(d0) BY <2>1, <2>2, <2>3 DEF Edges
  <2> QED BY <1>9, <2>1, <2>2, <2>3, <2>4
<1>15. Shaped(d0) /\ Shaped(d1) BY <1>9, <1>14 DEF IsGraph, Shaped
<1>16. <<old, old>> \notin Plus(Edges(d1), Events(d1))
  <2>1. Edges(d1) \subseteq Edges(h)
    <3>1. Edges(d1) \subseteq Events(d1) \X Events(d1) BY <1>15, EdgesIn DEF Shaped
    <3> QED BY <1>9, <1>14, <3>1
  <2>2. Plus(Edges(d1), Events(d1)) \subseteq Plus(Edges(h), Events(h))
    <3>1. PICK R : R = Edges(h) OBVIOUS
    <3>2. PICK T : T = Edges(d1) OBVIOUS
    <3>3. R \subseteq Events(h) \X Events(h) /\ IsFiniteSet(Events(h)) BY <1>1, <3>1, EdgesIn DEF Shaped, EventsTyped
    <3>4. T \subseteq Events(d1) \X Events(d1) /\ IsFiniteSet(Events(d1)) BY <1>15, <3>2, EdgesIn DEF Shaped, EventsTyped
    <3>5. T \subseteq R BY <2>1, <3>1, <3>2
    <3>6. Plus(T, Events(d1)) \subseteq Plus(R, Events(h)) BY <3>3, <3>4, <3>5, PlusMonotone
    <3> QED BY <3>1, <3>2, <3>6
  <2> QED BY <1>1, <1>4, <2>2
<1>17. PICK K1 : K1 = NotAfter(d1, old) \ {old} OBVIOUS
<1>18. old \in Events(d1) BY <1>8, <1>14
<1>19. Cut(d1, d, K1, old) BY <1>13, <1>14, <1>16, <1>17, <1>18, DetachedIs
<1>20. /\ IsGraph(d) /\ Shaped(d) /\ Events(d) = K1 \cup {old} /\ old \notin K1 /\ K1 \subseteq K0 \cup {e}
       /\ \A x \in K1 \cup {old} : d.ev[x] = d1.ev[x]
       /\ Agrees(d1, d, K1)
       /\ \A a, b : <<a, b>> \in Edges(d) => a \in K1 /\ <<a, b>> \in Edges(d1)
       /\ \A a : <<a, old>> \notin d.rf /\ <<a, old>> \notin d.sw
       /\ \A q : Precedes(d1, q, old) <=> Precedes(d, q, old)
       /\ \A m \in Locations : \A a \in K1 \cup {old} : a \in ToSet(d1.mo[m]) <=> a \in ToSet(d.mo[m])
  BY <1>14, <1>19 DEF Cut, IsGraph, Shaped
<1>37. Loc(d, old) = l /\ \E v : v \in ToSet(d.mo[l])
  <2>1. Loc(d, old) = l BY <1>10, <1>14, <1>20 DEF Loc
  <2>2. PICK R : R = Edges(h) OBVIOUS
  <2>3. PICK T : T = Edges(d1) OBVIOUS
  <2>4. R \subseteq Events(h) \X Events(h) /\ IsFiniteSet(Events(h)) BY <1>1, <2>2, EdgesIn DEF Shaped, EventsTyped
  <2>5. T \subseteq Events(d1) \X Events(d1) /\ IsFiniteSet(Events(d1)) BY <1>15, <2>3, EdgesIn DEF Shaped, EventsTyped
  <2>6. T \subseteq R BY <1>9, <1>14, <2>2, <2>3, <2>5
  <2>7. Plus(T, Events(d1)) \subseteq Plus(R, Events(h)) BY <2>4, <2>5, <2>6, PlusMonotone
  <2>8. PICK v \in Events(h) : ReadsFrom(h, v, old) BY <1>1 DEF GoodGraph, GoodOn, CompleteOn
  <2>9. <<v, old>> \in R /\ <<old, e>> \in R /\ v \in ToSet(h.mo[l])
    <3>1. <<v, old>> \in h.rf /\ IsWrite(h, v) /\ Loc(h, v) = l BY <1>7, <2>8 DEF ReadsFrom
    <3>2. v \in ToSet(h.mo[l]) BY <1>7, <3>1 DEF GoodGraph, GoodOn, CompleteOn
    <3> QED BY <2>2, <3>1, <3>2 DEF Edges
  <2>10. \A a, b, c : <<a, b>> \in Plus(R, Events(h)) /\ <<b, c>> \in R => <<a, c>> \in Plus(R, Events(h))
    BY <2>4, PlusStep
  <2>11. R \subseteq Plus(R, Events(h)) BY <2>4, PlusStep
  <2>12. \A x \in {e, old} : <<x, x>> \notin Plus(R, Events(h)) BY <1>1, <1>4, <2>2
  <2>13. v # old /\ v # e
    <3>1. v # old BY <2>9, <2>11, <2>12
    <3>2. <<v, e>> \in Plus(R, Events(h)) BY <2>9, <2>10, <2>11
    <3> QED BY <2>12, <3>1, <3>2
  <2>14. <<e, v>> \notin Plus(R, Events(h)) /\ <<old, v>> \notin Plus(R, Events(h)) BY <2>9, <2>10, <2>12
  <2>15. v \in K0 BY <1>3, <2>2, <2>13, <2>14 DEF NotAfter
  <2>16. v \in K1
    <3>1. v \in Events(d1) BY <1>14, <2>15
    <3>2. <<old, v>> \notin Plus(T, Events(d1)) BY <2>7, <2>14
    <3> QED BY <1>17, <2>3, <2>13, <3>1, <3>2 DEF NotAfter
  <2>17. v \in ToSet(d0.mo[l]) BY <1>5, <1>7, <2>9, <2>15 DEF Cut
  <2>18. v \in ToSet(d1.mo[l]) BY <1>7, <1>12, <2>13, <2>17 DEF Freed
  <2>19. v \in ToSet(d.mo[l]) BY <1>7, <1>20, <2>16, <2>18
  <2> QED BY <2>1, <2>19
<1>21. PICK M : M = K1 \ {e} OBVIOUS
<1>22. M = K0 \cap (Events(d) \ {old, e}) /\ M \subseteq K0 /\ M \subseteq Events(h) /\ e \notin M /\ old \notin M
  BY <1>9, <1>20, <1>21
<1>23. \A a, b : <<a, b>> \in Edges(d) => a \in M BY <1>9, <1>14, <1>20, <1>21
<1>24. SamePairs(h, d0, K0) /\ SamePairs(d1, d, K1) BY <1>1, <1>9, <1>15, <1>20, SamePairsIs
<1>25. /\ \A p \in Edges(h) : p[2] \in M => p[1] \in M
       /\ \A p \in Edges(d1) : p[2] \in M => p[1] \in M
  <2>1. SameInto(Edges(h), Edges(d0), K0) BY <1>9, AgreesEdges
  <2>2. SameInto(Edges(d1), Edges(d), K1) BY <1>20, AgreesEdges
  <2>3. \A p \in Edges(d1) : p[2] \in M => p[1] \in M
    <3>1. ASSUME NEW p \in Edges(d1), p[2] \in M PROVE p[1] \in M
      <4>1. p[2] \in K1 BY <1>21, <3>1
      <4>2. p[1] \in K1 BY <2>2, <3>1, <4>1 DEF SameInto
      <4>3. p = <<p[1], p[2]>>
        <5>1. Edges(d1) \subseteq Events(d1) \X Events(d1) BY <1>15, EdgesIn DEF Shaped
        <5> QED BY <3>1, <5>1
      <4>4. <<p[1], p[2]>> \in Edges(d0) BY <1>14, <3>1, <4>3
      <4>5. p[1] \in K0 BY <1>9, <4>4
      <4> QED BY <1>9, <1>21, <4>2, <4>5
    <3> QED BY <3>1
  <2>4. ASSUME NEW p \in Edges(h), p[2] \in M PROVE p[1] \in M
    <3>1. p[2] \in K0 BY <1>22, <2>4
    <3>2. p \in Edges(d0) BY <2>1, <2>4, <3>1 DEF SameInto
    <3> QED BY <1>14, <2>3, <2>4, <3>2
  <2> QED BY <2>3, <2>4
<1>26. Agrees(h, d0, M) BY <1>9, <1>22, <1>25, AgreesLess
<1>27. Agrees(d1, d, M)
  <2>1. M \subseteq K1 BY <1>21
  <2> QED BY <1>20, <1>25, <2>1, AgreesLess
<1>28. Agrees(d0, d1, M)
  <2>1. \A a, b : b \in M /\ (<<a, b>> \in Edges(d0) \/ <<a, b>> \in Edges(d1)) => a \in M
    <3>1. ASSUME NEW a, NEW b \in M, <<a, b>> \in Edges(d1) PROVE a \in M
      <4> DEFINE p == <<a, b>>
      <4>1. p \in Edges(d1) /\ p[1] = a /\ p[2] = b BY <3>1
      <4> HIDE DEF p
      <4> QED BY <1>25, <3>1, <4>1
    <3> QED BY <1>14, <3>1
  <2>2. M \subseteq Events(d0) /\ M \subseteq Events(d1) BY <1>9, <1>14, <1>22
  <2>3. \A a, b \in M : <<a, b>> \in MoBefore(d0) <=> <<a, b>> \in MoBefore(d1)
    <3>1. \A a \in M : a # e /\ a # old BY <1>22
    <3> QED BY <1>12, <3>1 DEF Freed
  <2>4. \A m \in Locations : \A a \in M : a \in ToSet(d0.mo[m]) <=> a \in ToSet(d1.mo[m]) BY <1>12, <1>22 DEF Freed
  <2>5. \A x \in M : d0.ev[x] = d1.ev[x] BY <1>14
  <2>6. \A a, b \in M : (<<a, b>> \in d0.rf <=> <<a, b>> \in d1.rf) /\ (<<a, b>> \in d0.sw <=> <<a, b>> \in d1.sw)
                         /\ (<<a, b>> \in d0.tcj <=> <<a, b>> \in d1.tcj)
    BY <1>14
  <2> QED BY <1>9, <1>14, <2>1, <2>2, <2>3, <2>4, <2>5, <2>6, EditAgrees
<1>29. Agrees(h, d, M) BY <1>26, <1>27, <1>28, AgreesTransitive
<1>30. GoodOn(d, M)
  <2>1. GoodOn(h, M) BY <1>1, <1>20, <1>22, <1>29, GoodLess DEF GoodGraph
  <2> QED BY <1>1, <1>20, <1>29, <2>1, GoodAgrees
<1>31. Keeps(h, M)
  <2>1. SUFFICES ASSUME NEW S, S \subseteq Events(h), \A s \in S : ~IsRead(h, s),
                        \A a, b : b \in S /\ <<a, b>> \in Edges(h) => a \in S
                 PROVE  S \subseteq M
    BY DEF Keeps
  <2>2. Keeps(h, K0) BY <1>1, <1>3, KeepsNotAfter
  <2>3. S \subseteq K0 BY <2>1, <2>2 DEF Keeps
  <2>4. Keeps(d1, K1)
    <3>1. IsRead(d1, old) BY <1>10, <1>14 DEF IsRead, Kind
    <3> QED BY <1>15, <1>17, <1>18, <3>1, KeepsNotAfter
  <2>5. S \subseteq K1
    <3>1. S \subseteq Events(d1) BY <1>14, <2>3
    <3>2. \A s \in S : ~IsRead(d1, s) BY <1>9, <1>14, <2>1, <2>3 DEF IsRead, Kind
    <3>3. \A a, b : b \in S /\ <<a, b>> \in Edges(d1) => a \in S BY <1>9, <1>14, <2>1
    <3> QED BY <2>4, <3>1, <3>2, <3>3 DEF Keeps
  <2> QED BY <1>1, <1>21, <2>1, <2>5
<1>32. Loc(d, old) = l /\ IsRmw(d, old) /\ IsRead(d, old) BY <1>10, <1>14, <1>20 DEF Loc, IsRmw, IsRead, Kind
<1>33. \E q : Precedes(d, q, old)
  <2>1. PICK q : Precedes(h, q, old) BY <1>1 DEF GoodGraph, GoodOn, ParentedOn
  <2>2. Precedes(d0, q, old) BY <1>8, <1>24, <2>1 DEF SamePairs, Precedes
  <2> QED BY <1>14, <1>20, <2>2
<1>34. \A m \in Locations : old \notin ToSet(d.mo[m])
  <2>1. \A m \in Locations : old \notin ToSet(d1.mo[m]) BY <1>12 DEF Freed
  <2> QED BY <1>20, <2>1
<1>35. CASE e \in Events(d)
  <2>1. e \in K1 BY <1>8, <1>20, <1>35
  <2>2. Events(d) = M \cup {old, e} BY <1>20, <1>21, <2>1
  <2>3. \A a : <<a, e>> \notin d.rf /\ <<a, e>> \notin d.sw BY <1>9, <1>14, <1>24, <2>1 DEF SamePairs
  <2>4. Loc(d, e) = l /\ IsRmw(d, e) /\ IsRead(d, e) BY <1>10, <1>14, <1>20, <2>1 DEF Loc, IsRmw, IsRead, Kind
  <2>5. \E q : Precedes(d, q, e)
    <3>1. PICK q : Precedes(h, q, e) BY <1>1 DEF GoodGraph, GoodOn, ParentedOn
    <3>2. Precedes(d1, q, e) BY <1>9, <1>14, <3>1
    <3>3. Precedes(d, q, e) BY <1>24, <2>1, <3>2 DEF SamePairs, Precedes
    <3> QED BY <3>3
  <2>6. \A m \in Locations : e \notin ToSet(d.mo[m])
    <3>1. \A m \in Locations : e \notin ToSet(d1.mo[m]) BY <1>12 DEF Freed
    <3> QED BY <1>20, <2>1, <3>1
  <2>7. \A x \in {old, e} : IsRead(d, x) /\ IsRmw(d, x) /\ Loc(d, x) = l /\ \E q : Precedes(d, q, x)
    BY <1>32, <1>33, <2>4, <2>5
  <2>8. OpenTwo(d, M, old, e, l)
    BY <1>7, <1>8, <1>20, <1>22, <1>23, <1>30, <1>34, <2>2, <2>3, <2>6, <2>7 DEF OpenTwo
  <2> QED BY <1>3, <1>6, <1>8, <1>20, <1>22, <1>29, <1>31, <1>35, <1>37, <1>7, <2>8 DEF ChainCut
<1>36. CASE e \notin Events(d)
  <2>1. Events(d) = M \cup {old} BY <1>20, <1>21, <1>36
  <2>2. Open(d, M, old) BY <1>7, <1>20, <1>22, <1>23, <1>30, <1>32, <1>33, <1>34, <2>1 DEF Open
  <2>3. Kind(d, old) \in RmwKinds BY <1>32 DEF IsRmw
  <2> QED BY <1>3, <1>8, <1>20, <1>22, <1>29, <1>31, <1>34, <1>36, <1>37, <1>7, <2>2, <2>3 DEF ChainCut
<1> QED BY <1>35, <1>36

\* The chain case of mutate_rf_edge makes a sound graph, whichever order and writes it takes.
LEMMA ChainIs ==
  ASSUME NEW h, NEW e, NEW old, NEW k, GoodGraph(h), <<old, e>> \in h.rf, IsRmw(h, e), IsRmw(h, old),
         k \in ChainRewired(ChainDetached(Detached(h, e), e, old), e, old)
  PROVE  Sound(h, k)
<1>1. PICK d : d = ChainDetached(Detached(h, e), e, old) OBVIOUS
<1>2. PICK M : M = (NotAfter(h, e) \ {e}) \cap (Events(d) \ {old, e}) OBVIOUS
<1>3. ChainCut(h, d, M, old, e) BY <1>1, <1>2, ChainCutIs
<1>4. PICK w1 \in WritesFor(d, old) :
        k \in IF e \notin Events(d) THEN {Finalize(InsertMoAfter(AddRf(d, w1, old), w1, old))}
              ELSE {Finalize(InsertMoAfter(InsertMoAfter(AddRf(AddRf(d, w1, old), w2, e), w2, e), w1, old)) :
                      w2 \in WritesFor(AddRf(d, w1, old), e)}
  BY <1>1 DEF ChainRewired
<1>5. Whole(d, k, M)
  <2>1. CASE e \notin Events(d)
    <3>1. Open(d, M, old) /\ Kind(d, old) \in RmwKinds /\ \A m \in Locations : old \notin ToSet(d.mo[m])
      BY <1>3, <2>1 DEF ChainCut
    <3>2. k = Rewired(d, w1, old) BY <1>4, <2>1, <3>1 DEF Rewired
    <3>3. w1 # old
      <4>1. PICK q : Precedes(d, q, old) BY <3>1 DEF Open
      <4>2. w1 \in ToSet(d.mo[Loc(d, old)]) BY <3>1, <4>1, WritesForIs DEF Open
      <4> QED BY <3>1, <4>2 DEF Open
    <3>4. Result(d, k, M, old) BY <3>1, <3>2, <3>3, RewiredIs
    <3> QED BY <3>4 DEF Result, Whole, GoodGraph
  <2>2. CASE e \in Events(d)
    <3>1. OpenTwo(d, M, old, e, Loc(h, e)) BY <1>3, <2>2 DEF ChainCut
    <3>2. PICK w2 \in WritesFor(AddRf(d, w1, old), e) : k = BothRewired(d, w1, w2, old, e)
      BY <1>4, <2>2 DEF BothRewired
    <3>3. PICK l \in Locations : l = Loc(h, e) BY <3>1 DEF OpenTwo
    <3>4. PICK k1 : k1 = BothRewired(d, w1, w2, old, e) OBVIOUS
    <3>5. ResultTwo(d, k1, M, old, e) BY <3>1, <3>3, <3>4, TwoRewiredIs
    <3> QED BY <3>2, <3>4, <3>5 DEF ResultTwo, Whole, GoodGraph
  <2> QED BY <2>1, <2>2
<1> QED BY <1>3, <1>5, WholeSound DEF ChainCut

-----------------------------------------------------------------------------
(* flip_cas_outcome.                                                       *)

\* What does not depend on e.
LEMMA NotAfterIs ==
  ASSUME NEW h, NEW e \in Events(h), Shaped(h), <<e, e>> \notin Plus(Edges(h), Events(h))
  PROVE  /\ e \in NotAfter(h, e) /\ NotAfter(h, e) \subseteq Events(h)
         /\ \A a : <<a, e>> \in Edges(h) => a \in NotAfter(h, e) \ {e}
         /\ \A a, b : b \in NotAfter(h, e) \ {e} /\ <<a, b>> \in Edges(h) => a \in NotAfter(h, e) \ {e}
<1>1. PICK R : R = Edges(h) OBVIOUS
<1>2. PICK E : E = Events(h) OBVIOUS
<1>3. R \subseteq E \X E /\ IsFiniteSet(E) BY <1>1, <1>2, EdgesIn DEF Shaped, EventsTyped
<1>4. /\ \A a, b, c : <<a, b>> \in Plus(R, E) /\ <<b, c>> \in R => <<a, c>> \in Plus(R, E)
      /\ R \subseteq Plus(R, E)
  BY <1>3, PlusStep
<1>5. \A a, b : <<a, b>> \in R => a \in E BY <1>3
<1> QED BY <1>1, <1>2, <1>4, <1>5 DEF NotAfter

\* In a coherent graph nothing that an event reads is stale before it.
LEMMA CoherentFresh ==
  ASSUME NEW h, NEW k, NEW K, Shaped(h), Shaped(k), Agrees(h, k, K), CoherentOn(h, Events(h)), NEW e \in Events(h),
         NEW q \in K, NEW w \in K, <<w, e>> \in h.rf, Precedes(h, q, e)
  PROVE  Fresh(k, q, w)
<1>1. PICK R : R = HbEdges(h) OBVIOUS
<1>2. PICK E : E = Events(h) OBVIOUS
<1>3. IsFiniteSet(E) /\ R \subseteq E \X E /\ HappensBefore(h) = Plus(R, E)
  BY <1>1, <1>2, HbIn DEF Shaped, EventsTyped
<1>4. <<q, e>> \in R BY <1>1 DEF Precedes, HbEdges
<1>5. /\ R \subseteq Plus(R, E)
      /\ \A a, b, c : <<a, b>> \in Plus(R, E) /\ <<b, c>> \in R => <<a, c>> \in Plus(R, E)
  BY <1>3, PlusStep
<1>6. <<q, e>> \in HappensBefore(h) /\ \A a : <<a, q>> \in HappensBefore(h) => <<a, e>> \in HappensBefore(h)
  BY <1>3, <1>4, <1>5
<1>7. ASSUME NEW a \in K, <<a, e>> \in HappensBefore(h), Stale(k, w, a) PROVE FALSE
  <2>1. ~Eco(h, e, a) BY <1>7 DEF CoherentOn
  <2>2. CASE <<w, a>> \in MoBefore(k)
    <3>1. <<w, a>> \in MoBefore(h) BY <1>7, <2>2 DEF Agrees
    <3> QED BY <2>1, <3>1 DEF Eco, OverMo
  <2>3. CASE \E u : <<u, a>> \in k.rf /\ <<w, u>> \in MoBefore(k)
    <3>1. PICK u : <<u, a>> \in k.rf /\ <<w, u>> \in MoBefore(k) BY <2>3
    <3>2. <<u, a>> \in h.rf /\ u \in K BY <1>7, <3>1, SamePairsIs DEF SamePairs
    <3>3. <<w, u>> \in MoBefore(h) BY <3>1, <3>2 DEF Agrees
    <3> QED BY <2>1, <3>2, <3>3 DEF Eco, OverMo
  <2> QED BY <1>7, <2>2, <2>3 DEF Stale
<1>8. \A a : <<a, q>> \in HappensBefore(k) => <<a, q>> \in HappensBefore(h) /\ a \in K
  BY AgreesHb
<1> QED BY <1>6, <1>7, <1>8 DEF Fresh

\* The read e of k does what it did in h: what agrees before it makes it fit.
SameRead(h, k, K, e) ==
  /\ Loc(k, e) = Loc(h, e) /\ IsRead(h, e) /\ IsRead(k, e)
  /\ \A a : (<<a, e>> \in k.rf <=> <<a, e>> \in h.rf) /\ (<<a, e>> \in k.sw <=> <<a, e>> \in h.sw)
  /\ \A q : Precedes(k, q, e) <=> Precedes(h, q, e)
  /\ \A q : Precedes(h, q, e) => q \in K
  /\ \A a : <<a, e>> \in h.rf => a \in K
  /\ \A l \in Locations : e \in ToSet(k.mo[l]) <=> IsRmw(k, e) /\ Loc(k, e) = l
  /\ \A a : <<a, e>> \in h.rf /\ IsRmw(k, e) => <<a, e>> \in MoBefore(k) /\ \A r \in K : <<a, r>> \in k.rf => ~IsRmw(k, r)

Again(h, k, K, e) ==
  GoodOn(k, K \cup {e}) /\ (CoherentOn(h, Events(h)) => CoherentOn(k, K \cup {e}))

\* An event that reads what it read before fits and reads nothing stale.
LEMMA SameReadFits ==
  ASSUME NEW h, NEW k, NEW K, NEW e \in Events(h), GoodGraph(h), IsGraph(k), Agrees(h, k, K), Extends(k, K, e),
         SameRead(h, k, K, e)
  PROVE  Again(h, k, K, e)
<1>1. Shaped(h) /\ Shaped(k) /\ MoTyped(h) /\ MoTyped(k) /\ IsGraph(h) BY DEF GoodGraph, IsGraph, Shaped
<1>2. GoodOn(h, K) /\ GoodOn(k, K)
  <2>1. K \subseteq Events(h) BY DEF Agrees
  <2>2. GoodOn(h, K) BY <1>1, <2>1, GoodLess DEF GoodGraph
  <2> QED BY <1>1, <2>2, GoodAgrees
<1>3. /\ IsRead(h, e) /\ IsRead(k, e) /\ Loc(k, e) = Loc(h, e)
      /\ \A a : (<<a, e>> \in k.rf <=> <<a, e>> \in h.rf) /\ (<<a, e>> \in k.sw <=> <<a, e>> \in h.sw)
      /\ \A q : Precedes(k, q, e) <=> Precedes(h, q, e)
      /\ \A q : Precedes(h, q, e) => q \in K
      /\ \A a : <<a, e>> \in h.rf => a \in K
  BY DEF SameRead
<1>4. PICK w \in Events(h) : ReadsFrom(h, w, e) BY <1>3 DEF GoodGraph, GoodOn, CompleteOn
<1>5. \A v : <<v, e>> \in h.rf <=> v = w BY <1>4 DEF ReadsFrom
<1>6. w \in K BY <1>3, <1>5
<1>7. \A x \in K : /\ Loc(h, x) = Loc(k, x) /\ Mode(h, x) = Mode(k, x)
                   /\ (IsWrite(h, x) <=> IsWrite(k, x)) /\ (IsFence(h, x) <=> IsFence(k, x))
  BY SameKinds
<1>8. ReadsFrom(k, w, e) BY <1>3, <1>4, <1>6, <1>7 DEF ReadsFrom
<1>9. ASSUME NEW s, <<s, e>> \in k.sw PROVE Releases(k, s, w)
  <2>1. <<s, e>> \in h.sw BY <1>3, <1>9
  <2>2. PICK v \in Events(h), r \in Events(h) : Justifies(h, v, r, s, e)
    BY <2>1 DEF GoodGraph, GoodOn, JustifiedOn
  <2>3. ~IsFence(h, e) BY <1>3 DEF IsRead, IsFence, ReadKinds
  <2>4. r = e /\ v = w BY <1>5, <2>2, <2>3 DEF Justifies
  <2>5. s \in K
    <3>1. <<s, e>> \in Edges(k) BY <1>9 DEF Edges
    <3> QED BY <3>1 DEF Extends
  <2>6. Mode(h, s) \in ReleaseModes /\ (s = w \/ (IsFence(h, s) /\ <<s, w>> \in PoPlus(h))) BY <2>2, <2>4 DEF Justifies
  <2>7. <<s, w>> \in PoPlus(h) => <<s, w>> \in PoPlus(k) BY <1>1, <1>6, SamePairsIs DEF SamePairs
  <2>8. s \in Events(k) BY <2>5 DEF Agrees
  <2> QED BY <1>7, <2>5, <2>6, <2>7, <2>8 DEF Releases
<1>10. \E q : Precedes(k, q, e) BY <1>3 DEF GoodGraph, GoodOn, ParentedOn
<1>11. /\ \A l \in Locations : e \in ToSet(k.mo[l]) <=> IsRmw(k, e) /\ Loc(k, e) = l
       /\ IsRmw(k, e) => <<w, e>> \in MoBefore(k) /\ \A r \in K : <<w, r>> \in k.rf => ~IsRmw(k, r)
  BY <1>5 DEF SameRead
<1>12. Fits(k, K, e) /\ Above(k, K, e)
  <2>1. e \notin K BY DEF Extends
  <2> QED BY <1>3, <1>6, <1>8, <1>9, <1>10, <1>11, <2>1, ReadFits
<1>13. GoodOn(k, K \cup {e}) BY <1>1, <1>2, <1>12, GoodExtends
<1>14. ASSUME CoherentOn(h, Events(h)) PROVE CoherentOn(k, K \cup {e})
  <2>1. CoherentOn(h, K) BY <1>14 DEF CoherentOn, Agrees
  <2>2. CoherentOn(k, K) BY <1>1, <1>2, <2>1, CoherentAgrees DEF GoodOn
  <2>3. NothingStale(k, e)
    <3>1. ASSUME NEW v, NEW q, <<v, e>> \in k.rf, Precedes(k, q, e) PROVE Fresh(k, q, v)
      <4>1. v \in K /\ q \in K /\ <<v, e>> \in h.rf /\ Precedes(h, q, e) BY <1>3, <3>1
      <4> QED BY <1>1, <1>14, <4>1, CoherentFresh
    <3> QED BY <3>1 DEF NothingStale
  <2> QED BY <1>1, <1>2, <1>12, <2>2, <2>3, CoherentExtends
<1> QED BY <1>13, <1>14 DEF Again

\* The flip of a success.
FailOf(h, e) ==
  Finalize([RemoveSuccessors(h, e) EXCEPT !.mo[Loc(h, e)] = Without(@, e), !.ev[e].type = "CAS_FAIL"])

\* The flip to a failed CAS makes a graph that agrees on all that does not depend on it.
LEMMA FailIs ==
  ASSUME NEW h, NEW e \in Events(h), NEW k, GoodGraph(h), Kind(h, e) = "CAS_SUCCESS", k = FailOf(h, e)
  PROVE  Mutation(h, k, NotAfter(h, e) \ {e}, e)
<1>1. Shaped(h) /\ MoTyped(h) /\ IsGraph(h) BY DEF GoodGraph, IsGraph, Shaped
<1>2. <<e, e>> \notin Plus(Edges(h), Events(h)) BY DEF GoodGraph, GoodOn, AcyclicOn
<1>3. PICK N : N = NotAfter(h, e) OBVIOUS
<1>4. /\ e \in N /\ N \subseteq Events(h) /\ \A a : <<a, e>> \in Edges(h) => a \in N \ {e}
      /\ \A a, b : b \in N \ {e} /\ <<a, b>> \in Edges(h) => a \in N \ {e}
  BY <1>1, <1>2, <1>3, NotAfterIs
<1>5. PICK r : r = RemoveSuccessors(h, e) OBVIOUS
<1>6. r = Dropped(h, N) /\ \A p \in Edges(h) : p[2] \in N => p[1] \in N
  <2>1. N = {d \in Events(h) : <<e, d>> \notin Plus(Edges(h), Events(h))} BY <1>3 DEF NotAfter
  <2> QED BY <1>1, <1>5, <2>1, RemoveIs
<1>7. IsGraph(r) /\ Events(r) = N /\ Agrees(h, r, N) /\ Edges(r) \subseteq Edges(h)
  BY <1>1, <1>4, <1>6, DropIs
<1>8. \A x \in N : r.ev[x] = h.ev[x] BY <1>7 DEF Agrees
<1>9. PICK l \in Locations : l = Loc(h, e) BY <1>1 DEF Shaped, EventsTyped
<1>10. Loc(r, e) = l BY <1>4, <1>8, <1>9 DEF Loc
<1>11. PICK u : u = [r EXCEPT !.mo[l] = Without(@, e)] OBVIOUS
<1>12. SameBut(r, u) /\ u.rf = r.rf /\ u.sw = r.sw /\ Unplaced(r, u, e) BY <1>7, <1>10, <1>11, UnplaceIs
<1>13. IsGraph(u) /\ Events(u) = N /\ Loc(u, e) = l /\ \A x \in N : u.ev[x] = h.ev[x]
  BY <1>4, <1>7, <1>8, <1>10, <1>12, SameButIs DEF SameBut
<1>14. PICK v : v = [u EXCEPT !.ev[e].type = "CAS_FAIL"] OBVIOUS
<1>15. /\ IsGraph(v) /\ Events(v) = Events(u) /\ v.po = u.po /\ v.tcj = u.tcj /\ v.rf = u.rf /\ v.sw = u.sw
       /\ v.mo = u.mo
       /\ \A d \in Events(u) : d # e => v.ev[d] = u.ev[d]
       /\ Kind(v, e) = "CAS_FAIL"
       /\ \A d \in Events(u) : Loc(v, d) = Loc(u, d) /\ Mode(v, d) = Mode(u, d)
  BY <1>4, <1>9, <1>13, <1>14, KindIs
<1>16. k = v
  <2>1. v = [r EXCEPT !.mo[l] = Without(@, e), !.ev[e].type = "CAS_FAIL"] BY <1>11, <1>14
  <2>2. k = Finalize(v) BY <1>5, <1>9, <2>1 DEF FailOf
  <2> QED BY <1>15, <2>2, FinalizeSame
<1>17. PICK K : K = N \ {e} OBVIOUS
<1>18. /\ IsGraph(k) /\ Shaped(k) /\ MoTyped(k) /\ Events(k) = N /\ k.rf = r.rf /\ k.sw = r.sw /\ k.tcj = r.tcj /\ k.po = r.po
       /\ k.mo = u.mo /\ \A x \in K : k.ev[x] = r.ev[x]
       /\ Kind(k, e) = "CAS_FAIL" /\ Loc(k, e) = l
  BY <1>4, <1>8, <1>12, <1>13, <1>15, <1>16, <1>17 DEF SameBut, IsGraph, Shaped
<1>19. PoEdges(k) = PoEdges(r) /\ Edges(k) = Edges(r)
  <2>1. PoEdges(k) = PoEdges(r) BY <1>18 DEF PoEdges
  <2> QED BY <1>18, <2>1 DEF Edges
<1>20. \A a, b : <<a, b>> \in Edges(r) => <<a, b>> \in Edges(h) /\ a \in K
  <2>1. ASSUME NEW a, NEW b, <<a, b>> \in Edges(r) PROVE a \in K
    <3>1. Edges(r) \subseteq N \X N BY <1>7, EdgesIn DEF IsGraph
    <3>2. b \in N /\ <<a, b>> \in Edges(h) BY <1>7, <2>1, <3>1
    <3> QED BY <1>4, <1>17, <3>2
  <2> QED BY <1>7, <2>1
<1>21. Agrees(h, k, K)
  <2>1. Agrees(h, r, K)
    <3>1. \A p \in Edges(h) : p[2] \in K => p[1] \in K
      <4>1. Edges(h) \subseteq Events(h) \X Events(h) BY <1>1, EdgesIn DEF Shaped
      <4>2. ASSUME NEW p \in Edges(h), p[2] \in K PROVE p[1] \in K
        <5>1. <<p[1], p[2]>> \in Edges(h) BY <4>1, <4>2
        <5> QED BY <1>4, <1>17, <4>2, <5>1
      <4> QED BY <4>2
    <3>2. K \subseteq N BY <1>17
    <3> QED BY <1>7, <3>1, <3>2, AgreesLess
  <2>2. \A a, b : b \in K /\ (<<a, b>> \in Edges(r) \/ <<a, b>> \in Edges(k)) => a \in K BY <1>19, <1>20
  <2>3. \A a, b \in K : <<a, b>> \in MoBefore(r) <=> <<a, b>> \in MoBefore(k)
    <3>1. MoBefore(k) = MoBefore(u) BY <1>18 DEF MoBefore
    <3>2. \A a \in K : a # e BY <1>17
    <3> QED BY <1>12, <3>1, <3>2 DEF Unplaced
  <2>4. \A m \in Locations : \A a \in K : a \in ToSet(r.mo[m]) <=> a \in ToSet(k.mo[m])
    BY <1>12, <1>17, <1>18 DEF Unplaced
  <2>5. K \subseteq Events(r) /\ K \subseteq Events(k) /\ \A x \in K : r.ev[x] = k.ev[x] BY <1>7, <1>17, <1>18
  <2>6. \A a, b \in K : (<<a, b>> \in r.rf <=> <<a, b>> \in k.rf) /\ (<<a, b>> \in r.sw <=> <<a, b>> \in k.sw)
                         /\ (<<a, b>> \in r.tcj <=> <<a, b>> \in k.tcj)
    BY <1>18
  <2>7. Agrees(r, k, K) BY <1>7, <1>18, <2>2, <2>3, <2>4, <2>5, <2>6, EditAgrees
  <2> QED BY <2>1, <2>7, AgreesTransitive
<1>22. Extends(k, K, e) BY <1>4, <1>17, <1>18, <1>19, <1>20 DEF Extends
<1>23. SamePairs(h, r, N) BY <1>1, <1>7, SamePairsIs DEF IsGraph, Shaped
<1>24. SameRead(h, k, K, e)
  <2>1. IsRead(h, e) /\ IsRead(k, e) /\ ~IsRmw(k, e) BY <1>18 DEF IsRead, IsRmw, ReadKinds, RmwKinds
  <2>2. \A a : (<<a, e>> \in k.rf <=> <<a, e>> \in h.rf) /\ (<<a, e>> \in k.sw <=> <<a, e>> \in h.sw)
    BY <1>4, <1>18, <1>23 DEF SamePairs
  <2>3. \A q : Precedes(k, q, e) <=> Precedes(h, q, e)
    BY <1>4, <1>18, <1>19, <1>23 DEF SamePairs, Precedes
  <2>4. \A q : Precedes(h, q, e) => q \in K BY <1>4, <1>17 DEF Precedes, Edges
  <2>5. \A a : <<a, e>> \in h.rf => a \in K BY <1>4, <1>17 DEF Edges
  <2>6. \A m \in Locations : e \notin ToSet(k.mo[m]) BY <1>12, <1>18 DEF Unplaced
  <2> QED BY <1>9, <1>18, <2>1, <2>2, <2>3, <2>4, <2>5, <2>6 DEF SameRead
<1>25. Again(h, k, K, e) BY <1>18, <1>21, <1>22, <1>24, SameReadFits
<1>26. K \cup {e} = Events(k) BY <1>4, <1>17, <1>18
<1>27. IsCoherent(h) => IsCoherent(k)
  <2>1. IsCoherent(h) => CoherentOn(h, Events(h)) BY <1>1, CoherentIs
  <2>2. CoherentOn(k, Events(k)) => IsCoherent(k) BY <1>18, CoherentIs
  <2> QED BY <1>25, <1>26, <2>1, <2>2 DEF Again
<1>28. Keeps(h, K)
  <2>1. IsRead(h, e) BY DEF IsRead, ReadKinds
  <2> QED BY <1>1, <1>3, <1>17, <2>1, KeepsNotAfter
<1> QED BY <1>3, <1>17, <1>18, <1>21, <1>25, <1>26, <1>27, <1>28 DEF Mutation, GoodGraph, Again

\* The flip of a failure: the same edges, and one event more in mo.
SuccessOf(h, e) ==
  LET i == InsertMoAfter(h, CHOOSE w \in Sources(h.rf, e) : TRUE, e)
  IN  Finalize([i EXCEPT !.ev[e].type = "CAS_SUCCESS"])
Succeeds(h, k, w, e) ==
  /\ IsGraph(k) /\ Events(k) = Events(h) /\ PoEdges(k) = PoEdges(h) /\ k.tcj = h.tcj /\ k.rf = h.rf /\ k.sw = h.sw
  /\ Edges(k) = Edges(h) /\ HappensBefore(k) = HappensBefore(h) /\ PoPlus(k) = PoPlus(h)
  /\ \A d \in Events(h) : d # e => k.ev[d] = h.ev[d]
  /\ \A d \in Events(h) : Loc(k, d) = Loc(h, d) /\ Mode(k, d) = Mode(h, d)
  /\ Kind(k, e) = "CAS_SUCCESS"
  /\ \A d \in Events(h) : d # e => Kind(k, d) = Kind(h, d)
  /\ Placed(h, k, w, e) /\ w # e /\ ReadsFrom(h, w, e) /\ w \in Events(h)

\* The flip to a successful CAS places the event in mo after the write it reads.
LEMMA SuccessIs ==
  ASSUME NEW h, NEW e \in Events(h), NEW k, GoodGraph(h), Kind(h, e) = "CAS_FAIL", k = SuccessOf(h, e)
  PROVE  \E w : Succeeds(h, k, w, e)
<1>1. Shaped(h) /\ MoTyped(h) /\ IsGraph(h) BY DEF GoodGraph, IsGraph, Shaped
<1>2. IsRead(h, e) /\ ~IsWrite(h, e) BY DEF IsRead, IsWrite, ReadKinds, WriteKinds
<1>3. PICK w \in Events(h) : ReadsFrom(h, w, e) BY <1>2 DEF GoodGraph, GoodOn, CompleteOn
<1>4. PICK l \in Locations : l = Loc(h, e) BY <1>1 DEF Shaped, EventsTyped
<1>5. w \in ToSet(h.mo[Loc(h, e)]) /\ w # e
  <2>1. IsWrite(h, w) /\ Loc(h, w) = l BY <1>3, <1>4 DEF ReadsFrom
  <2>2. w # e BY <1>2, <2>1
  <2>3. w \in ToSet(h.mo[l]) BY <2>1 DEF GoodGraph, GoodOn, CompleteOn
  <2> QED BY <1>4, <2>2, <2>3
<1>6. (CHOOSE v \in Sources(h.rf, e) : TRUE) = w
  <2>1. h.rf \subseteq Events(h) \X Events(h) BY <1>1 DEF Shaped, EdgesTyped
  <2>2. PICK R : R = h.rf OBVIOUS
  <2>3. R \subseteq Events(h) \X Events(h) BY <2>1, <2>2
  <2>4. \A v : v \in Sources(R, e) <=> <<v, e>> \in R BY <2>3, TargetsIs
  <2>5. \A v : <<v, e>> \in R <=> v = w BY <1>3, <2>2 DEF ReadsFrom
  <2>6. Sources(R, e) = {w} BY <2>4, <2>5
  <2> QED BY <2>2, <2>6
<1>7. PICK i : i = InsertMoAfter(h, w, e) OBVIOUS
<1>8. SameBut(h, i) /\ i.rf = h.rf /\ i.sw = h.sw /\ Placed(h, i, w, e)
  <2>1. Loc(h, e) \in Locations BY <1>4
  <2> QED BY <1>1, <1>5, <1>7, <2>1, InsertIs
<1>9. IsGraph(i) /\ Events(i) = Events(h) /\ (\A x : i.ev[x] = h.ev[x]) /\ i.po = h.po /\ i.tcj = h.tcj
  BY <1>8, SameButIs DEF SameBut
<1>10. PICK v : v = [i EXCEPT !.ev[e].type = "CAS_SUCCESS"] OBVIOUS
<1>11. /\ IsGraph(v) /\ Events(v) = Events(i) /\ v.po = i.po /\ v.tcj = i.tcj /\ v.rf = i.rf /\ v.sw = i.sw
       /\ v.mo = i.mo
       /\ \A d \in Events(i) : d # e => v.ev[d] = i.ev[d]
       /\ Kind(v, e) = "CAS_SUCCESS"
       /\ \A d \in Events(i) : Loc(v, d) = Loc(i, d) /\ Mode(v, d) = Mode(i, d)
  <2>1. Loc(i, e) \in Locations BY <1>4, <1>9 DEF Loc
  <2> QED BY <1>9, <1>10, <2>1, KindIs
<1>12. k = v BY <1>6, <1>7, <1>10, <1>11, FinalizeSame DEF SuccessOf
<1>13. PoEdges(k) = PoEdges(h) BY <1>9, <1>11, <1>12 DEF PoEdges
<1>14. Edges(k) = Edges(h) BY <1>8, <1>9, <1>11, <1>12, <1>13 DEF Edges
<1>15. Events(k) = Events(h) BY <1>9, <1>11, <1>12
<1>16. HappensBefore(k) = HappensBefore(h) BY <1>8, <1>9, <1>11, <1>12, <1>13, <1>15 DEF HappensBefore
<1>17. PoPlus(k) = PoPlus(h) BY <1>13, <1>15 DEF PoPlus
<1>18. \A d \in Events(h) : Loc(k, d) = Loc(h, d) /\ Mode(k, d) = Mode(h, d)
  BY <1>9, <1>11, <1>12 DEF Loc, Mode
<1>19. \A d \in Events(h) : d # e => k.ev[d] = h.ev[d] BY <1>9, <1>11, <1>12
<1>20. Placed(h, k, w, e)
  <2>1. MoBefore(k) = MoBefore(i) BY <1>11, <1>12 DEF MoBefore
  <2> QED BY <1>8, <1>11, <1>12, <2>1 DEF Placed
<1> QED BY <1>3, <1>5, <1>8, <1>9, <1>11, <1>12, <1>13, <1>14, <1>15, <1>16, <1>17, <1>18, <1>19, <1>20
        DEF Succeeds, Kind

MayFlip(h, e) == \A w : <<w, e>> \in h.rf => \A r \in Events(h) : <<w, r>> \in h.rf /\ IsRmw(h, r) => r = e

\* It leaves a good graph when nothing else rmw-like reads that write.
LEMMA SuccessGood ==
  ASSUME NEW h, NEW e \in Events(h), NEW k, NEW w, GoodGraph(h), Kind(h, e) = "CAS_FAIL", Succeeds(h, k, w, e),
         MayFlip(h, e)
  PROVE  GoodGraph(k)
<1>1. Shaped(h) /\ MoTyped(h) /\ IsGraph(h) /\ GoodOn(h, Events(h)) BY DEF GoodGraph, IsGraph, Shaped
<1>2. PICK E : E = Events(h) OBVIOUS
<1>3. /\ IsGraph(k) /\ Events(k) = E /\ PoEdges(k) = PoEdges(h) /\ k.tcj = h.tcj /\ k.rf = h.rf /\ k.sw = h.sw
      /\ Edges(k) = Edges(h) /\ PoPlus(k) = PoPlus(h)
      /\ \A d \in E : Loc(k, d) = Loc(h, d) /\ Mode(k, d) = Mode(h, d)
      /\ \A d \in E : d # e => Kind(k, d) = Kind(h, d)
      /\ Kind(k, e) = "CAS_SUCCESS" /\ Placed(h, k, w, e) /\ w # e /\ ReadsFrom(h, w, e) /\ w \in E
  BY <1>2 DEF Succeeds
<1>4. /\ IsRead(h, e) /\ IsRead(k, e) /\ IsRmw(k, e) /\ IsWrite(k, e) /\ ~IsFence(k, e) /\ ~IsFence(h, e)
      /\ ~IsWrite(h, e) /\ ~IsRmw(h, e)
  BY <1>3 DEF IsRead, IsRmw, IsWrite, IsFence, ReadKinds, RmwKinds, WriteKinds
<1>5. \A d \in E : d # e => /\ (IsRead(k, d) <=> IsRead(h, d)) /\ (IsWrite(k, d) <=> IsWrite(h, d))
                            /\ (IsRmw(k, d) <=> IsRmw(h, d)) /\ (IsFence(k, d) <=> IsFence(h, d))
  BY <1>3 DEF IsRead, IsRmw, IsWrite, IsFence
<1>6. \A d \in E : (IsRead(k, d) <=> IsRead(h, d)) /\ (IsFence(k, d) <=> IsFence(h, d)) /\ (IsWrite(h, d) => IsWrite(k, d))
  BY <1>4, <1>5
<1>7. \A v, x : <<v, x>> \in h.rf => v \in E /\ x \in E /\ v # e
  <2>1. ASSUME NEW v, NEW x, <<v, x>> \in h.rf PROVE v \in E /\ x \in E /\ v # e
    <3>1. v \in E /\ x \in E BY <1>1, <1>2, <2>1 DEF Shaped, EdgesTyped
    <3>2. IsRead(h, x) BY <1>1, <1>2, <2>1, <3>1 DEF GoodOn, CompleteOn
    <3>3. PICK u \in E : ReadsFrom(h, u, x) BY <1>1, <1>2, <3>1, <3>2 DEF GoodOn, CompleteOn
    <3>4. v = u /\ IsWrite(h, v) BY <2>1, <3>3 DEF ReadsFrom
    <3> QED BY <1>4, <3>1, <3>4
  <2> QED BY <2>1
<1>8. CompleteOn(k, E)
  <2>1. ASSUME NEW x \in E, IsRead(k, x) PROVE \E u \in E : ReadsFrom(k, u, x)
    <3>1. PICK u \in E : ReadsFrom(h, u, x) BY <1>1, <1>2, <1>6, <2>1 DEF GoodOn, CompleteOn
    <3>2. ReadsFrom(k, u, x) BY <1>3, <1>6, <3>1 DEF ReadsFrom
    <3> QED BY <3>2
  <2>2. \A v, x : x \in E /\ <<v, x>> \in k.rf => IsRead(k, x) BY <1>1, <1>2, <1>3, <1>6 DEF GoodOn, CompleteOn
  <2>3. \A l \in Locations : \A x \in E : x \in ToSet(k.mo[l]) <=> IsWrite(k, x) /\ Loc(k, x) = l
    <3>1. ASSUME NEW l \in Locations, NEW x \in E, x # e PROVE x \in ToSet(k.mo[l]) <=> IsWrite(k, x) /\ Loc(k, x) = l
      <4>1. x \in ToSet(k.mo[l]) <=> x \in ToSet(h.mo[l]) BY <1>3, <3>1 DEF Placed
      <4>2. x \in ToSet(h.mo[l]) <=> IsWrite(h, x) /\ Loc(h, x) = l BY <1>1, <1>2 DEF GoodOn, CompleteOn
      <4> QED BY <1>3, <1>5, <3>1, <4>1, <4>2
    <3>2. \A l \in Locations : e \in ToSet(k.mo[l]) <=> IsWrite(k, e) /\ Loc(k, e) = l
      BY <1>2, <1>3, <1>4 DEF Placed
    <3> QED BY <3>1, <3>2
  <2> QED BY <2>1, <2>2, <2>3 DEF CompleteOn
<1>9. ExclusiveOn(k, E)
  <2>1. ASSUME NEW v, NEW x \in E, <<v, x>> \in k.rf, IsRmw(k, x)
        PROVE  <<v, x>> \in MoBefore(k) /\ \A r \in E : <<v, r>> \in k.rf /\ IsRmw(k, r) => r = x
    <3>1. <<v, x>> \in h.rf /\ v # e BY <1>3, <1>7, <2>1
    <3>2. CASE x = e
      <4>1. v = w BY <1>3, <3>1, <3>2 DEF ReadsFrom
      <4>2. <<v, x>> \in MoBefore(k) BY <1>3, <3>2, <4>1 DEF Placed
      <4>3. ASSUME NEW r \in E, <<v, r>> \in k.rf, IsRmw(k, r), r # e PROVE FALSE
        BY <1>2, <1>3, <1>5, <3>1, <3>2, <4>3 DEF MayFlip
      <4> QED BY <3>2, <4>2, <4>3
    <3>3. CASE x # e
      <4>1. IsRmw(h, x) BY <1>5, <2>1, <3>3
      <4>2. <<v, x>> \in MoBefore(h) BY <1>1, <1>2, <3>1, <4>1 DEF GoodOn, ExclusiveOn
      <4>3. <<v, x>> \in MoBefore(k) BY <1>3, <3>1, <3>3, <4>2 DEF Placed
      <4>4. ASSUME NEW r \in E, <<v, r>> \in k.rf, IsRmw(k, r) PROVE r = x
        <5>1. CASE r = e
          <6>1. <<v, e>> \in h.rf BY <1>3, <4>4, <5>1
          <6> QED BY <1>2, <3>1, <3>3, <4>1, <6>1 DEF MayFlip
        <5>2. CASE r # e
          <6>1. IsRmw(h, r) /\ <<v, r>> \in h.rf BY <1>3, <1>5, <4>4, <5>2
          <6> QED BY <1>1, <1>2, <3>1, <4>1, <6>1 DEF GoodOn, ExclusiveOn
        <5> QED BY <5>1, <5>2
      <4> QED BY <4>3, <4>4
    <3> QED BY <3>2, <3>3
  <2> QED BY <2>1 DEF ExclusiveOn
<1>10. JustifiedOn(k, E)
  <2>1. ASSUME NEW s, NEW x \in E, <<s, x>> \in k.sw PROVE \E v, r \in E : Justifies(k, v, r, s, x)
    <3>1. <<s, x>> \in h.sw BY <1>3, <2>1
    <3>2. PICK v \in E, r \in E : Justifies(h, v, r, s, x) BY <1>1, <1>2, <3>1 DEF GoodOn, JustifiedOn
    <3>3. s \in E BY <1>1, <1>2, <3>1 DEF Shaped, EdgesTyped
    <3>4. Justifies(k, v, r, s, x) BY <1>3, <1>6, <3>2, <3>3 DEF Justifies
    <3> QED BY <3>4
  <2> QED BY <2>1 DEF JustifiedOn
<1>11. AcyclicOn(k, E) BY <1>1, <1>2, <1>3 DEF GoodOn, AcyclicOn
<1>12. ParentedOn(k, E) BY <1>1, <1>2, <1>3, <1>6 DEF GoodOn, ParentedOn, Precedes
<1> QED BY <1>3, <1>8, <1>9, <1>10, <1>11, <1>12 DEF GoodGraph, GoodOn

\* What agrees: a part without e that no edge enters.
LEMMA SuccessAgrees ==
  ASSUME NEW h, NEW e \in Events(h), NEW k, NEW w, GoodGraph(h), Succeeds(h, k, w, e), NEW K, K \subseteq Events(h) \ {e},
         \A a, b : b \in K /\ <<a, b>> \in Edges(h) => a \in K
  PROVE  Agrees(h, k, K)
<1>1. IsGraph(h) /\ IsGraph(k) BY DEF GoodGraph, Succeeds
<1>2. Events(k) = Events(h) /\ Edges(k) = Edges(h) /\ k.tcj = h.tcj /\ k.rf = h.rf /\ k.sw = h.sw BY DEF Succeeds
<1>3. \A x \in K : h.ev[x] = k.ev[x] BY DEF Succeeds
<1>4. \A x \in K : x # e OBVIOUS
<1>5. \A a, b \in K : <<a, b>> \in MoBefore(h) <=> <<a, b>> \in MoBefore(k) BY <1>4 DEF Succeeds, Placed
<1>6. \A l \in Locations : \A a \in K : a \in ToSet(h.mo[l]) <=> a \in ToSet(k.mo[l]) BY <1>4 DEF Succeeds, Placed
<1>7. \A a, b : b \in K /\ (<<a, b>> \in Edges(h) \/ <<a, b>> \in Edges(k)) => a \in K BY <1>2
<1>8. K \subseteq Events(h) /\ K \subseteq Events(k) BY <1>2
<1>9. \A a, b \in K : (<<a, b>> \in h.rf <=> <<a, b>> \in k.rf) /\ (<<a, b>> \in h.sw <=> <<a, b>> \in k.sw)
                         /\ (<<a, b>> \in h.tcj <=> <<a, b>> \in k.tcj)
  BY <1>2
<1> QED BY <1>1, <1>3, <1>5, <1>6, <1>7, <1>8, <1>9, EditAgrees

\* The flip is sound where nothing comes after the CAS.
SoundAtEnd(h, k, e) ==
  /\ GoodGraph(k) /\ Kept(h, k)
  /\ (\A b : <<e, b>> \notin Edges(h)) => (IsCoherent(h) => IsCoherent(k))

\* It keeps coherence when the CAS has no successors.
LEMMA SuccessSound ==
  ASSUME NEW h, NEW e \in Events(h), NEW k, NEW w, GoodGraph(h), Kind(h, e) = "CAS_FAIL", Succeeds(h, k, w, e),
         MayFlip(h, e)
  PROVE  SoundAtEnd(h, k, e)
<1>1. Shaped(h) /\ MoTyped(h) /\ IsGraph(h) /\ IsRead(h, e) BY DEF GoodGraph, IsGraph, Shaped, IsRead, ReadKinds
<1>2. <<e, e>> \notin Plus(Edges(h), Events(h)) BY DEF GoodGraph, GoodOn, AcyclicOn
<1>3. GoodGraph(k) BY SuccessGood
<1>4. Kept(h, k)
  <2>1. PICK K : K = NotAfter(h, e) \ {e} OBVIOUS
  <2>2. K \subseteq Events(h) \ {e} /\ \A a, b : b \in K /\ <<a, b>> \in Edges(h) => a \in K
    BY <1>1, <1>2, <2>1, NotAfterIs
  <2>3. Agrees(h, k, K) BY <2>2, SuccessAgrees
  <2>4. Keeps(h, K) BY <1>1, <2>1, KeepsNotAfter
  <2> QED BY <2>3, <2>4 DEF Kept
<1>5. ASSUME \A b : <<e, b>> \notin Edges(h), IsCoherent(h) PROVE IsCoherent(k)
  <2>1. PICK K : K = Events(h) \ {e} OBVIOUS
  <2>2. \A a, b : b \in K /\ <<a, b>> \in Edges(h) => a \in K
    <3>1. Edges(h) \subseteq Events(h) \X Events(h) BY <1>1, EdgesIn DEF Shaped
    <3>2. \A a, b : <<a, b>> \in Edges(h) => a \in Events(h) BY <3>1
    <3> QED BY <1>5, <2>1, <3>2
  <2>3. Agrees(h, k, K) BY <2>1, <2>2, SuccessAgrees
  <2>4. /\ IsGraph(k) /\ Events(k) = Events(h) /\ Edges(k) = Edges(h) /\ k.tcj = h.tcj /\ k.rf = h.rf /\ k.sw = h.sw
        /\ PoEdges(k) = PoEdges(h) /\ Placed(h, k, w, e) /\ ReadsFrom(h, w, e) /\ Kind(k, e) = "CAS_SUCCESS"
        /\ Loc(k, e) = Loc(h, e)
    BY DEF Succeeds
  <2>5. \A a : <<a, e>> \in Edges(h) => a \in K
    <3>1. Edges(h) \subseteq Events(h) \X Events(h) BY <1>1, EdgesIn DEF Shaped
    <3>2. \A a, b : <<a, b>> \in Edges(h) => a \in Events(h) BY <3>1
    <3> QED BY <1>5, <2>1, <3>2
  <2>6. Extends(k, K, e) BY <2>1, <2>2, <2>4, <2>5 DEF Extends
  <2>7. SameRead(h, k, K, e)
    <3>1. IsRead(k, e) /\ IsRmw(k, e) /\ IsWrite(k, e) BY <2>4 DEF IsRead, IsRmw, IsWrite, ReadKinds, RmwKinds, WriteKinds
    <3>2. \A q : Precedes(k, q, e) <=> Precedes(h, q, e) BY <2>4 DEF Precedes
    <3>3. \A q : Precedes(h, q, e) => q \in K BY <2>5 DEF Precedes, Edges
    <3>4. \A a : <<a, e>> \in h.rf => a \in K BY <2>5 DEF Edges
    <3>5. \A l \in Locations : e \in ToSet(k.mo[l]) <=> IsRmw(k, e) /\ Loc(k, e) = l BY <2>4, <3>1 DEF Placed
    <3>6. ASSUME NEW a, <<a, e>> \in h.rf
          PROVE  <<a, e>> \in MoBefore(k) /\ \A r \in K : <<a, r>> \in k.rf => ~IsRmw(k, r)
      <4>1. a = w /\ <<a, e>> \in MoBefore(k) BY <2>4, <3>6 DEF ReadsFrom, Placed
      <4>2. \A r \in K : IsRmw(k, r) <=> IsRmw(h, r) BY <2>3, SameKinds
      <4> QED BY <2>1, <2>4, <3>6, <4>1, <4>2 DEF MayFlip
    <3> QED BY <1>1, <2>4, <3>1, <3>2, <3>3, <3>4, <3>5, <3>6 DEF SameRead
  <2>8. Again(h, k, K, e) BY <2>3, <2>4, <2>6, <2>7, SameReadFits
  <2>9. K \cup {e} = Events(k) BY <2>1, <2>4
  <2>10. CoherentOn(h, Events(h)) BY <1>1, <1>5, CoherentIs
  <2>11. CoherentOn(k, Events(k)) BY <2>8, <2>9, <2>10 DEF Again
  <2> QED BY <2>4, <2>11, CoherentIs DEF IsGraph, Shaped
<1> QED BY <1>3, <1>4, <1>5 DEF SoundAtEnd

\* It leaves the races among the other events.
LEMMA SuccessRaces ==
  ASSUME NEW h, NEW e \in Events(h), NEW k, NEW w, Succeeds(h, k, w, e)
  PROVE  SameRaces(h, k, Events(h) \ {e})
BY DEF Succeeds, SameRaces, IsRace, OfKind

-----------------------------------------------------------------------------
(* add_new_node.                                                           *)

\* One event more, at the end of its thread, with tcj edges into it.
Bigger(h, e, r, T) ==
  [h EXCEPT !.ev = [d \in Events(h) \cup {e} |-> IF d = e THEN r ELSE @[d]],
            !.po[e[1]] = Append(@, e), !.tcj = @ \cup T]
NewEvent(h, e, r, T) ==
  /\ e[1] \in Threads /\ e = <<e[1], Len(h.po[e[1]]) + 1>>
  /\ r \in EventRecord /\ (r.type # "FENCE" => r.loc \in Locations)
  /\ T \subseteq Events(h) \X {e}
Enlarges(h, k, e, r, T) ==
  /\ IsGraph(k) /\ e \notin Events(h) /\ Events(k) = Events(h) \cup {e}
  /\ k.ev[e] = r /\ \A d \in Events(h) : k.ev[d] = h.ev[d]
  /\ k.rf = h.rf /\ k.sw = h.sw /\ k.tcj = h.tcj \cup T /\ k.mo = h.mo
  /\ \A a, b : b # e => (<<a, b>> \in PoEdges(k) <=> <<a, b>> \in PoEdges(h))
  /\ \A a : <<a, e>> \in PoEdges(k) <=> a \in Events(h) /\ a[1] = e[1] /\ e[2] = a[2] + 1
  /\ \A b : <<e, b>> \notin PoEdges(k)
  /\ \A a \in Events(h) : a[1] = e[1] => a[2] < e[2]
  /\ \A d \in ToSet(k.po[e[1]]) : d \in Events(k) /\ d[1] = e[1]

\* Adding an event at the end of its thread adds its po and tcj edges only.
LEMMA BiggerIs ==
  ASSUME NEW h, NEW e, NEW r, NEW T, NEW k, IsGraph(h), NewEvent(h, e, r, T), k = Bigger(h, e, r, T)
  PROVE  Enlarges(h, k, e, r, T)
<1>1. PICK t \in Threads : t = e[1] BY DEF NewEvent
<1>2. PICK n : n = Len(h.po[t]) OBVIOUS
<1>3. h.po \in [Threads -> Seq(Events(h))] /\ n \in Nat BY <1>2 DEF IsGraph, PoTyped
<1>4. e = <<t, n + 1>> /\ e[2] = n + 1 BY <1>1, <1>2 DEF NewEvent
<1>5. /\ \A d \in Events(h) : d = <<d[1], d[2]>> /\ d[1] \in Threads /\ d[2] \in 1..Len(h.po[d[1]])
      /\ \A u \in Threads : \A i \in 1..Len(h.po[u]) : h.po[u][i] = <<u, i>>
  BY DEF IsGraph, PoTyped
<1>6. \A a \in Events(h) : a[1] = t => a[2] \in Nat /\ a[2] < n + 1
  <2>1. ASSUME NEW a \in Events(h), a[1] = t PROVE a[2] \in Nat /\ a[2] < n + 1
    <3>1. a[2] \in 1..n BY <1>2, <1>5, <2>1
    <3> QED BY <1>3, <3>1
  <2> QED BY <2>1
<1>7. e \notin Events(h)
  <2>1. ASSUME e \in Events(h) PROVE FALSE
    <3>1. n + 1 < n + 1 BY <1>1, <1>4, <1>6, <2>1
    <3> QED BY <1>3, <3>1
  <2> QED BY <2>1
<1>8. PICK D : D = Events(h) \cup {e} OBVIOUS
<1>9. PICK m : m = [d \in D |-> IF d = e THEN r ELSE h.ev[d]] OBVIOUS
<1>10. PICK p : p = [h.po EXCEPT ![t] = Append(@, e)] OBVIOUS
<1>11. /\ IsRecord(k) /\ k.ev = m /\ k.po = p /\ k.tcj = h.tcj \cup T /\ k.rf = h.rf /\ k.sw = h.sw /\ k.mo = h.mo
  <2>1. k = [h EXCEPT !.ev = m, !.po = p, !.tcj = @ \cup T] BY <1>1, <1>8, <1>9, <1>10 DEF Bigger, IsGraph, IsRecord
  <2> QED BY <2>1 DEF IsGraph, IsRecord
<1>12. Events(k) = D /\ m \in [D -> EventRecord]
  <2>1. DOMAIN m = D BY <1>9
  <2>2. \A d \in Events(h) : h.ev[d] \in EventRecord BY DEF IsGraph, EventsTyped
  <2>3. m \in [D -> EventRecord] BY <1>8, <1>9, <2>2 DEF NewEvent
  <2> QED BY <1>11, <2>1, <2>3 DEF Events
<1>13. k.ev[e] = r /\ \A d \in Events(h) : k.ev[d] = h.ev[d] BY <1>7, <1>8, <1>9, <1>11
<1>14. EventsTyped(k)
  <2>1. IsFiniteSet(D) BY <1>8, FS_AddElement DEF IsGraph, EventsTyped
  <2>2. \A d \in D : Kind(k, d) # "FENCE" => Loc(k, d) \in Locations
    <3>1. Kind(k, e) # "FENCE" => Loc(k, e) \in Locations BY <1>13 DEF NewEvent, Kind, Loc
    <3>2. \A d \in Events(h) : Kind(k, d) = Kind(h, d) /\ Loc(k, d) = Loc(h, d) BY <1>13 DEF Kind, Loc
    <3> QED BY <1>8, <3>1, <3>2 DEF IsGraph, EventsTyped
  <2> QED BY <1>11, <1>12, <2>1, <2>2 DEF EventsTyped
<1>15. /\ p \in [Threads -> Seq(D)] /\ Len(p[t]) = n + 1 /\ \A i \in 1..(n + 1) : p[t][i] = <<t, i>>
       /\ \A u \in Threads : u # t => p[u] = h.po[u]
  <2>1. PICK s : s = h.po[t] OBVIOUS
  <2>2. s \in Seq(D) /\ Len(s) = n /\ e \in D BY <1>2, <1>3, <1>8, <2>1
  <2>3. PICK v : v = Append(s, e) OBVIOUS
  <2>4. v \in Seq(D) /\ Len(v) = n + 1 /\ v[n + 1] = e /\ \A i \in 1..n : v[i] = s[i] BY <2>2, <2>3
  <2>5. \A i \in 1..(n + 1) : i \in 1..n \/ i = n + 1 BY <1>3
  <2>6. \A i \in 1..(n + 1) : v[i] = <<t, i>> BY <1>2, <1>4, <1>5, <2>1, <2>4, <2>5
  <2>7. p[t] = v /\ \A u \in Threads : u # t => p[u] = h.po[u] BY <1>3, <1>10, <2>1, <2>3
  <2>8. \A u \in Threads : p[u] \in Seq(D)
    <3>1. \A u \in Threads : h.po[u] \in Seq(D) BY <1>3, <1>8
    <3> QED BY <2>4, <2>7, <3>1
  <2>9. p \in [Threads -> Seq(D)] BY <1>3, <1>10, <2>8
  <2> QED BY <2>4, <2>6, <2>7, <2>9
<1>16. PoTyped(k)
  <2>1. \A u \in Threads : \A i \in 1..Len(k.po[u]) : k.po[u][i] = <<u, i>>
    <3>1. \A i \in 1..Len(k.po[t]) : k.po[t][i] = <<t, i>> BY <1>11, <1>15
    <3>2. ASSUME NEW u \in Threads, u # t PROVE \A i \in 1..Len(k.po[u]) : k.po[u][i] = <<u, i>>
      BY <1>5, <1>11, <1>15, <3>2
    <3> QED BY <3>1, <3>2
  <2>2. ASSUME NEW d \in D PROVE d = <<d[1], d[2]>> /\ d[1] \in Threads /\ d[2] \in 1..Len(k.po[d[1]])
    <3>1. CASE d = e
      <4>1. n + 1 \in 1..(n + 1) BY <1>3
      <4> QED BY <1>1, <1>4, <1>11, <1>15, <3>1, <4>1
    <3>2. CASE d \in Events(h)
      <4>1. d = <<d[1], d[2]>> /\ d[1] \in Threads /\ d[2] \in 1..Len(h.po[d[1]]) BY <1>5, <3>2
      <4>2. d[1] = t => d[2] \in 1..(n + 1)
        <5>1. d[1] = t => d[2] \in 1..n BY <1>2, <4>1
        <5> QED BY <1>3, <5>1
      <4> QED BY <1>11, <1>15, <4>1, <4>2
    <3> QED BY <1>8, <3>1, <3>2
  <2> QED BY <1>11, <1>12, <1>15, <2>1, <2>2 DEF PoTyped
<1>17. EdgesTyped(k)
  <2>1. h.rf \subseteq D \X D /\ h.sw \subseteq D \X D /\ h.tcj \subseteq D \X D /\ T \subseteq D \X D
    BY <1>8 DEF IsGraph, EdgesTyped, NewEvent
  <2> QED BY <1>11, <1>12, <2>1 DEF EdgesTyped
<1>18. MoTyped(k)
  <2>1. \A l \in Locations : h.mo[l] \in Seq(Events(h)) /\ Distinct(h.mo[l])
          /\ \A d \in ToSet(h.mo[l]) : d \in Events(h) /\ Loc(h, d) = l
    BY MoIs DEF IsGraph, MoTyped
  <2>2. \A d \in Events(h) : Loc(k, d) = Loc(h, d) BY <1>13 DEF Loc
  <2>3. \A l \in Locations : h.mo[l] \in Seq(D) BY <1>8, <2>1
  <2>4. h.mo \in [Locations -> Seq(D)] BY <2>3 DEF IsGraph, MoTyped
  <2> QED BY <1>11, <1>12, <2>1, <2>2, <2>4 DEF MoTyped
<1>19. IsGraph(k) BY <1>11, <1>14, <1>16, <1>17, <1>18 DEF IsGraph
<1>20. \A a, b : <<a, b>> \in PoEdges(k) <=> a \in D /\ b \in D /\ a[1] = b[1] /\ b[2] = a[2] + 1
  <2>1. \A a, b : <<a, b>> \in PoEdges(k) <=> a \in Events(k) /\ b \in Events(k) /\ a[1] = b[1] /\ b[2] = a[2] + 1
    <3>1. \A j : PoTyped(j) => \A a, b : <<a, b>> \in PoEdges(j) <=> a \in Events(j) /\ b \in Events(j) /\ a[1] = b[1] /\ b[2] = a[2] + 1
      BY PoIs
    <3> QED BY ONLY <1>16, <3>1
  <2> QED BY ONLY <1>12, <2>1
<1>21. \A a, b : <<a, b>> \in PoEdges(h) <=> a \in Events(h) /\ b \in Events(h) /\ a[1] = b[1] /\ b[2] = a[2] + 1
  BY PoIs DEF IsGraph
<1>22. \A b \in D : ~(e[1] = b[1] /\ b[2] = e[2] + 1)
  <2>1. ASSUME NEW b \in D, e[1] = b[1], b[2] = e[2] + 1 PROVE FALSE
    <3>1. b[2] = n + 1 + 1 BY <1>4, <2>1
    <3>2. CASE b = e BY <1>3, <1>4, <3>1, <3>2
    <3>3. CASE b \in Events(h)
      <4>1. b[2] < n + 1 BY <1>1, <1>6, <2>1, <3>3
      <4> QED BY <1>3, <3>1, <4>1
    <3> QED BY <1>8, <3>2, <3>3
  <2> QED BY <2>1
<1>23. \A b : <<e, b>> \notin PoEdges(k) BY <1>20, <1>22
<1>24. \A a, b : b # e => (<<a, b>> \in PoEdges(k) <=> <<a, b>> \in PoEdges(h))
  BY <1>8, <1>20, <1>21, <1>22
<1>25. \A a : <<a, e>> \in PoEdges(k) <=> a \in Events(h) /\ a[1] = e[1] /\ e[2] = a[2] + 1
  BY <1>8, <1>20, <1>22
<1>26. \A d \in ToSet(k.po[e[1]]) : d \in Events(k) /\ d[1] = e[1]
  <2>1. ASSUME NEW d \in ToSet(k.po[t]) PROVE d \in D /\ d[1] = t
    <3>1. k.po[t] \in Seq(D) BY <1>11, <1>15
    <3>2. PICK i \in 1..Len(k.po[t]) : d = k.po[t][i] BY <2>1 DEF ToSet
    <3>3. d = <<t, i>> BY <1>11, <1>15, <3>2
    <3>4. d \in D BY <3>1, <3>2
    <3> QED BY <3>3, <3>4
  <2> QED BY <1>1, <1>12, <2>1
<1>27. \A a \in Events(h) : a[1] = e[1] => a[2] < e[2] BY <1>1, <1>4, <1>6
<1> QED BY <1>7, <1>8, <1>11, <1>12, <1>13, <1>19, <1>23, <1>24, <1>25, <1>26, <1>27 DEF Enlarges

\* The sw edges of a fence come from what releases a write that its thread reads.
FenceReason(k, e, p) ==
  \E s, w, d : p = <<s, e>> /\ Releases(k, s, w) /\ <<w, d>> \in k.rf /\ d \in ToSet(k.po[e[1]])

\* Each sw edge an acquire fence gets has a reason.
LEMMA FenceSwIs ==
  ASSUME NEW k, NEW e, Shaped(k), \A v, d : <<v, d>> \in k.rf => v \in Events(k) /\ IsWrite(k, v)
  PROVE  \A p \in FenceSw(k, e) : FenceReason(k, e, p)
<1> SUFFICES ASSUME NEW p \in FenceSw(k, e) PROVE FenceReason(k, e, p) OBVIOUS
<1>1. PICK w \in UNION {Sources(k.rf, d) : d \in ToSet(k.po[e[1]])} :
        p \in IF Mode(k, w) \in ReleaseModes THEN {<<w, e>>}
              ELSE {<<k.po[w[1]][i], e>> : i \in ReleaseFences(k, w[1], Position(k.po[w[1]], w))}
  BY DEF FenceSw
<1>2. PICK d \in ToSet(k.po[e[1]]) : w \in Sources(k.rf, d) OBVIOUS
<1>3. <<w, d>> \in k.rf
  <2>1. PICK R : R = k.rf OBVIOUS
  <2>2. R \subseteq Events(k) \X Events(k) BY <2>1 DEF Shaped, EdgesTyped
  <2>3. \A a : a \in Sources(R, d) <=> <<a, d>> \in R BY <2>2, TargetsIs
  <2> QED BY <1>2, <2>1, <2>3
<1>4. w \in Events(k) /\ IsWrite(k, w) BY <1>3
<1>5. CASE Mode(k, w) \in ReleaseModes
  <2>1. p = <<w, e>> BY <1>1, <1>5
  <2>2. Releases(k, w, w) BY <1>4, <1>5 DEF Releases
  <2> QED BY <1>2, <1>3, <2>1, <2>2 DEF FenceReason
<1>6. CASE Mode(k, w) \notin ReleaseModes
  <2>1. PICK F : F = ReleaseFences(k, w[1], Position(k.po[w[1]], w)) OBVIOUS
  <2>2. PICK i \in F : p = <<k.po[w[1]][i], e>> BY <1>1, <1>6, <2>1
  <2>3. Releases(k, k.po[w[1]][i], w) BY <1>4, <2>1, FencesBefore
  <2> QED BY <1>2, <1>3, <2>2, <2>3 DEF FenceReason
<1> QED BY <1>5, <1>6

\* A write more, at the end of its modification order.
Appended(h, k, e) ==
  /\ SameBut(h, k) /\ k.rf = h.rf /\ k.sw = h.sw
  /\ \A l \in Locations : \A a : a # e => (a \in ToSet(k.mo[l]) <=> a \in ToSet(h.mo[l]))
  /\ \A l \in Locations : e \in ToSet(k.mo[l]) <=> l = Loc(h, e)
  /\ \A a, b : a # e /\ b # e => (<<a, b>> \in MoBefore(k) <=> <<a, b>> \in MoBefore(h))
  /\ \A w \in ToSet(h.mo[Loc(h, e)]) : <<w, e>> \in MoBefore(k)
  /\ \A b : <<e, b>> \notin MoBefore(k)

\* A new write comes last in its modification order.
LEMMA AppendedIs ==
  ASSUME NEW h, NEW e \in Events(h), NEW l \in Locations, NEW k, IsGraph(h), Loc(h, e) = l,
         \A m \in Locations : e \notin ToSet(h.mo[m]), k = [h EXCEPT !.mo[l] = Append(@, e)]
  PROVE  Appended(h, k, e)
<1>1. PICK t : t = h.mo[l] OBVIOUS
<1>2. PICK s : s = Append(t, e) OBVIOUS
<1>3. t \in Seq(Events(h)) /\ Distinct(t) /\ \A d \in ToSet(t) : Loc(h, d) = l
  BY <1>1, MoIs DEF IsGraph, MoTyped
<1>4. s \in Seq(Events(h)) /\ \A a : In(s, Len(s), a) <=> In(t, Len(t), a) \/ a = e
  BY <1>2, <1>3, AppendOrder
<1>5. \A a, b : InOrder(s, Len(s), a, b) <=> InOrder(t, Len(t), a, b) \/ (In(t, Len(t), a) /\ b = e)
  BY <1>2, <1>3, AppendOrder
<1>6. /\ \A a : a \in ToSet(s) <=> a \in ToSet(t) \/ a = e
      /\ \A a, b : <<a, b>> \in Order(s) <=> <<a, b>> \in Order(t) \/ (a \in ToSet(t) /\ b = e)
  <2>1. /\ \A a, b : <<a, b>> \in Order(s) <=> InOrder(s, Len(s), a, b)
        /\ \A a : a \in ToSet(s) <=> In(s, Len(s), a)
    BY <1>4, OrderIs
  <2>2. /\ \A a, b : <<a, b>> \in Order(t) <=> InOrder(t, Len(t), a, b)
        /\ \A a : a \in ToSet(t) <=> In(t, Len(t), a)
    BY <1>3, OrderIs
  <2> QED BY <1>4, <1>5, <2>1, <2>2
<1>7. e \notin ToSet(t) BY <1>1
<1>8. \A a, b : <<a, b>> \in Order(t) => a \in ToSet(t) /\ b \in ToSet(t) BY <1>1, MoIs DEF IsGraph
<1>9. Distinct(s)
  <2>1. ASSUME NEW p \in Order(s), p[1] = p[2] PROVE FALSE
    <3>1. Order(s) \subseteq ToSet(s) \X ToSet(s) BY <1>4, OrderIs
    <3>2. p = <<p[1], p[2]>> BY <2>1, <3>1
    <3>3. <<p[1], p[2]>> \in Order(t) \/ (p[1] \in ToSet(t) /\ p[2] = e) BY <1>6, <2>1, <3>2
    <3> QED BY <1>3, <1>7, <2>1, <3>2, <3>3 DEF Distinct
  <2> QED BY <2>1 DEF Distinct
<1>10. Reordered(h, k, l, s)
  <2>1. \A d \in ToSet(s) : Loc(h, d) = l BY <1>3, <1>6
  <2>2. k = [h EXCEPT !.mo[l] = s] BY <1>1, <1>2
  <2> QED BY <1>4, <1>9, <2>1, <2>2, MoSet
<1>11. SameBut(h, k) /\ k.rf = h.rf /\ k.sw = h.sw /\ k.mo[l] = s /\ \A m \in Locations : m # l => k.mo[m] = h.mo[m]
  BY <1>10 DEF Reordered
<1>12. IsGraph(k) /\ Events(k) = Events(h) BY <1>11, SameButIs DEF SameBut
<1>13. SameOrder(MoBefore(k), MoBefore(h), e)
  <2>1. SameOrder(Order(k.mo[l]), Order(h.mo[l]), e) BY <1>1, <1>6, <1>11 DEF SameOrder
  <2> QED BY <1>11, <1>12, <2>1, MoSetBefore
<1>14. \A m \in Locations : \A a : a # e => (a \in ToSet(k.mo[m]) <=> a \in ToSet(h.mo[m])) BY <1>1, <1>6, <1>11
<1>15. \A m \in Locations : e \in ToSet(k.mo[m]) <=> m = l BY <1>6, <1>11
<1>16. \A a, b : <<a, b>> \in MoBefore(k) <=> \E m \in Locations : <<a, b>> \in Order(k.mo[m]) BY <1>12, MoIs DEF IsGraph
<1>17. \A w \in ToSet(h.mo[l]) : <<w, e>> \in MoBefore(k) BY <1>1, <1>6, <1>11, <1>16
<1>18. \A b : <<e, b>> \notin MoBefore(k)
  <2>1. ASSUME NEW b, <<e, b>> \in MoBefore(k) PROVE FALSE
    <3>1. PICK m \in Locations : <<e, b>> \in Order(k.mo[m]) BY <1>16, <2>1
    <3>2. e \in ToSet(k.mo[m]) BY <1>12, <3>1, MoIs DEF IsGraph
    <3>3. m = l BY <1>15, <3>2
    <3>4. <<e, b>> \in Order(t) \/ e \in ToSet(t) BY <1>6, <1>11, <3>1, <3>3
    <3> QED BY <1>7, <1>8, <3>4
  <2> QED BY <2>1
<1> QED BY <1>11, <1>13, <1>14, <1>15, <1>17, <1>18 DEF Appended, SameOrder

Grow(h, e, r, T, w) ==
  LET b == Bigger(h, e, r, T)
      a == IF r.type \in ReadKinds THEN AddRf(b, w, e)
           ELSE IF r.type = "FENCE" THEN [b EXCEPT !.sw = @ \cup FenceSw(b, e)] ELSE b
  IN  Finalize(IF r.type \in WriteKinds THEN [a EXCEPT !.mo[r.loc] = Append(@, e)] ELSE a)

\* What is new in a graph that has grown by the event e.
NewSw(k, e, r, w, p) ==
  \/ r.type \in ReadKinds /\ \E s : p = <<s, e>> /\ Releases(k, s, w)
  \/ r.type = "FENCE" /\ FenceReason(k, e, p)
GrewPo(h, k, e) ==
  /\ k.po = [h.po EXCEPT ![e[1]] = Append(@, e)]
  /\ \A a, b : b # e => (<<a, b>> \in PoEdges(k) <=> <<a, b>> \in PoEdges(h))
  /\ \A a : <<a, e>> \in PoEdges(k) <=> a \in Events(h) /\ a[1] = e[1] /\ e[2] = a[2] + 1
  /\ \A b : <<e, b>> \notin PoEdges(k)
  /\ \A a \in Events(h) : a[1] = e[1] => a[2] < e[2]
  /\ \A d \in ToSet(k.po[e[1]]) : d \in Events(k) /\ d[1] = e[1]
GrewMo(h, k, e, r) ==
  /\ \A l \in Locations : \A a : a # e => (a \in ToSet(k.mo[l]) <=> a \in ToSet(h.mo[l]))
  /\ \A l \in Locations : e \in ToSet(k.mo[l]) <=> r.type \in WriteKinds /\ l = r.loc
  /\ \A a, b : a # e /\ b # e => (<<a, b>> \in MoBefore(k) <=> <<a, b>> \in MoBefore(h))
  /\ r.type \in WriteKinds => \A a \in ToSet(h.mo[r.loc]) : <<a, e>> \in MoBefore(k)
  /\ \A b : <<e, b>> \notin MoBefore(k)
Grew(h, k, e, r, T, w) ==
  /\ IsGraph(k) /\ e \notin Events(h) /\ Events(k) = Events(h) \cup {e}
  /\ k.ev[e] = r /\ \A d \in Events(h) : k.ev[d] = h.ev[d]
  /\ k.tcj = h.tcj \cup T
  /\ \A a, b : <<a, b>> \in k.rf <=> <<a, b>> \in h.rf \/ (r.type \in ReadKinds /\ a = w /\ b = e)
  /\ \A a, b : <<a, b>> \in h.sw => <<a, b>> \in k.sw
  /\ \A a, b : <<a, b>> \in k.sw => <<a, b>> \in h.sw \/ (b = e /\ NewSw(k, e, r, w, <<a, b>>))
  /\ GrewPo(h, k, e) /\ GrewMo(h, k, e, r)

Writable(h, w, l) == w \in ToSet(h.mo[l]) /\ w \in Events(h) /\ IsWrite(h, w) /\ Loc(h, w) = l

\* What is in mo is a write to that location.
LEMMA WritableIs == ASSUME NEW h, GoodGraph(h), NEW l \in Locations, NEW w \in ToSet(h.mo[l]) PROVE Writable(h, w, l)
<1>1. ToSet(h.mo[l]) \subseteq Events(h) BY MoIs DEF GoodGraph, IsGraph
<1>2. \A x \in Events(h) : x \in ToSet(h.mo[l]) <=> IsWrite(h, x) /\ Loc(h, x) = l
  BY DEF GoodGraph, GoodOn, CompleteOn
<1> QED BY <1>1, <1>2 DEF Writable

\* add_new_node makes a larger graph with the new event's edges and nothing else.
LEMMA GrowIs ==
  ASSUME NEW h, NEW e, NEW r, NEW T, NEW w, NEW k, GoodGraph(h), NewEvent(h, e, r, T),
         r.type \in ReadKinds => w \in ToSet(h.mo[r.loc]), k = Grow(h, e, r, T, w)
  PROVE  Grew(h, k, e, r, T, w)
<1>1. IsGraph(h) /\ Shaped(h) BY DEF GoodGraph, IsGraph, Shaped
<1>2. PICK b : b = Bigger(h, e, r, T) OBVIOUS
<1>3. Enlarges(h, b, e, r, T) BY <1>1, <1>2, BiggerIs
<1>4. /\ IsGraph(b) /\ e \notin Events(h) /\ Events(b) = Events(h) \cup {e}
      /\ b.ev[e] = r /\ \A d \in Events(h) : b.ev[d] = h.ev[d]
  BY <1>3 DEF Enlarges
<1>5. b.rf = h.rf /\ b.sw = h.sw /\ b.tcj = h.tcj \cup T /\ b.mo = h.mo BY <1>3 DEF Enlarges
<1>6. b.po = [h.po EXCEPT ![e[1]] = Append(@, e)] BY <1>2 DEF Bigger, GoodGraph, IsGraph, IsRecord
<1>7. GrewPo(h, b, e) BY <1>3, <1>6 DEF Enlarges, GrewPo
<1>8. Shaped(b) /\ IsRecord(b) /\ MoTyped(b) BY <1>4 DEF IsGraph, Shaped
<1>9. Loc(b, e) = r.loc /\ (r.type # "FENCE" => r.loc \in Locations) BY <1>4 DEF Loc, NewEvent
<1>10. \A a : <<a, e>> \notin h.rf /\ <<a, e>> \notin h.sw
  <2>1. h.rf \subseteq Events(h) \X Events(h) /\ h.sw \subseteq Events(h) \X Events(h) BY <1>1 DEF Shaped, EdgesTyped
  <2> QED BY <1>4, <2>1
<1>11. PICK a : a = IF r.type \in ReadKinds THEN AddRf(b, w, e)
                    ELSE IF r.type = "FENCE" THEN [b EXCEPT !.sw = @ \cup FenceSw(b, e)] ELSE b
  OBVIOUS
<1>12. /\ SameBut(b, a) /\ a.mo = b.mo
       /\ \A x, y : <<x, y>> \in a.rf <=> <<x, y>> \in h.rf \/ (r.type \in ReadKinds /\ x = w /\ y = e)
       /\ \A x, y : <<x, y>> \in h.sw => <<x, y>> \in a.sw
       /\ \A x, y : <<x, y>> \in a.sw => <<x, y>> \in h.sw \/ (y = e /\ NewSw(b, e, r, w, <<x, y>>))
  <2>1. CASE r.type \in ReadKinds
    <3>1. r.loc \in Locations BY <1>9, <2>1 DEF ReadKinds
    <3>2. Writable(h, w, r.loc) BY <2>1, <3>1, WritableIs
    <3>3. w \in Events(b) /\ IsWrite(b, w) BY <1>4, <3>2 DEF Writable, IsWrite, Kind
    <3>4. a = AddRf(b, w, e) /\ e \in Events(b) BY <1>4, <1>11, <2>1
    <3>5. /\ SameBut(b, a) /\ a.mo = b.mo
          /\ \A x, y : <<x, y>> \in a.rf <=> <<x, y>> \in b.rf \/ (x = w /\ y = e)
          /\ \A x, y : <<x, y>> \in b.sw => <<x, y>> \in a.sw
          /\ \A x, y : <<x, y>> \in a.sw => <<x, y>> \in b.sw \/ (y = e /\ Releases(b, x, w))
      BY <1>4, <3>3, <3>4, AddRfIs
    <3>6. \A x, y : <<x, y>> \in a.sw => <<x, y>> \in h.sw \/ (y = e /\ NewSw(b, e, r, w, <<x, y>>))
      BY <1>5, <2>1, <3>5 DEF NewSw
    <3> QED BY <1>5, <2>1, <3>5, <3>6
  <2>2. CASE r.type = "FENCE"
    <3>1. r.type \notin ReadKinds BY <2>2 DEF ReadKinds
    <3>2. PICK S : S = FenceSw(b, e) OBVIOUS
    <3>3. a = [b EXCEPT !.sw = @ \cup S] BY <1>11, <2>2, <3>1, <3>2
    <3>4. \A v, d : <<v, d>> \in b.rf => v \in Events(b) /\ IsWrite(b, v)
      <4>1. ASSUME NEW v, NEW d, <<v, d>> \in h.rf PROVE v \in Events(h) /\ IsWrite(h, v)
        <5>1. v \in Events(h) /\ d \in Events(h) BY <1>1, <4>1 DEF Shaped, EdgesTyped
        <5>2. IsRead(h, d) BY <4>1, <5>1 DEF GoodGraph, GoodOn, CompleteOn
        <5>3. PICK u \in Events(h) : ReadsFrom(h, u, d) BY <5>1, <5>2 DEF GoodGraph, GoodOn, CompleteOn
        <5> QED BY <4>1, <5>1, <5>3 DEF ReadsFrom
      <4> QED BY <1>4, <1>5, <4>1 DEF IsWrite, Kind
    <3>5. \A p \in S : FenceReason(b, e, p) BY <1>8, <3>2, <3>4, FenceSwIs
    <3>6. \A p \in S : \E s : p = <<s, e>> /\ s \in Events(b) BY <3>5 DEF FenceReason, Releases
    <3>7. /\ IsRecord(a) /\ a.ev = b.ev /\ a.po = b.po /\ a.tcj = b.tcj /\ a.rf = b.rf /\ a.mo = b.mo
          /\ a.sw = b.sw \cup S
      BY <1>8, <3>3 DEF IsRecord
    <3>8. IsGraph(a)
      <4>1. Events(a) = Events(b) BY <3>7 DEF Events
      <4>2. e \in Events(b) BY <1>4
      <4>3. S \subseteq Events(b) \X Events(b) BY <3>6, <4>2
      <4>4. EdgesTyped(a) BY <1>8, <3>7, <4>1, <4>3 DEF Shaped, EdgesTyped
      <4>5. MoTyped(a) BY <1>8, <3>7, <4>1 DEF MoTyped, Loc
      <4> QED BY <1>4, <3>7, <4>4, <4>5, GraphBut
    <3>9. \A x, y : <<x, y>> \in a.sw => <<x, y>> \in h.sw \/ (y = e /\ NewSw(b, e, r, w, <<x, y>>))
      <4>1. ASSUME NEW x, NEW y, <<x, y>> \in S PROVE y = e /\ NewSw(b, e, r, w, <<x, y>>)
        <5>1. y = e
          <6>1. PICK s : <<x, y>> = <<s, e>> BY <3>6, <4>1
          <6> QED BY <6>1
        <5>2. FenceReason(b, e, <<x, y>>) BY <3>5, <4>1
        <5> QED BY <2>2, <5>1, <5>2 DEF NewSw
      <4> QED BY <1>5, <3>7, <4>1
    <3> QED BY <1>5, <3>1, <3>7, <3>8, <3>9 DEF SameBut
  <2>3. CASE r.type \notin ReadKinds /\ r.type # "FENCE"
    <3>1. a = b BY <1>11, <2>3
    <3> QED BY <1>4, <1>5, <2>3, <3>1 DEF SameBut
  <2> QED BY <2>1, <2>2, <2>3
<1>13. IsGraph(a) /\ Events(a) = Events(b) /\ Loc(a, e) = r.loc BY <1>9, <1>12, SameButIs DEF SameBut
<1>14. PICK j : j = IF r.type \in WriteKinds THEN [a EXCEPT !.mo[r.loc] = Append(@, e)] ELSE a OBVIOUS
<1>15. SameBut(b, j) /\ j.rf = a.rf /\ j.sw = a.sw /\ GrewMo(h, j, e, r)
  <2>1. \A l \in Locations : e \notin ToSet(h.mo[l])
    <3>1. \A l \in Locations : ToSet(h.mo[l]) \subseteq Events(h) BY <1>1, MoIs DEF IsGraph
    <3> QED BY <1>4, <3>1
  <2>2. \A i : i.mo = h.mo => MoBefore(i) = MoBefore(h) BY DEF MoBefore
  <2>3. a.mo = h.mo /\ MoBefore(a) = MoBefore(h) BY <1>5, <1>12, <2>2
  <2>4. CASE r.type \in WriteKinds
    <3>1. PICK l \in Locations : l = r.loc BY <1>9, <2>4 DEF WriteKinds
    <3>2. j = [a EXCEPT !.mo[l] = Append(@, e)] BY <1>14, <2>4, <3>1
    <3>3. e \in Events(a) /\ Loc(a, e) = l /\ \A m \in Locations : e \notin ToSet(a.mo[m]) BY <1>4, <1>13, <2>1, <2>3, <3>1
    <3>4. Appended(a, j, e) BY <1>13, <3>2, <3>3, AppendedIs
    <3>5. SameBut(b, j) BY <1>12, <3>4 DEF Appended, SameBut
    <3>6. GrewMo(h, j, e, r) BY <1>13, <2>3, <2>4, <3>4 DEF Appended, GrewMo
    <3> QED BY <3>4, <3>5, <3>6 DEF Appended
  <2>5. CASE r.type \notin WriteKinds
    <3>1. j = a BY <1>14, <2>5
    <3>2. \A x : <<e, x>> \notin MoBefore(h)
      <4>1. MoBefore(h) \subseteq Events(h) \X Events(h) BY <1>1, MoIs DEF IsGraph
      <4> QED BY <1>4, <4>1
    <3>3. GrewMo(h, j, e, r) BY <2>1, <2>3, <2>5, <3>1, <3>2 DEF GrewMo
    <3> QED BY <1>12, <3>1, <3>3
  <2> QED BY <2>4, <2>5
<1>16. k = j
  <2>1. k = Finalize(j) BY <1>2, <1>11, <1>14 DEF Grow
  <2> QED BY <1>15, <2>1, FinalizeSame DEF SameBut
<1>17. /\ IsGraph(k) /\ Events(k) = Events(b) /\ k.tcj = b.tcj /\ k.po = b.po /\ PoEdges(k) = PoEdges(b)
       /\ \A x : k.ev[x] = b.ev[x]
       /\ \A s, v : Releases(k, s, v) <=> Releases(b, s, v)
  BY <1>15, <1>16, SameButIs DEF SameBut
<1>18. GrewPo(h, k, e) BY <1>7, <1>17 DEF GrewPo
<1>19. \A p : NewSw(b, e, r, w, p) => NewSw(k, e, r, w, p)
  <2>1. ASSUME NEW p, FenceReason(b, e, p), r.type = "FENCE" PROVE FenceReason(k, e, p)
    <3>1. PICK s, v, d : p = <<s, e>> /\ Releases(b, s, v) /\ <<v, d>> \in b.rf /\ d \in ToSet(b.po[e[1]])
      BY <2>1 DEF FenceReason
    <3>2. <<v, d>> \in k.rf BY <1>5, <1>12, <1>15, <1>16, <3>1
    <3> QED BY <1>17, <3>1, <3>2 DEF FenceReason
  <2> QED BY <1>17, <2>1 DEF NewSw
<1>20. \A x, y : <<x, y>> \in k.rf <=> <<x, y>> \in h.rf \/ (r.type \in ReadKinds /\ x = w /\ y = e)
  BY <1>12, <1>15, <1>16
<1>21. /\ \A x, y : <<x, y>> \in h.sw => <<x, y>> \in k.sw
       /\ \A x, y : <<x, y>> \in k.sw => <<x, y>> \in h.sw \/ (y = e /\ NewSw(k, e, r, w, <<x, y>>))
  BY <1>12, <1>15, <1>16, <1>19
<1> QED BY <1>4, <1>5, <1>15, <1>16, <1>17, <1>18, <1>20, <1>21 DEF Grew

\* Nothing before the new event changes, and nothing comes after it.
LEMMA GrewAgrees ==
  ASSUME NEW h, NEW k, NEW e, NEW r, NEW T, NEW w, GoodGraph(h), NewEvent(h, e, r, T), Grew(h, k, e, r, T, w),
         r.type \in ReadKinds => w \in Events(h)
  PROVE  Agrees(h, k, Events(h)) /\ Extends(k, Events(h), e)
<1>1. PICK E : E = Events(h) OBVIOUS
<1>2. IsGraph(h) /\ Shaped(h) BY DEF GoodGraph, IsGraph, Shaped
<1>3. IsGraph(k) /\ e \notin E /\ Events(k) = E \cup {e} /\ \A d \in E : k.ev[d] = h.ev[d] BY <1>1 DEF Grew
<1>4. Shaped(k) BY <1>3 DEF IsGraph, Shaped
<1>5. h.rf \subseteq E \X E /\ h.sw \subseteq E \X E /\ h.tcj \subseteq E \X E /\ PoEdges(h) \subseteq E \X E /\ T \subseteq E \X {e}
  BY <1>1, <1>2, PoIs DEF Shaped, EdgesTyped, NewEvent
<1>6. \A a, b : (<<a, b>> \in h.rf \/ <<a, b>> \in h.sw \/ <<a, b>> \in h.tcj \/ <<a, b>> \in PoEdges(h)) => a \in E /\ b \in E
  BY <1>5
<1>7. \A a, b : <<a, b>> \in T => a \in E /\ b = e BY <1>5
<1>8. \A a, b : <<a, b>> \in k.rf => a \in E /\ (b # e => <<a, b>> \in h.rf) BY <1>1, <1>6 DEF Grew
<1>9. ASSUME NEW a, NEW b, <<a, b>> \in k.sw PROVE a \in E /\ (b # e => <<a, b>> \in h.sw)
  <2>1. <<a, b>> \in h.sw \/ (b = e /\ NewSw(k, e, r, w, <<a, b>>)) BY <1>9 DEF Grew
  <2>2. ASSUME NEW s, NEW v \in E, Releases(k, s, v) PROVE s \in E
    <3>1. s \in E \cup {e} BY <1>3, <2>2 DEF Releases
    <3>2. ASSUME s = e PROVE FALSE
      <4>1. <<e, v>> \in PoPlus(k) BY <1>3, <2>2, <3>2 DEF Releases
      <4>2. PICK R : R = PoEdges(k) OBVIOUS
      <4>3. R \subseteq Events(k) \X Events(k) /\ IsFiniteSet(Events(k)) BY <1>4, <4>2, PoIs DEF Shaped, EventsTyped
      <4>4. \A x : <<e, x>> \notin R BY <4>2 DEF Grew, GrewPo
      <4>5. \A x : <<e, x>> \notin Plus(R, Events(k)) BY <4>3, <4>4, PlusSink
      <4> QED BY <4>1, <4>2, <4>5 DEF PoPlus
    <3> QED BY <3>1, <3>2
  <2>3. ASSUME r.type \in ReadKinds, NEW s, <<a, b>> = <<s, e>>, Releases(k, s, w) PROVE a \in E
    BY <1>1, <2>2, <2>3
  <2>4. ASSUME FenceReason(k, e, <<a, b>>), r.type = "FENCE" PROVE a \in E
    <3>1. PICK s, v, d : <<a, b>> = <<s, e>> /\ Releases(k, s, v) /\ <<v, d>> \in k.rf BY <2>4 DEF FenceReason
    <3>2. v \in E BY <1>8, <3>1
    <3> QED BY <2>2, <3>1, <3>2
  <2> QED BY <1>6, <2>1, <2>3, <2>4 DEF NewSw
<1>10. \A a, b : <<a, b>> \in k.tcj => a \in E /\ (b # e => <<a, b>> \in h.tcj) BY <1>6, <1>7 DEF Grew
<1>11. \A a, b : <<a, b>> \in PoEdges(k) => a \in E
  <2>1. ASSUME NEW a, NEW b, <<a, b>> \in PoEdges(k) PROVE a \in E
    <3>1. CASE b = e BY <1>1, <2>1, <3>1 DEF Grew, GrewPo
    <3>2. CASE b # e
      <4>1. <<a, b>> \in PoEdges(h) BY <2>1, <3>2 DEF Grew, GrewPo
      <4> QED BY <1>6, <4>1
    <3> QED BY <3>1, <3>2
  <2> QED BY <2>1
<1>12. \A a, b : <<a, b>> \in Edges(k) => a \in E BY <1>8, <1>9, <1>10, <1>11 DEF Edges
<1>13. Extends(k, E, e) BY <1>3, <1>12 DEF Extends
<1>14. \A a, b : <<a, b>> \in Edges(h) => a \in E BY <1>6 DEF Edges
<1>15. \A a, b \in E : (<<a, b>> \in h.rf <=> <<a, b>> \in k.rf) /\ (<<a, b>> \in h.sw <=> <<a, b>> \in k.sw)
                         /\ (<<a, b>> \in h.tcj <=> <<a, b>> \in k.tcj)
  <2>1. ASSUME NEW a \in E, NEW b \in E PROVE <<a, b>> \in h.rf <=> <<a, b>> \in k.rf BY <1>3, <1>8 DEF Grew
  <2>2. ASSUME NEW a \in E, NEW b \in E PROVE <<a, b>> \in h.sw <=> <<a, b>> \in k.sw BY <1>3, <1>9 DEF Grew
  <2>3. ASSUME NEW a \in E, NEW b \in E PROVE <<a, b>> \in h.tcj <=> <<a, b>> \in k.tcj BY <1>3, <1>10 DEF Grew
  <2> QED BY <2>1, <2>2, <2>3
<1>16. \A a, b \in E : <<a, b>> \in MoBefore(h) <=> <<a, b>> \in MoBefore(k) BY <1>3 DEF Grew, GrewMo
<1>17. \A l \in Locations : \A a \in E : a \in ToSet(h.mo[l]) <=> a \in ToSet(k.mo[l]) BY <1>3 DEF Grew, GrewMo
<1>18. Agrees(h, k, E) BY <1>1, <1>2, <1>3, <1>12, <1>14, <1>15, <1>16, <1>17, EditAgrees
<1> QED BY <1>1, <1>13, <1>18

\* What add_new_node asks of what the new read takes.
Takes(h, k, e, r, w) ==
  /\ Writable(h, w, r.loc) /\ \E q : Precedes(k, q, e)
  /\ r.type \in RmwKinds => ~Consumed(h, w)
\* The graph is good, and coherent if the read takes nothing stale.
GrewSound(h, k, e, r) ==
  /\ GoodGraph(k) /\ Kept(h, k) /\ Agrees(h, k, Events(h)) /\ Extends(k, Events(h), e)
  /\ (r.type \in ReadKinds => NothingStale(k, e)) => (IsCoherent(h) => IsCoherent(k))

\* The larger graph is good, and coherent if the smaller was and the event reads nothing stale.
LEMMA GrewGood ==
  ASSUME NEW h, NEW k, NEW e, NEW r, NEW T, NEW w, GoodGraph(h), NewEvent(h, e, r, T), Grew(h, k, e, r, T, w),
         r.type \in ReadKinds => Takes(h, k, e, r, w)
  PROVE  GrewSound(h, k, e, r)
<1>1. PICK E : E = Events(h) OBVIOUS
<1>2. IsGraph(h) /\ Shaped(h) /\ MoTyped(h) /\ GoodOn(h, E) BY <1>1 DEF GoodGraph, IsGraph, Shaped
<1>3. IsGraph(k) /\ e \notin E /\ Events(k) = E \cup {e} /\ k.ev[e] = r BY <1>1 DEF Grew
<1>4. Shaped(k) /\ MoTyped(k) BY <1>3 DEF IsGraph, Shaped
<1>5. Agrees(h, k, E) /\ Extends(k, E, e) BY <1>1, GrewAgrees DEF Takes, Writable
<1>6. GoodOn(k, E) BY <1>2, <1>4, <1>5, GoodAgrees
<1>7. Kind(k, e) = r.type /\ Loc(k, e) = r.loc BY <1>3 DEF Kind, Loc
<1>8. r.type \in {"WRITE", "READ", "RMW", "CAS_SUCCESS", "CAS_FAIL", "FENCE"}
  <2>1. r \in EventRecord BY DEF NewEvent
  <2> QED BY <2>1 DEF EventRecord
<1>9. \A a, b : <<a, b>> \in h.rf \/ <<a, b>> \in h.sw => a \in E /\ b \in E
  BY <1>1, <1>2 DEF Shaped, EdgesTyped
<1>10. \A a : <<a, e>> \notin h.rf /\ <<a, e>> \notin h.sw BY <1>3, <1>9
<1>11. /\ \A a : <<a, e>> \in k.rf <=> r.type \in ReadKinds /\ a = w
       /\ \A a : <<a, e>> \in k.sw => NewSw(k, e, r, w, <<a, e>>)
  BY <1>10 DEF Grew
<1>12. \A l \in Locations : e \in ToSet(k.mo[l]) <=> IsWrite(k, e) /\ Loc(k, e) = l BY <1>7 DEF Grew, GrewMo, IsWrite
<1>13. \A b : <<e, b>> \notin MoBefore(k) BY DEF Grew, GrewMo
<1>14. Fits(k, E, e) /\ Above(k, E, e)
  <2>1. CASE r.type \in ReadKinds
    <3>1. Takes(h, k, e, r, w) BY <2>1
    <3>2. w \in E /\ IsWrite(h, w) /\ Loc(h, w) = r.loc /\ w \in ToSet(h.mo[r.loc]) BY <1>1, <3>1 DEF Takes, Writable
    <3>3. IsRead(k, e) BY <1>7, <2>1 DEF IsRead
    <3>4. ReadsFrom(k, w, e)
      <4>1. IsWrite(k, w) /\ Loc(k, w) = Loc(k, e) BY <1>5, <1>7, <3>2, SameKinds
      <4> QED BY <1>11, <2>1, <4>1 DEF ReadsFrom
    <3>5. \E q : Precedes(k, q, e) BY <3>1 DEF Takes
    <3>6. \A l \in Locations : e \in ToSet(k.mo[l]) <=> IsRmw(k, e) /\ Loc(k, e) = l
      <4>1. IsRmw(k, e) <=> IsWrite(k, e) BY <3>3 DEF IsRead, IsRmw, IsWrite, ReadKinds, RmwKinds, WriteKinds
      <4> QED BY <1>12, <4>1
    <3>7. ASSUME IsRmw(k, e) PROVE <<w, e>> \in MoBefore(k) /\ \A d \in E : <<w, d>> \in k.rf => ~IsRmw(k, d)
      <4>1. r.type \in RmwKinds BY <1>7, <3>7 DEF IsRmw
      <4>2. r.type \in WriteKinds BY <4>1 DEF RmwKinds, WriteKinds
      <4>3. <<w, e>> \in MoBefore(k) BY <3>2, <4>2 DEF Grew, GrewMo
      <4>4. ASSUME NEW d \in E, <<w, d>> \in k.rf, IsRmw(k, d) PROVE FALSE
        <5>1. <<w, d>> \in h.rf BY <1>3, <4>4 DEF Grew
        <5>2. IsRmw(h, d) BY <1>5, <4>4, SameKinds
        <5>3. d \in OfKind(h, RmwKinds) BY <1>1, <5>2 DEF OfKind, IsRmw
        <5> QED BY <3>1, <4>1, <5>1, <5>3 DEF Takes, Consumed
      <4> QED BY <4>3, <4>4
    <3>8. \A s : <<s, e>> \in k.sw => Releases(k, s, w)
      <4>1. ASSUME NEW s, <<s, e>> \in k.sw PROVE Releases(k, s, w)
        <5>1. NewSw(k, e, r, w, <<s, e>>) BY <1>11, <4>1
        <5>2. r.type # "FENCE" BY <2>1 DEF ReadKinds
        <5>3. PICK u : <<s, e>> = <<u, e>> /\ Releases(k, u, w) BY <5>1, <5>2 DEF NewSw
        <5> QED BY <5>3
      <4> QED BY <4>1
    <3> QED BY <1>3, <3>2, <3>3, <3>4, <3>5, <3>6, <3>7, <3>8, ReadFits
  <2>2. CASE r.type \notin ReadKinds
    <3>1. ~IsRead(k, e) /\ \A a : <<a, e>> \notin k.rf BY <1>7, <1>11, <2>2 DEF IsRead
    <3>2. ASSUME NEW s, <<s, e>> \in k.sw PROVE Reason(k, E, e, s)
      <4>1. NewSw(k, e, r, w, <<s, e>>) BY <1>11, <3>2
      <4>2. r.type = "FENCE" /\ FenceReason(k, e, <<s, e>>) BY <2>2, <4>1 DEF NewSw
      <4>3. PICK u, v, d : <<s, e>> = <<u, e>> /\ Releases(k, u, v) /\ <<v, d>> \in k.rf /\ d \in ToSet(k.po[e[1]])
        BY <4>2 DEF FenceReason
      <4>4. u = s BY <4>3
      <4>5. <<v, d>> \in h.rf BY <2>2, <4>3 DEF Grew
      <4>6. v \in E /\ d \in E BY <1>9, <4>5
      <4>7. <<d, e>> \in PoPlus(k)
        <5>1. d \in Events(k) /\ e \in Events(k) /\ d[1] = e[1] /\ d[2] < e[2]
          BY <1>1, <1>3, <4>3, <4>6 DEF Grew, GrewPo
        <5> QED BY <1>4, <5>1, PoPlusIs
      <4>8. IsFence(k, e) BY <1>7, <4>2 DEF IsFence
      <4>9. Justifies(k, v, d, s, e) BY <4>3, <4>4, <4>7, <4>8 DEF Justifies, Releases
      <4> QED BY <4>6, <4>9 DEF Reason
    <3>3. Fits(k, E, e) BY <1>12, <3>1, <3>2 DEF Fits
    <3> QED BY <1>13, <3>3 DEF Above
  <2> QED BY <2>1, <2>2
<1>15. GoodGraph(k)
  <2>1. GoodOn(k, E \cup {e}) BY <1>4, <1>5, <1>6, <1>14, GoodExtends
  <2> QED BY <1>3, <2>1 DEF GoodGraph
<1>16. Kept(h, k)
  <2>1. Keeps(h, E) BY <1>1 DEF Keeps
  <2> QED BY <1>5, <2>1 DEF Kept
<1>17. ASSUME r.type \in ReadKinds => NothingStale(k, e), IsCoherent(h) PROVE IsCoherent(k)
  <2>1. CoherentOn(h, E) BY <1>1, <1>2, <1>17, CoherentIs
  <2>2. CoherentOn(k, E) BY <1>2, <1>4, <1>5, <2>1, CoherentAgrees DEF GoodOn
  <2>3. NothingStale(k, e) BY <1>11, <1>17 DEF NothingStale
  <2>4. CoherentOn(k, E \cup {e}) BY <1>4, <1>5, <1>6, <1>14, <2>2, <2>3, CoherentExtends
  <2> QED BY <1>3, <1>4, <2>4, CoherentIs
<1> QED BY <1>1, <1>5, <1>15, <1>16, <1>17 DEF GrewSound

\* A write that no other comes after.
IsLast(h, w, l) == w \in ToSet(h.mo[l]) /\ \A b : <<w, b>> \notin MoBefore(h)

\* A modification order with an event in it has a last one.
LEMMA MoLast ==
  ASSUME NEW h, IsGraph(h), NEW l \in Locations, NEW v \in ToSet(h.mo[l])
  PROVE  \E w : IsLast(h, w, l)
<1>1. PICK s : s = h.mo[l] OBVIOUS
<1>2. s \in Seq(Events(h)) /\ Distinct(s) /\ v \in ToSet(s) BY <1>1, MoIs DEF IsGraph, MoTyped
<1>3. PICK n : n = Len(s) OBVIOUS
<1>4. n \in 1..n
  <2>1. PICK i \in 1..Len(s) : v = s[i] BY <1>2 DEF ToSet
  <2> QED BY <1>2, <1>3, <2>1
<1>5. s[n] \in ToSet(s) BY <1>3, <1>4 DEF ToSet
<1>6. ASSUME NEW b, <<s[n], b>> \in MoBefore(h) PROVE FALSE
  <2>1. <<s[n], b>> \in Order(s) BY <1>1, <1>5, <1>6, MoStrict DEF IsGraph
  <2>2. InOrder(s, n, s[n], b) BY <1>2, <1>3, <2>1, OrderIs
  <2>3. PICK i \in 1..n, j \in 1..n : i < j /\ s[n] = s[i] BY <2>2 DEF InOrder
  <2>4. \A x, y \in 1..n : s[x] = s[y] => x = y BY <1>2, <1>3, DistinctIs
  <2>5. i = n BY <1>4, <2>3, <2>4
  <2> QED BY <1>3, <1>4, <2>3, <2>5
<1> QED BY <1>1, <1>5, <1>6 DEF IsLast

\* Every rmw-like event follows what it reads in modification order.
RmwAfter(h) == \A w, r : <<w, r>> \in h.rf /\ IsRmw(h, r) => <<w, r>> \in MoBefore(h)

\* The search always finds it.
LEMMA LastFound ==
  ASSUME NEW h, IsGraph(h), RmwAfter(h), NEW l \in Locations, NEW w, IsLast(h, w, l), NEW rmw \in BOOLEAN
  PROVE  \A q : w \in FindConsistentWrites(h, q, l, rmw)
<1>1. Shaped(h) /\ MoTyped(h) /\ EventsTyped(h) /\ PoTyped(h) /\ EdgesTyped(h) BY DEF IsGraph, Shaped
<1>2. ~Consumed(h, w)
  <2>1. ASSUME NEW r \in OfKind(h, RmwKinds), <<w, r>> \in h.rf PROVE FALSE
    <3>1. IsRmw(h, r) BY <2>1 DEF OfKind, IsRmw
    <3>2. <<w, r>> \in MoBefore(h) BY <2>1, <3>1 DEF RmwAfter
    <3> QED BY <3>2 DEF IsLast
  <2> QED BY <2>1 DEF Consumed
<1>3. \A q : w \in FindConsistentWrites(h, q, l, rmw) <=>
        /\ w \in ToSet(h.mo[l])
        /\ \A v \in Visited(h, q, l) : Kind(h, v) \in WriteKinds => <<w, v>> \notin MoBefore(h)
        /\ rmw => ~Consumed(h, w)
  BY <1>1, SearchIs
<1> QED BY <1>2, <1>3 DEF IsLast

\* In a good graph every rmw-like event does.
LEMMA GoodRmwAfter == ASSUME NEW h, GoodGraph(h) PROVE RmwAfter(h)
<1>1. h.rf \subseteq Events(h) \X Events(h) BY DEF GoodGraph, IsGraph, EdgesTyped
<1>2. \A w, r : <<w, r>> \in h.rf => r \in Events(h) BY <1>1
<1> QED BY <1>2 DEF RmwAfter, GoodGraph, GoodOn, ExclusiveOn

\* So an event with parents may take it, whatever the parents.
LEMMA LastOffered ==
  ASSUME NEW d, IsGraph(d), RmwAfter(d), NEW e, NEW q, Precedes(d, q, e), Loc(d, e) \in Locations,
         NEW v \in ToSet(d.mo[Loc(d, e)])
  PROVE  WritesFor(d, e) # {}
<1>1. PICK l \in Locations : l = Loc(d, e) OBVIOUS
<1>2. PICK w : IsLast(d, w, l) BY <1>1, MoLast
<1>3. PICK rmw \in BOOLEAN : rmw = IsRmw(d, e)
  <2>1. IsRmw(d, e) \in BOOLEAN BY DEF IsRmw
  <2> QED BY <2>1
<1>4. \A r : w \in FindConsistentWrites(d, r, l, rmw) BY <1>2, LastFound
<1>5. w \in WritesFor(d, e) BY <1>1, <1>2, <1>3, <1>4, WritesForExact DEF IsLast
<1> QED BY <1>5

\* The read whose rf edge is mutated finds a write.
LEMMA DetachedFinds ==
  ASSUME NEW h, GoodGraph(h), NEW p \in h.rf
  PROVE  WritesFor(Detached(h, p[2]), p[2]) # {}
<1>1. PICK e : e = p[2] OBVIOUS
<1>2. PICK v : v = p[1] OBVIOUS
<1>3. IsGraph(h) /\ EdgesTyped(h) /\ Shaped(h) BY DEF GoodGraph, IsGraph, Shaped
<1>4. p = <<v, e>> /\ e \in Events(h) /\ v \in Events(h) BY <1>1, <1>2, <1>3 DEF EdgesTyped
<1>5. IsRead(h, e) BY <1>4 DEF GoodGraph, GoodOn, CompleteOn
<1>6. PICK d : d = Detached(h, e) OBVIOUS
<1>7. PICK K : K = NotAfter(h, e) \ {e} OBVIOUS
<1>8. <<e, e>> \notin Plus(Edges(h), Events(h)) BY <1>4 DEF GoodGraph, GoodOn, AcyclicOn
<1>9. Cut(h, d, K, e) BY <1>3, <1>4, <1>6, <1>7, <1>8, DetachedIs
<1>10. Open(d, K, e) BY <1>4, <1>5, <1>9, CutOpen
<1>11. RmwAfter(d)
  <2>1. \A w, r : <<w, r>> \in d.rf => r \in K BY <1>10, OpenIs
  <2> QED BY <1>10, <2>1 DEF RmwAfter, Open, GoodOn, ExclusiveOn
<1>12. PICK l \in Locations : l = Loc(h, e) /\ l = Loc(d, e)
  <2>1. Loc(d, e) = Loc(h, e) BY <1>9 DEF Cut, Loc
  <2> QED BY <1>10, <2>1 DEF Open
<1>13. v \in ToSet(h.mo[l])
  <2>1. PICK w : ReadsFrom(h, w, e) BY <1>4, <1>5 DEF GoodGraph, GoodOn, CompleteOn
  <2>2. IsWrite(h, v) /\ Loc(h, v) = l BY <1>4, <1>12, <2>1 DEF ReadsFrom
  <2> QED BY <1>4, <2>2 DEF GoodGraph, GoodOn, CompleteOn
<1>14. v \in K
  <2>1. PICK R : R = Edges(h) OBVIOUS
  <2>2. R \subseteq Events(h) \X Events(h) /\ IsFiniteSet(Events(h)) BY <1>3, <2>1, EdgesIn DEF Shaped, EventsTyped
  <2>3. <<v, e>> \in R BY <1>4, <2>1 DEF Edges
  <2>4. \A a, b, c : <<a, b>> \in Plus(R, Events(h)) /\ <<b, c>> \in R => <<a, c>> \in Plus(R, Events(h))
    BY <2>2, PlusStep
  <2>5. R \subseteq Plus(R, Events(h)) BY <2>2, PlusStep
  <2>6. <<e, e>> \notin Plus(R, Events(h)) BY <1>8, <2>1
  <2>7. v # e /\ <<e, v>> \notin Plus(R, Events(h)) BY <2>3, <2>4, <2>5, <2>6
  <2> QED BY <1>4, <1>7, <2>1, <2>7 DEF NotAfter
<1>15. v \in ToSet(d.mo[l]) BY <1>9, <1>13, <1>14 DEF Cut
<1>16. PICK q : Precedes(d, q, e) BY <1>10 DEF Open
<1>17. IsGraph(d) BY <1>9 DEF Cut
<1>18. WritesFor(d, e) # {} BY <1>11, <1>12, <1>15, <1>16, <1>17, LastOffered
<1> QED BY <1>1, <1>6, <1>18

\* The events of a chain are rmw-like in the graph too.
LEMMA ChainKinds ==
  ASSUME NEW h, GoodGraph(h), NEW p \in h.rf, {p[1], p[2]} \subseteq OfKind(Detached(h, p[2]), RmwKinds)
  PROVE  <<p[1], p[2]>> \in h.rf /\ IsRmw(h, p[2]) /\ IsRmw(h, p[1])
<1>1. PICK e : e = p[2] OBVIOUS
<1>2. PICK old : old = p[1] OBVIOUS
<1>3. p = <<old, e>> /\ e \in Events(h) /\ old \in Events(h)
  <2>1. h.rf \subseteq Events(h) \X Events(h) BY DEF GoodGraph, IsGraph, EdgesTyped
  <2> QED BY <1>1, <1>2, <2>1
<1>4. PICK d : d = Detached(h, e) OBVIOUS
<1>5. IsGraph(h) /\ AcyclicOn(h, Events(h)) BY DEF GoodGraph, GoodOn
<1>6. Cut(h, d, NotAfter(h, e) \ {e}, e) BY <1>3, <1>4, <1>5, DetachedIs DEF AcyclicOn
<1>7. \A x \in {e, old} : x \in Events(d) /\ Kind(d, x) \in RmwKinds BY <1>1, <1>2, <1>4 DEF OfKind
<1>8. \A x \in Events(d) : d.ev[x] = h.ev[x] BY <1>6 DEF Cut
<1>9. IsRmw(h, e) /\ IsRmw(h, old) BY <1>7, <1>8 DEF IsRmw, Kind
<1> QED BY <1>1, <1>2, <1>3, <1>9

\* So does the rmw-like event that it reads, the first of a chain to choose again.
LEMMA ChainFinds ==
  ASSUME NEW h, GoodGraph(h), NEW p \in h.rf, {p[1], p[2]} \subseteq OfKind(Detached(h, p[2]), RmwKinds)
  PROVE  WritesFor(ChainDetached(Detached(h, p[2]), p[2], p[1]), p[1]) # {}
<1>1. PICK e : e = p[2] OBVIOUS
<1>2. PICK old : old = p[1] OBVIOUS
<1>3. <<old, e>> \in h.rf /\ IsRmw(h, e) /\ IsRmw(h, old) BY <1>1, <1>2, ChainKinds
<1>4. PICK d : d = ChainDetached(Detached(h, e), e, old) OBVIOUS
<1>5. PICK M : M = (NotAfter(h, e) \ {e}) \cap (Events(d) \ {old, e}) OBVIOUS
<1>6. ChainCut(h, d, M, old, e) BY <1>3, <1>4, <1>5, ChainCutIs
<1>7. IsGraph(d) /\ Loc(d, old) \in Locations BY <1>6 DEF ChainCut
<1>8. PICK v : v \in ToSet(d.mo[Loc(d, old)]) BY <1>6 DEF ChainCut
<1>9. GoodOn(d, M) /\ (\A w, r : <<w, r>> \in d.rf => r \in M) /\ \E q : Precedes(d, q, old)
  <2>1. CASE e \in Events(d)
    <3>1. OpenTwo(d, M, old, e, Loc(h, e)) BY <1>6, <2>1 DEF ChainCut
    <3>2. d.rf \subseteq Events(d) \X Events(d) BY <1>7 DEF IsGraph, EdgesTyped
    <3>3. \A w, r : <<w, r>> \in d.rf => r \in Events(d) BY <3>2
    <3> QED BY <3>1, <3>3 DEF OpenTwo
  <2>2. CASE e \notin Events(d)
    <3>1. Open(d, M, old) BY <1>6, <2>2 DEF ChainCut
    <3>2. \A w, r : <<w, r>> \in d.rf => r \in M BY <3>1, OpenIs
    <3> QED BY <3>1, <3>2 DEF Open
  <2> QED BY <2>1, <2>2
<1>10. RmwAfter(d) BY <1>9 DEF RmwAfter, GoodOn, ExclusiveOn
<1>11. PICK q : Precedes(d, q, old) BY <1>9
<1>12. WritesFor(d, old) # {} BY <1>7, <1>8, <1>10, <1>11, LastOffered
<1> QED BY <1>1, <1>2, <1>4, <1>12

-----------------------------------------------------------------------------
(* Candidates.                                                             *)

CandidateIn(c) ==
  /\ c.id[1] \in Threads /\ c.id = <<c.id[1], Len(g.po[c.id[1]]) + 1>> /\ c.id[2] \in 1..Len(camp.code[c.id[1]])
  /\ c.id[2] = Len(g.po[c.id[1]]) + 1
  /\ c.parents # {} /\ c.parents \subseteq Events(g) /\ c.parents \subseteq Preds(c.id)
  /\ Code(c.id).after \subseteq Events(g)

\* What collect_enabled_events returns: the next event of a thread, with parents in the graph.
LEMMA CandidateIs ==
  ASSUME camp \in Campaigns, IsGraph(g), NEW c \in Candidates
  PROVE  CandidateIn(c)
<1>1. camp.code \in [Threads -> Seq(Instructions)] BY CampaignAssumption
<1>2. \A t \in Threads : Len(g.po[t]) \in Nat /\ Len(camp.code[t]) \in Nat /\ DOMAIN camp.code[t] = 1..Len(camp.code[t])
  <2>1. \A t \in Threads : g.po[t] \in Seq(Events(g)) BY DEF IsGraph, PoTyped
  <2>2. \A t \in Threads : camp.code[t] \in Seq(Instructions) BY <1>1
  <2> QED BY <2>1, <2>2
<1>3. CASE camp.feedback
  <2>1. PICK d \in FeedbackCandidates : c = [id |-> d.id, parents |-> Preds(d.id) \cap Events(g)] BY <1>3 DEF Candidates
  <2>2. PICK t \in {u \in Threads : Len(g.po[u]) < Len(camp.code[u])} : d = [id |-> <<t, Len(g.po[t]) + 1>>]
    BY <2>1 DEF FeedbackCandidates
  <2>3. d.id = <<t, Len(g.po[t]) + 1>> /\ c.id = d.id /\ c.parents = Preds(c.id) \cap Events(g) BY <2>1, <2>2
  <2>4. c.id[1] = t /\ c.id[2] = Len(g.po[t]) + 1 BY <2>3
  <2>5. c.id[2] \in 1..Len(camp.code[t]) BY <1>2, <2>2, <2>4
  <2>6. Code(c.id).after \subseteq Events(g) BY <2>1, <2>3 DEF FeedbackCandidates
  <2>7. c.parents # {} BY <1>3 DEF Candidates
  <2> QED BY <2>2, <2>3, <2>4, <2>5, <2>6, <2>7 DEF CandidateIn
<1>4. CASE ~camp.feedback
  <2>1. PICK s \in Events(g) : c \in {[id |-> e, parents |-> {s}] : e \in EnabledBy(s)} BY <1>4 DEF Candidates
  <2>2. PICK e \in EnabledBy(s) : c = [id |-> e, parents |-> {s}] BY <2>1
  <2>3. c.id = e /\ c.parents = {s} BY <2>2
  <2>4. e \in StaticEvents /\ e[2] = Len(g.po[e[1]]) + 1 /\ s \in Preds(e) /\ Code(e).after \subseteq Events(g)
    BY <2>2 DEF EnabledBy
  <2>5. PICK t \in Threads : e \in {<<t, i>> : i \in DOMAIN camp.code[t]} BY <2>4 DEF StaticEvents
  <2>6. PICK i \in DOMAIN camp.code[t] : e = <<t, i>> BY <2>5
  <2>7. e[1] = t /\ e[2] = i BY <2>6
  <2> QED BY <1>2, <2>1, <2>3, <2>4, <2>6, <2>7 DEF CandidateIn
<1> QED BY <1>3, <1>4

CodeFacts(e) ==
  /\ Code(e) \in Instructions /\ (Code(e).type = "FENCE" <=> Code(e).loc = NoLocation)
  /\ \A p \in Code(e).after : p[1] # e[1] /\ p[1] \in Threads
  /\ Code(e).type \in ReadKinds => \E s \in SeedEvents(camp) : Code(s).loc = Code(e).loc

\* What the assumption on campaigns says of an instruction.
LEMMA CodeIs ==
  ASSUME camp \in Campaigns, NEW e, e[1] \in Threads, e[2] \in 1..Len(camp.code[e[1]])
  PROVE  CodeFacts(e)
<1>1. PICK t \in Threads : t = e[1] OBVIOUS
<1>2. PICK i : i = e[2] OBVIOUS
<1>3. i \in 1..Len(camp.code[t]) BY <1>1, <1>2
<1>4. PICK c : c = camp.code[t][i] OBVIOUS
<1>5. Code(e) = c BY <1>1, <1>2, <1>4 DEF Code
<1>6. camp.code[t] \in Seq(Instructions) BY CampaignAssumption
<1>7. c \in Instructions BY <1>3, <1>4, <1>6
<1>8. \A j \in 1..Len(camp.code[t]) :
         /\ camp.code[t][j].type = "FENCE" <=> camp.code[t][j].loc = NoLocation
         /\ \A p \in camp.code[t][j].after : p[1] # t
         /\ camp.code[t][j].type \in ReadKinds =>
              \E u \in Threads : \E m \in 1..camp.seed[u] : camp.code[u][m].loc = camp.code[t][j].loc
  BY CampaignAssumption
<1>9. \A p \in c.after : p[1] # t /\ p[1] \in Threads
  <2>1. c.after \subseteq Threads \X Nat BY <1>7 DEF Instructions
  <2> QED BY <1>3, <1>4, <1>8, <2>1
<1>10. ASSUME c.type \in ReadKinds PROVE \E s \in SeedEvents(camp) : Code(s).loc = c.loc
  <2>1. PICK u \in Threads : \E m \in 1..camp.seed[u] : camp.code[u][m].loc = c.loc BY <1>3, <1>4, <1>8, <1>10
  <2>2. PICK m \in 1..camp.seed[u] : camp.code[u][m].loc = c.loc BY <2>1
  <2>3. PICK s : s = <<u, m>> OBVIOUS
  <2>4. s \in {<<u, j>> : j \in 1..camp.seed[u]} BY <2>3
  <2>5. s \in SeedEvents(camp) BY <2>1, <2>4 DEF SeedEvents
  <2>6. Code(s) = camp.code[u][m] BY <2>3 DEF Code
  <2> QED BY <2>2, <2>5, <2>6
<1> QED BY <1>1, <1>3, <1>4, <1>5, <1>7, <1>8, <1>9, <1>10 DEF CodeFacts

NewRecord(c, type) == [type |-> type, mode |-> Code(c.id).mode, loc |-> Code(c.id).loc]
NewTcj(c) == ParentTcj(c) \cup StaticTcj(c)
OutcomeIn(c, type) ==
  /\ type \in {"WRITE", "READ", "RMW", "CAS_SUCCESS", "CAS_FAIL", "FENCE"}
  /\ type = "FENCE" <=> Code(c.id).type = "FENCE"
  /\ type \in ReadKinds <=> Code(c.id).type \in ReadKinds
  /\ NewRecord(c, type) \in EventRecord /\ NewRecord(c, type).type = type /\ NewRecord(c, type).loc = Code(c.id).loc
  /\ type # "FENCE" => Code(c.id).loc \in Locations

\* The outcomes of a candidate are kinds its instruction may have.
LEMMA OutcomeIs ==
  ASSUME camp \in Campaigns, NEW c, CandidateIn(c), NEW type \in Outcomes(c)
  PROVE  OutcomeIn(c, type)
<1>1. CodeFacts(c.id) BY CodeIs DEF CandidateIn
<1>2. Code(c.id) \in Instructions BY <1>1 DEF CodeFacts
<1>3. /\ Code(c.id).type \in {"WRITE", "READ", "RMW", "CAS", "FENCE"}
      /\ Code(c.id).mode \in {"NON_ATOMIC", "RLX", "ACQ", "REL", "ACQ_REL", "SC"}
      /\ Code(c.id).loc \in Locations \cup {NoLocation}
  BY <1>2 DEF Instructions
<1>4. CASE Code(c.id).type # "CAS"
  <2>1. type = Code(c.id).type BY <1>4 DEF Outcomes
  <2> QED BY <1>1, <1>3, <1>4, <2>1 DEF OutcomeIn, NewRecord, EventRecord, ReadKinds, CodeFacts
<1>5. CASE Code(c.id).type = "CAS"
  <2>1. type \in {"CAS_FAIL", "CAS_SUCCESS"} BY <1>5 DEF Outcomes
  <2> QED BY <1>1, <1>3, <1>5, <2>1 DEF OutcomeIn, NewRecord, EventRecord, ReadKinds, CodeFacts
<1> QED BY <1>4, <1>5

\* The tcj edges of a new event come from the graph.
LEMMA NewTcjIs ==
  ASSUME camp \in Campaigns, IsGraph(g), NEW c, CandidateIn(c)
  PROVE  NewTcj(c) \subseteq Events(g) \X {c.id}
<1>1. ParentTcj(c) \subseteq Events(g) \X {c.id} BY DEF ParentTcj, CandidateIn
<1>2. StaticTcj(c) \subseteq Events(g) \X {c.id}
  <2>1. ASSUME NEW t \in {p[1] : p \in {q \in Code(c.id).after : g.po[q[1]] # <<>>}} PROVE Last(g.po[t]) \in Events(g)
    <3>1. PICK q \in Code(c.id).after : t = q[1] /\ g.po[q[1]] # <<>> BY <2>1
    <3>2. CodeFacts(c.id) BY CodeIs DEF CandidateIn
    <3>3. t \in Threads BY <3>1, <3>2 DEF CodeFacts
    <3>4. g.po[t] \in Seq(Events(g)) /\ g.po[t] # <<>> BY <3>1, <3>3 DEF IsGraph, PoTyped
    <3> QED BY <3>4 DEF Last
  <2>2. CASE StaticLoaded
    <3>1. StaticTcj(c) = {<<Last(g.po[t]), c.id>> : t \in {p[1] : p \in {q \in Code(c.id).after : g.po[q[1]] # <<>>}}}
      BY <2>2 DEF StaticTcj
    <3> QED BY <2>1, <3>1
  <2>3. CASE ~StaticLoaded BY <2>3 DEF StaticTcj
  <2> QED BY <2>2, <2>3
<1> QED BY <1>1, <1>2 DEF NewTcj

\* The graph with the candidate added is the one Grow makes.
LEMMA GrownIs ==
  ASSUME IsGraph(g), NEW c, NEW type, NEW w
  PROVE  Grown(c, type, w) = Grow(g, c.id, NewRecord(c, type), NewTcj(c), w)
<1>1. PICK e : e = c.id OBVIOUS
<1>2. PICK r : r = NewRecord(c, type) OBVIOUS
<1>3. PICK T : T = NewTcj(c) OBVIOUS
<1>4. PICK P : P = ParentTcj(c) OBVIOUS
<1>5. PICK S : S = StaticTcj(c) OBVIOUS
<1>6. T = P \cup S BY <1>3, <1>4, <1>5 DEF NewTcj
<1>7. r.type = type /\ r.loc = Code(e).loc /\ r = [type |-> type, mode |-> Code(e).mode, loc |-> Code(e).loc]
  BY <1>1, <1>2 DEF NewRecord
<1>8. PICK b : b = [g EXCEPT !.ev = [d \in Events(g) \cup {e} |-> IF d = e THEN r ELSE @[d]],
                     !.po[e[1]] = Append(@, e), !.tcj = @ \cup P \cup S]
  OBVIOUS
<1>9. b = Bigger(g, e, r, T)
  <2>1. g.tcj \cup P \cup S = g.tcj \cup T BY <1>6
  <2>2. IsRecord(g) BY DEF IsGraph
  <2> QED BY <1>8, <2>1, <2>2 DEF Bigger, IsRecord
<1>10. Grown(c, type, w) =
         LET a == IF type \in ReadKinds THEN AddRf(b, w, e)
                  ELSE IF type = "FENCE" THEN [b EXCEPT !.sw = @ \cup FenceSw(b, e)] ELSE b
         IN  Finalize(IF type \in WriteKinds THEN [a EXCEPT !.mo[Code(e).loc] = Append(@, e)] ELSE a)
  BY <1>1, <1>4, <1>5, <1>7, <1>8 DEF Grown
<1> QED BY <1>1, <1>2, <1>3, <1>7, <1>9, <1>10 DEF Grow

\* What a new read may take: a write that the search allows at every parent.
Readable(c, w, rmw) ==
  /\ w \in ToSet(g.mo[Code(c.id).loc])
  /\ \A q \in c.parents : w \in FindConsistentWrites(g, q, Code(c.id).loc, rmw)

\* Where the potential has not drifted, what add_new_node offers is what the search finds.
LEMMA ReadableIs ==
  ASSUME NEW c, c.parents # {}, NEW rmw, ~Drifted(g, pot, c.parents, Code(c.id).loc, rmw)
  PROVE  \A w : w \in ReadableBy(c, rmw) <=> Readable(c, w, rmw)
<1>1. \A q \in c.parents : ForSingleParent(g, pot, Code(c.id).loc, rmw, q) = FindConsistentWrites(g, q, Code(c.id).loc, rmw)
  BY DEF Drifted, ForSingleParent
<1>2. ReadableBy(c, rmw) = {w \in ToSet(g.mo[Code(c.id).loc]) :
                             \A q \in c.parents : w \in ForSingleParent(g, pot, Code(c.id).loc, rmw, q)}
  BY DEF ReadableBy, GetConsistentWrites
<1> QED BY <1>1, <1>2 DEF Readable

\* The record of a candidate is that of a new event.
LEMMA NewEventIs ==
  ASSUME camp \in Campaigns, IsGraph(g), NEW c, CandidateIn(c), NEW type, OutcomeIn(c, type)
  PROVE  NewEvent(g, c.id, NewRecord(c, type), NewTcj(c))
<1>1. NewTcj(c) \subseteq Events(g) \X {c.id} BY NewTcjIs
<1> QED BY <1>1 DEF CandidateIn, OutcomeIn, NewEvent

\* Every parent comes right before the new event, and when nothing is unseen nothing
\* else does.
LEMMA ParentsPrecede ==
  ASSUME camp \in Campaigns, GoodGraph(g), NEW c, CandidateIn(c), NEW r, NEW w, NEW k,
         Grew(g, k, c.id, r, NewTcj(c), w)
  PROVE  /\ \A q \in c.parents : Precedes(k, q, c.id)
         /\ Unseen(c) = {} => \A q : Precedes(k, q, c.id) => q \in c.parents
<1>1. PICK e : e = c.id OBVIOUS
<1>2. IsGraph(g) /\ PoTyped(g) /\ EdgesTyped(g) BY DEF GoodGraph, IsGraph
<1>3. e = <<e[1], e[2]>> /\ e[1] \in Threads /\ e[2] = Len(g.po[e[1]]) + 1 /\ Len(g.po[e[1]]) \in Nat
  <2>1. g.po[e[1]] \in Seq(Events(g)) BY <1>1, <1>2 DEF PoTyped, CandidateIn
  <2> QED BY <1>1, <2>1 DEF CandidateIn
<1>4. \A q \in Events(g) : q = <<q[1], q[2]>> /\ q[2] \in Nat /\ q[2] > 0
  <2>1. \A q \in Events(g) : q = <<q[1], q[2]>> /\ q[1] \in Threads /\ q[2] \in 1..Len(g.po[q[1]]) BY <1>2 DEF PoTyped
  <2> QED BY <2>1
<1>5. k.tcj = g.tcj \cup (ParentTcj(c) \cup StaticTcj(c)) BY DEF Grew, NewTcj
<1>6. \A a : <<a, e>> \in PoEdges(k) <=> a \in Events(g) /\ a[1] = e[1] /\ e[2] = a[2] + 1 BY <1>1 DEF Grew, GrewPo
<1>7. ASSUME NEW q \in c.parents PROVE Precedes(k, q, e)
  <2>1. q \in Events(g) /\ q \in Preds(e) BY <1>1, <1>7 DEF CandidateIn
  <2>2. CASE q[1] = e[1]
    <3>1. q \notin Code(e).after
      <4>1. CodeFacts(e) BY <1>1, CodeIs DEF CandidateIn
      <4> QED BY <2>2, <4>1 DEF CodeFacts
    <3>2. e[2] > 1 /\ q = <<e[1], e[2] - 1>> BY <2>1, <3>1 DEF Preds
    <3>3. q[2] = e[2] - 1 BY <3>2
    <3>4. e[2] = q[2] + 1 BY <1>3, <3>3
    <3> QED BY <1>6, <2>1, <2>2, <3>4 DEF Precedes
  <2>3. CASE q[1] # e[1]
    <3>1. <<q, e>> \in ParentTcj(c) BY <1>1, <1>7, <2>3 DEF ParentTcj
    <3> QED BY <1>5, <3>1 DEF Precedes
  <2> QED BY <2>2, <2>3
<1>8. ASSUME Unseen(c) = {}, NEW q, Precedes(k, q, e) PROVE q \in c.parents
  <2>1. StaticTcj(c) \subseteq ParentTcj(c) /\ Preds(e) \subseteq c.parents BY <1>1, <1>8 DEF Unseen
  <2>2. CASE <<q, e>> \in PoEdges(k)
    <3>1. q \in Events(g) /\ q[1] = e[1] /\ e[2] = q[2] + 1 BY <1>6, <2>2
    <3>2. q[2] = e[2] - 1 /\ e[2] > 1 BY <1>3, <1>4, <3>1
    <3>3. q = <<e[1], e[2] - 1>> BY <1>4, <3>1, <3>2
    <3>4. q \in Preds(e) BY <3>2, <3>3 DEF Preds
    <3> QED BY <2>1, <3>4
  <2>3. CASE <<q, e>> \in k.tcj
    <3>1. <<q, e>> \notin g.tcj BY <1>1, <1>2 DEF EdgesTyped, Grew
    <3>2. <<q, e>> \in ParentTcj(c) BY <1>5, <2>1, <2>3, <3>1
    <3>3. PICK p \in c.parents : <<q, e>> = <<p, c.id>> BY <3>2 DEF ParentTcj
    <3> QED BY <3>3
  <2> QED BY <1>8, <2>2, <2>3 DEF Precedes
<1> QED BY <1>1, <1>7, <1>8

\* add_new_node makes a good graph, which stays coherent unless something is unseen.
GrownSound(h, k, c, r) ==
  /\ GrewSound(h, k, c.id, r)
  /\ r.type \notin ReadKinds \/ Unseen(c) = {} => (IsCoherent(h) => IsCoherent(k))

\* Adding a candidate that reads a readable write leaves a sound graph.
LEMMA AddIs ==
  ASSUME camp \in Campaigns, GoodGraph(g), NEW c \in Candidates, NEW type \in Outcomes(c), NEW w, NEW k,
         type \in ReadKinds => Readable(c, w, type \in RmwKinds), k = Grown(c, type, w)
  PROVE  /\ GrownSound(g, k, c, NewRecord(c, type))
         /\ Grew(g, k, c.id, NewRecord(c, type), NewTcj(c), w)
<1>1. IsGraph(g) /\ Shaped(g) /\ MoTyped(g) BY DEF GoodGraph, IsGraph, Shaped
<1>2. CandidateIn(c) BY <1>1, CandidateIs
<1>3. OutcomeIn(c, type) BY <1>2, OutcomeIs
<1>4. PICK e : e = c.id OBVIOUS
<1>5. PICK r : r = NewRecord(c, type) OBVIOUS
<1>6. NewEvent(g, e, r, NewTcj(c)) BY <1>1, <1>2, <1>3, <1>4, <1>5, NewEventIs
<1>7. r.type = type /\ r.loc = Code(e).loc /\ (type # "FENCE" => r.loc \in Locations) BY <1>3, <1>4, <1>5 DEF OutcomeIn
<1>8. c.parents # {} /\ c.parents \subseteq Events(g) BY <1>2 DEF CandidateIn
<1>9. ASSUME type \in ReadKinds PROVE r.loc \in Locations /\ Readable(c, w, type \in RmwKinds) /\ Writable(g, w, r.loc)
  <2>1. r.loc \in Locations BY <1>7, <1>9 DEF ReadKinds
  <2>2. Readable(c, w, type \in RmwKinds) BY <1>9
  <2>3. w \in ToSet(g.mo[r.loc]) BY <1>4, <1>7, <2>2 DEF Readable
  <2> QED BY <2>1, <2>2, <2>3, WritableIs
<1>10. Grew(g, k, e, r, NewTcj(c), w)
  <2>1. k = Grow(g, e, r, NewTcj(c), w) BY <1>1, <1>4, <1>5, GrownIs
  <2>2. r.type \in ReadKinds => w \in ToSet(g.mo[r.loc]) BY <1>7, <1>9 DEF Writable
  <2> QED BY <1>6, <2>1, <2>2, GrowIs
<1>11. /\ \A q \in c.parents : Precedes(k, q, e)
       /\ Unseen(c) = {} => \A q : Precedes(k, q, e) => q \in c.parents
  BY <1>2, <1>4, <1>10, ParentsPrecede
<1>12. r.type \in ReadKinds => Takes(g, k, e, r, w)
  <2>1. SUFFICES ASSUME type \in ReadKinds PROVE Takes(g, k, e, r, w) BY <1>7
  <2>2. PICK q : q \in c.parents BY <1>8
  <2>3. ASSUME type \in RmwKinds PROVE ~Consumed(g, w)
    <3>1. w \in FindConsistentWrites(g, q, r.loc, TRUE) BY <1>4, <1>7, <1>9, <2>1, <2>2, <2>3 DEF Readable
    <3>2. r.loc \in Locations BY <1>9, <2>1
    <3>3. \A v : v \in FindConsistentWrites(g, q, r.loc, TRUE) <=>
             /\ v \in ToSet(g.mo[r.loc])
             /\ \A u \in Visited(g, q, r.loc) : Kind(g, u) \in WriteKinds => <<v, u>> \notin MoBefore(g)
             /\ TRUE => ~Consumed(g, v)
      BY <1>1, <3>2, SearchIs DEF Shaped
    <3> QED BY <3>1, <3>3
  <2> QED BY <1>7, <1>9, <1>11, <2>1, <2>2, <2>3 DEF Takes
<1>13. GrewSound(g, k, e, r) BY <1>6, <1>10, <1>12, GrewGood
<1>14. ASSUME type \in ReadKinds, Unseen(c) = {} PROVE NothingStale(k, e)
  <2>1. ASSUME NEW v, NEW q, <<v, e>> \in k.rf, Precedes(k, q, e) PROVE Fresh(k, q, v)
    <3>1. q \in c.parents /\ q \in Events(g) BY <1>8, <1>11, <1>14, <2>1
    <3>2. v = w
      <4>1. g.rf \subseteq Events(g) \X Events(g) /\ e \notin Events(g) BY <1>1, <1>10 DEF Shaped, EdgesTyped, Grew
      <4>2. <<v, e>> \notin g.rf BY <4>1
      <4> QED BY <1>10, <2>1, <4>2 DEF Grew
    <3>3. \E rmw \in BOOLEAN : w \in FindConsistentWrites(g, q, r.loc, rmw)
      <4>1. CASE type \in RmwKinds
        <5>1. w \in FindConsistentWrites(g, q, r.loc, TRUE) BY <1>4, <1>7, <1>9, <1>14, <3>1, <4>1 DEF Readable
        <5> QED BY <5>1
      <4>2. CASE type \notin RmwKinds
        <5>1. w \in FindConsistentWrites(g, q, r.loc, type \in RmwKinds) BY <1>4, <1>7, <1>9, <1>14, <3>1 DEF Readable
        <5>2. (type \in RmwKinds) = FALSE BY <4>2
        <5>3. w \in FindConsistentWrites(g, q, r.loc, FALSE) BY <5>1, <5>2
        <5> QED BY <5>3
      <4> QED BY <4>1, <4>2
    <3>4. PICK rmw \in BOOLEAN : w \in FindConsistentWrites(g, q, r.loc, rmw) BY <3>3
    <3>5. w \in Events(g) /\ r.loc \in Locations BY <1>9, <1>14 DEF Writable
    <3>6. PICK K : K = Events(g) OBVIOUS
    <3>7. Agrees(g, k, K) /\ GoodGraph(k) BY <1>13, <3>6 DEF GrewSound
    <3>8. Shaped(k) /\ MoTyped(k) BY <3>7 DEF GoodGraph, IsGraph, Shaped
    <3>9. CompleteOn(g, K) BY <3>6 DEF GoodGraph, GoodOn
    <3>10. Fresh(k, q, w) BY <1>1, <3>1, <3>4, <3>5, <3>6, <3>7, <3>8, <3>9, SearchFresh
    <3> QED BY <3>2, <3>10
  <2> QED BY <2>1 DEF NothingStale
<1> QED BY <1>4, <1>5, <1>7, <1>10, <1>13, <1>14 DEF GrownSound, GrewSound

\* The same for what add_new_node takes from the search or from the potential.
LEMMA AddNodeIs ==
  ASSUME camp \in Campaigns, GoodGraph(g), NEW c \in Candidates, NEW type \in Outcomes(c), NEW w, NEW k,
         type \in ReadKinds => w \in ReadableBy(c, type \in RmwKinds)
                               /\ ~Drifted(g, pot, c.parents, Code(c.id).loc, type \in RmwKinds),
         k = Grown(c, type, w)
  PROVE  /\ GrownSound(g, k, c, NewRecord(c, type))
         /\ Grew(g, k, c.id, NewRecord(c, type), NewTcj(c), w)
<1>1. CandidateIn(c) BY CandidateIs DEF GoodGraph
<1>2. c.parents # {} BY <1>1 DEF CandidateIn
<1>3. type \in ReadKinds => Readable(c, w, type \in RmwKinds) BY <1>2, ReadableIs
<1> QED BY <1>3, AddIs

-----------------------------------------------------------------------------
(* The seed stays, and with it a write for every read.                     *)

Seeded(h) ==
  \A s \in SeedEvents(camp) :
    /\ s \in Events(h) /\ Kind(h, s) = "WRITE" /\ Loc(h, s) = Code(s).loc
    /\ \A a : <<a, s>> \in Edges(h) => a \in SeedEvents(camp)

\* What an edit keeps includes the seed.
LEMMA SeedKept ==
  ASSUME NEW h, NEW k, Kept(h, k), Seeded(h)
  PROVE  Seeded(k)
<1>1. PICK K : Agrees(h, k, K) /\ Keeps(h, K) BY DEF Kept
<1>2. PICK S : S = SeedEvents(camp) OBVIOUS
<1>3. \A s \in S : /\ s \in Events(h) /\ Kind(h, s) = "WRITE" /\ Loc(h, s) = Code(s).loc
                   /\ \A a : <<a, s>> \in Edges(h) => a \in S
  BY <1>2 DEF Seeded
<1>4. S \subseteq K
  <2>1. \A s \in S : ~IsRead(h, s) BY <1>3 DEF IsRead, ReadKinds
  <2>2. S \subseteq Events(h) BY <1>3
  <2>3. \A a, b : b \in S /\ <<a, b>> \in Edges(h) => a \in S BY <1>3
  <2> QED BY <1>1, <2>1, <2>2, <2>3 DEF Keeps
<1>5. \A s \in K : s \in Events(k) /\ Kind(k, s) = Kind(h, s) /\ Loc(k, s) = Loc(h, s)
  <2>1. \A s \in K : Kind(k, s) = Kind(h, s) /\ Loc(k, s) = Loc(h, s) BY <1>1, SameKinds
  <2> QED BY <1>1, <2>1 DEF Agrees
<1>6. \A a, s : s \in K /\ <<a, s>> \in Edges(k) => <<a, s>> \in Edges(h)
  <2>1. SameInto(Edges(h), Edges(k), K) BY <1>1, AgreesEdges
  <2>2. ASSUME NEW a, NEW s, s \in K, <<a, s>> \in Edges(k) PROVE <<a, s>> \in Edges(h)
    <3> DEFINE p == <<a, s>>
    <3>1. p[2] \in K /\ p \in Edges(k) BY <2>2
    <3>2. p \in Edges(h) BY <2>1, <3>1 DEF SameInto
    <3> QED BY <3>2
  <2> QED BY <2>2
<1> QED BY <1>2, <1>3, <1>4, <1>5, <1>6 DEF Seeded

\* A candidate that reads always has a write to take.
LEMMA WriteThere ==
  ASSUME camp \in Campaigns, GoodGraph(g), Seeded(g), NEW c \in Candidates, NEW type \in Outcomes(c),
         type \in ReadKinds, NEW rmw \in BOOLEAN, ~Drifted(g, pot, c.parents, Code(c.id).loc, rmw)
  PROVE  ReadableBy(c, rmw) # {}
<1>1. CandidateIn(c) BY CandidateIs DEF GoodGraph
<1>2. OutcomeIn(c, type) BY <1>1, OutcomeIs
<1>3. PICK l \in Locations : l = Code(c.id).loc BY <1>2 DEF OutcomeIn, ReadKinds
<1>4. \E s : s \in ToSet(g.mo[l])
  <2>1. CodeFacts(c.id) BY <1>1, CodeIs DEF CandidateIn
  <2>2. Code(c.id).type \in ReadKinds BY <1>2 DEF OutcomeIn
  <2>3. PICK s \in SeedEvents(camp) : Code(s).loc = l BY <1>3, <2>1, <2>2 DEF CodeFacts
  <2>4. s \in Events(g) /\ IsWrite(g, s) /\ Loc(g, s) = l BY <2>3 DEF Seeded, IsWrite, WriteKinds
  <2>5. s \in ToSet(g.mo[l]) BY <2>4 DEF GoodGraph, GoodOn, CompleteOn
  <2> QED BY <2>5
<1>5. PICK w : IsLast(g, w, l) BY <1>4, MoLast DEF GoodGraph
<1>6. \A q : w \in FindConsistentWrites(g, q, l, rmw) BY <1>5, GoodRmwAfter, LastFound DEF GoodGraph
<1>7. Readable(c, w, rmw) BY <1>3, <1>5, <1>6 DEF Readable, IsLast
<1>8. c.parents # {} BY <1>1 DEF CandidateIn
<1>9. w \in ReadableBy(c, rmw) BY <1>7, <1>8, ReadableIs
<1> QED BY <1>9

-----------------------------------------------------------------------------
(* The seed.                                                               *)

\* The image of a finite set is finite.
LEMMA ImageFinite ==
  ASSUME NEW S, IsFiniteSet(S), NEW f, DOMAIN f = S
  PROVE  IsFiniteSet({f[x] : x \in S})
<1>1. PICK T : T = {f[x] : x \in S} OBVIOUS
<1>2. PICK h : h = [x \in S |-> f[x]] OBVIOUS
<1>3. h \in [S -> T] BY <1>1, <1>2
<1>4. \A y \in T : \E x \in S : h[x] = y BY <1>1, <1>2
<1>5. h \in Surjection(S, T) BY <1>3, <1>4 DEF Surjection
<1> QED BY <1>1, <1>5, FS_Surjection

\* The first events of every thread.
LEMMA PairsFinite ==
  ASSUME NEW S, IsFiniteSet(S), NEW n \in [S -> Nat]
  PROVE  IsFiniteSet(UNION {{<<t, i>> : i \in 1..n[t]} : t \in S})
<1>1. ASSUME NEW t \in S PROVE IsFiniteSet({<<t, i>> : i \in 1..n[t]})
  <2>1. PICK f : f = [i \in 1..n[t] |-> <<t, i>>] OBVIOUS
  <2>2. IsFiniteSet(1..n[t]) BY FS_Interval
  <2>3. IsFiniteSet({f[i] : i \in 1..n[t]})
    <3>1. DOMAIN f = 1..n[t] BY <2>1
    <3> QED BY <2>2, <3>1, ImageFinite
  <2>4. {f[i] : i \in 1..n[t]} = {<<t, i>> : i \in 1..n[t]} BY <2>1
  <2> QED BY <2>3, <2>4
<1>2. PICK F : F = [t \in S |-> {<<t, i>> : i \in 1..n[t]}] OBVIOUS
<1>3. IsFiniteSet({F[t] : t \in S})
  <2>1. DOMAIN F = S BY <1>2
  <2> QED BY <2>1, ImageFinite
<1>4. {F[t] : t \in S} = {{<<t, i>> : i \in 1..n[t]} : t \in S} BY <1>2
<1>5. IsFiniteSet(UNION {F[t] : t \in S}) BY <1>1, <1>2, <1>3, FS_UNION
<1> QED BY <1>4, <1>5

\* SetToSeqs lists the elements of a set, each once.
LEMMA SetToSeqsIs ==
  ASSUME NEW S, IsFiniteSet(S), NEW s \in SetToSeqs(S)
  PROVE  s \in Seq(S) /\ Distinct(s) /\ ToSet(s) = S
<1>1. PICK n : n = Cardinality(S) OBVIOUS
<1>2. n \in Nat BY <1>1, FS_CardinalityType
<1>3. s \in [1..n -> S] /\ \A i, j \in 1..n : i # j => s[i] # s[j] BY <1>1 DEF SetToSeqs
<1>4. s \in Seq(S) /\ Len(s) = n BY <1>2, <1>3
<1>5. Distinct(s) BY <1>3, <1>4, DistinctIs
<1>6. s \in Injection(1..n, S) BY <1>3 DEF Injection, IsInjective
<1>7. IsFiniteSet(1..n) /\ Cardinality(1..n) = n BY <1>2, FS_Interval
<1>8. s \in Surjection(1..n, S) BY <1>1, <1>6, <1>7, FS_Injection
<1>9. \A x \in S : \E i \in 1..n : s[i] = x BY <1>8 DEF Surjection
<1>10. ToSet(s) = S BY <1>3, <1>4, <1>9 DEF ToSet
<1> QED BY <1>4, <1>5, <1>10

\* What the code is for the seed.
SeedIs(n) ==
  /\ n \in [Threads -> Nat] /\ n = camp.seed /\ IsFiniteSet(SeedEvents(camp))
  /\ \A e : e \in SeedEvents(camp) <=> e = <<e[1], e[2]>> /\ e[1] \in Threads /\ e[2] \in 1..n[e[1]]
  /\ \A e \in SeedEvents(camp) :
       Code(e) \in Instructions /\ Code(e).type = "WRITE" /\ Code(e).loc \in Locations

\* What the assumption on campaigns says of the seed.
LEMMA SeedFacts ==
  ASSUME camp \in Campaigns
  PROVE  SeedIs(camp.seed)
<1>1. PICK n : n = camp.seed OBVIOUS
<1>2. n \in [Threads -> Nat] /\ IsFiniteSet(Threads) BY <1>1, CampaignAssumption
<1>3. SeedEvents(camp) = UNION {{<<t, i>> : i \in 1..n[t]} : t \in Threads} BY <1>1 DEF SeedEvents
<1>4. IsFiniteSet(SeedEvents(camp)) BY <1>2, <1>3, PairsFinite
<1>5. ASSUME NEW e, e \in SeedEvents(camp) PROVE e = <<e[1], e[2]>> /\ e[1] \in Threads /\ e[2] \in 1..n[e[1]]
  <2>1. PICK t \in Threads : e \in {<<t, i>> : i \in 1..n[t]} BY <1>3, <1>5
  <2>2. PICK i \in 1..n[t] : e = <<t, i>> BY <2>1
  <2>3. e[1] = t /\ e[2] = i BY <2>2
  <2> QED BY <2>2, <2>3
<1>6. ASSUME NEW e, e = <<e[1], e[2]>>, e[1] \in Threads, e[2] \in 1..n[e[1]] PROVE e \in SeedEvents(camp)
  <2>1. e \in {<<e[1], i>> : i \in 1..n[e[1]]} BY <1>6
  <2> QED BY <1>3, <1>6, <2>1
<1>7. ASSUME NEW e \in SeedEvents(camp)
      PROVE  Code(e) \in Instructions /\ Code(e).type = "WRITE" /\ Code(e).loc \in Locations
  <2>1. PICK t \in Threads : t = e[1] BY <1>5, <1>7
  <2>2. PICK i \in 1..n[t] : i = e[2] BY <1>5, <1>7, <2>1
  <2>3. \A u \in Threads : n[u] <= Len(camp.code[u]) BY <1>1, CampaignAssumption
  <2>4. camp.code[t] \in Seq(Instructions) BY CampaignAssumption
  <2>5. i \in 1..Len(camp.code[t]) BY <1>2, <2>3, <2>4
  <2>6. \A j \in 1..Len(camp.code[t]) :
           /\ camp.code[t][j].type = "FENCE" <=> camp.code[t][j].loc = NoLocation
           /\ j <= n[t] => camp.code[t][j].type = "WRITE"
    BY <1>1, CampaignAssumption
  <2>7. PICK c : c = camp.code[t][i] OBVIOUS
  <2>8. c.type = "WRITE" /\ (c.type = "FENCE" <=> c.loc = NoLocation) BY <1>2, <2>5, <2>6, <2>7
  <2>9. c \in Instructions BY <2>4, <2>5, <2>7
  <2>10. c.loc \in Locations BY <2>8, <2>9 DEF Instructions
  <2>11. Code(e) = c BY <2>1, <2>2, <2>7 DEF Code
  <2> QED BY <2>8, <2>9, <2>10, <2>11
<1> QED BY <1>1, <1>2, <1>4, <1>5, <1>6, <1>7 DEF SeedIs

SeedShape(h, mo) ==
  /\ IsRecord(h) /\ Events(h) = SeedEvents(camp) /\ h.rf = {} /\ h.sw = {} /\ h.tcj = {} /\ h.mo = mo
  /\ \A e \in Events(h) : h.ev[e] = [type |-> Code(e).type, mode |-> Code(e).mode, loc |-> Code(e).loc]
  /\ DOMAIN h.ev = Events(h) /\ h.ev = [e \in Events(h) |-> h.ev[e]]
  /\ h.po = [t \in Threads |-> [i \in 1..camp.seed[t] |-> <<t, i>>]]

\* The shape of the seed graph.
LEMMA SeedShapeIs ==
  ASSUME NEW mo
  PROVE  SeedShape(SeedGraph(camp, mo), mo)
<1>1. PICK h : h = SeedGraph(camp, mo) OBVIOUS
<1>2. PICK V : V = [e \in SeedEvents(camp) |-> [type |-> Code(e).type, mode |-> Code(e).mode, loc |-> Code(e).loc]] OBVIOUS
<1>3. PICK P : P = [t \in Threads |-> [i \in 1..camp.seed[t] |-> <<t, i>>]] OBVIOUS
<1>4. h = [ev |-> V, po |-> P, rf |-> {}, sw |-> {}, tcj |-> {}, mo |-> mo]
  BY <1>1, <1>2, <1>3 DEF SeedGraph, Code
<1>5. h.ev = V /\ h.po = P /\ h.rf = {} /\ h.sw = {} /\ h.tcj = {} /\ h.mo = mo /\ IsRecord(h) BY <1>4 DEF IsRecord
<1>6. Events(h) = SeedEvents(camp) BY <1>2, <1>5 DEF Events
<1>7. \A e \in Events(h) : h.ev[e] = [type |-> Code(e).type, mode |-> Code(e).mode, loc |-> Code(e).loc]
  BY <1>2, <1>5, <1>6
<1>8. DOMAIN h.ev = Events(h) /\ h.ev = [e \in Events(h) |-> h.ev[e]]
  <2>1. DOMAIN V = SeedEvents(camp) /\ V = [e \in SeedEvents(camp) |-> V[e]] BY <1>2
  <2> QED BY <1>5, <1>6, <2>1
<1> QED BY <1>1, <1>3, <1>5, <1>6, <1>7, <1>8 DEF SeedShape

\* The seed graph is well typed and its modification orders hold its writes.
LEMMA SeedTyped ==
  ASSUME camp \in Campaigns, NEW mo, \A l \in Locations : mo[l] \in SeedOrders(SeedWrites(camp, l)),
         DOMAIN mo = Locations, mo = [l \in Locations |-> mo[l]], NEW h, SeedShape(h, mo)
  PROVE  /\ IsGraph(h)
         /\ \A l \in Locations : ToSet(h.mo[l]) = SeedWrites(camp, l)
<1>1. PICK n : n = camp.seed OBVIOUS
<1>2. SeedIs(n) BY <1>1, SeedFacts
<1>3. \A e : e \in Events(h) <=> e = <<e[1], e[2]>> /\ e[1] \in Threads /\ e[2] \in 1..n[e[1]]
  BY <1>2 DEF SeedIs, SeedShape
<1>4. \A e \in Events(h) : Kind(h, e) = "WRITE" /\ Loc(h, e) = Code(e).loc /\ Loc(h, e) \in Locations /\ h.ev[e] \in EventRecord
  <2>1. ASSUME NEW e \in Events(h) PROVE Kind(h, e) = "WRITE" /\ Loc(h, e) = Code(e).loc /\ Loc(h, e) \in Locations /\ h.ev[e] \in EventRecord
    <3>1. e \in SeedEvents(camp) /\ h.ev[e] = [type |-> Code(e).type, mode |-> Code(e).mode, loc |-> Code(e).loc]
      BY <2>1 DEF SeedShape
    <3>2. Code(e) \in Instructions /\ Code(e).type = "WRITE" /\ Code(e).loc \in Locations BY <1>2, <3>1 DEF SeedIs
    <3>3. Code(e).mode \in {"NON_ATOMIC", "RLX", "ACQ", "REL", "ACQ_REL", "SC"} BY <3>2 DEF Instructions
    <3>4. PICK r : r = [type |-> Code(e).type, mode |-> Code(e).mode, loc |-> Code(e).loc] OBVIOUS
    <3>5. r \in EventRecord /\ r.type = "WRITE" /\ r.loc = Code(e).loc BY <3>2, <3>3, <3>4 DEF EventRecord
    <3> QED BY <3>1, <3>2, <3>4, <3>5 DEF Kind, Loc
  <2> QED BY <2>1
<1>5. EventsTyped(h)
  <2>1. IsFiniteSet(Events(h)) BY <1>2 DEF SeedIs, SeedShape
  <2>2. h.ev \in [Events(h) -> EventRecord]
    <3>1. h.ev = [e \in Events(h) |-> h.ev[e]] BY DEF SeedShape
    <3> QED BY <1>4, <3>1
  <2> QED BY <1>4, <2>1, <2>2 DEF EventsTyped
<1>6. PoTyped(h)
  <2>1. ASSUME NEW t \in Threads
        PROVE  h.po[t] \in Seq(Events(h)) /\ Len(h.po[t]) = n[t] /\ \A i \in 1..n[t] : h.po[t][i] = <<t, i>>
    <3>1. PICK s : s = [i \in 1..n[t] |-> <<t, i>>] OBVIOUS
    <3>2. h.po[t] = s BY <1>1, <3>1 DEF SeedShape
    <3>3. n[t] \in Nat BY <1>2 DEF SeedIs
    <3>4. \A i \in 1..n[t] : s[i] = <<t, i>> /\ s[i] \in Events(h)
      <4>1. ASSUME NEW i \in 1..n[t] PROVE s[i] = <<t, i>> /\ s[i] \in Events(h)
        <5>1. PICK p : p = <<t, i>> OBVIOUS
        <5>2. p = <<p[1], p[2]>> /\ p[1] = t /\ p[2] = i BY <5>1
        <5>3. p \in Events(h) BY <1>3, <5>2
        <5> QED BY <3>1, <5>1, <5>3
      <4> QED BY <4>1
    <3>5. s \in Seq(Events(h)) /\ Len(s) = n[t]
      <4>1. s \in [1..n[t] -> Events(h)] BY <3>1, <3>4
      <4> QED BY <3>3, <4>1
    <3> QED BY <3>2, <3>4, <3>5
  <2>2. h.po \in [Threads -> Seq(Events(h))]
    <3>1. h.po = [t \in Threads |-> h.po[t]] BY DEF SeedShape
    <3> QED BY <2>1, <3>1
  <2> QED BY <1>3, <2>1, <2>2 DEF PoTyped
<1>7. EdgesTyped(h) BY DEF EdgesTyped, SeedShape
<1>8. ASSUME NEW l \in Locations
      PROVE  mo[l] \in Seq(Events(h)) /\ Distinct(mo[l]) /\ ToSet(mo[l]) = SeedWrites(camp, l) /\ SeedWrites(camp, l) \subseteq Events(h)
  <2>1. PICK S : S = SeedWrites(camp, l) OBVIOUS
  <2>2. PICK s : s = mo[l] OBVIOUS
  <2>3. S \subseteq Events(h) BY <2>1 DEF SeedWrites, SeedShape
  <2>4. IsFiniteSet(S) BY <1>5, <2>3, FS_Subset DEF EventsTyped
  <2>5. s \in SetToSeqs(S) BY <2>1, <2>2 DEF SeedOrders
  <2>6. s \in Seq(S) /\ Distinct(s) /\ ToSet(s) = S BY <2>4, <2>5, SetToSeqsIs
  <2>7. s \in Seq(Events(h)) BY <2>3, <2>6
  <2> QED BY <2>1, <2>2, <2>3, <2>6, <2>7
<1>9. MoTyped(h)
  <2>1. h.mo = mo BY DEF SeedShape
  <2>2. \A l \in Locations : \A e \in ToSet(mo[l]) : Loc(h, e) = l
    <3>1. ASSUME NEW l \in Locations, NEW e \in ToSet(mo[l]) PROVE Loc(h, e) = l
      <4>1. e \in SeedWrites(camp, l) /\ e \in Events(h) BY <1>8, <3>1
      <4>2. Code(e).loc = l BY <4>1 DEF SeedWrites, Code
      <4> QED BY <1>4, <4>1, <4>2
    <3> QED BY <3>1
  <2>3. mo \in [Locations -> Seq(Events(h))] BY <1>8
  <2> QED BY <1>8, <2>1, <2>2, <2>3 DEF MoTyped
<1>10. IsRecord(h) /\ h.mo = mo BY DEF SeedShape
<1> QED BY <1>5, <1>6, <1>7, <1>8, <1>9, <1>10 DEF IsGraph

\* The seed graph is good and coherent: it has no reads.
LEMMA SeedGood ==
  ASSUME camp \in Campaigns, NEW mo, \A l \in Locations : mo[l] \in SeedOrders(SeedWrites(camp, l)),
         DOMAIN mo = Locations, mo = [l \in Locations |-> mo[l]], NEW h, h = SeedGraph(camp, mo)
  PROVE  GoodGraph(h) /\ Seeded(h) /\ IsCoherent(h)
<1>1. SeedShape(h, mo) BY SeedShapeIs
<1>2. IsGraph(h) /\ \A l \in Locations : ToSet(h.mo[l]) = SeedWrites(camp, l) BY <1>1, SeedTyped
<1>3. Shaped(h) /\ MoTyped(h) /\ PoTyped(h) /\ EdgesTyped(h) /\ IsFiniteSet(Events(h)) BY <1>2 DEF IsGraph, Shaped, EventsTyped
<1>4. h.rf = {} /\ h.sw = {} /\ h.tcj = {} /\ Events(h) = SeedEvents(camp) /\ h.mo = mo BY <1>1 DEF SeedShape
<1>5. \A e \in Events(h) : Kind(h, e) = "WRITE" /\ Loc(h, e) = Code(e).loc
  <2>1. SeedIs(camp.seed) BY SeedFacts
  <2>2. ASSUME NEW e \in Events(h) PROVE Kind(h, e) = "WRITE" /\ Loc(h, e) = Code(e).loc
    <3>1. h.ev[e] = [type |-> Code(e).type, mode |-> Code(e).mode, loc |-> Code(e).loc] BY <1>1 DEF SeedShape
    <3>2. Code(e).type = "WRITE" BY <1>4, <2>1 DEF SeedIs
    <3> QED BY <3>1, <3>2 DEF Kind, Loc
  <2> QED BY <2>2
<1>6. Edges(h) = PoEdges(h) /\ HbEdges(h) = PoEdges(h) BY <1>4 DEF Edges, HbEdges
<1>7. PICK E : E = Events(h) OBVIOUS
<1>8. PICK R : R = PoEdges(h) OBVIOUS
<1>9. R \subseteq E \X E /\ IsFiniteSet(E) BY <1>3, <1>7, <1>8, PoIs
<1>10. \A a, b : <<a, b>> \in R => a \in E /\ b \in E /\ a[1] = b[1] /\ b[2] = a[2] + 1 BY <1>3, <1>7, <1>8, PoIs
<1>11. \A e \in E : e[2] \in Nat
  <2>1. ASSUME NEW e \in E PROVE e[2] \in Nat
    <3>1. e[2] \in 1..Len(h.po[e[1]]) BY <1>3, <1>7 DEF PoTyped
    <3> QED BY <3>1
  <2> QED BY <2>1
<1>12. ASSUME NEW a, NEW b, <<a, b>> \in Plus(R, E) PROVE a \in E /\ b \in E /\ a[1] = b[1] /\ a[2] < b[2]
  <2>1. a \in E BY <1>9, <1>12, PlusIn
  <2>2. PICK C : C = {x \in E : x[1] = a[1] /\ a[2] < x[2]} OBVIOUS
  <2>3. \A x : <<a, x>> \in R => x \in C BY <1>10, <1>11, <2>2
  <2>4. Closed(R, C)
    <3>1. ASSUME NEW p \in R, p[1] \in C PROVE p[2] \in C
      <4>1. p = <<p[1], p[2]>> BY <1>9
      <4>2. p[2] \in E /\ p[1] \in E /\ p[1][1] = p[2][1] /\ p[2][2] = p[1][2] + 1 BY <1>10, <4>1
      <4>3. p[1][1] = a[1] /\ a[2] < p[1][2] BY <2>2, <3>1
      <4>4. a[2] \in Nat /\ p[1][2] \in Nat BY <1>11, <2>1, <4>2
      <4>5. a[2] < p[2][2] BY <4>2, <4>3, <4>4
      <4> QED BY <2>2, <4>2, <4>3, <4>5
    <3> QED BY <3>1 DEF Closed
  <2>5. b \in C BY <1>9, <1>12, <2>3, <2>4, PlusLeast
  <2> QED BY <2>1, <2>2, <2>5
<1>13. GoodGraph(h)
  <2>1. \A e \in Events(h) : ~IsRead(h, e) /\ IsWrite(h, e) BY <1>5 DEF IsRead, ReadKinds, IsWrite, WriteKinds
  <2>2. \A l \in Locations : \A e \in Events(h) : e \in ToSet(h.mo[l]) <=> IsWrite(h, e) /\ Loc(h, e) = l
    <3>1. \A l \in Locations : \A e : e \in SeedWrites(camp, l) <=> e \in SeedEvents(camp) /\ Code(e).loc = l
      BY DEF SeedWrites, Code
    <3> QED BY <1>2, <1>4, <1>5, <2>1, <3>1
  <2>3. CompleteOn(h, Events(h)) BY <1>4, <2>1, <2>2 DEF CompleteOn
  <2>4. ExclusiveOn(h, Events(h)) /\ JustifiedOn(h, Events(h)) BY <1>4 DEF ExclusiveOn, JustifiedOn
  <2>5. ParentedOn(h, Events(h)) BY <2>1 DEF ParentedOn
  <2>6. AcyclicOn(h, Events(h))
    <3>1. ASSUME NEW e \in E, <<e, e>> \in Plus(R, E) PROVE FALSE
      <4>1. e[2] < e[2] /\ e[2] \in Nat BY <1>11, <1>12, <3>1
      <4> QED BY <4>1
    <3> QED BY <1>6, <1>7, <1>8, <3>1 DEF AcyclicOn
  <2> QED BY <1>2, <2>3, <2>4, <2>5, <2>6 DEF GoodGraph, GoodOn
<1>14. Seeded(h)
  <2>1. \A a, s : <<a, s>> \in Edges(h) => a \in SeedEvents(camp) BY <1>4, <1>6, <1>7, <1>8, <1>10
  <2> QED BY <1>4, <1>5, <2>1 DEF Seeded
<1>15. IsCoherent(h)
  <2>1. ASSUME NEW a, NEW b, <<a, b>> \in HappensBefore(h) PROVE a # b /\ ~Eco(h, b, a)
    <3>1. a \in E /\ b \in E /\ a[1] = b[1] /\ a[2] < b[2] BY <1>3, <1>6, <1>7, <1>8, <1>12, <2>1, HbIn
    <3>2. a[2] \in Nat /\ b[2] \in Nat BY <1>11, <3>1
    <3>3. ASSUME <<b, a>> \in MoBefore(h) PROVE FALSE
      <4>1. PICK l \in Locations : <<b, a>> \in Order(h.mo[l]) BY <1>3, <3>3, MoIs
      <4>2. PICK s : s = mo[l] OBVIOUS
      <4>3. s \in Seq(E) BY <1>3, <1>4, <1>7, <4>2 DEF MoTyped
      <4>4. InOrder(s, Len(s), b, a) BY <1>4, <4>1, <4>2, <4>3, OrderIs
      <4>5. PICK i \in 1..Len(s), j \in 1..Len(s) : i < j /\ b = s[i] /\ a = s[j] BY <4>4 DEF InOrder
      <4>6. s \in SeedOrders(SeedWrites(camp, l)) BY <4>2
      <4>7. DOMAIN s = 1..Len(s) BY <4>3
      <4>8. \A x, y \in DOMAIN s : (x < y /\ s[x][1] = s[y][1]) => s[x][2] < s[y][2] BY <4>6 DEF SeedOrders
      <4>9. b[2] < a[2] BY <3>1, <4>5, <4>7, <4>8
      <4> QED BY <3>1, <3>2, <4>9
    <3>4. ~OverMo(h, b, a) /\ \A u, v : <<u, v>> \notin h.rf BY <1>4, <3>3 DEF OverMo
    <3>5. ~Eco(h, b, a) BY <1>4, <3>3, <3>4 DEF Eco
    <3>6. a # b
      <4>1. a[2] # b[2] BY <3>1, <3>2
      <4> QED BY <4>1
    <3> QED BY <3>5, <3>6
  <2>2. CoherentOn(h, Events(h)) BY <2>1 DEF CoherentOn
  <2> QED BY <1>3, <2>2, CoherentIs
<1> QED BY <1>13, <1>14, <1>15

-----------------------------------------------------------------------------
(* The invariant of the mutator.                                           *)

\* What the races of a mutation are made from.
RacesFollow(h, k, e) ==
  \E K : K \subseteq Events(h) /\ Events(k) = K \cup {e} /\ e \notin K /\ SameRaces(h, k, K)
\* A step at e makes k from g.
Makes(h, k, e, mark) ==
  /\ GoodGraph(k) /\ Kept(h, k)
  /\ mark \cap {"flip_kept", "stray_tcj", "lone_parent"} = {} => (IsCoherent(h) => IsCoherent(k))
  /\ "chain" \notin mark => RacesFollow(h, k, e)

\* What the addition of a candidate hands to Store.
LEMMA AddNodeMakes ==
  ASSUME camp \in Campaigns, GoodGraph(g), NEW c \in Candidates, NEW type \in Outcomes(c), NEW w, NEW k,
         type \in ReadKinds => w \in ReadableBy(c, type \in RmwKinds)
                               /\ ~Drifted(g, pot, c.parents, Code(c.id).loc, type \in RmwKinds),
         k = Grown(c, type, w)
  PROVE  Makes(g, k, c.id, IF type \in ReadKinds THEN Unseen(c) ELSE {})
<1>1. PICK r : r = NewRecord(c, type) OBVIOUS
<1>2. GrownSound(g, k, c, r) /\ Grew(g, k, c.id, r, NewTcj(c), w) BY <1>1, AddNodeIs
<1>3. GoodGraph(k) /\ Kept(g, k) /\ Agrees(g, k, Events(g)) BY <1>2 DEF GrownSound, GrewSound
<1>4. RacesFollow(g, k, c.id)
  <2>1. PICK K : K = Events(g) OBVIOUS
  <2>2. Events(k) = K \cup {c.id} /\ c.id \notin K BY <1>2, <2>1 DEF Grew
  <2>3. Shaped(g) /\ Shaped(k) BY <1>3 DEF GoodGraph, IsGraph, Shaped
  <2>4. SameRaces(g, k, K) BY <1>3, <2>1, <2>3, AgreesRaces
  <2> QED BY <2>1, <2>2, <2>4 DEF RacesFollow
<1>5. PICK mark : mark = IF type \in ReadKinds THEN Unseen(c) ELSE {} OBVIOUS
<1>6. ASSUME mark \cap {"flip_kept", "stray_tcj", "lone_parent"} = {} PROVE IsCoherent(g) => IsCoherent(k)
  <2>1. Unseen(c) \subseteq {"stray_tcj", "lone_parent"} BY DEF Unseen
  <2>2. type \notin ReadKinds \/ Unseen(c) = {} BY <1>5, <1>6, <2>1
  <2>3. r.type = type BY <1>1 DEF NewRecord
  <2> QED BY <1>2, <2>2, <2>3 DEF GrownSound
<1> QED BY <1>3, <1>4, <1>5, <1>6 DEF Makes

\* Every edge of rf enters a read.
LEMMA RfIntoRead ==
  ASSUME NEW h, GoodGraph(h), NEW p \in h.rf
  PROVE  p[2] \in Events(h) /\ IsRead(h, p[2]) /\ p = <<p[1], p[2]>> /\ p[1] \in Events(h)
<1>1. p = <<p[1], p[2]>> /\ p[2] \in Events(h) /\ p[1] \in Events(h) BY DEF GoodGraph, IsGraph, EdgesTyped
<1>2. \A v, e : e \in Events(h) /\ <<v, e>> \in h.rf => IsRead(h, e) BY DEF GoodGraph, GoodOn, CompleteOn
<1> QED BY <1>1, <1>2

\* What a mutation hands to Store.
LEMMA MutationMakes ==
  ASSUME NEW h, NEW k, NEW K, NEW e, GoodGraph(h), Mutation(h, k, K, e)
  PROVE  Makes(h, k, e, {})
<1>1. Sound(h, k) BY MutationSound
<1>2. Shaped(h) /\ Shaped(k) /\ Agrees(h, k, K) /\ Events(k) = K \cup {e} /\ e \notin K
  BY DEF Mutation, GoodGraph, IsGraph, Shaped
<1>3. SameRaces(h, k, K) BY <1>2, AgreesRaces
<1>4. RacesFollow(h, k, e) BY <1>2, <1>3 DEF RacesFollow, Agrees
<1> QED BY <1>1, <1>4 DEF Makes, Sound

\* What mutate_rf_edge hands to Store.
LEMMA MutateRfMakes ==
  ASSUME NEW h, GoodGraph(h), NEW p \in h.rf, NEW w \in WritesFor(Detached(h, p[2]), p[2]) \ {p[1], p[2]}
  PROVE  Makes(h, Rewired(Detached(h, p[2]), w, p[2]), p[2], {})
<1>1. PICK e : e = p[2] OBVIOUS
<1>2. e \in Events(h) /\ IsRead(h, e) BY <1>1, RfIntoRead
<1>3. PICK k : k = Rewired(Detached(h, e), w, e) OBVIOUS
<1>4. w \in WritesFor(Detached(h, e), e) /\ w # e BY <1>1
<1>5. Mutation(h, k, NotAfter(h, e) \ {e}, e) BY <1>2, <1>3, <1>4, MutateRfIs
<1> QED BY <1>1, <1>3, <1>5, MutationMakes

\* What the chain case of mutate_rf_edge hands to Store.
LEMMA ChainMakes ==
  ASSUME NEW h, GoodGraph(h), NEW p \in h.rf, {p[1], p[2]} \subseteq OfKind(Detached(h, p[2]), RmwKinds),
         NEW k \in ChainRewired(ChainDetached(Detached(h, p[2]), p[2], p[1]), p[2], p[1])
  PROVE  Makes(h, k, p[2], {"chain"})
<1>1. PICK e : e = p[2] OBVIOUS
<1>2. PICK old : old = p[1] OBVIOUS
<1>3. <<old, e>> \in h.rf /\ IsRmw(h, e) /\ IsRmw(h, old) BY <1>1, <1>2, ChainKinds
<1>4. k \in ChainRewired(ChainDetached(Detached(h, e), e, old), e, old) BY <1>1, <1>2
<1>5. Sound(h, k) BY <1>3, <1>4, ChainIs
<1> QED BY <1>5 DEF Makes, Sound

\* What the flip to a failed CAS hands to Store.
LEMMA FailMakes ==
  ASSUME GoodGraph(g), NEW e \in OfKind(g, {"CAS_SUCCESS"})
  PROVE  Makes(g, FlippedToFail(e), e, {})
<1>1. e \in Events(g) /\ Kind(g, e) = "CAS_SUCCESS" BY DEF OfKind
<1>2. FlippedToFail(e) = FailOf(g, e) BY DEF FlippedToFail, FailOf
<1>3. PICK k : k = FailOf(g, e) OBVIOUS
<1>4. Mutation(g, k, NotAfter(g, e) \ {e}, e) BY <1>1, <1>3, FailIs
<1> QED BY <1>2, <1>3, <1>4, MutationMakes

\* What the flip to a successful CAS hands to Store.
LEMMA SuccessMakes ==
  ASSUME GoodGraph(g), NEW e \in OfKind(g, {"CAS_FAIL"}), MayFlipToSuccess(e)
  PROVE  Makes(g, FlippedToSuccess(e), e, IF Targets(Edges(g), e) = {} THEN {} ELSE {"flip_kept"})
<1>1. e \in Events(g) /\ Kind(g, e) = "CAS_FAIL" BY DEF OfKind
<1>2. FlippedToSuccess(e) = SuccessOf(g, e) BY DEF FlippedToSuccess, SuccessOf
<1>3. PICK k : k = SuccessOf(g, e) OBVIOUS
<1>4. PICK w : Succeeds(g, k, w, e) BY <1>1, <1>3, SuccessIs
<1>5. PoTyped(g) /\ EdgesTyped(g) BY DEF GoodGraph, IsGraph
<1>6. MayFlip(g, e)
  <2>1. PICK R : R = g.rf OBVIOUS
  <2>2. PICK E : E = Events(g) OBVIOUS
  <2>3. R \subseteq E \X E BY <1>5, <2>1, <2>2 DEF EdgesTyped
  <2>4. \A a, b : (b \in Targets(R, a) <=> <<a, b>> \in R) /\ (a \in Sources(R, b) <=> <<a, b>> \in R)
    BY <2>3, TargetsIs
  <2>5. \A v \in Sources(R, e) : (Targets(R, v) \ {e}) \cap OfKind(g, RmwKinds) = {} BY <2>1 DEF MayFlipToSuccess
  <2>6. ASSUME NEW v, <<v, e>> \in R, NEW r \in E, <<v, r>> \in R, IsRmw(g, r) PROVE r = e
    <3>1. r \in OfKind(g, RmwKinds) BY <2>2, <2>6 DEF OfKind, IsRmw
    <3> QED BY <2>4, <2>5, <2>6, <3>1
  <2> QED BY <2>1, <2>2, <2>6 DEF MayFlip
<1>7. SoundAtEnd(g, k, e) BY <1>1, <1>4, <1>6, SuccessSound
<1>8. ASSUME Targets(Edges(g), e) = {} PROVE \A b : <<e, b>> \notin Edges(g)
  <2>1. PICK E : E = Events(g) OBVIOUS
  <2>2. PICK R : R = Edges(g) OBVIOUS
  <2>3. R \subseteq E \X E BY <1>5, <2>1, <2>2, EdgesIn
  <2>4. \A b : b \in Targets(R, e) <=> <<e, b>> \in R BY <2>3, TargetsIs
  <2> QED BY <1>8, <2>2, <2>4
<1>9. RacesFollow(g, k, e)
  <2>1. PICK K : K = Events(g) \ {e} OBVIOUS
  <2>2. SameRaces(g, k, K) BY <1>1, <1>4, <2>1, SuccessRaces
  <2>3. K \subseteq Events(g) /\ Events(k) = K \cup {e} /\ e \notin K BY <1>1, <1>4, <2>1 DEF Succeeds
  <2> QED BY <2>2, <2>3 DEF RacesFollow
<1>10. PICK mark : mark = IF Targets(Edges(g), e) = {} THEN {} ELSE {"flip_kept"} OBVIOUS
<1>11. ASSUME mark \cap {"flip_kept", "stray_tcj", "lone_parent"} = {} PROVE IsCoherent(g) => IsCoherent(k)
  <2>1. Targets(Edges(g), e) = {} BY <1>10, <1>11
  <2> QED BY <1>7, <1>8, <2>1 DEF SoundAtEnd
<1> QED BY <1>2, <1>3, <1>7, <1>9, <1>10, <1>11 DEF Makes, SoundAtEnd

\* The inductive invariant: a good graph with the campaign's seed in it, coherent while no
\* step went past what the code looks at, and the pairs of its races stored.
GraphSound ==
  /\ camp \in Campaigns /\ GoodGraph(g) /\ Seeded(g) /\ failed \in {"none", "drift", "no_write_chain"}
  /\ Regular => IsCoherent(g)
  /\ RacesExact

\* RacesExact in terms of the races of a graph.
LEMMA RacesExactIs == RacesExact <=> ("chain" \notin marks => races = RacesOf(g))
BY DEF RacesExact, RacesOf

\* The modification orders of a good graph are complete.
LEMMA GoodMo == ASSUME NEW h, GoodGraph(h) PROVE MoComplete(h)
<1>1. ASSUME NEW l \in Locations PROVE ToSet(h.mo[l]) = {e \in OfKind(h, WriteKinds) : Loc(h, e) = l}
  <2>1. ToSet(h.mo[l]) \subseteq Events(h) BY MoIs DEF GoodGraph, IsGraph
  <2>2. \A e \in Events(h) : e \in ToSet(h.mo[l]) <=> IsWrite(h, e) /\ Loc(h, e) = l
    BY DEF GoodGraph, GoodOn, CompleteOn
  <2> QED BY <2>1, <2>2 DEF OfKind, IsWrite
<1> QED BY <1>1 DEF MoComplete

\* What Store does with what a step makes.
LEMMA StoreSound ==
  ASSUME GraphSound, Running, NEW k, NEW kind, NEW e, NEW mark, Makes(g, k, e, mark), Store(k, kind, e, mark)
  PROVE  GraphSound'
<1>1. PICK chained \in BOOLEAN :
        /\ g' = k
        /\ races' = IF chained THEN CollectRacePairs(k) ELSE UpdateRacePairs(races, k, e)
        /\ marks' = marks \cup mark
        /\ camp' = camp /\ failed' = failed
  BY DEF Store
<1>2. GoodGraph(k) /\ Kept(g, k) /\ GoodGraph(g) /\ Seeded(g) BY DEF Makes, GraphSound
<1>3. GoodGraph(g)' BY <1>1, <1>2
<1>4. Seeded(g)'
  <2>1. Seeded(k) BY <1>2, SeedKept
  <2>2. \A x : SeedEvents(camp)' = SeedEvents(camp) /\ Code(x)' = Code(x) BY <1>1 DEF Code
  <2> QED BY <1>1, <2>1, <2>2 DEF Seeded
<1>5. (Regular => IsCoherent(g))'
  <2>1. ASSUME Regular' PROVE IsCoherent(k)
    <3>1. Regular /\ mark \cap {"flip_kept", "stray_tcj", "lone_parent"} = {} BY <1>1, <2>1 DEF Regular
    <3> QED BY <3>1 DEF GraphSound, Makes
  <2>2. IsCoherent(g)' <=> IsCoherent(k) BY <1>1
  <2> QED BY <2>1, <2>2
<1>6. ASSUME "chain" \notin marks' PROVE races' = RacesOf(k)
  <2>1. "chain" \notin marks /\ "chain" \notin mark BY <1>1, <1>6
  <2>2. races = RacesOf(g) BY <2>1, RacesExactIs DEF GraphSound
  <2>3. Shaped(k) BY <1>2 DEF GoodGraph, IsGraph, Shaped
  <2>4. CollectRacePairs(k) = RacesOf(k) BY <1>2, <2>3, GoodMo, CollectIs
  <2>5. UpdateRacePairs(races, k, e) = RacesOf(k)
    <3>1. PICK K : K \subseteq Events(g) /\ Events(k) = K \cup {e} /\ e \notin K /\ SameRaces(g, k, K)
      BY <2>1 DEF Makes, RacesFollow
    <3>2. UpdateRacePairs(RacesOf(g), k, e) = RacesOf(k) BY <2>3, <3>1, UpdateIs
    <3> QED BY <2>2, <3>2
  <2> QED BY <1>1, <2>4, <2>5
<1>7. RacesExact'
  <2>1. RacesExact' <=> ("chain" \notin marks' => races' = RacesOf(g)') BY DEF RacesExact, RacesOf
  <2>2. RacesOf(g)' = RacesOf(k) BY <1>1
  <2> QED BY <1>6, <2>1, <2>2
<1>8. camp' \in Campaigns /\ failed' \in {"none", "drift", "no_write_chain"} BY <1>1 DEF GraphSound
<1> QED BY <1>3, <1>4, <1>5, <1>7, <1>8 DEF GraphSound

\* Every seed graph is sound.
LEMMA GraphSoundInit == Init => GraphSound
<1> SUFFICES ASSUME Init PROVE GraphSound OBVIOUS
<1>1. camp \in Campaigns /\ failed = "none" /\ races = CollectRacePairs(g) BY DEF Init
<1>2. PICK mo \in [Locations -> UNION {SeedOrders(SeedWrites(camp, l)) : l \in Locations}] :
        (\A l \in Locations : mo[l] \in SeedOrders(SeedWrites(camp, l))) /\ g = SeedGraph(camp, mo)
  BY DEF Init
<1>3. GoodGraph(g) /\ Seeded(g) /\ IsCoherent(g)
  <2>1. DOMAIN mo = Locations /\ mo = [l \in Locations |-> mo[l]] BY <1>2
  <2>2. PICK h : h = SeedGraph(camp, mo) OBVIOUS
  <2>3. GoodGraph(h) /\ Seeded(h) /\ IsCoherent(h) BY <1>1, <1>2, <2>1, <2>2, SeedGood
  <2> QED BY <1>2, <2>2, <2>3
<1>4. RacesExact
  <2>1. Shaped(g) BY <1>3 DEF GoodGraph, IsGraph, Shaped
  <2>2. CollectRacePairs(g) = RacesOf(g) BY <1>3, <2>1, GoodMo, CollectIs
  <2> QED BY <1>1, <2>2, RacesExactIs
<1> QED BY <1>1, <1>3, <1>4 DEF GraphSound

\* An operation that gives up leaves the graph as it is.
LEMMA AbortSound == ASSUME GraphSound, NEW why \in {"drift", "no_write_chain"}, Abort(why) PROVE GraphSound'
<1>1. failed' = why /\ camp' = camp /\ g' = g /\ pot' = pot /\ races' = races /\ marks' = marks BY DEF Abort
<1>2. (Regular <=> Regular') /\ (RacesExact <=> RacesExact') /\ (Seeded(g) <=> Seeded(g)')
  BY <1>1 DEF Regular, RacesExact, Seeded, Code
<1>3. (GoodGraph(g) <=> GoodGraph(g)') /\ (IsCoherent(g) <=> IsCoherent(g)') BY <1>1
<1> QED BY <1>1, <1>2, <1>3 DEF GraphSound

\* GraphSound is inductive.
LEMMA GraphSoundStep == GraphSound /\ [Next]_vars => GraphSound'
<1> SUFFICES ASSUME GraphSound, [Next]_vars PROVE GraphSound' OBVIOUS
<1>1. camp \in Campaigns /\ GoodGraph(g) /\ Seeded(g) BY DEF GraphSound
<1>2. CASE AddNode
  <2>1. PICK c \in Candidates : \E type \in Outcomes(c) :
          \E w \in (IF type \in ReadKinds THEN ReadableBy(c, type \in RmwKinds) ELSE {None}) :
            /\ type \in ReadKinds => ~Drifted(g, pot, c.parents, Code(c.id).loc, type \in RmwKinds)
            /\ Store(Grown(c, type, w), "ADD", c.id, IF type \in ReadKinds THEN Unseen(c) ELSE {})
    BY <1>2 DEF AddNode
  <2>2. PICK type \in Outcomes(c) :
          \E w \in (IF type \in ReadKinds THEN ReadableBy(c, type \in RmwKinds) ELSE {None}) :
            /\ type \in ReadKinds => ~Drifted(g, pot, c.parents, Code(c.id).loc, type \in RmwKinds)
            /\ Store(Grown(c, type, w), "ADD", c.id, IF type \in ReadKinds THEN Unseen(c) ELSE {})
    BY <2>1
  <2>3. PICK w \in (IF type \in ReadKinds THEN ReadableBy(c, type \in RmwKinds) ELSE {None}) :
            /\ type \in ReadKinds => ~Drifted(g, pot, c.parents, Code(c.id).loc, type \in RmwKinds)
            /\ Store(Grown(c, type, w), "ADD", c.id, IF type \in ReadKinds THEN Unseen(c) ELSE {})
    BY <2>2
  <2>4. PICK k : k = Grown(c, type, w) OBVIOUS
  <2>5. PICK mark : mark = IF type \in ReadKinds THEN Unseen(c) ELSE {} OBVIOUS
  <2>6. Makes(g, k, c.id, mark) BY <1>1, <2>3, <2>4, <2>5, AddNodeMakes
  <2>7. Store(k, "ADD", c.id, mark) /\ Running BY <1>2, <2>3, <2>4, <2>5 DEF AddNode
  <2> QED BY <2>6, <2>7, StoreSound
<1>3. CASE AddNodeAborts
  <2>1. PICK c \in Candidates : \E type \in Outcomes(c) : \E rmw \in NeededBy(c, type) :
          /\ type \in ReadKinds
          /\ IF Drifted(g, pot, c.parents, Code(c.id).loc, rmw) THEN Abort("drift")
             ELSE ReadableBy(c, rmw) = {} /\ Abort("no_write")
    BY <1>3 DEF AddNodeAborts
  <2>2. PICK type \in Outcomes(c) : \E rmw \in NeededBy(c, type) :
          /\ type \in ReadKinds
          /\ IF Drifted(g, pot, c.parents, Code(c.id).loc, rmw) THEN Abort("drift")
             ELSE ReadableBy(c, rmw) = {} /\ Abort("no_write")
    BY <2>1
  <2>3. PICK rmw \in NeededBy(c, type) :
          /\ type \in ReadKinds
          /\ IF Drifted(g, pot, c.parents, Code(c.id).loc, rmw) THEN Abort("drift")
             ELSE ReadableBy(c, rmw) = {} /\ Abort("no_write")
    BY <2>2
  <2>4. CASE Drifted(g, pot, c.parents, Code(c.id).loc, rmw)
    <3>1. Abort("drift") BY <2>3, <2>4
    <3> QED BY <3>1, AbortSound
  <2>5. CASE ~Drifted(g, pot, c.parents, Code(c.id).loc, rmw)
    <3>1. rmw \in BOOLEAN BY DEF NeededBy
    <3>2. ReadableBy(c, rmw) # {} BY <1>1, <2>3, <2>5, <3>1, WriteThere
    <3> QED BY <2>3, <2>5, <3>2
  <2> QED BY <2>4, <2>5
<1>4. CASE MutateRf
  <2>1. PICK p \in g.rf : \E w \in WritesFor(Detached(g, p[2]), p[2]) \ {p[1], p[2]} :
          Store(Rewired(Detached(g, p[2]), w, p[2]), "MUTATE", p[2], {})
    BY <1>4 DEF MutateRf
  <2>2. PICK w \in WritesFor(Detached(g, p[2]), p[2]) \ {p[1], p[2]} :
          Store(Rewired(Detached(g, p[2]), w, p[2]), "MUTATE", p[2], {})
    BY <2>1
  <2>3. Makes(g, Rewired(Detached(g, p[2]), w, p[2]), p[2], {}) BY <1>1, MutateRfMakes
  <2> QED BY <1>4, <2>2, <2>3, StoreSound DEF MutateRf
<1>5. CASE MutateRfChain
  <2>1. PICK p \in g.rf :
          /\ MayChain(Detached(g, p[2]), p[2], p[1])
          /\ \E k \in ChainRewired(ChainDetached(Detached(g, p[2]), p[2], p[1]), p[2], p[1]) :
               Store(k, "MUTATE", p[2], {"chain"})
    BY <1>5 DEF MutateRfChain
  <2>2. PICK k \in ChainRewired(ChainDetached(Detached(g, p[2]), p[2], p[1]), p[2], p[1]) :
               Store(k, "MUTATE", p[2], {"chain"})
    BY <2>1
  <2>3. Makes(g, k, p[2], {"chain"}) BY <1>1, <2>1, ChainMakes DEF MayChain
  <2> QED BY <1>5, <2>2, <2>3, StoreSound DEF MutateRfChain
<1>6. CASE FlipCas
  <2>1. CASE \E e \in OfKind(g, {"CAS_SUCCESS"}) : Store(FlippedToFail(e), "MUTATE", e, {})
    <3>1. PICK e \in OfKind(g, {"CAS_SUCCESS"}) : Store(FlippedToFail(e), "MUTATE", e, {}) BY <2>1
    <3>2. Makes(g, FlippedToFail(e), e, {}) BY <1>1, FailMakes
    <3> QED BY <1>6, <3>1, <3>2, StoreSound DEF FlipCas
  <2>2. CASE \E e \in OfKind(g, {"CAS_FAIL"}) :
               /\ MayFlipToSuccess(e)
               /\ Store(FlippedToSuccess(e), "MUTATE", e, IF Targets(Edges(g), e) = {} THEN {} ELSE {"flip_kept"})
    <3>1. PICK e \in OfKind(g, {"CAS_FAIL"}) :
            /\ MayFlipToSuccess(e)
            /\ Store(FlippedToSuccess(e), "MUTATE", e, IF Targets(Edges(g), e) = {} THEN {} ELSE {"flip_kept"})
      BY <2>2
    <3>2. Makes(g, FlippedToSuccess(e), e, IF Targets(Edges(g), e) = {} THEN {} ELSE {"flip_kept"})
      BY <1>1, <3>1, SuccessMakes
    <3> QED BY <1>6, <3>1, <3>2, StoreSound DEF FlipCas
  <2> QED BY <1>6, <2>1, <2>2 DEF FlipCas
<1>7. CASE MutateRfAborts
  <2>1. PICK p \in g.rf : LET d == Detached(g, p[2])
                              c == ChainDetached(d, p[2], p[1])
                          IN  \/ NoneInCommon(d, p[2])
                              \/ MayChain(d, p[2], p[1]) /\ NoneInCommon(c, p[1])
                              \/ Abort("no_write_chain")
    BY <1>7 DEF MutateRfAborts
  <2>2. ~NoneInCommon(Detached(g, p[2]), p[2]) BY <1>1, DetachedFinds DEF NoneInCommon
  <2>3. ASSUME MayChain(Detached(g, p[2]), p[2], p[1])
        PROVE  ~NoneInCommon(ChainDetached(Detached(g, p[2]), p[2], p[1]), p[1])
    BY <1>1, <2>3, ChainFinds DEF NoneInCommon, MayChain
  <2>4. Abort("no_write_chain") BY <2>1, <2>2, <2>3
  <2> QED BY <2>4, AbortSound
<1>8. CASE UNCHANGED vars
  <2>1. camp' = camp /\ g' = g /\ races' = races /\ failed' = failed /\ marks' = marks BY <1>8 DEF vars
  <2>2. (Regular <=> Regular') /\ (RacesExact <=> RacesExact') /\ (Seeded(g) <=> Seeded(g)')
    BY <2>1 DEF Regular, RacesExact, Seeded, Code
  <2>3. (GoodGraph(g) <=> GoodGraph(g)') /\ (IsCoherent(g) <=> IsCoherent(g)') BY <2>1
  <2> QED BY <2>1, <2>2, <2>3 DEF GraphSound
<1> QED BY <1>2, <1>3, <1>4, <1>5, <1>6, <1>7, <1>8 DEF Next

\* GraphSound after any sequence of mutate_skeleton_graph's additions, rf mutations and CAS
\* flips, for every campaign: the graph, its coherence, its seed and its stored races.
THEOREM GraphSoundAlways == Spec => []GraphSound
<1>1. Init => GraphSound BY GraphSoundInit
<1>2. GraphSound /\ [Next]_vars => GraphSound' BY GraphSoundStep
<1> QED BY <1>1, <1>2, PTL DEF Spec

\* A sequence without repetitions is as long as its set of elements is large.
LEMMA DistinctLength == ASSUME NEW X, NEW s \in Seq(X), Distinct(s) PROVE Cardinality(ToSet(s)) = Len(s)
<1>1. PICK n : n = Len(s) OBVIOUS
<1>2. n \in Nat /\ DOMAIN s = 1..n /\ s = [i \in 1..n |-> s[i]] BY <1>1
<1>3. PICK T : T = ToSet(s) OBVIOUS
<1>4. (\A i \in 1..n : s[i] \in T) /\ (\A x \in T : \E i \in 1..n : s[i] = x) BY <1>1, <1>2, <1>3 DEF ToSet
<1>5. s \in [1..n -> T] BY <1>2, <1>4
<1>6. s \in Surjection(1..n, T) BY <1>4, <1>5 DEF Surjection
<1>7. \A i, j \in 1..n : s[i] = s[j] => i = j BY <1>1, DistinctIs
<1>8. s \in Injection(1..n, T) BY <1>5, <1>7 DEF Injection, IsInjective
<1>9. IsFiniteSet(1..n) /\ Cardinality(1..n) = n
  <2>1. n \in Nat BY <1>2
  <2> QED BY <2>1, FS_Interval
<1>10. Cardinality(T) = n BY <1>6, <1>8, <1>9, FS_Surjection
<1> QED BY <1>1, <1>3, <1>10

\* A good graph has complete edges.
LEMMA CompleteIs == ASSUME GoodGraph(g) PROVE EdgesComplete
<1>1. PICK E : E = Events(g) OBVIOUS
<1>2. PICK R : R = g.rf OBVIOUS
<1>3. EdgesTyped(g) /\ PoTyped(g) /\ MoTyped(g) BY DEF GoodGraph, IsGraph
<1>4. CompleteOn(g, E) BY <1>1 DEF GoodGraph, GoodOn
<1>5. {g.rf, g.sw, g.tcj} \subseteq SUBSET (Events(g) \X Events(g)) BY <1>3 DEF EdgesTyped
<1>6. R \subseteq E \X E BY <1>1, <1>2, <1>3 DEF EdgesTyped
<1>7. ASSUME NEW e \in OfKind(g, ReadKinds)
      PROVE  \E w \in OfKind(g, WriteKinds) : Sources(g.rf, e) = {w} /\ Loc(g, w) = Loc(g, e)
  <2>1. e \in E /\ IsRead(g, e) BY <1>1, <1>7 DEF OfKind, IsRead
  <2>2. PICK w \in E : ReadsFrom(g, w, e) BY <1>4, <2>1 DEF CompleteOn
  <2>3. IsWrite(g, w) /\ Loc(g, w) = Loc(g, e) /\ \A v : <<v, e>> \in R <=> v = w BY <1>2, <2>2 DEF ReadsFrom
  <2>4. \A a : a \in Sources(R, e) <=> <<a, e>> \in R BY <1>6, TargetsIs
  <2>5. Sources(R, e) = {w} BY <2>3, <2>4
  <2>6. w \in OfKind(g, WriteKinds) BY <1>1, <2>3 DEF OfKind, IsWrite
  <2> QED BY <1>2, <2>3, <2>5, <2>6
<1>8. \A p \in g.rf : Kind(g, p[2]) \in ReadKinds BY RfIntoRead DEF IsRead
<1>9. ASSUME NEW l \in Locations
      PROVE  /\ ToSet(g.mo[l]) = {e \in OfKind(g, WriteKinds) : Loc(g, e) = l}
             /\ Cardinality(ToSet(g.mo[l])) = Len(g.mo[l])
  <2>1. MoComplete(g) BY GoodMo
  <2>2. g.mo[l] \in Seq(E) /\ Distinct(g.mo[l]) BY <1>1, <1>3 DEF MoTyped
  <2>3. Cardinality(ToSet(g.mo[l])) = Len(g.mo[l]) BY <2>2, DistinctLength
  <2> QED BY <2>1, <2>3 DEF MoComplete
<1>10. Events(g) = UNION {ToSet(g.po[t]) : t \in Threads}
  <2>1. ASSUME NEW t \in Threads PROVE ToSet(g.po[t]) \subseteq E
    <3>1. g.po[t] \in Seq(E) BY <1>1, <1>3 DEF PoTyped
    <3> QED BY <3>1 DEF ToSet
  <2>2. ASSUME NEW e \in E PROVE e[1] \in Threads /\ e \in ToSet(g.po[e[1]])
    <3>1. e = <<e[1], e[2]>> /\ e[1] \in Threads /\ e[2] \in 1..Len(g.po[e[1]]) BY <1>1, <1>3 DEF PoTyped
    <3>2. g.po[e[1]][e[2]] = e /\ g.po[e[1]] \in Seq(E) BY <1>1, <1>3, <3>1 DEF PoTyped
    <3> QED BY <3>1, <3>2 DEF ToSet
  <2> QED BY <1>1, <2>1, <2>2
<1> QED BY <1>5, <1>7, <1>8, <1>9, <1>10 DEF EdgesComplete

\* In a good graph no two rmw-like events read one write.
LEMMA RmwExclusiveIs == ASSUME GoodGraph(g) PROVE RmwExclusive
<1>1. PICK E : E = Events(g) OBVIOUS
<1>2. PICK R : R = g.rf OBVIOUS
<1>3. EdgesTyped(g) BY DEF GoodGraph, IsGraph
<1>4. ExclusiveOn(g, E) BY <1>1 DEF GoodGraph, GoodOn
<1>5. R \subseteq E \X E BY <1>1, <1>2, <1>3 DEF EdgesTyped
<1>6. ASSUME NEW p \in R, Kind(g, p[2]) \in RmwKinds
      PROVE  p \in MoBefore(g) /\ Targets(R, p[1]) \cap OfKind(g, RmwKinds) = {p[2]}
  <2>1. PICK v : v = p[1] OBVIOUS
  <2>2. PICK e : e = p[2] OBVIOUS
  <2>3. p = <<v, e>> /\ e \in E /\ IsRmw(g, e) BY <1>5, <1>6, <2>1, <2>2 DEF IsRmw
  <2>4. <<v, e>> \in MoBefore(g) /\ \A r \in E : <<v, r>> \in g.rf /\ IsRmw(g, r) => r = e
    BY <1>2, <1>4, <1>6, <2>3 DEF ExclusiveOn
  <2>5. \A b : b \in Targets(R, v) <=> <<v, b>> \in R BY <1>5, TargetsIs
  <2>6. \A r : r \in OfKind(g, RmwKinds) <=> r \in E /\ IsRmw(g, r) BY <1>1 DEF OfKind, IsRmw
  <2>7. Targets(R, v) \cap OfKind(g, RmwKinds) = {e} BY <1>2, <1>6, <2>3, <2>4, <2>5, <2>6
  <2> QED BY <2>1, <2>2, <2>3, <2>4, <2>7
<1> QED BY <1>2, <1>6 DEF RmwExclusive

\* In a good graph every sw edge has its reason.
LEMMA SwJustifiedIs == ASSUME GoodGraph(g) PROVE SwJustified
<1>1. PICK E : E = Events(g) OBVIOUS
<1>2. EdgesTyped(g) /\ JustifiedOn(g, E) BY <1>1 DEF GoodGraph, IsGraph, GoodOn
<1>3. ASSUME NEW p \in g.sw
      PROVE  \E q \in g.rf :
               /\ Mode(g, p[1]) \in ReleaseModes
               /\ p[1] = q[1] \/ (Kind(g, p[1]) = "FENCE" /\ <<p[1], q[1]>> \in Plus(PoEdges(g), Events(g)))
               /\ p[2] = q[2] \/ (Kind(g, p[2]) = "FENCE" /\ <<q[2], p[2]>> \in Plus(PoEdges(g), Events(g)))
  <2>1. p = <<p[1], p[2]>> /\ p[2] \in E BY <1>1, <1>2, <1>3 DEF EdgesTyped
  <2>2. \E v, r \in E : Justifies(g, v, r, p[1], p[2]) BY <1>2, <1>3, <2>1 DEF JustifiedOn
  <2>3. PICK v \in E : \E r \in E : Justifies(g, v, r, p[1], p[2]) BY <2>2
  <2>4. PICK r \in E : Justifies(g, v, r, p[1], p[2]) BY <2>3
  <2>5. PICK q : q = <<v, r>> OBVIOUS
  <2>6. q[1] = v /\ q[2] = r BY <2>5
  <2>7. q \in g.rf BY <2>4, <2>5 DEF Justifies
  <2> QED BY <2>4, <2>6, <2>7 DEF Justifies, IsFence, PoPlus
<1> QED BY <1>3 DEF SwJustified

\* A good graph is well formed.
LEMMA WellFormedIs == ASSUME GoodGraph(g) PROVE WellFormed
BY CompleteIs, RmwExclusiveIs, SwJustifiedIs DEF WellFormed

\* A good graph has no causal cycle.
LEMMA NoThinAirIs == ASSUME GoodGraph(g) PROVE NoThinAir
BY DEF GoodGraph, GoodOn, AcyclicOn, NoThinAir

\* No edge that mutate_skeleton_graph leaves dangles, lost its reason or makes two rmw-like
\* events read one write, after any sequence of additions, rf mutations and CAS flips.
THEOREM WellFormedAlways == Spec => []WellFormed
<1>1. GraphSound => WellFormed BY WellFormedIs DEF GraphSound
<1> QED BY <1>1, GraphSoundAlways, PTL

\* No mutated graph has a causal cycle, and it is coherent unless flip_cas_outcome kept later
\* events or collect_enabled_events gave a read too few parents.
THEOREM CoherentAlways == Spec => []Coherent
<1>1. GraphSound => Coherent BY NoThinAirIs DEF GraphSound, Coherent
<1> QED BY <1>1, GraphSoundAlways, PTL

\* race_pair_store_update_incremental keeps the stored pairs those that check_data_race finds,
\* until mutate_rf_edge rewires a chain of RMWs.
THEOREM StoredRacesAlwaysExact == Spec => []RacesExact
<1>1. GraphSound => RacesExact BY DEF GraphSound
<1> QED BY <1>1, GraphSoundAlways, PTL

-----------------------------------------------------------------------------
(* The potential.                                                          *)

\* Only locations are read, or listed.
LEMMA FutureLocations ==
  ASSUME camp \in Campaigns, NEW e, e[1] \in Threads
  PROVE  FutureReadLocations(e) \subseteq Locations
<1>1. camp.code \in [Threads -> Seq(Instructions)] /\ IsFiniteSet(Threads) BY CampaignAssumption
<1>2. PICK n : n = [t \in Threads |-> Len(camp.code[t])] OBVIOUS
<1>3. n \in [Threads -> Nat] /\ \A t \in Threads : DOMAIN camp.code[t] = 1..n[t] BY <1>1, <1>2
<1>4. PICK S : S = StaticEvents OBVIOUS
<1>5. S = UNION {{<<t, i>> : i \in 1..n[t]} : t \in Threads} BY <1>3, <1>4 DEF StaticEvents
<1>6. IsFiniteSet(S) BY <1>1, <1>3, <1>5, PairsFinite
<1>7. ASSUME NEW f \in S, Code(f).type \in {"READ", "RMW"} PROVE Code(f).loc \in Locations
  <2>1. PICK t \in Threads : f \in {<<t, i>> : i \in 1..n[t]} BY <1>5, <1>7
  <2>2. PICK i \in 1..n[t] : f = <<t, i>> BY <2>1
  <2>3. f[1] = t /\ f[2] = i /\ n[t] = Len(camp.code[t]) BY <1>2, <2>2
  <2>4. CodeFacts(f) BY <2>2, <2>3, CodeIs
  <2>5. Code(f) \in Instructions /\ Code(f).loc # NoLocation BY <1>7, <2>4 DEF CodeFacts
  <2> QED BY <2>5 DEF Instructions
<1>8. PICK R : R = {p \in S \X S : p[1] \in Preds(p[2])} OBVIOUS
<1>9. R \subseteq S \X S BY <1>8
<1>10. Targets(R, e) \subseteq S BY <1>9, TargetsIs
<1>11. PICK T : T = Targets(R, e) OBVIOUS
<1>12. Reach(R, T, Cardinality(S)) \subseteq S BY <1>6, <1>9, <1>10, <1>11, ReachIs
<1>13. StaticReadLocations(e)
         = {Code(f).loc : f \in {d \in Reach(R, T, Cardinality(S)) : Code(d).type \in {"READ", "RMW"}}}
  BY <1>4, <1>8, <1>11 DEF StaticReadLocations
<1>14. StaticReadLocations(e) \subseteq Locations BY <1>7, <1>12, <1>13
<1>15. camp.listed[e[1]] \subseteq Locations
  <2>1. camp.listed \in [Threads -> SUBSET Locations] BY CampaignAssumption
  <2> QED BY <2>1
<1> QED BY <1>14, <1>15 DEF FutureReadLocations

\* What the search finds after one event more: the new write as well, and nothing else.
FindsMore(h, k, e, r, q, l) ==
  FindConsistentWrites(k, q, l, FALSE)
    = FindConsistentWrites(h, q, l, FALSE) \cup (IF r.type \in WriteKinds /\ r.loc = l THEN {e} ELSE {})

\* After an addition the search from an old event finds what it found, and the new event's writes.
LEMMA SearchGrown ==
  ASSUME NEW h, NEW k, NEW e, NEW r, NEW T, NEW w, GoodGraph(h), IsGraph(k), Grew(h, k, e, r, T, w),
         Agrees(h, k, Events(h)), NEW q \in Events(h), NEW l \in Locations
  PROVE  FindsMore(h, k, e, r, q, l)
<1>1. Shaped(h) /\ Shaped(k) /\ MoTyped(h) /\ MoTyped(k) BY DEF GoodGraph, IsGraph, Shaped
<1>2. PICK V : V = Visited(h, q, l) OBVIOUS
<1>3. V = Visited(k, q, l) /\ V \subseteq Events(h)
  <2>1. PICK K : K = Events(h) OBVIOUS
  <2>2. Visited(h, q, l) = Visited(k, q, l) /\ Visited(h, q, l) \subseteq K BY <1>1, <2>1, AgreesVisited
  <2> QED BY <1>2, <2>1, <2>2
<1>4. \A v \in V : Kind(k, v) = Kind(h, v) /\ v # e BY <1>3 DEF Grew, Kind
<1>5. \A u : u \in FindConsistentWrites(h, q, l, FALSE) <=>
        /\ u \in ToSet(h.mo[l])
        /\ \A v \in V : Kind(h, v) \in WriteKinds => <<u, v>> \notin MoBefore(h)
        /\ FALSE => ~Consumed(h, u)
  BY <1>1, <1>2, SearchIs DEF Shaped
<1>6. \A u : u \in FindConsistentWrites(k, q, l, FALSE) <=>
        /\ u \in ToSet(k.mo[l])
        /\ \A v \in V : Kind(k, v) \in WriteKinds => <<u, v>> \notin MoBefore(k)
        /\ FALSE => ~Consumed(k, u)
  BY <1>1, <1>3, SearchIs DEF Shaped
<1>7. GrewMo(h, k, e, r) /\ e \notin Events(h) BY DEF Grew
<1>8. e \notin ToSet(h.mo[l])
  <2>1. ToSet(h.mo[l]) \subseteq Events(h) BY <1>1, MoIs
  <2> QED BY <1>7, <2>1
<1>9. \A u : u # e => (u \in FindConsistentWrites(k, q, l, FALSE) <=> u \in FindConsistentWrites(h, q, l, FALSE))
  <2>1. ASSUME NEW u, u # e PROVE u \in FindConsistentWrites(k, q, l, FALSE) <=> u \in FindConsistentWrites(h, q, l, FALSE)
    <3>1. u \in ToSet(k.mo[l]) <=> u \in ToSet(h.mo[l]) BY <1>7, <2>1 DEF GrewMo
    <3>2. \A v \in V : <<u, v>> \in MoBefore(k) <=> <<u, v>> \in MoBefore(h) BY <1>4, <1>7, <2>1 DEF GrewMo
    <3> QED BY <1>4, <1>5, <1>6, <3>1, <3>2
  <2> QED BY <2>1
<1>10. e \in FindConsistentWrites(k, q, l, FALSE) <=> r.type \in WriteKinds /\ r.loc = l
  <2>1. e \in ToSet(k.mo[l]) <=> r.type \in WriteKinds /\ l = r.loc BY <1>7 DEF GrewMo
  <2>2. \A v : <<e, v>> \notin MoBefore(k) BY <1>7 DEF GrewMo
  <2> QED BY <1>6, <2>1, <2>2
<1>11. e \notin FindConsistentWrites(h, q, l, FALSE) BY <1>5, <1>8
<1> QED BY <1>9, <1>10, <1>11 DEF FindsMore

\* The potential extended for an added event is the potential of the larger graph.
LEMMA PotentialAdd ==
  ASSUME camp \in Campaigns, GoodGraph(g), NEW k, NEW e, NEW r, NEW T, NEW w, NewEvent(g, e, r, T), IsGraph(k),
         Grew(g, k, e, r, T, w), Agrees(g, k, Events(g))
  PROVE  UpdatePotential(CalculatePotential(g), k, "ADD", e) = CalculatePotential(k)
<1>1. e[1] \in Threads BY DEF NewEvent
<1>2. Kind(k, e) = r.type /\ Loc(k, e) = r.loc BY DEF Grew, Kind, Loc
<1>3. \A t \in Threads : t # e[1] => k.po[t] = g.po[t]
  <2>1. k.po = [g.po EXCEPT ![e[1]] = Append(@, e)] BY DEF Grew, GrewPo
  <2>2. g.po \in [Threads -> Seq(Events(g))] BY DEF GoodGraph, IsGraph, PoTyped
  <2> QED BY <2>1, <2>2
<1>4. PICK P : P = CalculatePotential(g) OBVIOUS
<1>5. DOMAIN P = Threads /\ \A t \in Threads : P[t] = CalculateThreadPotential(g, t) BY <1>4 DEF CalculatePotential
<1>6. PICK Q : Q = (IF Kind(k, e) \in WriteKinds THEN AddWriteToOthers(P, k, e) ELSE P) OBVIOUS
<1>7. UpdatePotential(P, k, "ADD", e) = [Q EXCEPT ![e[1]] = CalculateThreadPotential(k, e[1])]
  BY <1>6 DEF UpdatePotential
<1>8. DOMAIN Q = Threads /\ Q = [t \in Threads |-> Q[t]]
  <2>1. P = [t \in Threads |-> P[t]] BY <1>4 DEF CalculatePotential
  <2> QED BY <1>5, <1>6, <2>1 DEF AddWriteToOthers
<1>81. \A q \in Events(g) : \A l \in Locations :
         FindsMore(g, k, e, r, q, l)
  BY SearchGrown
<1>9. ASSUME NEW t \in Threads, t # e[1] PROVE Q[t] = CalculateThreadPotential(k, t)
  <2>1. k.po[t] = g.po[t] BY <1>3, <1>9
  <2>2. CASE g.po[t] = <<>>
    <3>1. CalculateThreadPotential(k, t) = <<>> /\ P[t] = <<>> BY <1>5, <2>1, <2>2 DEF CalculateThreadPotential
    <3>2. Q[t] = P[t] BY <1>6, <2>1, <2>2 DEF AddWriteToOthers
    <3> QED BY <3>1, <3>2
  <2>3. CASE g.po[t] # <<>>
    <3>1. PICK q : q = Last(g.po[t]) OBVIOUS
    <3>2. q \in Events(g)
      <4>1. g.po[t] \in Seq(Events(g)) BY DEF GoodGraph, IsGraph, PoTyped
      <4> QED BY <2>3, <3>1, <4>1 DEF Last
    <3>3. PICK L : L = FutureReadLocations(q) OBVIOUS
    <3>4. L \subseteq Locations
      <4>1. q[1] \in Threads BY <3>2 DEF GoodGraph, IsGraph, PoTyped
      <4> QED BY <3>3, <4>1, FutureLocations
    <3>5. PICK A : A = [l \in L |-> FindConsistentWrites(g, q, l, FALSE)] OBVIOUS
    <3>6. PICK B : B = [l \in L |-> FindConsistentWrites(k, q, l, FALSE)] OBVIOUS
    <3>7. P[t] = A BY <1>5, <2>3, <3>1, <3>3, <3>5 DEF CalculateThreadPotential
    <3>8. CalculateThreadPotential(k, t) = B BY <2>1, <2>3, <3>1, <3>3, <3>6 DEF CalculateThreadPotential
    <3>9. \A l \in L : B[l] = A[l] \cup (IF r.type \in WriteKinds /\ r.loc = l THEN {e} ELSE {})
      <4>1. ASSUME NEW l \in L PROVE B[l] = A[l] \cup (IF r.type \in WriteKinds /\ r.loc = l THEN {e} ELSE {})
        <5>1. l \in Locations BY <3>4
        <5>2. FindConsistentWrites(k, q, l, FALSE)
                = FindConsistentWrites(g, q, l, FALSE) \cup (IF r.type \in WriteKinds /\ r.loc = l THEN {e} ELSE {})
          BY <1>81, <3>2, <5>1 DEF FindsMore
        <5>3. A[l] = FindConsistentWrites(g, q, l, FALSE) BY <3>5
        <5>4. B[l] = FindConsistentWrites(k, q, l, FALSE) BY <3>6
        <5> QED BY <5>2, <5>3, <5>4
      <4> QED BY <4>1
    <3>10. DOMAIN A = L /\ DOMAIN B = L /\ A = [l \in L |-> A[l]] /\ B = [l \in L |-> B[l]] BY <3>5, <3>6
    <3>11. CASE r.type \in WriteKinds /\ r.loc \in L
      <4>1. Q[t] = [A EXCEPT ![r.loc] = @ \cup {e}] BY <1>2, <1>6, <1>9, <2>1, <2>3, <3>7, <3>10, <3>11 DEF AddWriteToOthers
      <4>2. [A EXCEPT ![r.loc] = @ \cup {e}] = B
        <5>1. PICK C : C = [A EXCEPT ![r.loc] = @ \cup {e}] OBVIOUS
        <5>2. C = [l \in L |-> C[l]] BY <3>10, <5>1
        <5>3. C[r.loc] = A[r.loc] \cup {e} /\ \A l \in L : l # r.loc => C[l] = A[l] BY <3>10, <3>11, <5>1
        <5>4. B[r.loc] = A[r.loc] \cup {e} BY <3>9, <3>11
        <5>5. \A l \in L : l # r.loc => B[l] = A[l] BY <3>9
        <5>6. \A l \in L : C[l] = B[l] BY <5>3, <5>4, <5>5
        <5> QED BY <3>10, <5>1, <5>2, <5>6
      <4> QED BY <3>8, <4>1, <4>2
    <3>12. CASE ~(r.type \in WriteKinds /\ r.loc \in L)
      <4>1. Q[t] = A BY <1>2, <1>6, <1>9, <3>7, <3>10, <3>12 DEF AddWriteToOthers
      <4>2. A = B
        <5>1. \A l \in L : ~(r.type \in WriteKinds /\ r.loc = l) BY <3>12
        <5>2. \A l \in L : A[l] = B[l] BY <3>9, <5>1
        <5> QED BY <3>10, <5>2
      <4> QED BY <3>8, <4>1, <4>2
    <3> QED BY <3>11, <3>12
  <2> QED BY <2>2, <2>3
<1>10. [Q EXCEPT ![e[1]] = CalculateThreadPotential(k, e[1])] = [t \in Threads |-> CalculateThreadPotential(k, t)]
  BY <1>1, <1>8, <1>9
<1> QED BY <1>4, <1>7, <1>10 DEF CalculatePotential

\* The potential of the next state's graph.
LEMMA PotentialPrimed == ASSUME camp' = camp, NEW k, g' = k PROVE CalculatePotential(g)' = CalculatePotential(k)
<1>1. \A x : Code(x)' = Code(x) BY DEF Code
<1>2. \A x : Preds(x)' = Preds(x) BY <1>1 DEF Preds
<1>3. StaticEvents' = StaticEvents BY DEF StaticEvents
<1>4. \A x : FutureReadLocations(x)' = FutureReadLocations(x)
  <2>1. ASSUME NEW x PROVE StaticReadLocations(x)' = StaticReadLocations(x) BY <1>1, <1>2, <1>3 DEF StaticReadLocations
  <2> QED BY <2>1 DEF FutureReadLocations
<1> QED BY <1>4 DEF CalculatePotential, CalculateThreadPotential

\* Store keeps the potential exact when the update does.
LEMMA StorePotential ==
  ASSUME PotentialExact, NEW k, NEW kind, NEW e, NEW mark, Store(k, kind, e, mark),
         UpdatePotential(CalculatePotential(g), k, kind, e) = CalculatePotential(k)
  PROVE  PotentialExact'
<1>1. PICK chained \in BOOLEAN :
        /\ g' = k
        /\ pot' = IF ~camp.guided THEN NoPotential
                  ELSE IF chained THEN CalculatePotential(k) ELSE UpdatePotential(pot, k, kind, e)
        /\ camp' = camp
  BY DEF Store
<1>2. CalculatePotential(g)' = CalculatePotential(k) BY <1>1, PotentialPrimed
<1>3. ASSUME camp.guided PROVE pot' = CalculatePotential(k)
  <2>1. pot = CalculatePotential(g) BY <1>3 DEF PotentialExact
  <2> QED BY <1>1, <1>3, <2>1
<1>4. PotentialExact' <=> (camp'.guided => pot' = CalculatePotential(g)') BY DEF PotentialExact
<1> QED BY <1>1, <1>2, <1>3, <1>4

\* After a mutation the potential is calculated from scratch.
LEMMA MutatePotential == \A p, k, e : UpdatePotential(p, k, "MUTATE", e) = CalculatePotential(k)
BY DEF UpdatePotential

\* PotentialExact is inductive with GraphSound.
LEMMA PotentialStep == GraphSound /\ PotentialExact /\ [Next]_vars => PotentialExact'
<1> SUFFICES ASSUME GraphSound, PotentialExact, [Next]_vars PROVE PotentialExact' OBVIOUS
<1>1. camp \in Campaigns /\ GoodGraph(g) BY DEF GraphSound
<1>2. CASE AddNode
  <2>1. PICK c \in Candidates : \E type \in Outcomes(c) :
          \E w \in (IF type \in ReadKinds THEN ReadableBy(c, type \in RmwKinds) ELSE {None}) :
            /\ type \in ReadKinds => ~Drifted(g, pot, c.parents, Code(c.id).loc, type \in RmwKinds)
            /\ Store(Grown(c, type, w), "ADD", c.id, IF type \in ReadKinds THEN Unseen(c) ELSE {})
    BY <1>2 DEF AddNode
  <2>2. PICK type \in Outcomes(c) :
          \E w \in (IF type \in ReadKinds THEN ReadableBy(c, type \in RmwKinds) ELSE {None}) :
            /\ type \in ReadKinds => ~Drifted(g, pot, c.parents, Code(c.id).loc, type \in RmwKinds)
            /\ Store(Grown(c, type, w), "ADD", c.id, IF type \in ReadKinds THEN Unseen(c) ELSE {})
    BY <2>1
  <2>3. PICK w \in (IF type \in ReadKinds THEN ReadableBy(c, type \in RmwKinds) ELSE {None}) :
            /\ type \in ReadKinds => ~Drifted(g, pot, c.parents, Code(c.id).loc, type \in RmwKinds)
            /\ Store(Grown(c, type, w), "ADD", c.id, IF type \in ReadKinds THEN Unseen(c) ELSE {})
    BY <2>2
  <2>4. PICK k : k = Grown(c, type, w) OBVIOUS
  <2>5. PICK r : r = NewRecord(c, type) OBVIOUS
  <2>6. GrownSound(g, k, c, r) /\ Grew(g, k, c.id, r, NewTcj(c), w) BY <1>1, <2>3, <2>4, <2>5, AddNodeIs
  <2>7. GoodGraph(k) /\ Agrees(g, k, Events(g)) BY <2>6 DEF GrownSound, GrewSound
  <2>8. NewEvent(g, c.id, r, NewTcj(c))
    <3>1. CandidateIn(c) BY <1>1, CandidateIs DEF GoodGraph
    <3>2. OutcomeIn(c, type) BY <1>1, <3>1, OutcomeIs
    <3> QED BY <1>1, <2>5, <3>1, <3>2, NewEventIs DEF GoodGraph
  <2>9. IsGraph(k) BY <2>7 DEF GoodGraph
  <2>10. UpdatePotential(CalculatePotential(g), k, "ADD", c.id) = CalculatePotential(k)
    BY <1>1, <2>6, <2>7, <2>8, <2>9, PotentialAdd
  <2>11. PICK mark : Store(k, "ADD", c.id, mark) BY <2>3, <2>4
  <2> QED BY <2>10, <2>11, StorePotential
<1>3. CASE AddNodeAborts \/ MutateRfAborts
  <2>1. camp' = camp /\ g' = g /\ pot' = pot BY <1>3 DEF AddNodeAborts, MutateRfAborts, Abort
  <2>2. CalculatePotential(g)' = CalculatePotential(g) BY <2>1, PotentialPrimed
  <2> QED BY <2>1, <2>2 DEF PotentialExact
<1>4. CASE MutateRf \/ MutateRfChain \/ FlipCas
  <2>1. \E k, e, mark : Store(k, "MUTATE", e, mark) BY <1>4 DEF MutateRf, MutateRfChain, FlipCas
  <2>2. PICK k, e, mark : Store(k, "MUTATE", e, mark) BY <2>1
  <2>3. UpdatePotential(CalculatePotential(g), k, "MUTATE", e) = CalculatePotential(k) BY MutatePotential
  <2> QED BY <2>2, <2>3, StorePotential
<1>5. CASE UNCHANGED vars
  <2>1. camp' = camp /\ g' = g /\ pot' = pot BY <1>5 DEF vars
  <2>2. CalculatePotential(g)' = CalculatePotential(g) BY <2>1, PotentialPrimed
  <2> QED BY <2>1, <2>2 DEF PotentialExact
<1> QED BY <1>2, <1>3, <1>4, <1>5 DEF Next

\* The potential that SkeletonPotential keeps from graph to graph is what a search at the
\* last event of every thread finds.
THEOREM PotentialExactAlways == Spec => []PotentialExact
<1>1. Init => GraphSound /\ PotentialExact
  <2>1. Init => PotentialExact BY DEF Init, PotentialExact
  <2> QED BY <2>1, GraphSoundInit
<1>2. GraphSound /\ PotentialExact /\ [Next]_vars => (GraphSound /\ PotentialExact)'
  BY GraphSoundStep, PotentialStep
<1>3. (GraphSound /\ PotentialExact) => PotentialExact OBVIOUS
<1> QED BY <1>1, <1>2, <1>3, PTL DEF Spec

-----------------------------------------------------------------------------
(* The search for consistent writes misses none.                           *)

HbTo(h, a, b) == a = b \/ <<a, b>> \in HappensBefore(h)
MoTo(h, a, b) == a = b \/ <<a, b>> \in MoBefore(h)

\* Happens-before is transitive and contains its edges.
LEMMA HbTransitive ==
  ASSUME NEW h, Shaped(h)
  PROVE  /\ HappensBefore(h) \subseteq Events(h) \X Events(h)
         /\ \A a, b, c : <<a, b>> \in HappensBefore(h) /\ <<b, c>> \in HappensBefore(h) => <<a, c>> \in HappensBefore(h)
         /\ \A a, b : <<a, b>> \in HbEdges(h) => <<a, b>> \in HappensBefore(h)
<1>1. PICK E : E = Events(h) OBVIOUS
<1>2. PICK R : R = HbEdges(h) OBVIOUS
<1>3. R \subseteq E \X E /\ HappensBefore(h) = Plus(R, E) BY <1>1, <1>2, HbIn DEF Shaped
<1>4. IsFiniteSet(E) BY <1>1 DEF Shaped, EventsTyped
<1>5. Plus(R, E) \subseteq E \X E BY <1>3, <1>4, PlusIn
<1>6. \A a, b, c : <<a, b>> \in Plus(R, E) /\ <<b, c>> \in Plus(R, E) => <<a, c>> \in Plus(R, E)
  BY <1>3, <1>4, PlusTransitive
<1>7. R \subseteq Plus(R, E) BY <1>3, <1>4, PlusStep
<1> QED BY <1>1, <1>2, <1>3, <1>5, <1>6, <1>7

\* A write of location l that comes, in mo, no later than one that a read of l before q
\* reads; and what happens before such a write.
SeenWrite(h, q, l, y) ==
  \E r, u : /\ HbTo(h, r, q) /\ IsRead(h, r) /\ Loc(h, r) = l /\ <<u, r>> \in h.rf
            /\ y \in ToSet(h.mo[l]) /\ MoTo(h, y, u)
Behind(h, q, l, x) == HbTo(h, x, q) \/ \E y : SeenWrite(h, q, l, y) /\ HbTo(h, x, y)

\* In a coherent graph a write that happens before another does not come after it.
LEMMA CoherentWrites ==
  ASSUME NEW h, Shaped(h), MoTyped(h), CoherentOn(h, Events(h)), NEW l \in Locations,
         NEW a \in ToSet(h.mo[l]), NEW b \in ToSet(h.mo[l]), HbTo(h, a, b)
  PROVE  MoTo(h, a, b)
<1>1. CASE a = b BY <1>1 DEF MoTo
<1>2. CASE a # b /\ <<a, b>> \in HappensBefore(h)
  <2>1. b \in Events(h) BY MoIs
  <2>2. ~Eco(h, b, a) BY <1>2, <2>1 DEF CoherentOn
  <2>3. <<b, a>> \notin MoBefore(h) BY <2>2 DEF Eco, OverMo
  <2>4. <<a, b>> \in MoBefore(h) \/ <<b, a>> \in MoBefore(h) BY <1>2, MoStrict
  <2> QED BY <2>3, <2>4 DEF MoTo
<1> QED BY <1>1, <1>2 DEF HbTo

\* What a read that comes before a write reads does not come after it.
LEMMA CoherentRead ==
  ASSUME NEW h, GoodGraph(h), CoherentOn(h, Events(h)), NEW l \in Locations, NEW a, NEW b, <<a, b>> \in h.rf,
         Loc(h, b) = l, NEW y \in ToSet(h.mo[l]), HbTo(h, b, y)
  PROVE  a \in ToSet(h.mo[l]) /\ MoTo(h, a, y)
<1>1. Shaped(h) /\ MoTyped(h) BY DEF GoodGraph, IsGraph, Shaped
<1>2. a \in Events(h) /\ b \in Events(h) /\ IsRead(h, b) BY RfIntoRead
<1>3. IsWrite(h, a) /\ Loc(h, a) = l
  <2>1. PICK w \in Events(h) : ReadsFrom(h, w, b) BY <1>2 DEF GoodGraph, GoodOn, CompleteOn
  <2> QED BY <2>1 DEF ReadsFrom
<1>4. a \in ToSet(h.mo[l]) BY <1>2, <1>3 DEF GoodGraph, GoodOn, CompleteOn
<1>5. y \in Events(h) BY <1>1, MoIs
<1>6. CASE b = y
  <2>1. IsWrite(h, y) BY <1>5 DEF GoodGraph, GoodOn, CompleteOn
  <2>2. IsRmw(h, b) BY <1>2, <1>6, <2>1 DEF IsRead, IsWrite, IsRmw, ReadKinds, WriteKinds, RmwKinds
  <2>3. <<a, b>> \in MoBefore(h) BY <1>2, <2>2 DEF GoodGraph, GoodOn, ExclusiveOn
  <2> QED BY <1>4, <1>6, <2>3 DEF MoTo
<1>7. CASE <<b, y>> \in HappensBefore(h)
  <2>1. ~Eco(h, y, b) BY <1>5, <1>7 DEF CoherentOn
  <2>2. <<y, a>> \notin MoBefore(h) BY <2>1 DEF Eco, OverMo
  <2>3. a = y \/ <<a, y>> \in MoBefore(h) \/ <<y, a>> \in MoBefore(h) BY <1>1, <1>4, MoStrict
  <2> QED BY <1>4, <2>2, <2>3 DEF MoTo
<1> QED BY <1>6, <1>7 DEF HbTo

\* What the search visits happens before its start or before a write seen from there.
LEMMA VisitedBehind ==
  ASSUME NEW h, GoodGraph(h), CoherentOn(h, Events(h)), NEW l \in Locations, NEW q \in Events(h),
         NEW v \in Visited(h, q, l)
  PROVE  Behind(h, q, l, v)
<1>1. Shaped(h) /\ MoTyped(h) BY DEF GoodGraph, IsGraph, Shaped
<1>2. PICK C : C = {x \in Events(h) : Behind(h, q, l, x)} OBVIOUS
<1>3. q \in C BY <1>2 DEF Behind, HbTo
<1>4. HappensBefore(h) \subseteq Events(h) \X Events(h) BY <1>1, HbTransitive
<1>5. \A a, b, c : <<a, b>> \in HappensBefore(h) /\ <<b, c>> \in HappensBefore(h) => <<a, c>> \in HappensBefore(h)
  BY <1>1, HbTransitive
<1>6. \A a, b : <<a, b>> \in HbEdges(h) => <<a, b>> \in HappensBefore(h) BY <1>1, HbTransitive
<1>7. ASSUME NEW p \in SearchEdges(h, l), p[2] \in C PROVE p[1] \in C
  <2>1. HbEdges(h) \subseteq Events(h) \X Events(h) /\ h.rf \subseteq Events(h) \X Events(h)
    BY <1>1, HbIn DEF Shaped, EdgesTyped
  <2>2. p \in HbEdges(h) \/ (p \in h.rf /\ Loc(h, p[2]) = l /\ Kind(h, p[2]) \in ReadKinds)
    BY <1>7 DEF SearchEdges
  <2>3. PICK a : a = p[1] OBVIOUS
  <2>4. PICK b : b = p[2] OBVIOUS
  <2>5. p = <<a, b>> /\ a \in Events(h) /\ b \in Events(h) BY <2>1, <2>2, <2>3, <2>4
  <2>6. Behind(h, q, l, b) BY <1>2, <1>7, <2>4
  <2>7. CASE <<a, b>> \in HbEdges(h)
    <3>1. <<a, b>> \in HappensBefore(h) BY <1>6, <2>7
    <3>2. \A y : HbTo(h, b, y) => HbTo(h, a, y) BY <1>5, <3>1 DEF HbTo
    <3>3. Behind(h, q, l, a) BY <2>6, <3>2 DEF Behind
    <3> QED BY <1>2, <2>3, <2>5, <3>3
  <2>8. CASE <<a, b>> \in h.rf /\ Loc(h, b) = l /\ Kind(h, b) \in ReadKinds
    <3>1. CASE HbTo(h, b, q)
      <4>1. a \in ToSet(h.mo[l])
        <5>1. PICK w \in Events(h) : ReadsFrom(h, w, b) BY <2>5, <2>8 DEF GoodGraph, GoodOn, CompleteOn, IsRead
        <5>2. a = w /\ IsWrite(h, a) /\ Loc(h, a) = l BY <2>8, <5>1 DEF ReadsFrom
        <5> QED BY <2>5, <5>2 DEF GoodGraph, GoodOn, CompleteOn
      <4>2. SeenWrite(h, q, l, a) BY <2>8, <3>1, <4>1 DEF SeenWrite, MoTo, IsRead
      <4>3. Behind(h, q, l, a) BY <4>2 DEF Behind, HbTo
      <4> QED BY <1>2, <2>3, <2>5, <4>3
    <3>2. CASE \E y : SeenWrite(h, q, l, y) /\ HbTo(h, b, y)
      <4>1. PICK y : SeenWrite(h, q, l, y) /\ HbTo(h, b, y) BY <3>2
      <4>2. PICK r, u : /\ HbTo(h, r, q) /\ IsRead(h, r) /\ Loc(h, r) = l /\ <<u, r>> \in h.rf
                        /\ y \in ToSet(h.mo[l]) /\ MoTo(h, y, u)
        BY <4>1 DEF SeenWrite
      <4>3. a \in ToSet(h.mo[l]) /\ MoTo(h, a, y) BY <2>8, <4>1, <4>2, CoherentRead
      <4>4. \A x1, x2, x3 : <<x1, x2>> \in MoBefore(h) /\ <<x2, x3>> \in MoBefore(h) => <<x1, x3>> \in MoBefore(h)
        BY <1>1, MoStrict
      <4>5. MoTo(h, a, u) BY <4>2, <4>3, <4>4 DEF MoTo
      <4>6. SeenWrite(h, q, l, a) BY <4>2, <4>3, <4>5 DEF SeenWrite
      <4>7. Behind(h, q, l, a) BY <4>6 DEF Behind, HbTo
      <4> QED BY <1>2, <2>3, <2>5, <4>7
    <3> QED BY <2>6, <3>1, <3>2 DEF Behind
  <2> QED BY <2>2, <2>4, <2>5, <2>7, <2>8
<1>8. Visited(h, q, l) \subseteq C BY <1>1, <1>3, <1>7, VisitedIs DEF Shaped
<1> QED BY <1>2, <1>8

\* A read for which the graph stays coherent reads what the search allows.
LEMMA SearchComplete ==
  ASSUME camp \in Campaigns, GoodGraph(g), IsCoherent(g), NEW c \in Candidates, "READ" \in Outcomes(c),
         NEW w \in ToSet(g.mo[Code(c.id).loc]), IsCoherent(Grown(c, "READ", w))
  PROVE  Readable(c, w, FALSE)
<1>1. IsGraph(g) /\ Shaped(g) /\ MoTyped(g) BY DEF GoodGraph, IsGraph, Shaped
<1>2. CandidateIn(c) BY <1>1, CandidateIs
<1>3. OutcomeIn(c, "READ") BY <1>2, OutcomeIs
<1>4. PICK e : e = c.id OBVIOUS
<1>5. PICK r : r = NewRecord(c, "READ") OBVIOUS
<1>6. PICK l \in Locations : l = Code(e).loc BY <1>3, <1>4 DEF OutcomeIn
<1>7. PICK k : k = Grown(c, "READ", w) OBVIOUS
<1>8. NewEvent(g, e, r, NewTcj(c)) BY <1>1, <1>2, <1>3, <1>4, <1>5, NewEventIs
<1>9. r.type = "READ" /\ r.loc = l /\ r.type \in ReadKinds BY <1>3, <1>4, <1>5, <1>6 DEF OutcomeIn, ReadKinds
<1>10. w \in ToSet(g.mo[l]) BY <1>4, <1>6
<1>11. w \in Events(g) BY <1>1, <1>10, MoIs
<1>12. Grew(g, k, e, r, NewTcj(c), w)
  <2>1. k = Grow(g, e, r, NewTcj(c), w) BY <1>1, <1>4, <1>5, <1>7, GrownIs
  <2> QED BY <1>8, <1>9, <1>10, <2>1, GrowIs
<1>13. Agrees(g, k, Events(g)) BY <1>8, <1>11, <1>12, GrewAgrees
<1>14. IsGraph(k) /\ e \in Events(k) BY <1>12 DEF Grew
<1>15. Shaped(k) /\ MoTyped(k) BY <1>14 DEF IsGraph, Shaped
<1>16. CoherentOn(g, Events(g)) BY <1>1, CoherentIs
<1>17. CoherentOn(k, Events(k)) BY <1>7, <1>15, CoherentIs
<1>18. \A q \in c.parents : Precedes(k, q, e) /\ q \in Events(g) BY <1>2, <1>4, <1>12, ParentsPrecede DEF CandidateIn
<1>19. \A a, b : b \in Events(g) /\ <<a, b>> \in HappensBefore(g) => <<a, b>> \in HappensBefore(k)
  <2>1. PICK K : K = Events(g) OBVIOUS
  <2>2. \A a, b : b \in K => (<<a, b>> \in HappensBefore(g) <=> <<a, b>> \in HappensBefore(k))
    BY <1>1, <1>13, <1>15, <2>1, AgreesHb
  <2> QED BY <2>1, <2>2
<1>20. \A a, b : <<a, b>> \in MoBefore(g) => <<a, b>> \in MoBefore(k)
  <2>1. GrewMo(g, k, e, r) /\ e \notin Events(g) BY <1>12 DEF Grew
  <2>2. MoBefore(g) \subseteq Events(g) \X Events(g) BY <1>1, MoIs
  <2>3. ASSUME NEW a, NEW b, <<a, b>> \in MoBefore(g) PROVE <<a, b>> \in MoBefore(k)
    <3>1. a # e /\ b # e BY <2>1, <2>2, <2>3
    <3> QED BY <2>1, <2>3, <3>1 DEF GrewMo
  <2> QED BY <2>3
<1>21. ASSUME NEW q \in c.parents, NEW x, HbTo(g, x, q) PROVE ~Eco(k, e, x)
  <2>1. <<q, e>> \in HappensBefore(k)
    <3>1. <<q, e>> \in HbEdges(k) BY <1>18, <1>21 DEF Precedes, HbEdges
    <3> QED BY <1>15, <3>1, HbTransitive
  <2>2. <<x, e>> \in HappensBefore(k)
    <3>1. \A a, b, d : <<a, b>> \in HappensBefore(k) /\ <<b, d>> \in HappensBefore(k) => <<a, d>> \in HappensBefore(k)
      BY <1>15, HbTransitive
    <3>2. x = q \/ <<x, q>> \in HappensBefore(k) BY <1>18, <1>19, <1>21 DEF HbTo
    <3> QED BY <2>1, <3>1, <3>2
  <2> QED BY <1>14, <1>17, <2>2 DEF CoherentOn
<1>22. <<w, e>> \in k.rf BY <1>9, <1>12 DEF Grew
<1>23. ASSUME NEW q \in c.parents, NEW v \in Visited(g, q, l), Kind(g, v) \in WriteKinds, <<w, v>> \in MoBefore(g) PROVE FALSE
  <2>1. q \in Events(g) BY <1>18
  <2>2. Behind(g, q, l, v) BY <1>16, <1>23, <2>1, VisitedBehind
  <2>3. CASE HbTo(g, v, q)
    <3>1. ~Eco(k, e, v) BY <1>21, <2>3
    <3> QED BY <1>20, <1>22, <1>23, <3>1 DEF Eco, OverMo
  <2>4. CASE \E y : SeenWrite(g, q, l, y) /\ HbTo(g, v, y)
    <3>1. PICK y : SeenWrite(g, q, l, y) /\ HbTo(g, v, y) BY <2>4
    <3>2. PICK d, u : /\ HbTo(g, d, q) /\ IsRead(g, d) /\ Loc(g, d) = l /\ <<u, d>> \in g.rf
                      /\ y \in ToSet(g.mo[l]) /\ MoTo(g, y, u)
      BY <3>1 DEF SeenWrite
    <3>3. v \in ToSet(g.mo[l])
      <4>1. <<w, v>> \in Order(g.mo[l]) BY <1>1, <1>10, <1>23, MoStrict
      <4> QED BY <1>1, <4>1, MoIs
    <3>4. MoTo(g, v, y) BY <1>1, <1>16, <3>1, <3>2, <3>3, CoherentWrites
    <3>5. \A x1, x2, x3 : <<x1, x2>> \in MoBefore(g) /\ <<x2, x3>> \in MoBefore(g) => <<x1, x3>> \in MoBefore(g)
      BY <1>1, MoStrict
    <3>6. <<w, u>> \in MoBefore(g) BY <1>23, <3>2, <3>4, <3>5 DEF MoTo
    <3>7. ~Eco(k, e, d) BY <1>21, <3>2
    <3>8. <<u, d>> \in k.rf BY <1>12, <3>2 DEF Grew
    <3> QED BY <1>20, <1>22, <3>6, <3>7, <3>8 DEF Eco, OverMo
  <2> QED BY <2>2, <2>3, <2>4 DEF Behind
<1>24. ASSUME NEW q \in c.parents PROVE w \in FindConsistentWrites(g, q, l, FALSE)
  <2>1. \A u : u \in FindConsistentWrites(g, q, l, FALSE) <=>
          /\ u \in ToSet(g.mo[l])
          /\ \A v \in Visited(g, q, l) : Kind(g, v) \in WriteKinds => <<u, v>> \notin MoBefore(g)
          /\ FALSE => ~Consumed(g, u)
    BY <1>1, SearchIs DEF Shaped
  <2> QED BY <1>10, <1>23, <2>1
<1> QED BY <1>4, <1>6, <1>10, <1>24 DEF Readable

\* A read that takes what the search offers leaves the graph coherent.
LEMMA SearchSound ==
  ASSUME camp \in Campaigns, GoodGraph(g), IsCoherent(g), NEW c \in Candidates, "READ" \in Outcomes(c),
         Unseen(c) = {}, NEW w, Readable(c, w, FALSE)
  PROVE  IsCoherent(Grown(c, "READ", w))
<1>1. PICK k : k = Grown(c, "READ", w) OBVIOUS
<1>2. ("READ" \in RmwKinds) = FALSE BY DEF RmwKinds
<1>3. Readable(c, w, "READ" \in RmwKinds) BY <1>2
<1>4. GrownSound(g, k, c, NewRecord(c, "READ")) BY <1>1, <1>3, AddIs
<1> QED BY <1>1, <1>4 DEF GrownSound

\* In a sound graph the search offers exactly the writes that keep the graph coherent.
LEMMA SearchExact == GraphSound => ConsistentWritesExact
<1> SUFFICES ASSUME GraphSound PROVE ConsistentWritesExact OBVIOUS
<1>1. camp \in Campaigns /\ GoodGraph(g) /\ failed # "no_write" BY DEF GraphSound
<1>2. ASSUME Regular, NEW c \in Candidates, Code(c.id).type = "READ", Unseen(c) = {}
      PROVE  {w \in ToSet(g.mo[Code(c.id).loc]) : IsCoherent(Grown(c, "READ", w))}
               = GetConsistentWrites(g, NoPotential, c.parents, Code(c.id).loc, FALSE)
  <2>1. IsCoherent(g) BY <1>2 DEF GraphSound
  <2>2. "READ" \in Outcomes(c) BY <1>2 DEF Outcomes
  <2>3. CandidateIn(c) BY <1>1, CandidateIs DEF GoodGraph
  <2>4. \A q \in c.parents : q[1] \in Threads
    <3>1. PoTyped(g) /\ c.parents \subseteq Events(g) BY <1>1, <2>3 DEF GoodGraph, IsGraph, CandidateIn
    <3> QED BY <3>1 DEF PoTyped
  <2>5. \A q \in c.parents : DOMAIN NoPotential[q[1]] = {} BY <2>4 DEF NoPotential
  <2>6. \A q \in c.parents : ForSingleParent(g, NoPotential, Code(c.id).loc, FALSE, q)
                               = FindConsistentWrites(g, q, Code(c.id).loc, FALSE)
    BY <2>5 DEF ForSingleParent
  <2>7. c.parents # {} BY <2>3 DEF CandidateIn
  <2>8. GetConsistentWrites(g, NoPotential, c.parents, Code(c.id).loc, FALSE)
          = {w \in ToSet(g.mo[Code(c.id).loc]) : \A q \in c.parents : w \in FindConsistentWrites(g, q, Code(c.id).loc, FALSE)}
    BY <2>6, <2>7 DEF GetConsistentWrites
  <2>9. \A w \in ToSet(g.mo[Code(c.id).loc]) : IsCoherent(Grown(c, "READ", w)) <=> Readable(c, w, FALSE)
    BY <1>1, <1>2, <2>1, <2>2, SearchComplete, SearchSound
  <2> QED BY <2>8, <2>9 DEF Readable
<1> QED BY <1>1, <1>2 DEF ConsistentWritesExact

\* get_consistent_writes offers a candidate read a write if and only if the graph stays
\* coherent with it, and the assertions that there is one to read never fail in add_new_node,
\* for the read of mutate_rf_edge, nor for the first of the two events of its RMW chain.
THEOREM ConsistentWritesExactAlways == Spec => []ConsistentWritesExact
<1> QED BY SearchExact, GraphSoundAlways, PTL

-----------------------------------------------------------------------------
(* Kahn's algorithm takes every event if and only if no set of events has, *)
(* for each of them, an edge from inside.                                  *)

ScEdges(h) == PoEdges(h) \cup h.tcj \cup h.rf \cup MoEdges(h) \cup FrEdges(h)
Grounded(R, S) == \A T \in SUBSET S : T # {} => \E x \in T : \A y \in T : <<y, x>> \notin R
KahnStep(R, E, done) == {e \in E : Sources(R, e) \subseteq done}
KahnDef(w, R, E, n) == w = [k \in 0..n |-> IF k = 0 THEN {} ELSE KahnStep(R, E, w[k - 1])]

\* Kahn's loop removes every event if and only if every set of events has a source.
LEMMA KahnIs ==
  ASSUME NEW E, IsFiniteSet(E), NEW n, n = Cardinality(E), NEW R, R \subseteq E \X E,
         NEW w, w = CHOOSE d : KahnDef(d, R, E, n)
  PROVE  w[n] = E <=> Grounded(R, E)
<1> DEFINE N == [done \in SUBSET E |-> KahnStep(R, E, done)]
           F == [q \in (1..n) \X SUBSET E |-> KahnStep(R, E, q[2])]
<1>0. n \in Nat BY FS_CardinalityType
<1>1. \A done : KahnStep(R, E, done) \in SUBSET E BY DEF KahnStep
<1>2. N \in [SUBSET E -> SUBSET E] /\ \A done \in SUBSET E : N[done] = KahnStep(R, E, done) BY <1>1
<1>3. F \in [(1..n) \X SUBSET E -> SUBSET E] /\ \A i \in 1..n, s \in SUBSET E : F[<<i, s>>] = KahnStep(R, E, s)
  BY <1>1
<1> HIDE DEF N, F
<1>b. {} \in SUBSET E OBVIOUS
<1>4. PICK f \in [0..n -> SUBSET E] : Iterates(f, n, {}, F) BY <1>0, <1>b, <1>3, Iteration
<1>5. f[0] = {} /\ \A k \in 1..n : f[k] = KahnStep(R, E, f[k - 1])
  <2>1. f[0] = {} /\ \A k \in 1..n : f[k] = F[<<k, f[k - 1]>>] BY <1>4 DEF Iterates
  <2>2. \A k \in 1..n : f[k - 1] \in SUBSET E BY <1>0
  <2> QED BY <1>3, <2>1, <2>2
<1>6. KahnDef(f, R, E, n)
  <2>1. \A k \in 0..n : f[k] = IF k = 0 THEN {} ELSE KahnStep(R, E, f[k - 1])
    <3> SUFFICES ASSUME NEW k \in 0..n, k # 0 PROVE f[k] = KahnStep(R, E, f[k - 1]) BY <1>5
    <3>1. k \in 1..n BY <1>0
    <3> QED BY <1>5, <3>1
  <2>2. f = [k \in 0..n |-> f[k]] OBVIOUS
  <2> QED BY <2>1, <2>2 DEF KahnDef
<1>7. KahnDef(w, R, E, n) BY <1>6
<1>8. \A k \in 1..n : k - 1 \in 0..n /\ k \in 0..n /\ k # 0 BY <1>0
<1>9. w[0] = {} /\ \A k \in 1..n : w[k] = KahnStep(R, E, w[k - 1])
  <2>1. 0 \in 0..n BY <1>0
  <2> QED BY <1>7, <1>8, <2>1 DEF KahnDef
<1>10. \A k \in 0..n : w[k] \in SUBSET E
  <2> SUFFICES ASSUME NEW k \in 0..n PROVE w[k] \in SUBSET E OBVIOUS
  <2>1. CASE k = 0 BY <1>9, <2>1
  <2>2. CASE k # 0
    <3>1. k \in 1..n BY <1>0, <2>2
    <3> QED BY <1>1, <1>9, <3>1
  <2> QED BY <2>1, <2>2
<1>11. N[w[n]] = w[n]
  <2>1. w \in [0..n -> SUBSET E] BY <1>7, <1>10 DEF KahnDef
  <2>2. \A k \in 1..n : w[k] = N[w[k - 1]] BY <1>2, <1>8, <1>9, <1>10
  <2>3. \A k \in 0..n : w[k] \subseteq N[w[k]]
    <3> DEFINE L == {k \in Nat : k <= n => w[k] \subseteq N[w[k]]}
    <3>1. 0 \in L BY <1>9
    <3>2. ASSUME NEW k \in Nat, k \in L PROVE k + 1 \in L
      <4> SUFFICES ASSUME k + 1 <= n PROVE w[k + 1] \subseteq N[w[k + 1]] OBVIOUS
      <4>1. k + 1 \in 1..n /\ k + 1 \in 0..n /\ k \in 0..n /\ (k + 1) - 1 = k BY <1>0
      <4>2. w[k + 1] = N[w[k]]
        <5>1. w[k + 1] = N[w[(k + 1) - 1]] BY <2>2, <4>1
        <5> QED BY <4>1, <5>1
      <4>5. w[k] \subseteq N[w[k]]
        <5>1. k <= n BY <1>0
        <5> QED BY <3>2, <5>1
      <4>3. w[k] \subseteq w[k + 1] BY <4>2, <4>5
      <4>4. KahnStep(R, E, w[k]) \subseteq KahnStep(R, E, w[k + 1]) BY <4>3 DEF KahnStep
      <4> QED BY <1>2, <1>10, <4>1, <4>2, <4>4
    <3> HIDE DEF L
    <3>3. \A k \in Nat : k \in L BY <3>1, <3>2, SetInduction
    <3> QED BY <1>0, <3>3 DEF L
  <2>4. ChainOf(w, n, N, E) BY <1>2, <2>1, <2>2, <2>3 DEF ChainOf
  <2>5. \A m, h, M : m = Cardinality(E) /\ ChainOf(h, m, M, E) => M[h[m]] = h[m] BY ChainEnds
  <2> QED BY <2>4, <2>5
<1>12. w[n] \in SUBSET E /\ KahnStep(R, E, w[n]) = w[n] BY <1>0, <1>2, <1>10, <1>11
<1>13. \A a, b : a \in Sources(R, b) <=> <<a, b>> \in R BY TargetsIs
<1>14. ASSUME w[n] = E, NEW T \in SUBSET E, T # {}, \A x \in T : \E y \in T : <<y, x>> \in R PROVE FALSE
  <2> DEFINE L == {k \in Nat : k <= n => T \cap w[k] = {}}
  <2>1. 0 \in L BY <1>9
  <2>2. ASSUME NEW k \in Nat, k \in L PROVE k + 1 \in L
    <3> SUFFICES ASSUME k + 1 <= n, NEW x \in T, x \in w[k + 1] PROVE FALSE OBVIOUS
    <3>1. k + 1 \in 1..n /\ (k + 1) - 1 = k /\ T \cap w[k] = {} BY <1>0, <2>2
    <3>2. x \in KahnStep(R, E, w[k]) BY <1>9, <3>1
    <3>3. Sources(R, x) \subseteq w[k] BY <3>2 DEF KahnStep
    <3>4. PICK y \in T : <<y, x>> \in R BY <1>14
    <3>5. y \in w[k] BY <1>13, <3>3, <3>4
    <3> QED BY <3>1, <3>4, <3>5
  <2> HIDE DEF L
  <2>3. \A k \in Nat : k \in L BY <2>1, <2>2, SetInduction
  <2>4. T \cap w[n] = {} BY <1>0, <2>3 DEF L
  <2> QED BY <1>14, <2>4
<1>15. ASSUME Grounded(R, E) PROVE w[n] = E
  <2> SUFFICES ASSUME E \ w[n] # {} PROVE FALSE BY <1>12
  <2>1. PICK x \in E \ w[n] : \A y \in E \ w[n] : <<y, x>> \notin R BY <1>15 DEF Grounded
  <2>2. \A y : <<y, x>> \in R => y \in E OBVIOUS
  <2>3. Sources(R, x) \subseteq w[n] BY <1>13, <2>1, <2>2
  <2>4. x \in KahnStep(R, E, w[n]) BY <2>1, <2>3 DEF KahnStep
  <2> QED BY <1>12, <2>1, <2>4
<1>16. w[n] = E => Grounded(R, E) BY <1>14 DEF Grounded
<1> QED BY <1>15, <1>16

\* is_sc_consistent answers whether the events are grounded; a single event always is.
LEMMA ScIs ==
  ASSUME NEW h, IsFiniteSet(Events(h)), ScEdges(h) \subseteq Events(h) \X Events(h)
  PROVE  IsScConsistent(h) <=> Cardinality(Events(h)) <= 1 \/ Grounded(ScEdges(h), Events(h))
<1>1. PICK E : E = Events(h) OBVIOUS
<1>2. PICK n : n = Cardinality(E) OBVIOUS
<1>3. PICK R : R = ScEdges(h) OBVIOUS
<1>4. PICK w : w = CHOOSE d : KahnDef(d, R, E, n) OBVIOUS
<1>5. IsScConsistent(h) <=> n <= 1 \/ w[n] = E
  BY <1>1, <1>2, <1>3, <1>4 DEF IsScConsistent, KahnDef, KahnStep, ScEdges
<1>6. w[n] = E <=> Grounded(R, E) BY <1>1, <1>2, <1>3, <1>4, KahnIs
<1> QED BY <1>1, <1>2, <1>3, <1>5, <1>6

-----------------------------------------------------------------------------
(* The interleaving.                                                       *)

LatestIn(h, S, l) ==
  LET ws == {w \in S : Kind(h, w) \in WriteKinds /\ Loc(h, w) = l}
  IN  {w \in ws : \A v \in ws : <<w, v>> \notin MoBefore(h)}
LastIn(h, S, e) ==
  /\ Targets(PoEdges(h) \cup h.tcj, e) \cap S = {}
  /\ Kind(h, e) \in WriteKinds => LatestIn(h, S, Loc(h, e)) = {e}
  /\ Kind(h, e) \in ReadKinds => LatestIn(h, S \ {e}, Loc(h, e)) = Sources(h.rf, e)
RunsDef(h, f) == f = [S \in SUBSET Events(h) |-> S = {} \/ \E e \in S : LastIn(h, S, e) /\ f[S \ {e}]]
RunsAre(h, f) ==
  \A S \in SUBSET Events(h) : f[S] <=> S = {} \/ \E e \in S : LastIn(h, S, e) /\ f[S \ {e}]

\* The events that can be run are the least such sets.
RunClosed(h, Q) ==
  /\ {} \in Q
  /\ \A S \in SUBSET Events(h) : \A e \in S : LastIn(h, S, e) /\ S \ {e} \in Q => S \in Q

\* The recursive function of HasInterleaving exists.
LEMMA RunsExist == ASSUME NEW h PROVE \E f : RunsDef(h, f)
<1>1. PICK E : E = Events(h) OBVIOUS
<1>2. PICK Q : Q = {S \in SUBSET E : \A P \in SUBSET SUBSET E : RunClosed(h, P) => S \in P} OBVIOUS
<1>3. RunClosed(h, Q) BY <1>1, <1>2 DEF RunClosed
<1>4. ASSUME NEW S \in SUBSET E, S \in Q, S # {}, \A e \in S : LastIn(h, S, e) => S \ {e} \notin Q PROVE FALSE
  <2>1. PICK P : P = Q \ {S} OBVIOUS
  <2>2. {} \in P BY <1>3, <1>4, <2>1 DEF RunClosed
  <2>3. ASSUME NEW T \in SUBSET E, NEW e \in T, LastIn(h, T, e), T \ {e} \in P PROVE T \in P
    <3>1. T \in Q BY <1>1, <1>3, <2>1, <2>3 DEF RunClosed
    <3>2. T # S BY <1>4, <2>1, <2>3
    <3> QED BY <2>1, <3>1, <3>2
  <2>4. RunClosed(h, P) BY <1>1, <2>2, <2>3 DEF RunClosed
  <2>5. P \in SUBSET SUBSET E BY <1>2, <2>1
  <2>6. S \in P BY <1>2, <1>4, <2>4, <2>5
  <2> QED BY <2>1, <2>6
<1>5. PICK f : f = [S \in SUBSET E |-> S \in Q] OBVIOUS
<1>6. \A S \in SUBSET E : f[S] = (S \in Q) BY <1>5
<1>7. ASSUME NEW S \in SUBSET E PROVE (S \in Q) = (S = {} \/ \E e \in S : LastIn(h, S, e) /\ f[S \ {e}])
  <2>1. \A e \in S : f[S \ {e}] = (S \ {e} \in Q) BY <1>6
  <2>2. S \in Q => S = {} \/ \E e \in S : LastIn(h, S, e) /\ S \ {e} \in Q BY <1>4
  <2>3. (S = {} \/ \E e \in S : LastIn(h, S, e) /\ S \ {e} \in Q) => S \in Q BY <1>1, <1>3 DEF RunClosed
  <2>4. (\E e \in S : LastIn(h, S, e) /\ f[S \ {e}]) <=> (\E e \in S : LastIn(h, S, e) /\ S \ {e} \in Q) BY <2>1, Zenon
  <2>5. (S \in Q) <=> (S = {} \/ \E e \in S : LastIn(h, S, e) /\ f[S \ {e}]) BY <2>2, <2>3, <2>4, Zenon
  <2> QED BY <2>5
<1>8. f = [S \in SUBSET E |-> S = {} \/ \E e \in S : LastIn(h, S, e) /\ f[S \ {e}]] BY <1>5, <1>7
<1> QED BY <1>1, <1>8 DEF RunsDef

\* HasInterleaving is the value of that function at the whole set.
LEMMA InterleavingIs ==
  ASSUME NEW h
  PROVE  \E f : RunsAre(h, f) /\ (HasInterleaving(h) <=> f[Events(h)])
<1>1. PICK f : f = CHOOSE d : RunsDef(h, d) OBVIOUS
<1>2. HasInterleaving(h) = (CHOOSE d : RunsDef(h, d))[Events(h)]
  BY DEF HasInterleaving, RunsDef, LastIn, LatestIn
<1>3. RunsDef(h, f) BY <1>1, RunsExist
<1>4. RunsAre(h, f) BY <1>3 DEF RunsDef, RunsAre
<1>5. HasInterleaving(h) <=> f[Events(h)] BY <1>1, <1>2
<1> QED BY <1>4, <1>5

\* mo is the closure of its immediate edges: what they do not enter from outside, mo does not.
LEMMA MoChain ==
  ASSUME NEW h, MoTyped(h), NEW S, \A a, b : <<a, b>> \in MoEdges(h) /\ b \in S => a \in S
  PROVE  \A a, b : <<a, b>> \in MoBefore(h) /\ b \in S => a \in S
<1> SUFFICES ASSUME NEW a, NEW b, <<a, b>> \in MoBefore(h), b \in S PROVE a \in S OBVIOUS
<1>1. PICK l \in Locations : <<a, b>> \in Order(h.mo[l]) BY MoIs
<1>2. PICK s : s = h.mo[l] OBVIOUS
<1>3. s \in Seq(Events(h)) BY <1>2, MoIs
<1>4. InOrder(s, Len(s), a, b) BY <1>1, <1>2, <1>3, OrderIs
<1>5. PICK i, j \in 1..Len(s) : i < j /\ a = s[i] /\ b = s[j] BY <1>4 DEF InOrder
<1>6. Len(s) \in Nat /\ i \in Nat /\ j \in Nat /\ 1 <= i /\ j <= Len(s) BY <1>3
<1>7. \A m \in 2..Len(s) : <<s[m - 1], s[m]>> \in MoEdges(h) BY <1>1, <1>2 DEF MoEdges
<1> DEFINE L == {d \in Nat : d < j => s[j - d] \in S}
<1>8. 0 \in L BY <1>5, <1>6
<1>9. ASSUME NEW d \in Nat, d \in L PROVE d + 1 \in L
  <2> SUFFICES ASSUME d + 1 < j PROVE s[j - (d + 1)] \in S OBVIOUS
  <2>1. d < j /\ j - d \in 2..Len(s) /\ (j - d) - 1 = j - (d + 1) BY <1>6
  <2>2. s[j - d] \in S BY <1>9, <2>1
  <2>3. <<s[(j - d) - 1], s[j - d]>> \in MoEdges(h) BY <1>7, <2>1
  <2> QED BY <2>1, <2>2, <2>3
<1> HIDE DEF L
<1>10. \A d \in Nat : d \in L BY <1>8, <1>9, SetInduction
<1>11. j - i \in Nat /\ j - i < j /\ j - (j - i) = i BY <1>5, <1>6
<1>12. j - i \in L BY <1>10, <1>11
<1>13. s[j - (j - i)] \in S BY <1>11, <1>12 DEF L
<1> QED BY <1>5, <1>11, <1>13

\* Neighbours in mo are ordered by mo.
LEMMA MoEdgesIn ==
  ASSUME NEW h, MoTyped(h)
  PROVE  MoEdges(h) \subseteq MoBefore(h)
<1> SUFFICES ASSUME NEW p \in MoEdges(h) PROVE p \in MoBefore(h) OBVIOUS
<1>1. PICK l \in Locations : p \in {<<h.mo[l][i - 1], h.mo[l][i]>> : i \in 2..Len(h.mo[l])} BY DEF MoEdges
<1>2. PICK s : s = h.mo[l] OBVIOUS
<1>3. PICK i \in 2..Len(s) : p = <<s[i - 1], s[i]>> BY <1>1, <1>2
<1>4. s \in Seq(Events(h)) BY <1>2, MoIs
<1>5. Len(s) \in Nat /\ i - 1 \in 1..Len(s) /\ i \in 1..Len(s) /\ i - 1 < i BY <1>4
<1>6. InOrder(s, Len(s), s[i - 1], s[i]) BY <1>5 DEF InOrder
<1>7. p \in Order(s) BY <1>3, <1>4, <1>6, OrderIs
<1> QED BY <1>2, <1>3, <1>7, MoIs

\* fr leads from a read to what comes, in mo, after the write that it reads.
LEMMA FrIs ==
  ASSUME NEW h, GoodGraph(h)
  PROVE  /\ FrEdges(h) \subseteq Events(h) \X Events(h)
         /\ \A x, v : <<x, v>> \in FrEdges(h) <=>
              /\ x \in Events(h) /\ v \in Events(h) /\ IsWrite(h, v)
              /\ \E w : <<w, x>> \in h.rf /\ <<w, v>> \in MoBefore(h)
<1>a. Shaped(h) /\ MoTyped(h) BY DEF GoodGraph, IsGraph, Shaped
<1>0. FrEdges(h) \subseteq Events(h) \X Events(h) BY DEF FrEdges
<1>1. h.rf \subseteq Events(h) \X Events(h) BY <1>a DEF Shaped, EdgesTyped
<1>2. \A x, w : w \in Sources(h.rf, x) <=> <<w, x>> \in h.rf BY <1>1, TargetsIs
<1>3. ASSUME NEW w \in Events(h), NEW v, {w, v} \subseteq ToSet(h.mo[Loc(h, w)]),
             Position(h.mo[Loc(h, w)], w) < Position(h.mo[Loc(h, w)], v), Loc(h, w) \in Locations
      PROVE  <<w, v>> \in MoBefore(h)
  <2>1. PICK l \in Locations : l = Loc(h, w) BY <1>3
  <2>2. PICK s : s = h.mo[l] OBVIOUS
  <2>3. s \in Seq(Events(h)) BY <2>2, <1>a, MoIs
  <2>4. w \in ToSet(s) /\ v \in ToSet(s) BY <1>3, <2>1, <2>2
  <2>5. PICK i : i = Position(s, w) OBVIOUS
  <2>6. PICK j : j = Position(s, v) OBVIOUS
  <2>7. i \in 1..Len(s) /\ s[i] = w BY <2>3, <2>4, <2>5, PositionIs
  <2>8. j \in 1..Len(s) /\ s[j] = v BY <2>3, <2>4, <2>6, PositionIs
  <2>9. i < j BY <1>3, <2>1, <2>2, <2>5, <2>6
  <2>10. InOrder(s, Len(s), w, v) BY <2>7, <2>8, <2>9 DEF InOrder
  <2>11. <<w, v>> \in Order(s) BY <2>3, <2>10, OrderIs
  <2> QED BY <2>2, <2>11, <1>a, MoIs
<1>4. ASSUME NEW w, NEW v, <<w, v>> \in MoBefore(h)
      PROVE  {w, v} \subseteq ToSet(h.mo[Loc(h, w)])
             /\ Position(h.mo[Loc(h, w)], w) < Position(h.mo[Loc(h, w)], v)
  <2>1. PICK l \in Locations : <<w, v>> \in Order(h.mo[l]) BY <1>4, <1>a, MoIs
  <2>2. PICK s : s = h.mo[l] OBVIOUS
  <2>3. s \in Seq(Events(h)) /\ Distinct(s) BY <2>2, <1>a, MoIs DEF MoTyped
  <2>4. w \in ToSet(s) /\ v \in ToSet(s) BY <2>1, <2>2, <1>a, MoIs
  <2>5. Loc(h, w) = l BY <1>a, <2>2, <2>4 DEF MoTyped
  <2>6. InOrder(s, Len(s), w, v) BY <2>1, <2>2, <2>3, OrderIs
  <2>7. PICK i, j \in 1..Len(s) : i < j /\ w = s[i] /\ v = s[j] BY <2>6 DEF InOrder
  <2>8. PICK a : a = Position(s, w) OBVIOUS
  <2>9. PICK b : b = Position(s, v) OBVIOUS
  <2>10. a \in 1..Len(s) /\ s[a] = w BY <2>3, <2>4, <2>8, PositionIs
  <2>11. b \in 1..Len(s) /\ s[b] = v BY <2>3, <2>4, <2>9, PositionIs
  <2>12. \A m, n \in 1..Len(s) : s[m] = s[n] => m = n BY <2>3, DistinctIs
  <2>13. a = i /\ b = j BY <2>7, <2>10, <2>11, <2>12
  <2>14. a < b BY <2>7, <2>13
  <2> QED BY <2>2, <2>4, <2>5, <2>8, <2>9, <2>14
<1>5. ASSUME NEW w, NEW x, <<w, x>> \in h.rf PROVE w \in Events(h) /\ x \in Events(h) /\ Loc(h, w) \in Locations
  <2>1. w \in Events(h) /\ x \in Events(h) BY <1>1, <1>5
  <2>2. IsRead(h, x) BY <1>5, <2>1 DEF GoodGraph, GoodOn, CompleteOn
  <2>3. PICK u \in Events(h) : ReadsFrom(h, u, x) BY <2>1, <2>2 DEF GoodGraph, GoodOn, CompleteOn
  <2>4. IsWrite(h, w) BY <1>5, <2>3 DEF ReadsFrom
  <2>5. Kind(h, w) # "FENCE" BY <2>4 DEF IsWrite, WriteKinds
  <2> QED BY <1>a, <2>1, <2>5 DEF Shaped, EventsTyped
<1>6. ASSUME NEW x, NEW v, <<x, v>> \in FrEdges(h)
      PROVE  IsWrite(h, v) /\ \E w : <<w, x>> \in h.rf /\ <<w, v>> \in MoBefore(h)
  <2>1. Kind(h, v) \in WriteKinds BY <1>6 DEF FrEdges
  <2>2. PICK w \in Sources(h.rf, x) : {w, v} \subseteq ToSet(h.mo[Loc(h, w)])
                                      /\ Position(h.mo[Loc(h, w)], w) < Position(h.mo[Loc(h, w)], v)
    BY <1>6 DEF FrEdges
  <2>3. <<w, x>> \in h.rf BY <1>2, <2>2
  <2>4. <<w, v>> \in MoBefore(h) BY <1>3, <1>5, <2>2, <2>3
  <2> QED BY <2>1, <2>3, <2>4 DEF IsWrite
<1>7. ASSUME NEW x \in Events(h), NEW v \in Events(h), IsWrite(h, v), NEW w, <<w, x>> \in h.rf, <<w, v>> \in MoBefore(h)
      PROVE  <<x, v>> \in FrEdges(h)
  <2>1. w \in Sources(h.rf, x) BY <1>2, <1>7
  <2>2. {w, v} \subseteq ToSet(h.mo[Loc(h, w)])
        /\ Position(h.mo[Loc(h, w)], w) < Position(h.mo[Loc(h, w)], v)
    BY <1>4, <1>7
  <2>3. Kind(h, v) \in WriteKinds BY <1>7 DEF IsWrite
  <2> QED BY <2>1, <2>2, <2>3 DEF FrEdges
<1>8. \A x, v : <<x, v>> \in FrEdges(h) => x \in Events(h) /\ v \in Events(h) BY <1>0
<1> QED BY <1>0, <1>6, <1>7, <1>8

-----------------------------------------------------------------------------
(* What the edges of the check are, pair by pair.                          *)

MoStep(h, a, b) == <<a, b>> \in MoEdges(h)
FrStep(h, a, b) == <<a, b>> \in FrEdges(h)

\* The edges that is_sc_consistent counts, kind by kind.
LEMMA ScEdgesIs ==
  ASSUME NEW h, GoodGraph(h)
  PROVE  /\ ScEdges(h) \subseteq Events(h) \X Events(h)
         /\ \A a, b : <<a, b>> \in ScEdges(h) <=>
              Precedes(h, a, b) \/ <<a, b>> \in h.rf \/ MoStep(h, a, b) \/ FrStep(h, a, b)
<1>1. Shaped(h) /\ MoTyped(h) BY DEF GoodGraph, IsGraph, Shaped
<1>2. MoEdges(h) \subseteq Events(h) \X Events(h) BY <1>1, MoEdgesIn, MoIs
<1>3. PoEdges(h) \subseteq Events(h) \X Events(h) BY <1>1, PoIs DEF Shaped
<1>4. h.rf \subseteq Events(h) \X Events(h) /\ h.tcj \subseteq Events(h) \X Events(h) BY <1>1 DEF Shaped, EdgesTyped
<1> QED BY <1>2, <1>3, <1>4, FrIs DEF ScEdges, Precedes, MoStep, FrStep

\* No event precedes itself.
LEMMA ScStrict ==
  ASSUME NEW h, GoodGraph(h), NEW e \in Events(h)
  PROVE  ~Precedes(h, e, e) /\ <<e, e>> \notin h.rf /\ ~MoStep(h, e, e)
<1>1. Shaped(h) /\ MoTyped(h) BY DEF GoodGraph, IsGraph, Shaped
<1>2. IsFiniteSet(Events(h)) BY <1>1 DEF Shaped, EventsTyped
<1>3. Edges(h) \subseteq Events(h) \X Events(h) BY <1>1, EdgesIn DEF Shaped
<1>4. Edges(h) \subseteq Plus(Edges(h), Events(h)) BY <1>2, <1>3, PlusStep
<1>5. <<e, e>> \notin Edges(h) BY <1>4 DEF GoodGraph, GoodOn, AcyclicOn
<1>6. <<e, e>> \notin MoBefore(h) BY <1>1, MoStrict
<1>7. ~MoStep(h, e, e) BY <1>1, <1>6, MoEdgesIn DEF MoStep
<1> QED BY <1>5, <1>7 DEF Edges, Precedes

\* The latest of the writes to a location is the one that no other comes after in mo.
LEMMA LatestIs ==
  ASSUME NEW h, GoodGraph(h), NEW S, S \subseteq Events(h), NEW l \in Locations, NEW w \in S,
         IsWrite(h, w), Loc(h, w) = l
  PROVE  LatestIn(h, S, l) = {w} <=> \A v \in S : <<w, v>> \notin MoBefore(h)
<1>1. MoTyped(h) BY DEF GoodGraph, IsGraph
<1>2. PICK ws : ws = {v \in S : Kind(h, v) \in WriteKinds /\ Loc(h, v) = l} OBVIOUS
<1>3. PICK la : la = {v \in ws : \A u \in ws : <<v, u>> \notin MoBefore(h)} OBVIOUS
<1>4. LatestIn(h, S, l) = la BY <1>2, <1>3 DEF LatestIn
<1>5. w \in ws BY <1>2 DEF IsWrite
<1>6. \A v \in ws : v \in ToSet(h.mo[l]) BY <1>2 DEF GoodGraph, GoodOn, CompleteOn, IsWrite
<1>7. \A v \in S : <<w, v>> \in MoBefore(h) => v \in ws
  <2> SUFFICES ASSUME NEW v \in S, <<w, v>> \in MoBefore(h) PROVE v \in ws OBVIOUS
  <2>1. PICK m \in Locations : <<w, v>> \in Order(h.mo[m]) BY <1>1, MoIs
  <2>2. w \in ToSet(h.mo[m]) /\ v \in ToSet(h.mo[m]) BY <1>1, <2>1, MoIs
  <2>3. m = l BY <1>1, <2>2 DEF MoTyped
  <2>4. IsWrite(h, v) /\ Loc(h, v) = l BY <2>2, <2>3 DEF GoodGraph, GoodOn, CompleteOn
  <2> QED BY <1>2, <2>4 DEF IsWrite
<1>8. ASSUME \A v \in S : <<w, v>> \notin MoBefore(h) PROVE la = {w}
  <2>1. w \in la BY <1>2, <1>3, <1>5, <1>8
  <2>2. ASSUME NEW v \in la PROVE v = w
    <3>1. v \in ws /\ <<v, w>> \notin MoBefore(h) BY <1>3, <1>5, <2>2
    <3>2. <<w, v>> \notin MoBefore(h) BY <1>2, <1>8, <3>1
    <3> QED BY <1>1, <1>5, <1>6, <3>1, <3>2, MoStrict
  <2> QED BY <2>1, <2>2
<1>9. ASSUME la = {w} PROVE \A v \in S : <<w, v>> \notin MoBefore(h)
  <2>1. \A u \in ws : <<w, u>> \notin MoBefore(h) BY <1>3, <1>9
  <2> QED BY <1>7, <2>1
<1> QED BY <1>4, <1>8, <1>9

\* An event can be run after a set that has all it has edges from and that it has no
\* edge into.
LEMMA RunNext ==
  ASSUME NEW h, GoodGraph(h), NEW S, S \subseteq Events(h), NEW x \in Events(h), x \notin S,
         \A a, b : <<a, b>> \in ScEdges(h) /\ b \in S => a \in S,
         \A a : <<a, x>> \in ScEdges(h) => a \in S
  PROVE  LastIn(h, S \cup {x}, x)
<1>1. Shaped(h) /\ MoTyped(h) BY DEF GoodGraph, IsGraph, Shaped
<1>2. \A b \in S \cup {x} : <<x, b>> \notin ScEdges(h) OBVIOUS
<1>3. \A a, b : MoStep(h, a, b) \/ <<a, b>> \in h.rf \/ FrStep(h, a, b) \/ Precedes(h, a, b) => <<a, b>> \in ScEdges(h)
  BY ScEdgesIs
<1>4. \A a, b : <<a, b>> \in MoBefore(h) /\ b \in S => a \in S
  <2>1. \A a, b : <<a, b>> \in MoEdges(h) /\ b \in S => a \in S BY <1>3 DEF MoStep
  <2>2. \A k, T : MoTyped(k) /\ (\A a, b : <<a, b>> \in MoEdges(k) /\ b \in T => a \in T)
                    => \A a, b : <<a, b>> \in MoBefore(k) /\ b \in T => a \in T
    BY MoChain
  <2> QED BY <1>1, <2>1, <2>2
<1>5. \A b \in S \cup {x} : <<x, b>> \notin MoBefore(h) BY <1>1, <1>4, MoStrict
<1>6. PoEdges(h) \subseteq Events(h) \X Events(h) /\ h.tcj \subseteq Events(h) \X Events(h)
      /\ h.rf \subseteq Events(h) \X Events(h)
  BY <1>1, PoIs DEF Shaped, EdgesTyped
<1>t. \A R : R \subseteq Events(h) \X Events(h) =>
        \A a, b : (b \in Targets(R, a) <=> <<a, b>> \in R) /\ (a \in Sources(R, b) <=> <<a, b>> \in R)
  BY TargetsIs
<1>7. Targets(PoEdges(h) \cup h.tcj, x) \cap (S \cup {x}) = {}
  <2>1. PICK R : R = PoEdges(h) \cup h.tcj OBVIOUS
  <2>2. \A b : b \in Targets(R, x) => <<x, b>> \in R
    <3>1. R \subseteq Events(h) \X Events(h) BY <1>6, <2>1
    <3> QED BY <1>t, <3>1
  <2>3. \A b : <<x, b>> \in R => <<x, b>> \in ScEdges(h) BY <1>3, <2>1 DEF Precedes
  <2> QED BY <1>2, <2>1, <2>2, <2>3
<1>8. \A e \in Events(h) : IsWrite(h, e) \/ IsRead(h, e) => Loc(h, e) \in Locations
  <2>1. \A e \in Events(h) : IsWrite(h, e) \/ IsRead(h, e) => Kind(h, e) # "FENCE"
    BY DEF IsWrite, IsRead, WriteKinds, ReadKinds
  <2> QED BY <1>1, <2>1 DEF Shaped, EventsTyped
<1>9. ASSUME IsWrite(h, x) PROVE LatestIn(h, S \cup {x}, Loc(h, x)) = {x}
  <2>1. S \cup {x} \subseteq Events(h) /\ x \in S \cup {x} OBVIOUS
  <2> QED BY <1>5, <1>8, <1>9, <2>1, LatestIs
<1>10. ASSUME IsRead(h, x) PROVE LatestIn(h, (S \cup {x}) \ {x}, Loc(h, x)) = Sources(h.rf, x)
  <2>1. PICK w \in Events(h) : ReadsFrom(h, w, x) BY <1>10 DEF GoodGraph, GoodOn, CompleteOn
  <2>2. Sources(h.rf, x) = {w}
    <3>1. \A a : a \in Sources(h.rf, x) <=> <<a, x>> \in h.rf BY <1>6, <1>t
    <3> QED BY <2>1, <3>1 DEF ReadsFrom
  <2>3. <<w, x>> \in h.rf /\ IsWrite(h, w) /\ Loc(h, w) = Loc(h, x) BY <2>1 DEF ReadsFrom
  <2>4. w \in S BY <1>3, <2>3
  <2>5. ASSUME NEW v \in S, <<w, v>> \in MoBefore(h) PROVE FALSE
    <3>1. PICK l \in Locations : <<w, v>> \in Order(h.mo[l]) BY <1>1, <2>5, MoIs
    <3>2. v \in ToSet(h.mo[l]) BY <1>1, <3>1, MoIs
    <3>3. v \in Events(h) /\ IsWrite(h, v) BY <3>2 DEF GoodGraph, GoodOn, CompleteOn
    <3>4. FrStep(h, x, v) BY <2>3, <2>5, <3>3, FrIs DEF FrStep
    <3> QED BY <1>2, <1>3, <2>5, <3>4
  <2>6. LatestIn(h, S, Loc(h, x)) = {w} BY <1>8, <1>10, <2>3, <2>4, <2>5, LatestIs
  <2>7. (S \cup {x}) \ {x} = S OBVIOUS
  <2> QED BY <2>2, <2>6, <2>7
<1> QED BY <1>7, <1>9, <1>10 DEF LastIn, IsWrite, IsRead

\* What is grounded can be run: one event after the other.
LEMMA GroundedRuns ==
  ASSUME NEW h, GoodGraph(h), Grounded(ScEdges(h), Events(h)), NEW f, RunsAre(h, f)
  PROVE  f[Events(h)]
<1>1. PICK E : E = Events(h) OBVIOUS
<1>2. PICK R : R = ScEdges(h) OBVIOUS
<1>3. R \subseteq E \X E BY <1>1, <1>2, ScEdgesIs
<1>4. IsFiniteSet(E) BY <1>1 DEF GoodGraph, IsGraph, EventsTyped
<1> DEFINE Below(S) == \A a, b : <<a, b>> \in R /\ b \in S => a \in S
           Q == {T \in SUBSET E : Below(E \ T) /\ f[E \ T] => f[E]}
<1>5. ASSUME NEW T \in SUBSET E, \A V \in SUBSET T : V # T => V \in Q PROVE T \in Q
  <2> SUFFICES ASSUME Below(E \ T), f[E \ T] PROVE f[E] OBVIOUS
  <2>1. CASE T = {}
    <3>1. E \ T = E BY <2>1
    <3> QED BY <3>1
  <2>2. CASE T # {}
    <3>1. PICK x \in T : \A y \in T : <<y, x>> \notin R BY <1>1, <1>2, <2>2 DEF Grounded
    <3>2. PICK S : S = E \ T OBVIOUS
    <3>3. PICK V : V = T \ {x} OBVIOUS
    <3>4. E \ V = S \cup {x} /\ V \in SUBSET T /\ V # T /\ x \notin S /\ S \subseteq E /\ x \in E BY <3>2, <3>3
    <3>5. \A a : <<a, x>> \in R => a \in S BY <1>3, <3>1, <3>2
    <3>6. Below(S) BY <3>2
    <3>7. LastIn(h, S \cup {x}, x) BY <1>1, <1>2, <3>4, <3>5, <3>6, RunNext
    <3>8. Below(S \cup {x}) BY <3>5, <3>6
    <3>9. (S \cup {x}) \ {x} = S BY <3>4
    <3>10. f[(S \cup {x}) \ {x}] BY <3>2, <3>9
    <3>11. f[S \cup {x}]
      <4>1. S \cup {x} \in SUBSET Events(h) /\ x \in S \cup {x} BY <1>1, <3>4
      <4>2. \E e \in S \cup {x} : LastIn(h, S \cup {x}, e) /\ f[(S \cup {x}) \ {e}] BY <3>7, <3>10, <4>1
      <4> QED BY <4>1, <4>2 DEF RunsAre
    <3>12. V \in Q BY <1>5, <3>4
    <3>13. Below(E \ V) /\ f[E \ V] => f[E] BY <3>12
    <3> QED BY <3>4, <3>8, <3>11, <3>13
  <2> QED BY <2>1, <2>2
<1> HIDE DEF Q
<1>6. \A T \in SUBSET E : T \in Q BY <1>4, <1>5, SubsetInduction
<1>7. E \in Q BY <1>6
<1>8. E \ E = {} OBVIOUS
<1>9. f[{}] BY DEF RunsAre
<1>10. f[E \ E] BY <1>8, <1>9
<1>11. Below(E \ E) BY <1>8
<1>12. f[E] BY <1>7, <1>10, <1>11 DEF Q
<1> QED BY <1>1, <1>12

\* The last event of those that were run has no edge to them, if no event is rmw-like.
LEMMA LastHasNone ==
  ASSUME NEW h, GoodGraph(h), OfKind(h, RmwKinds) = {}, NEW S, S \subseteq Events(h), NEW e \in S,
         LastIn(h, S, e), \A a, b : <<a, b>> \in h.rf /\ b \in S \ {e} => a \in S \ {e}
  PROVE  /\ \A b \in S : <<e, b>> \notin ScEdges(h)
         /\ \A a : <<a, e>> \in h.rf => a \in S \ {e}
<1>1. Shaped(h) /\ MoTyped(h) BY DEF GoodGraph, IsGraph, Shaped
<1>2. e \in Events(h) OBVIOUS
<1>3. PoEdges(h) \subseteq Events(h) \X Events(h) /\ h.tcj \subseteq Events(h) \X Events(h)
      /\ h.rf \subseteq Events(h) \X Events(h)
  BY <1>1, PoIs DEF Shaped, EdgesTyped
<1>4. \A R : R \subseteq Events(h) \X Events(h) =>
        \A a, b : (b \in Targets(R, a) <=> <<a, b>> \in R) /\ (a \in Sources(R, b) <=> <<a, b>> \in R)
  BY TargetsIs
<1>5. \A d \in Events(h) : IsWrite(h, d) \/ IsRead(h, d) => Loc(h, d) \in Locations
  <2>1. \A d \in Events(h) : IsWrite(h, d) \/ IsRead(h, d) => Kind(h, d) # "FENCE"
    BY DEF IsWrite, IsRead, WriteKinds, ReadKinds
  <2> QED BY <1>1, <2>1 DEF Shaped, EventsTyped
<1>6. \A a, b : <<a, b>> \in MoBefore(h) => /\ a \in Events(h) /\ b \in Events(h)
                                            /\ IsWrite(h, a) /\ IsWrite(h, b)
  <2> SUFFICES ASSUME NEW a, NEW b, <<a, b>> \in MoBefore(h)
               PROVE  a \in Events(h) /\ b \in Events(h) /\ IsWrite(h, a) /\ IsWrite(h, b)
    OBVIOUS
  <2>1. PICK l \in Locations : <<a, b>> \in Order(h.mo[l]) BY <1>1, MoIs
  <2>2. a \in ToSet(h.mo[l]) /\ b \in ToSet(h.mo[l]) BY <1>1, <2>1, MoIs
  <2>3. a \in Events(h) /\ b \in Events(h) BY <1>1, <2>2, MoIs
  <2> QED BY <2>2, <2>3 DEF GoodGraph, GoodOn, CompleteOn
<1>7. \A b \in S : ~Precedes(h, e, b)
  <2>1. PICK R : R = PoEdges(h) \cup h.tcj OBVIOUS
  <2>2. R \subseteq Events(h) \X Events(h) BY <1>3, <2>1
  <2>3. Targets(R, e) \cap S = {} BY <2>1 DEF LastIn
  <2>4. \A b : <<e, b>> \in R => b \in Targets(R, e) BY <1>4, <2>2
  <2> QED BY <2>1, <2>3, <2>4 DEF Precedes
<1>8. ASSUME NEW b \in S PROVE <<e, b>> \notin MoBefore(h)
  <2> SUFFICES ASSUME <<e, b>> \in MoBefore(h) PROVE FALSE OBVIOUS
  <2>1. IsWrite(h, e) BY <1>6
  <2>2. LatestIn(h, S, Loc(h, e)) = {e} BY <2>1 DEF LastIn, IsWrite
  <2>3. Loc(h, e) \in Locations BY <1>2, <1>5, <2>1
  <2> QED BY <2>1, <2>2, <2>3, LatestIs
<1>9. ASSUME NEW w, <<w, e>> \in h.rf
      PROVE  w \in S \ {e} /\ \A v \in S \ {e} : <<w, v>> \notin MoBefore(h)
  <2>1. IsRead(h, e) BY <1>2, <1>9 DEF GoodGraph, GoodOn, CompleteOn
  <2>2. PICK u \in Events(h) : ReadsFrom(h, u, e) BY <1>2, <2>1 DEF GoodGraph, GoodOn, CompleteOn
  <2>3. w = u /\ IsWrite(h, w) /\ Loc(h, w) = Loc(h, e) BY <1>9, <2>2 DEF ReadsFrom
  <2>4. PICK l \in Locations : l = Loc(h, e) BY <1>2, <1>5, <2>1
  <2>5. PICK T : T = S \ {e} OBVIOUS
  <2>6. LatestIn(h, T, l) = Sources(h.rf, e) BY <2>1, <2>4, <2>5 DEF LastIn, IsRead
  <2>7. Sources(h.rf, e) = {w}
    <3>1. \A a : a \in Sources(h.rf, e) <=> <<a, e>> \in h.rf BY <1>3, <1>4
    <3>2. \A a : <<a, e>> \in h.rf <=> a = w BY <2>2, <2>3 DEF ReadsFrom
    <3>3. \A a : a \in Sources(h.rf, e) <=> a = w BY <3>1, <3>2
    <3> QED BY <3>3
  <2>8. w \in T
    <3>1. LatestIn(h, T, l) \subseteq T BY DEF LatestIn
    <3> QED BY <2>6, <2>7, <3>1
  <2>9. T \subseteq Events(h) BY <2>5
  <2>10. LatestIn(h, T, l) = {w} BY <2>6, <2>7
  <2>11. \A v \in T : <<w, v>> \notin MoBefore(h) BY <2>3, <2>4, <2>8, <2>9, <2>10, LatestIs
  <2> QED BY <2>5, <2>8, <2>11
<1>10. ASSUME NEW b \in S PROVE <<e, b>> \notin h.rf
  <2>1. CASE b = e BY <1>2, <2>1, ScStrict
  <2>2. CASE b # e BY <2>2
  <2> QED BY <2>1, <2>2
<1>11. ASSUME NEW b \in S PROVE ~FrStep(h, e, b)
  <2> SUFFICES ASSUME FrStep(h, e, b) PROVE FALSE OBVIOUS
  <2>1. PICK w : <<w, e>> \in h.rf /\ <<w, b>> \in MoBefore(h) BY <1>11, FrIs DEF FrStep
  <2>2. IsWrite(h, b) BY <1>6, <2>1
  <2>3. b = e BY <1>9, <1>11, <2>1
  <2>4. IsRead(h, e) BY <1>2, <2>1 DEF GoodGraph, GoodOn, CompleteOn
  <2>5. Kind(h, e) \in RmwKinds BY <2>2, <2>3, <2>4 DEF IsWrite, IsRead, WriteKinds, ReadKinds, RmwKinds
  <2> QED BY <1>2, <2>5 DEF OfKind
<1>12. ASSUME NEW b \in S PROVE ~MoStep(h, e, b) BY <1>1, <1>8, MoEdgesIn DEF MoStep
<1>13. ASSUME NEW b \in S PROVE <<e, b>> \notin ScEdges(h)
  BY <1>7, <1>10, <1>11, <1>12, ScEdgesIs
<1> QED BY <1>9, <1>13

\* Without rmw-like events, a graph with an interleaving is grounded.
LEMMA RunsGrounded ==
  ASSUME NEW h, GoodGraph(h), OfKind(h, RmwKinds) = {}, NEW f, RunsAre(h, f), f[Events(h)]
  PROVE  Grounded(ScEdges(h), Events(h))
<1>1. PICK E : E = Events(h) OBVIOUS
<1>2. PICK R : R = ScEdges(h) OBVIOUS
<1>3. IsFiniteSet(E) BY <1>1 DEF GoodGraph, IsGraph, EventsTyped
<1> DEFINE RfInside(S) == \A a, b : <<a, b>> \in h.rf /\ b \in S => a \in S
           Q == {S \in SUBSET E : f[S] => RfInside(S) /\ Grounded(R, S)}
<1>4. ASSUME NEW S \in SUBSET E, \A V \in SUBSET S : V # S => V \in Q PROVE S \in Q
  <2> SUFFICES ASSUME f[S] PROVE RfInside(S) /\ Grounded(R, S) OBVIOUS
  <2>1. CASE S = {} BY <2>1 DEF Grounded
  <2>2. CASE S # {}
    <3>1. PICK e \in S : LastIn(h, S, e) /\ f[S \ {e}] BY <1>1, <2>2 DEF RunsAre
    <3>2. PICK V : V = S \ {e} OBVIOUS
    <3>3. V \in SUBSET S /\ V # S BY <3>2
    <3>4. V \in Q BY <1>4, <3>3
    <3>5. f[V] BY <3>1, <3>2
    <3>6. RfInside(V) /\ Grounded(R, V) BY <3>4, <3>5
    <3>7. \A a, b : <<a, b>> \in h.rf /\ b \in S \ {e} => a \in S \ {e} BY <3>2, <3>6
    <3>8. (\A b \in S : <<e, b>> \notin R) /\ (\A a : <<a, e>> \in h.rf => a \in S \ {e})
      BY <1>1, <1>2, <3>1, <3>7, LastHasNone
    <3>9. RfInside(S) BY <3>7, <3>8
    <3>10. ASSUME NEW T \in SUBSET S, T # {} PROVE \E x \in T : \A y \in T : <<y, x>> \notin R
      <4>1. CASE T \subseteq {e} BY <3>8, <3>10, <4>1
      <4>2. CASE ~(T \subseteq {e})
        <5>1. PICK U : U = T \ {e} OBVIOUS
        <5>2. U \in SUBSET V /\ U # {} BY <3>2, <4>2, <5>1
        <5>3. PICK x \in U : \A y \in U : <<y, x>> \notin R BY <3>6, <5>2 DEF Grounded
        <5>4. <<e, x>> \notin R BY <3>8, <5>1, <5>3
        <5> QED BY <5>1, <5>3, <5>4
      <4> QED BY <4>1, <4>2
    <3>11. Grounded(R, S) BY <3>10 DEF Grounded
    <3> QED BY <3>9, <3>11
  <2> QED BY <2>1, <2>2
<1> HIDE DEF Q
<1>5. \A S \in SUBSET E : S \in Q BY <1>3, <1>4, SubsetInduction
<1>6. E \in Q BY <1>5
<1>7. Grounded(R, E) BY <1>1, <1>6 DEF Q
<1> QED BY <1>1, <1>2, <1>7

\* A single event has no edge.
LEMMA FewGrounded ==
  ASSUME NEW h, GoodGraph(h), Cardinality(Events(h)) <= 1
  PROVE  Grounded(ScEdges(h), Events(h))
<1>1. PICK E : E = Events(h) OBVIOUS
<1>2. IsFiniteSet(E) BY <1>1 DEF GoodGraph, IsGraph, EventsTyped
<1>3. \A x, y \in E : x = y
  <2> SUFFICES ASSUME NEW x \in E, NEW y \in E, x # y PROVE FALSE OBVIOUS
  <2>1. PICK D : D = {x, y} OBVIOUS
  <2>2. D \subseteq E BY <2>1
  <2>3. Cardinality(D) = 2
    <3>1. IsFiniteSet({x}) /\ Cardinality({x}) = 1 BY FS_Singleton
    <3>2. D = {x} \cup {y} /\ y \notin {x} BY <2>1
    <3> QED BY <3>1, <3>2, FS_AddElement
  <2>4. Cardinality(D) <= Cardinality(E) BY <1>2, <2>2, FS_Subset
  <2>5. Cardinality(E) \in Nat /\ Cardinality(E) <= 1 BY <1>1, <1>2, FS_CardinalityType
  <2> QED BY <2>3, <2>4, <2>5
<1>4. ASSUME NEW x \in E PROVE <<x, x>> \notin ScEdges(h)
  <2>1. ~FrStep(h, x, x)
    <3> SUFFICES ASSUME FrStep(h, x, x) PROVE FALSE OBVIOUS
    <3>1. PICK w : <<w, x>> \in h.rf /\ <<w, x>> \in MoBefore(h) BY FrIs DEF FrStep
    <3>2. w \in E BY <1>1, <3>1 DEF GoodGraph, IsGraph, EdgesTyped
    <3>3. w = x BY <1>3, <3>2
    <3> QED BY <1>1, <3>1, <3>3, ScStrict
  <2> QED BY <1>1, <2>1, ScStrict, ScEdgesIs
<1>5. ASSUME NEW T \in SUBSET E, T # {} PROVE \E x \in T : \A y \in T : <<y, x>> \notin ScEdges(h)
  <2>1. PICK x \in T : TRUE BY <1>5
  <2>2. \A y \in T : y = x BY <1>3
  <2> QED BY <1>4, <2>1, <2>2
<1> QED BY <1>1, <1>5 DEF Grounded

\* In a good graph is_sc_consistent is sound, and complete without rmw-like events.
LEMMA ScCheckIs == ASSUME GoodGraph(g) PROVE ScCheckSound
<1>1. IsFiniteSet(Events(g)) BY DEF GoodGraph, IsGraph, EventsTyped
<1>2. ScEdges(g) \subseteq Events(g) \X Events(g) BY ScEdgesIs
<1>3. IsScConsistent(g) <=> Grounded(ScEdges(g), Events(g)) BY <1>1, <1>2, ScIs, FewGrounded
<1>4. PICK f : RunsAre(g, f) /\ (HasInterleaving(g) <=> f[Events(g)]) BY InterleavingIs
<1>5. IsScConsistent(g) => HasInterleaving(g)
  <2>1. Grounded(ScEdges(g), Events(g)) => f[Events(g)] BY <1>4, GroundedRuns
  <2> QED BY <1>3, <1>4, <2>1
<1>6. ASSUME OfKind(g, RmwKinds) = {}, HasInterleaving(g) PROVE IsScConsistent(g)
  <2>1. f[Events(g)] BY <1>4, <1>6
  <2>2. Grounded(ScEdges(g), Events(g)) BY <1>4, <1>6, <2>1, RunsGrounded
  <2> QED BY <1>3, <2>2
<1> QED BY <1>5, <1>6 DEF ScCheckSound

\* is_sc_consistent accepts only graphs that have an interleaving, and all of those that
\* have no rmw-like event: Kahn's order and an interleaving give each other.
THEOREM ScCheckSoundAlways == Spec => []ScCheckSound
<1>1. GraphSound => ScCheckSound BY ScCheckIs DEF GraphSound
<1> QED BY <1>1, GraphSoundAlways, PTL
=============================================================================
