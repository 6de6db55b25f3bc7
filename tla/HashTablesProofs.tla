-------------------------- MODULE HashTablesProofs --------------------------
(***************************************************************************)
(* The seen-graph table is a set of keys for every hash function, number   *)
(* of graphs and capacity: no key is lost, doubled or hidden by a probe    *)
(* sequence, also in the middle of a rehash.  The event pair map counts    *)
(* every edge exactly, for every hash function and set of edges, through   *)
(* growth, failing allocations and clearing.                               *)
(***************************************************************************)
EXTENDS HashTables, TLAPS, FiniteSetTheorems, DataLemmas

Word == Keys \cup {Empty}
Slots == 0..(cap - 1)

TypeInv ==
  /\ cap \in Nat /\ oldCap \in Nat /\ next \in Nat
  /\ table \in [Slots -> Word] /\ old \in [0..(oldCap - 1) -> Word]
  /\ pc \in {"idle", "rehash", "probe"}
  /\ pc = "idle" => arg = None
  /\ pc # "idle" => arg \in Keys /\ cap # 0
  /\ pc # "rehash" => oldCap = 0 /\ next = 0

\* A search for a key that is stored ends at its slot.
Reachable == \A i \in Slots : table[i] # Empty => EndsAt(table, cap, table[i], table[i], i)

\* No key is in two places.
Distinct ==
  /\ \A i, j \in Slots : table[i] = table[j] /\ table[i] # Empty => i = j
  /\ \A i, j \in next..(oldCap - 1) : old[i] = old[j] /\ old[i] # Empty => i = j
  /\ Stored \cap Unmoved = {}

Inv == TypeInv /\ Reachable /\ Distinct

LEMMA Constants ==
  /\ Empty = 0 /\ Empty \notin Keys /\ None \notin Keys /\ Keys \subseteq Nat
  /\ \A g \in Hashed : Key(g) \in Keys
  /\ MinCap \in Nat \ {0} /\ U32 \in Nat \ {0}
<1>1. MinCap \in Nat \ {0} BY TableAssumption
<1>2. U32 \in Nat \ {0} BY <1>1, TableAssumption
<1>3. Empty = 0 /\ Keys \subseteq Nat \ {0} /\ None \notin Nat BY TableAssumption
<1>4. \A g \in Hashed : Key(g) \in Keys BY TableAssumption
<1> QED BY <1>1, <1>2, <1>3, <1>4

LEMMA AtSlot ==
  ASSUME NEW n \in Nat \ {0}, NEW h \in Nat, NEW d \in Nat
  PROVE  At(n, h, d) \in 0..(n - 1)
BY DEF At

\* A search that ends at an empty slot: its key is nowhere in the table.
LEMMA EmptyMeansAbsent ==
  ASSUME TypeInv, Reachable, NEW k \in Keys, NEW i \in Slots,
         EndsAt(table, cap, k, k, i), table[i] = Empty
  PROVE  k \notin Stored
<1> SUFFICES ASSUME NEW j \in Slots, table[j] = k PROVE FALSE BY DEF Stored, Slots
<1>1. k # Empty BY Constants
<1>2. PICK d \in 0..(cap - 1) : At(cap, k, d) = i /\ Passes(table, cap, k, k, d) BY DEF EndsAt
<1>3. EndsAt(table, cap, k, k, j) BY <1>1 DEF Reachable
<1>4. PICK e \in 0..(cap - 1) : At(cap, k, e) = j /\ Passes(table, cap, k, k, e)
  BY <1>3 DEF EndsAt
<1>5. d \in Int /\ e \in Int BY DEF TypeInv
<1>6. CASE e < d
  <2>1. e \in 0..(d - 1) BY <1>5, <1>6
  <2> QED BY <1>2, <1>4, <2>1 DEF Passes
<1>7. CASE d < e
  <2>1. d \in 0..(e - 1) BY <1>5, <1>7
  <2> QED BY <1>2, <1>4, <2>1 DEF Passes
<1>8. CASE d = e BY <1>1, <1>2, <1>4, <1>8
<1> QED BY <1>5, <1>6, <1>7, <1>8

\* Filling the empty slot at which a search for k ends keeps all keys reachable.
LEMMA FillKeepsReachable ==
  ASSUME TypeInv, Reachable, cap # 0, NEW k \in Keys, NEW i \in Slots,
         table[i] = Empty, cap' = cap, table' = [table EXCEPT ![i] = k],
         \E d \in 0..(cap - 1) :
           At(cap, k, d) = i /\ Passes(table, cap, k, k, d)
  PROVE  Reachable'
<1> SUFFICES ASSUME NEW j \in Slots, table'[j] # Empty
             PROVE  EndsAt(table', cap, table'[j], table'[j], j)
  BY DEF Reachable, Slots
<1>a. cap \in Nat \ {0} /\ table \in [Slots -> Word] /\ Keys \subseteq Nat
  BY Constants DEF TypeInv
<1>b. \A h \in Nat, d \in Nat : At(cap, h, d) \in Slots BY <1>a, AtSlot DEF Slots
<1>c. \A x \in Slots : x # i => table'[x] = table[x] BY <1>a
<1>d. table'[i] = k BY <1>a
<1> DEFINE q == IF j = i THEN k ELSE table[j]
<1>e. table'[j] = q /\ q \in Keys
  <2>1. CASE j = i BY <1>d, <2>1
  <2>2. CASE j # i BY <1>a, <1>c, <2>2 DEF Word
  <2> QED BY <2>1, <2>2
<1>1. PICK d \in 0..(cap - 1) : At(cap, q, d) = j /\ Passes(table, cap, q, q, d)
  <2>1. CASE j = i BY <2>1
  <2>2. CASE j # i
    <3>1. q = table[j] /\ table[j] # Empty BY <1>e, <2>2, Constants
    <3>2. EndsAt(table, cap, q, q, j) BY <3>1 DEF Reachable
    <3> QED BY <3>2 DEF EndsAt
  <2> QED BY <2>1, <2>2
<1> HIDE DEF q
<1>2. Passes(table', cap, q, q, d)
  <2> SUFFICES ASSUME NEW e \in 0..(d - 1) PROVE table'[At(cap, q, e)] \notin {Empty, q}
    BY DEF Passes
  <2>1. table[At(cap, q, e)] \notin {Empty, q} BY <1>1 DEF Passes
  <2>2. At(cap, q, e) # i BY <2>1
  <2>3. e \in Nat /\ q \in Nat BY <1>a, <1>e
  <2>4. At(cap, q, e) \in Slots BY <1>b, <2>3
  <2> QED BY <1>c, <2>1, <2>2, <2>4
<1> QED BY <1>e, <1>1, <1>2 DEF EndsAt

\* What filling an empty slot adds.
LEMMA FillStored ==
  ASSUME TypeInv, NEW k \in Keys, NEW i \in Slots,
         table[i] = Empty, cap' = cap, table' = [table EXCEPT ![i] = k]
  PROVE  Stored' = Stored \cup {k}
<1>a. table \in [Slots -> Word] /\ k # Empty BY Constants DEF TypeInv
<1>b. Stored = {table[x] : x \in Slots} \ {Empty} /\ Stored' = {table'[x] : x \in Slots} \ {Empty}
  BY DEF Stored, Slots
<1>c. table'[i] = k /\ \A x \in Slots : x # i => table'[x] = table[x] BY <1>a
<1>1. \A x \in Stored : x \in Stored' BY <1>b, <1>c
<1>2. k \in Stored' BY <1>a, <1>b, <1>c
<1>3. \A x \in Stored' : x \in Stored \cup {k} BY <1>b, <1>c
<1> QED BY <1>1, <1>2, <1>3

LEMMA FillDistinct ==
  ASSUME TypeInv, Distinct, NEW k \in Keys, NEW i \in Slots,
         table[i] = Empty, k \notin Stored, cap' = cap, table' = [table EXCEPT ![i] = k]
  PROVE  \A x, y \in Slots' : table'[x] = table'[y] /\ table'[x] # Empty => x = y
<1>a. table \in [Slots -> Word] /\ k # Empty /\ Slots' = Slots BY Constants DEF TypeInv, Slots
<1>b. \A x \in Slots : table[x] # k BY <1>a DEF Stored, Slots
<1>c. table'[i] = k /\ \A x \in Slots : x # i => table'[x] = table[x] BY <1>a
<1> QED BY <1>a, <1>b, <1>c DEF Distinct
-----------------------------------------------------------------------------
LEMMA NothingUnmoved == TypeInv /\ pc # "rehash" => Unmoved = {}
BY DEF TypeInv, Unmoved

\* An empty table.
LEMMA FreshTable ==
  ASSUME NEW n \in Nat, cap' = n, table' = Fresh(n)
  PROVE  /\ table' \in [Slots' -> Word] /\ Stored' = {} /\ Reachable'
         /\ \A i, j \in Slots' : table'[i] = table'[j] /\ table'[i] # Empty => i = j
BY DEF Fresh, Slots, Word, Stored, Reachable

LEMMA InvInit == Init => Inv /\ Set!Init
<1> SUFFICES ASSUME Init PROVE Inv /\ Set!Init OBVIOUS
<1>1. cap = 0 /\ oldCap = 0 /\ next = 0 /\ table = Fresh(0) /\ old = Fresh(0) /\ pc = "idle"
      /\ arg = None /\ answer = "new"
  BY DEF Init
<1>2. TypeInv BY <1>1 DEF TypeInv, Slots, Fresh, Word
<1>3. Slots = {} /\ next..(oldCap - 1) = {} BY <1>1 DEF Slots
<1>4. Stored = {} /\ Unmoved = {} BY <1>3 DEF Stored, Unmoved, Slots
<1>5. Reachable /\ Distinct BY <1>3, <1>4 DEF Reachable, Distinct
<1> QED BY <1>1, <1>2, <1>4, <1>5 DEF Inv, Set!Init

\* Every step of the table keeps the invariant and is a step of the set.
SetVars == <<Stored \cup Unmoved, arg, answer>>

LEMMA StepIgnore == Inv /\ Ignore => Inv' /\ [Set!Next]_SetVars
<1> SUFFICES ASSUME Inv, Ignore PROVE Inv' /\ Set!Ignore BY DEF Set!Next
<1>1. UNCHANGED <<cap, table, count, old, oldCap, next, pc, arg>> /\ pc = "idle" /\ answer' = "new"
  BY DEF Ignore
<1>2. Stored' = Stored /\ Unmoved' = Unmoved /\ Slots' = Slots BY <1>1 DEF Stored, Unmoved, Slots
<1>3. TypeInv' BY <1>1, <1>2 DEF Inv, TypeInv
<1>4. Reachable' BY <1>1, <1>2 DEF Inv, Reachable
<1>5. Distinct' BY <1>1, <1>2 DEF Inv, Distinct
<1>6. arg = None BY <1>1 DEF Inv, TypeInv
<1> QED BY <1>1, <1>2, <1>3, <1>4, <1>5, <1>6 DEF Inv, Set!Ignore

LEMMA StepCallFirst ==
  ASSUME Inv, NEW g \in Hashed, CallFirst(g)
  PROVE  Inv' /\ [Set!Next]_SetVars
<1> USE Constants
<1>1. /\ pc = "idle" /\ cap = 0 /\ cap' = MinCap /\ table' = Fresh(MinCap)
      /\ arg' = Key(g) /\ pc' = "probe" /\ UNCHANGED <<old, oldCap, next, answer>>
  BY DEF CallFirst
<1>2. TypeInv /\ oldCap = 0 /\ next = 0 /\ arg = None /\ Unmoved = {}
  BY <1>1, NothingUnmoved DEF Inv, TypeInv
<1>3. /\ table' \in [Slots' -> Word] /\ Stored' = {} /\ Reachable'
      /\ \A i, j \in Slots' : table'[i] = table'[j] /\ table'[i] # Empty => i = j
  BY <1>1, FreshTable
<1>4. Stored = {} /\ Unmoved' = {} BY <1>1, <1>2 DEF Stored, Unmoved
<1>5. TypeInv' BY <1>1, <1>2, <1>3 DEF TypeInv
<1>6. Distinct' BY <1>1, <1>2, <1>3, <1>4 DEF Distinct
<1>7. Set!Request(Key(g)) BY <1>1, <1>2, <1>3, <1>4 DEF Set!Request
<1> QED BY <1>3, <1>5, <1>6, <1>7 DEF Inv, Set!Next

LEMMA StepCall ==
  ASSUME Inv, NEW g \in Hashed, Call(g)
  PROVE  Inv' /\ [Set!Next]_SetVars
<1> USE Constants
<1>1. /\ pc = "idle" /\ cap # 0 /\ arg' = Key(g) /\ pc' = "probe"
      /\ UNCHANGED <<cap, table, old, oldCap, next, answer>>
  BY DEF Call
<1>2. Stored' = Stored /\ Unmoved' = Unmoved /\ Slots' = Slots BY <1>1 DEF Stored, Unmoved, Slots
<1>3. TypeInv' BY <1>1, <1>2 DEF Inv, TypeInv
<1>4. Reachable' BY <1>1, <1>2 DEF Inv, Reachable
<1>5. Distinct' BY <1>1, <1>2 DEF Inv, Distinct
<1>6. arg = None BY <1>1 DEF Inv, TypeInv
<1>7. Set!Request(Key(g)) BY <1>1, <1>2, <1>6 DEF Set!Request
<1> QED BY <1>3, <1>4, <1>5, <1>7 DEF Inv, Set!Next

LEMMA StepCallCrowded ==
  ASSUME Inv, NEW g \in Hashed, CallCrowded(g)
  PROVE  Inv' /\ [Set!Next]_SetVars
<1> USE Constants
<1>1. /\ pc = "idle" /\ cap # 0 /\ cap' = Doubled /\ table' = Fresh(Doubled)
      /\ old' = table /\ oldCap' = cap /\ next' = 0
      /\ arg' = Key(g) /\ pc' = "rehash" /\ UNCHANGED answer
  BY DEF CallCrowded
<1>2. TypeInv /\ arg = None /\ Unmoved = {} /\ cap \in Nat
  BY <1>1, NothingUnmoved DEF Inv, TypeInv
<1>3. Doubled \in Nat \ {0}
  <2>1. (2 * cap) % U32 \in Nat BY <1>2
  <2> QED BY <2>1 DEF Doubled
<1>4. /\ table' \in [Slots' -> Word] /\ Stored' = {} /\ Reachable'
      /\ \A i, j \in Slots' : table'[i] = table'[j] /\ table'[i] # Empty => i = j
  BY <1>1, <1>3, FreshTable
<1>5. Unmoved' = Stored BY <1>1 DEF Unmoved, Stored
<1>6. TypeInv'
  <2>1. old' \in [0..(oldCap' - 1) -> Word] BY <1>1, <1>2 DEF TypeInv, Slots
  <2> QED BY <1>1, <1>2, <1>3, <1>4, <2>1 DEF TypeInv
<1>7. Distinct'
  <2>1. \A i, j \in next'..(oldCap' - 1) : old'[i] = old'[j] /\ old'[i] # Empty => i = j
    BY <1>1 DEF Inv, Distinct, Slots
  <2> QED BY <1>4, <2>1 DEF Distinct
<1>8. Set!Request(Key(g)) BY <1>1, <1>2, <1>4, <1>5 DEF Set!Request
<1> QED BY <1>4, <1>6, <1>7, <1>8 DEF Inv, Set!Next

LEMMA StepMove == Inv /\ Move => Inv' /\ [Set!Next]_SetVars
<1> SUFFICES ASSUME Inv, Move PROVE Inv' /\ UNCHANGED SetVars OBVIOUS
<1> USE Constants
<1>1. /\ pc = "rehash" /\ next < oldCap /\ next' = next + 1
      /\ IF old[next] = Empty THEN UNCHANGED <<table, count>> ELSE Put(old[next])
      /\ UNCHANGED <<cap, old, oldCap, pc, arg, answer>>
  BY DEF Move
<1>2. TypeInv /\ cap \in Nat \ {0} /\ next \in Nat /\ oldCap \in Nat /\ Slots' = Slots
      /\ next \in 0..(oldCap - 1) /\ old[next] \in Word
  BY <1>1 DEF Inv, TypeInv, Slots
<1>3. next..(oldCap - 1) = {next} \cup next'..(oldCap - 1) /\ next \notin next'..(oldCap - 1)
  BY <1>1, <1>2
<1>4. \A i, j \in next'..(oldCap' - 1) : old'[i] = old'[j] /\ old'[i] # Empty => i = j
  BY <1>1, <1>3 DEF Inv, Distinct
<1>5. CASE old[next] = Empty
  <2>1. Unmoved' = Unmoved
    <3>1. Unmoved = {old[i] : i \in {next} \cup next'..(oldCap - 1)} \ {Empty} BY <1>3 DEF Unmoved
    <3>2. Unmoved' = {old[i] : i \in next'..(oldCap - 1)} \ {Empty} BY <1>1 DEF Unmoved
    <3> QED BY <1>5, <3>1, <3>2
  <2>2. UNCHANGED table /\ Stored' = Stored BY <1>1, <1>5 DEF Stored
  <2>3. TypeInv' BY <1>1, <1>2, <2>2 DEF TypeInv
  <2>4. Reachable' BY <1>1, <1>2, <2>2 DEF Inv, Reachable
  <2>5. Distinct' BY <1>1, <1>2, <1>4, <2>1, <2>2 DEF Inv, Distinct
  <2> QED BY <1>1, <2>1, <2>2, <2>3, <2>4, <2>5 DEF Inv, SetVars
<1>6. CASE old[next] # Empty
  <2> DEFINE k == old[next]
  <2>1. k \in Keys BY <1>2, <1>6 DEF Word
  <2>2. k \in Unmoved BY <1>2, <1>3, <1>6 DEF Unmoved
  <2>3. k \notin Stored BY <2>2 DEF Inv, Distinct
  <2>4. Unmoved' = Unmoved \ {k}
    <3>1. Unmoved = {old[i] : i \in {next} \cup next'..(oldCap - 1)} \ {Empty} BY <1>3 DEF Unmoved
    <3>2. Unmoved' = {old[i] : i \in next'..(oldCap - 1)} \ {Empty} BY <1>1 DEF Unmoved
    <3>3. \A i \in next'..(oldCap - 1) : old[i] # k BY <1>3, <1>6 DEF Inv, Distinct
    <3> QED BY <3>1, <3>2, <3>3
  <2>5. Put(k) BY <1>1, <1>6
  <2> HIDE DEF k
  <2>6. PICK i \in Slots : EndsAt(table, cap, k, Empty, i) /\ table' = [table EXCEPT ![i] = k]
    BY <2>5 DEF Put, Slots
  <2>7. PICK d \in 0..(cap - 1) : At(cap, k, d) = i /\ table[i] = Empty
                                  /\ Passes(table, cap, k, Empty, d)
    BY <2>6 DEF EndsAt
  <2>8. Passes(table, cap, k, k, d)
    <3> SUFFICES ASSUME NEW e \in 0..(d - 1) PROVE table[At(cap, k, e)] \notin {Empty, k}
      BY DEF Passes
    <3>1. table[At(cap, k, e)] # Empty BY <2>7 DEF Passes
    <3>2. e \in Nat /\ k \in Nat BY <1>2, <2>1
    <3>3. At(cap, k, e) \in Slots BY <1>2, <3>2, AtSlot DEF Slots
    <3>4. table[At(cap, k, e)] # k BY <2>3, <3>1, <3>3 DEF Stored, Slots
    <3> QED BY <3>1, <3>4
  <2>9. Reachable' BY <1>1, <1>2, <2>1, <2>6, <2>7, <2>8, FillKeepsReachable DEF Inv
  <2>10. Stored' = Stored \cup {k} BY <1>1, <1>2, <2>1, <2>6, <2>7, FillStored
  <2>11. \A x, y \in Slots' : table'[x] = table'[y] /\ table'[x] # Empty => x = y
    BY <1>1, <1>2, <2>1, <2>3, <2>6, <2>7, FillDistinct DEF Inv
  <2>12. TypeInv'
    <3>1. table' \in [Slots' -> Word] BY <1>2, <2>1, <2>6 DEF TypeInv, Word
    <3> QED BY <1>1, <1>2, <3>1 DEF TypeInv
  <2>13. Distinct'
    <3>1. Stored' \cap Unmoved' = {} BY <2>4, <2>10 DEF Inv, Distinct
    <3> QED BY <1>4, <2>11, <3>1 DEF Distinct
  <2>14. Stored' \cup Unmoved' = Stored \cup Unmoved BY <2>2, <2>4, <2>10
  <2> QED BY <1>1, <2>9, <2>12, <2>13, <2>14 DEF Inv, SetVars
<1> QED BY <1>5, <1>6

LEMMA StepMoved == Inv /\ Moved => Inv' /\ [Set!Next]_SetVars
<1> SUFFICES ASSUME Inv, Moved PROVE Inv' /\ UNCHANGED SetVars OBVIOUS
<1>1. /\ pc = "rehash" /\ next >= oldCap /\ pc' = "probe"
      /\ old' = Fresh(0) /\ oldCap' = 0 /\ next' = 0
      /\ UNCHANGED <<cap, table, arg, answer>>
  BY DEF Moved
<1>2. TypeInv /\ Slots' = Slots /\ Stored' = Stored BY <1>1 DEF Inv, Slots, Stored
<1>3. Unmoved = {} /\ Unmoved' = {} BY <1>1, <1>2 DEF Unmoved, TypeInv
<1>4. TypeInv' BY <1>1, <1>2 DEF TypeInv, Fresh, Word
<1>5. Reachable' BY <1>1, <1>2 DEF Inv, Reachable
<1>6. Distinct'
  <2>1. next'..(oldCap' - 1) = {} BY <1>1
  <2> QED BY <1>1, <1>2, <1>3, <2>1 DEF Inv, Distinct
<1> QED BY <1>1, <1>2, <1>3, <1>4, <1>5, <1>6 DEF Inv, SetVars

LEMMA StepProbe == Inv /\ Probe => Inv' /\ [Set!Next]_SetVars
<1> SUFFICES ASSUME Inv, Probe PROVE Inv' /\ Set!Answer BY DEF Set!Next
<1> USE Constants
<1>1. /\ pc = "probe" /\ pc' = "idle" /\ arg' = None
      /\ UNCHANGED <<cap, old, oldCap, next>>
  BY DEF Probe
<1>2. TypeInv /\ arg \in Keys /\ cap \in Nat \ {0} /\ Slots' = Slots /\ Unmoved = {} /\ Unmoved' = {}
  <2>1. Unmoved = {} BY <1>1, NothingUnmoved DEF Inv
  <2> QED BY <1>1, <2>1 DEF Inv, TypeInv, Slots, Unmoved
<1>3. PICK i \in Slots :
        /\ EndsAt(table, cap, arg, arg, i)
        /\ answer' = IF table[i] = arg THEN "seen" ELSE "new"
        /\ table' = [table EXCEPT ![i] = arg]
  BY DEF Probe, Slots
<1>4. table[i] \in {Empty, arg} BY <1>3 DEF EndsAt
<1>5. table' \in [Slots -> Word] BY <1>2, <1>3 DEF TypeInv, Word
<1>6. TypeInv' BY <1>1, <1>2, <1>5 DEF TypeInv
<1>7. next'..(oldCap' - 1) = {} BY <1>1, <1>2 DEF TypeInv
<1>8. CASE table[i] = arg
  <2>1. table' = table BY <1>2, <1>3, <1>8 DEF TypeInv
  <2>2. arg \in Stored /\ Stored' = Stored BY <1>1, <1>2, <1>8, <2>1 DEF Stored, Slots
  <2>3. Reachable' BY <1>1, <1>2, <2>1 DEF Inv, Reachable
  <2>4. Distinct' BY <1>1, <1>2, <1>7, <2>1 DEF Inv, Distinct
  <2>5. Set!Answer BY <1>1, <1>2, <1>3, <1>8, <2>2 DEF Set!Answer
  <2> QED BY <1>6, <2>3, <2>4, <2>5 DEF Inv
<1>9. CASE table[i] = Empty
  <2>1. arg \notin Stored BY <1>2, <1>3, <1>9, EmptyMeansAbsent DEF Inv
  <2>2. \E d \in 0..(cap - 1) : At(cap, arg, d) = i /\ Passes(table, cap, arg, arg, d)
    BY <1>3 DEF EndsAt
  <2>3. Reachable' BY <1>1, <1>2, <1>3, <1>9, <2>2, FillKeepsReachable DEF Inv
  <2>4. Stored' = Stored \cup {arg} BY <1>1, <1>2, <1>3, <1>9, FillStored
  <2>5. \A x, y \in Slots' : table'[x] = table'[y] /\ table'[x] # Empty => x = y
    BY <1>1, <1>2, <1>3, <1>9, <2>1, FillDistinct DEF Inv
  <2>6. Distinct' BY <1>2, <1>7, <2>5 DEF Distinct
  <2>7. Set!Answer BY <1>1, <1>2, <1>3, <1>9, <2>1, <2>4 DEF Set!Answer
  <2> QED BY <1>6, <2>3, <2>6, <2>7 DEF Inv
<1> QED BY <1>4, <1>8, <1>9

LEMMA StepStutter == Inv /\ UNCHANGED vars => Inv' /\ [Set!Next]_SetVars
<1> SUFFICES ASSUME Inv, UNCHANGED vars PROVE Inv' /\ UNCHANGED SetVars OBVIOUS
<1>1. UNCHANGED <<cap, table, old, oldCap, next, pc, arg, answer>> BY DEF vars
<1>2. Stored' = Stored /\ Unmoved' = Unmoved /\ Slots' = Slots BY <1>1 DEF Stored, Unmoved, Slots
<1>3. TypeInv' BY <1>1, <1>2 DEF Inv, TypeInv
<1>4. Reachable' BY <1>1, <1>2 DEF Inv, Reachable
<1>5. Distinct' BY <1>1, <1>2 DEF Inv, Distinct
<1> QED BY <1>1, <1>2, <1>3, <1>4, <1>5 DEF Inv, SetVars

LEMMA Step == Inv /\ [Next]_vars => Inv' /\ [Set!Next]_SetVars
<1> SUFFICES ASSUME Inv, [Next]_vars PROVE Inv' /\ [Set!Next]_SetVars OBVIOUS
<1>1. ASSUME NEW g \in Hashed, CallFirst(g) \/ CallCrowded(g) \/ Call(g)
      PROVE  Inv' /\ [Set!Next]_SetVars
  BY <1>1, StepCallFirst, StepCallCrowded, StepCall
<1> QED BY <1>1, StepIgnore, StepMove, StepMoved, StepProbe, StepStutter DEF Next

-----------------------------------------------------------------------------
\* Between calls skeleton_graph_seen answers yes exactly for the graphs whose key was
\* added: after any number of insertions, collisions and rehashes.
THEOREM LookupCorrect == Spec => []LookupExact
<1>1. Inv => LookupExact
  <2> SUFFICES ASSUME Inv, NEW g \in Hashed PROVE Seen(g) <=> Key(g) \in Stored
    BY DEF LookupExact
  <2>1. Key(g) \in Keys /\ Key(g) # Empty /\ Hash[g] # 0 BY Constants DEF Hashed
  <2>2. ASSUME Seen(g) PROVE Key(g) \in Stored
    BY <2>1, <2>2 DEF Seen, Found, Stored
  <2>3. ASSUME Key(g) \in Stored PROVE Seen(g)
    <3>1. PICK i \in Slots : table[i] = Key(g) BY <2>3 DEF Stored, Slots
    <3>2. EndsAt(table, cap, Key(g), Key(g), i) BY <2>1, <3>1 DEF Inv, Reachable
    <3>3. cap # 0 BY <3>1 DEF Slots
    <3> QED BY <2>1, <3>1, <3>2, <3>3 DEF Seen, Found, Slots
  <2> QED BY <2>2, <2>3
<1>2. Init => Inv BY InvInit
<1>3. Inv /\ [Next]_vars => Inv' BY Step
<1> QED BY <1>1, <1>2, <1>3, PTL DEF Spec

\* The open-addressing table implements the set that SkeletonStage takes it for: a
\* request is answered with "seen" exactly when its key was recorded before.
THEOREM TableIsSet == Spec => ImplementsSet
<1>1. Init => Inv /\ Set!Init BY InvInit
<1>2. Inv /\ [Next]_vars => Inv' /\ [Set!Next]_<<Stored \cup Unmoved, arg, answer>>
  BY Step DEF SetVars
<1> QED BY <1>1, <1>2, PTL DEF Spec, ImplementsSet, Set!Spec

-----------------------------------------------------------------------------
(* The event pair map.                                                      *)

\* The events that edges join.
Events == {e[1] : e \in Edges} \cup {e[2] : e \in Edges}

\* What PairAssumption says of the events.
LEMMA EventFacts ==
  /\ Empty \notin Events /\ \A e \in Events : EventHash[e] \in Nat
  /\ \A e \in Edges : e[1] \in Events /\ e[2] \in Events /\ e = <<e[1], e[2]>>
<1>1. \A e \in Edges : /\ e[1] # Empty /\ EventHash[e[1]] \in Nat
                       /\ e[2] # Empty /\ EventHash[e[2]] \in Nat
                       /\ e = <<e[1], e[2]>>
  BY PairAssumption
<1> QED BY <1>1 DEF Events

\* A table of n slots and its slots in use.
IsTable(key, n) == n \in Nat \ {0} /\ key \in [0..(n - 1) -> Events \cup {Empty}]
Used(key, n) == {i \in 0..(n - 1) : key[i] # Empty}

\* A search for a key that is stored ends at its slot; so no key is stored twice.
Probed(key, n) == \A i \in Used(key, n) : Pairs!ProbeEnd(key, n, key[i], key[i]) = i

\* A search for k from the slot of e ends after d others.
Ends(key, n, e, k, d) ==
  /\ d \in 0..(n - 1)
  /\ key[At(n, EventHash[e], d)] \in {Empty, k}
  /\ \A c \in 0..(d - 1) : key[At(n, EventHash[e], c)] \notin {Empty, k}

\* Both tables probe alike.
LEMMA AtIs == \A n, h, d : Pairs!At(n, h, d) = At(n, h, d)
BY DEF At, Pairs!At

\* A remainder is the same a divisor further.
LEMMA ModAdd == ASSUME NEW n \in Nat \ {0}, NEW x \in Nat PROVE (x + n) % n = x % n
<1> DEFINE q == x \div n
           r == x % n
           p == (x + n) \div n
           s == (x + n) % n
<1>1. q \in Int /\ p \in Int /\ r \in 0..(n - 1) /\ s \in 0..(n - 1) OBVIOUS
<1>2. x = n * q + r OBVIOUS
<1>3. x + n = n * p + s OBVIOUS
<1> HIDE DEF q, r, p, s
<1>4. n * p = n * q + n + r - s BY <1>1, <1>2, <1>3
<1>5. n * (q + 1) = n * q + n /\ n * (q + 2) = n * q + 2 * n BY <1>1
<1>6. p > q
  <2> SUFFICES ASSUME p <= q PROVE FALSE BY <1>1
  <2>1. n * p <= n * q BY <1>1
  <2>2. n * p \in Int /\ n * q \in Int BY <1>1
  <2> QED BY <1>1, <1>4, <2>1, <2>2
<1>7. p < q + 2
  <2> SUFFICES ASSUME p >= q + 2 PROVE FALSE BY <1>1
  <2>1. n * p >= n * (q + 2) BY <1>1
  <2>2. n * p \in Int /\ n * q \in Int BY <1>1
  <2> QED BY <1>1, <1>4, <1>5, <2>1, <2>2
<1>8. p = q + 1 BY <1>1, <1>6, <1>7
<1>9. n * q \in Int BY <1>1
<1>10. r = s BY <1>1, <1>4, <1>5, <1>8, <1>9
<1> QED BY <1>10 DEF r, s

\* A probe stays within the table.
LEMMA AtInTable ==
  ASSUME NEW n \in Nat \ {0}, NEW h \in Nat, NEW d \in Nat
  PROVE  At(n, h, d) \in 0..(n - 1)
BY DEF At

\* A search looks at every slot, wherever it starts.
LEMMA AllSlots ==
  ASSUME NEW n \in Nat \ {0}, NEW h \in Nat, NEW i \in 0..(n - 1)
  PROVE  \E d \in 0..(n - 1) : At(n, h, d) = i
<1> DEFINE S == {x \in Nat : \A y \in 0..(n - 1) : \E d \in 0..(n - 1) : At(n, x, d) = y}
<1>1. 0 \in S
  <2> SUFFICES ASSUME NEW y \in 0..(n - 1) PROVE At(n, 0, y) = y OBVIOUS
  <2> QED BY DEF At
<1>2. ASSUME NEW x \in Nat, x \in S PROVE x + 1 \in S
  <2> SUFFICES ASSUME NEW y \in 0..(n - 1) PROVE \E d \in 0..(n - 1) : At(n, x + 1, d) = y OBVIOUS
  <2>1. PICK d \in 0..(n - 1) : At(n, x, d) = y BY <1>2
  <2>2. CASE d = 0
    <3>1. (x + 1) + (n - 1) = x + n /\ x + 0 = x OBVIOUS
    <3>2. At(n, x + 1, n - 1) = y BY <2>1, <2>2, <3>1, ModAdd DEF At
    <3> QED BY <3>2
  <2>3. CASE d # 0
    <3>1. d - 1 \in 0..(n - 1) /\ (x + 1) + (d - 1) = x + d BY <2>3
    <3>2. At(n, x + 1, d - 1) = y BY <2>1, <3>1 DEF At
    <3> QED BY <3>1, <3>2
  <2> QED BY <2>2, <2>3
<1> HIDE DEF S
<1>3. h \in S BY <1>1, <1>2, SetInduction
<1> QED BY <1>3 DEF S

\* A search ends once.
LEMMA EndsUnique ==
  ASSUME NEW key, NEW n \in Nat \ {0}, NEW e, NEW k, NEW c, NEW d,
         Ends(key, n, e, k, c), Ends(key, n, e, k, d)
  PROVE  c = d
<1>1. c \in Int /\ d \in Int BY DEF Ends
<1>2. ~(c < d)
  <2> SUFFICES ASSUME c < d PROVE FALSE OBVIOUS
  <2>1. c \in 0..(d - 1) BY <1>1 DEF Ends
  <2> QED BY <2>1 DEF Ends
<1>3. ~(d < c)
  <2> SUFFICES ASSUME d < c PROVE FALSE OBVIOUS
  <2>1. d \in 0..(c - 1) BY <1>1 DEF Ends
  <2> QED BY <2>1 DEF Ends
<1> QED BY <1>1, <1>2, <1>3

\* What ProbeEnd returns: the end of the search, or -1 when there is none.
LEMMA ProbeEnds ==
  ASSUME NEW key, NEW n \in Nat \ {0}, NEW e, EventHash[e] \in Nat, NEW k
  PROVE  LET j == Pairs!ProbeEnd(key, n, e, k) IN
         \/ j = -1 /\ \A i \in 0..(n - 1) : key[i] \notin {Empty, k}
         \/ j \in 0..(n - 1) /\ \E d : Ends(key, n, e, k, d) /\ j = At(n, EventHash[e], d)
<1> DEFINE h == EventHash[e]
           ends == {d \in 0..(n - 1) : key[At(n, h, d)] \in {Empty, k}}
           j == Pairs!ProbeEnd(key, n, e, k)
<1>1. j = IF ends = {} THEN -1 ELSE At(n, h, Pairs!Min(ends))
  BY AtIs DEF Pairs!ProbeEnd
<1>2. CASE ends = {}
  <2>1. ASSUME NEW i \in 0..(n - 1) PROVE key[i] \notin {Empty, k}
    <3>1. PICK d \in 0..(n - 1) : At(n, h, d) = i BY AllSlots
    <3> QED BY <1>2, <3>1
  <2> QED BY <1>1, <1>2, <2>1
<1>3. CASE ends # {}
  <2>1. ends \subseteq Nat OBVIOUS
  <2> DEFINE d == Pairs!Min(ends)
  <2>2. d \in ends /\ \A y \in ends : d <= y
    <3> HIDE DEF ends
    <3> QED BY <1>3, <2>1, LeastNumber DEF Pairs!Min
  <2>3. d \in 0..(n - 1) /\ key[At(n, h, d)] \in {Empty, k} BY <2>2
  <2>4. ASSUME NEW c \in 0..(d - 1) PROVE key[At(n, h, c)] \notin {Empty, k}
    <3>1. d \in Int BY <2>3
    <3>2. c \in 0..(n - 1) /\ ~(d <= c) BY <2>3, <2>4, <3>1
    <3> QED BY <2>2, <3>2
  <2>5. Ends(key, n, e, k, d) BY <2>3, <2>4 DEF Ends
  <2>6. j = At(n, h, d) BY <1>1, <1>3
  <2>7. d \in Nat BY <2>3
  <2> HIDE DEF d, ends, j
  <2>8. j \in 0..(n - 1) BY <2>6, <2>7, AtInTable
  <2> QED BY <2>5, <2>6, <2>8 DEF j
<1> QED BY <1>2, <1>3

\* Where a search ends is where ProbeEnd says.
LEMMA ProbeIs ==
  ASSUME NEW key, NEW n \in Nat \ {0}, NEW e, EventHash[e] \in Nat, NEW k, NEW d, Ends(key, n, e, k, d)
  PROVE  Pairs!ProbeEnd(key, n, e, k) = At(n, EventHash[e], d)
<1> DEFINE j == Pairs!ProbeEnd(key, n, e, k)
<1> HIDE DEF j
<1>1. \/ j = -1 /\ \A i \in 0..(n - 1) : key[i] \notin {Empty, k}
      \/ j \in 0..(n - 1) /\ \E c : Ends(key, n, e, k, c) /\ j = At(n, EventHash[e], c)
  BY ProbeEnds DEF j
<1>2. At(n, EventHash[e], d) \in 0..(n - 1) /\ key[At(n, EventHash[e], d)] \in {Empty, k}
  <2>1. d \in Nat /\ key[At(n, EventHash[e], d)] \in {Empty, k} BY DEF Ends
  <2> QED BY <2>1, AtInTable
<1>3. PICK c : Ends(key, n, e, k, c) /\ j = At(n, EventHash[e], c) BY <1>1, <1>2
<1>4. c = d BY <1>3, EndsUnique
<1> QED BY <1>3, <1>4 DEF j

\* A key is looked up: its slot, or else none holds it.
LEMMA Lookup ==
  ASSUME NEW key, NEW n, IsTable(key, n), Probed(key, n), NEW k \in Events
  PROVE  LET j == Pairs!ProbeEnd(key, n, k, k) IN
         /\ j \in 0..(n - 1) \/ j = -1
         /\ j \in 0..(n - 1) => key[j] \in {Empty, k}
         /\ j = -1 => Used(key, n) = 0..(n - 1)
         /\ \A i \in Used(key, n) : key[i] = k => j = i
<1> DEFINE j == Pairs!ProbeEnd(key, n, k, k)
<1>1. n \in Nat \ {0} /\ EventHash[k] \in Nat BY EventFacts DEF IsTable
<1>2. \A i \in Used(key, n) : key[i] = k => j = i BY DEF Probed
<1> HIDE DEF j
<1>3. \/ j = -1 /\ \A i \in 0..(n - 1) : key[i] \notin {Empty, k}
      \/ j \in 0..(n - 1) /\ \E c : Ends(key, n, k, k, c) /\ j = At(n, EventHash[k], c)
  BY <1>1, ProbeEnds DEF j
<1>4. j \in 0..(n - 1) => key[j] \in {Empty, k} BY <1>1, <1>3 DEF Ends
<1>5. j = -1 => Used(key, n) = 0..(n - 1) BY <1>1, <1>3 DEF Used
<1> QED BY <1>2, <1>3, <1>4, <1>5 DEF j

\* There are at most as many slots in use as slots.
LEMMA UsedFinite ==
  ASSUME NEW key, NEW n \in Nat
  PROVE  /\ IsFiniteSet(Used(key, n)) /\ Cardinality(Used(key, n)) \in 0..n
         /\ Cardinality(Used(key, n)) = n <=> Used(key, n) = 0..(n - 1)
<1>1. IsFiniteSet(0..(n - 1)) /\ Cardinality(0..(n - 1)) = n
  <2>1. 0 \in Int /\ n - 1 \in Int OBVIOUS
  <2>2. IsFiniteSet(0..(n - 1)) /\ Cardinality(0..(n - 1)) = IF 0 > n - 1 THEN 0 ELSE (n - 1) - 0 + 1
    BY <2>1, FS_Interval
  <2> QED BY <2>2
<1>2. Used(key, n) \in SUBSET (0..(n - 1)) BY DEF Used
<1>3. IsFiniteSet(Used(key, n)) /\ Cardinality(Used(key, n)) <= n
      /\ (n = Cardinality(Used(key, n)) => 0..(n - 1) = Used(key, n))
  BY <1>1, <1>2, FS_Subset
<1>4. Cardinality(Used(key, n)) \in Nat BY <1>3, FS_CardinalityType
<1> QED BY <1>1, <1>3, <1>4

\* A key is put into the empty slot that the search for it, or for an empty slot, ends at.
LEMMA FillTable ==
  ASSUME NEW key, NEW n, NEW k \in Events, NEW x, NEW j \in 0..(n - 1), NEW new,
         IsTable(key, n), Probed(key, n), x = Empty \/ x = k, \A i \in Used(key, n) : key[i] # k,
         Pairs!ProbeEnd(key, n, k, x) = j, key[j] = Empty, new = [key EXCEPT ![j] = k]
  PROVE  /\ IsTable(new, n) /\ Probed(new, n)
         /\ Used(new, n) = Used(key, n) \cup {j} /\ j \notin Used(key, n)
         /\ Cardinality(Used(new, n)) = Cardinality(Used(key, n)) + 1
<1>0. n \in Nat \ {0} /\ k # Empty /\ EventHash[k] \in Nat /\ key \in [0..(n - 1) -> Events \cup {Empty}]
  BY EventFacts DEF IsTable
<1>1. IsTable(new, n) BY <1>0 DEF IsTable
<1>2. new[j] = k /\ \A i \in 0..(n - 1) : i # j => new[i] = key[i] BY <1>0
<1>3. Used(new, n) = Used(key, n) \cup {j} /\ j \notin Used(key, n) BY <1>0, <1>2 DEF Used
<1>4. \A i \in Used(key, n) : key[i] = new[i] /\ i # j /\ key[i] \in Events /\ key[i] # Empty
  BY <1>0, <1>2 DEF Used
<1>5. ASSUME NEW i \in Used(key, n) PROVE Pairs!ProbeEnd(new, n, new[i], new[i]) = i
  <2> DEFINE y == key[i]
  <2>1. y \in Events /\ y # Empty /\ y = new[i] /\ EventHash[y] \in Nat /\ i \in 0..(n - 1)
    BY <1>4, EventFacts DEF Used
  <2>2. Pairs!ProbeEnd(key, n, y, y) = i BY DEF Probed
  <2> HIDE DEF y
  <2>3. PICK d : Ends(key, n, y, y, d) /\ i = At(n, EventHash[y], d)
    <3>1. i # -1 BY <2>1
    <3> QED BY <1>0, <2>1, <2>2, <3>1, ProbeEnds
  <2>4. ASSUME NEW c \in 0..(d - 1) PROVE new[At(n, EventHash[y], c)] \notin {Empty, y}
    <3>a. d \in 0..(n - 1) BY <2>3 DEF Ends
    <3>b. c \in Nat BY <3>a
    <3>1. At(n, EventHash[y], c) \in 0..(n - 1) BY <1>0, <2>1, <3>b, AtInTable
    <3>2. key[At(n, EventHash[y], c)] \notin {Empty, y} BY <2>3 DEF Ends
    <3> QED BY <1>0, <1>2, <3>1, <3>2
  <2>5. Ends(new, n, y, y, d) BY <2>1, <2>3, <2>4 DEF Ends
  <2> QED BY <1>0, <2>1, <2>3, <2>5, ProbeIs
<1>6. Pairs!ProbeEnd(new, n, k, k) = j
  <2>1. PICK d : Ends(key, n, k, x, d) /\ j = At(n, EventHash[k], d)
    <3>1. j # -1 BY <1>0
    <3> QED BY <1>0, <3>1, ProbeEnds
  <2>2. ASSUME NEW c \in 0..(d - 1) PROVE new[At(n, EventHash[k], c)] \notin {Empty, k}
    <3>a. d \in 0..(n - 1) BY <2>1 DEF Ends
    <3>b. c \in Nat BY <3>a
    <3>1. At(n, EventHash[k], c) \in 0..(n - 1) BY <1>0, <3>b, AtInTable
    <3>2. key[At(n, EventHash[k], c)] # Empty BY <2>1 DEF Ends
    <3>3. At(n, EventHash[k], c) \in Used(key, n) BY <3>1, <3>2 DEF Used
    <3> QED BY <1>4, <3>2, <3>3
  <2>3. Ends(new, n, k, k, d) BY <1>2, <2>1, <2>2 DEF Ends
  <2> QED BY <1>0, <2>1, <2>3, ProbeIs
<1>7. Probed(new, n) BY <1>2, <1>3, <1>5, <1>6 DEF Probed
<1>8. Cardinality(Used(new, n)) = Cardinality(Used(key, n)) + 1
  BY <1>0, <1>3, UsedFinite, FS_AddElement
<1> QED BY <1>1, <1>3, <1>7, <1>8

Written(key, i, k) == [key EXCEPT ![i] = k]

\* A key is written to the slot that the search for it ends at, empty or not.
LEMMA PutKey ==
  ASSUME NEW key, NEW n, NEW k \in Events, NEW i \in 0..(n - 1), NEW new, IsTable(key, n), Probed(key, n),
         Pairs!ProbeEnd(key, n, k, k) = i, new = Written(key, i, k)
  PROVE  /\ IsTable(new, n) /\ Probed(new, n) /\ Used(new, n) = Used(key, n) \cup {i}
         /\ Cardinality(Used(new, n))
              = IF key[i] # k THEN Cardinality(Used(key, n)) + 1 ELSE Cardinality(Used(key, n))
         /\ key[i] \in {Empty, k} /\ \A j \in Used(key, n) : key[j] = k => j = i
<1>0. new = [key EXCEPT ![i] = k] BY DEF Written
<1> DEFINE p == Pairs!ProbeEnd(key, n, k, k)
<1>1. key[i] \in {Empty, k} /\ \A j \in Used(key, n) : key[j] = k => j = i
  <2>1. (p \in 0..(n - 1) => key[p] \in {Empty, k}) /\ \A j \in Used(key, n) : key[j] = k => p = j
    BY Lookup
  <2> QED BY <2>1
<1>2. key \in [0..(n - 1) -> Events \cup {Empty}] /\ k # Empty BY EventFacts DEF IsTable
<1> HIDE DEF p
<1>3. CASE key[i] = k
  <2>1. new = key BY <1>0, <1>2, <1>3
  <2>2. i \in Used(key, n) BY <1>2, <1>3 DEF Used
  <2> QED BY <1>1, <1>3, <2>1, <2>2
<1>4. CASE key[i] # k
  <2>1. key[i] = Empty /\ \A j \in Used(key, n) : key[j] # k BY <1>1, <1>4
  <2>2. IsTable(new, n) /\ Probed(new, n) BY <1>0, <2>1, FillTable
  <2>3. Used(new, n) = Used(key, n) \cup {i} /\ i \notin Used(key, n)
    <3>1. new[i] = k /\ \A j \in 0..(n - 1) : j # i => new[j] = key[j] BY <1>0, <1>2
    <3> QED BY <1>2, <2>1, <3>1 DEF Used
  <2>4. Cardinality(Used(new, n)) = Cardinality(Used(key, n)) + 1
    <3>1. IsFiniteSet(Used(key, n)) BY UsedFinite DEF IsTable
    <3> QED BY <2>3, <3>1, FS_AddElement
  <2> QED BY <1>1, <1>4, <2>2, <2>3, <2>4
<1> QED BY <1>3, <1>4

\* A search for an empty slot finds one if there is one.
LEMMA FindsEmpty ==
  ASSUME NEW key, NEW n \in Nat \ {0}, NEW e, EventHash[e] \in Nat, \E i \in 0..(n - 1) : key[i] = Empty
  PROVE  /\ Pairs!ProbeEnd(key, n, e, Empty) \in 0..(n - 1)
         /\ key[Pairs!ProbeEnd(key, n, e, Empty)] = Empty
<1>1. \/ /\ Pairs!ProbeEnd(key, n, e, Empty) = -1
         /\ \A i \in 0..(n - 1) : key[i] \notin {Empty, Empty}
      \/ /\ Pairs!ProbeEnd(key, n, e, Empty) \in 0..(n - 1)
         /\ \E d : /\ Ends(key, n, e, Empty, d)
                  /\ Pairs!ProbeEnd(key, n, e, Empty) = At(n, EventHash[e], d)
  BY ProbeEnds
<1> QED BY <1>1 DEF Ends

(* A table grows. *)
NoKeys(n) == [key |-> [j \in 0..(2 * n - 1) |-> Empty], from |-> [j \in 0..(2 * n - 1) |-> n]]
Put1(key, n, i, r) ==
  LET j == Pairs!ProbeEnd(r.key, 2 * n, key[i - 1], Empty)
  IN  IF key[i - 1] = Empty THEN r
      ELSE [key |-> [r.key EXCEPT ![j] = key[i - 1]], from |-> [r.from EXCEPT ![j] = i - 1]]
PlaceDef(f, key, n) ==
  f = [i \in 0..n |-> IF i = 0 THEN NoKeys(n) ELSE Put1(key, n, i, f[i - 1])]

\* Placed, without its LET.
LEMMA PlacedIs ==
  ASSUME NEW key, NEW n
  PROVE  Pairs!Placed(key, n) = (CHOOSE f : PlaceDef(f, key, n))[n]
BY DEF Pairs!Placed, PlaceDef, NoKeys, Put1

\* The recursion of Placed has a solution.
LEMMA PlaceExists ==
  ASSUME NEW key, NEW n, IsTable(key, n)
  PROVE  \E f : PlaceDef(f, key, n)
<1> DEFINE V == Events \cup {Empty}
           X == [key : [0..(2 * n - 1) -> V], from : [0..(2 * n - 1) -> 0..n]]
           F == [a \in (1..n) \X X |-> Put1(key, n, a[1], a[2])]
           b == NoKeys(n)
<1>1. n \in Nat \ {0} /\ key \in [0..(n - 1) -> V] BY DEF IsTable
<1>2. b \in X BY <1>1 DEF NoKeys
<1>3. ASSUME NEW i \in 1..n, NEW r \in X PROVE Put1(key, n, i, r) \in X
  <2>1. i - 1 \in 0..n /\ key[i - 1] \in V BY <1>1
  <2> QED BY <2>1 DEF Put1
<1> HIDE DEF X
<1>4. F \in [(1..n) \X X -> X] BY <1>3
<1>5. \A i \in 1..n, r \in X : F[<<i, r>>] = Put1(key, n, i, r) OBVIOUS
<1> HIDE DEF F, b, V
<1>6. PICK f \in [0..n -> X] : Iterates(f, n, b, F) BY <1>1, <1>2, <1>4, Iteration
<1>7. ASSUME NEW i \in 0..n, i # 0 PROVE f[i] = Put1(key, n, i, f[i - 1])
  <2>1. i \in 1..n /\ i - 1 \in 0..n BY <1>1, <1>7
  <2> QED BY <1>5, <1>6, <2>1 DEF Iterates
<1>8. f[0] = NoKeys(n) BY <1>6 DEF Iterates, b
<1>9. f = [i \in 0..n |-> IF i = 0 THEN NoKeys(n) ELSE Put1(key, n, i, f[i - 1])] BY <1>6, <1>7, <1>8
<1> QED BY <1>9 DEF PlaceDef

\* The keys of the first i slots have been put.
Putting(key, n, i, r) ==
  /\ r = [key |-> r.key, from |-> r.from]
  /\ IsTable(r.key, 2 * n) /\ Probed(r.key, 2 * n) /\ r.from \in [0..(2 * n - 1) -> 0..n]
  /\ \A j \in 0..(2 * n - 1) : r.key[j] = Empty <=> r.from[j] = n
  /\ \A j \in Used(r.key, 2 * n) : r.from[j] \in 0..(i - 1) /\ r.key[j] = key[r.from[j]]
  /\ \A x \in 0..(i - 1) : key[x] # Empty => \E j \in Used(r.key, 2 * n) : r.from[j] = x
  /\ Cardinality(Used(r.key, 2 * n)) = Cardinality(Used(key, i))

\* Nothing is put at first,
LEMMA PutFirst ==
  ASSUME NEW key, NEW n, IsTable(key, n)
  PROVE  Putting(key, n, 0, NoKeys(n))
<1> DEFINE r == NoKeys(n)
<1>1. n \in Nat \ {0} BY DEF IsTable
<1>2. r = [key |-> r.key, from |-> r.from] /\ r.key = [j \in 0..(2 * n - 1) |-> Empty]
      /\ r.from = [j \in 0..(2 * n - 1) |-> n]
  BY DEF NoKeys
<1> HIDE DEF r
<1>3. 2 * n \in Nat \ {0} BY <1>1
<1>4. IsTable(r.key, 2 * n) BY <1>2, <1>3 DEF IsTable
<1>5. Used(r.key, 2 * n) = {} /\ Used(key, 0) = {} BY <1>2 DEF Used
<1>6. Probed(r.key, 2 * n) BY <1>5 DEF Probed
<1>7. n \in 0..n /\ r.from \in [0..(2 * n - 1) -> 0..n] BY <1>1, <1>2
<1>8. \A j \in 0..(2 * n - 1) : r.key[j] = Empty <=> r.from[j] = n BY <1>2
<1>9. \A x \in 0..(0 - 1) : FALSE OBVIOUS
<1> QED BY <1>2, <1>4, <1>5, <1>6, <1>7, <1>8, <1>9 DEF Putting, r

\* then the key of the next slot, if it has one.
LEMMA PutNext ==
  ASSUME NEW key, NEW n, IsTable(key, n), Probed(key, n), NEW i \in 1..n, NEW r, Putting(key, n, i - 1, r)
  PROVE  Putting(key, n, i, Put1(key, n, i, r))
<1> DEFINE k == key[i - 1]
           N == 2 * n
<1>0. n \in Nat \ {0} /\ key \in [0..(n - 1) -> Events \cup {Empty}] BY DEF IsTable
<1>1. i - 1 \in 0..(n - 1) /\ i \in Nat /\ N \in Nat \ {0} /\ i - 1 \in Nat /\ i - 1 # n
      /\ i <= n /\ (i - 1) + 1 = i BY <1>0
<1>2. \A x \in 0..(i - 1) : x \in 0..((i - 1) - 1) \/ x = i - 1 BY <1>1
<1>3. \A x \in 0..((i - 1) - 1) : x \in 0..(i - 1) /\ x # i - 1 BY <1>1
<1>a. i - 1 \in 0..(i - 1) BY <1>1
<1>4. /\ r = [key |-> r.key, from |-> r.from]
      /\ IsTable(r.key, N) /\ Probed(r.key, N) /\ r.from \in [0..(N - 1) -> 0..n]
      /\ \A j \in 0..(N - 1) : r.key[j] = Empty <=> r.from[j] = n
      /\ \A j \in Used(r.key, N) : r.from[j] \in 0..((i - 1) - 1) /\ r.key[j] = key[r.from[j]]
      /\ \A x \in 0..((i - 1) - 1) : key[x] # Empty => \E j \in Used(r.key, N) : r.from[j] = x
      /\ Cardinality(Used(r.key, N)) = Cardinality(Used(key, i - 1))
  BY DEF Putting
<1> HIDE DEF N
<1>5. CASE k = Empty
  <2>1. Put1(key, n, i, r) = r BY <1>5 DEF Put1
  <2>2. Used(key, i) = Used(key, i - 1) BY <1>2, <1>3, <1>5 DEF Used
  <2>3. \A j \in Used(r.key, N) : r.from[j] \in 0..(i - 1) BY <1>3, <1>4
  <2>4. \A x \in 0..(i - 1) : key[x] # Empty => \E j \in Used(r.key, N) : r.from[j] = x
    BY <1>2, <1>4, <1>5
  <2> QED BY <1>4, <2>1, <2>2, <2>3, <2>4 DEF Putting, N
<1>6. CASE k # Empty
  <2> DEFINE j == Pairs!ProbeEnd(r.key, N, k, Empty)
             new == [r.key EXCEPT ![j] = k]
             nf == [r.from EXCEPT ![j] = i - 1]
  <2>1. Put1(key, n, i, r) = [key |-> new, from |-> nf] BY <1>6 DEF Put1, N
  <2>2. k \in Events /\ EventHash[k] \in Nat
    <3>1. k \in Events BY <1>0, <1>1, <1>6
    <3> QED BY <3>1, EventFacts
  <2>3. \A y \in Used(r.key, N) : r.key[y] # k
    <3> SUFFICES ASSUME NEW y \in Used(r.key, N), r.key[y] = k PROVE FALSE OBVIOUS
    <3> DEFINE x == r.from[y]
    <3>1. x \in 0..((i - 1) - 1) /\ key[x] = k BY <1>4
    <3> HIDE DEF x
    <3>a. x \in 0..(n - 1) /\ x # i - 1 BY <1>0, <1>1, <3>1
    <3>2. x \in Used(key, n) /\ i - 1 \in Used(key, n) BY <1>1, <1>6, <3>1, <3>a DEF Used
    <3> QED BY <3>1, <3>2, <3>a DEF Probed
  <2>4. j \in 0..(N - 1) /\ r.key[j] = Empty
    <3> HIDE DEF j, k
    <3>a. Pairs!ProbeEnd(r.key, N, k, Empty) = j BY DEF j
    <3>2. \E y \in 0..(N - 1) : r.key[y] = Empty
      <4>1. Cardinality(Used(key, i - 1)) \in 0..(i - 1) BY <1>1, UsedFinite
      <4>2. N = 2 * n /\ Cardinality(Used(r.key, N)) = Cardinality(Used(key, i - 1)) BY <1>4 DEF N
      <4>a. Cardinality(Used(r.key, N)) # N BY <1>0, <1>1, <4>1, <4>2
      <4>3. Used(r.key, N) # 0..(N - 1) BY <1>1, <4>a, UsedFinite
      <4> QED BY <4>3 DEF Used
    <3> QED BY <1>1, <2>2, <3>a, <3>2, FindsEmpty
  <2>5. /\ IsTable(new, N) /\ Probed(new, N)
        /\ Used(new, N) = Used(r.key, N) \cup {j} /\ j \notin Used(r.key, N)
        /\ Cardinality(Used(new, N)) = Cardinality(Used(r.key, N)) + 1
    <3> HIDE DEF j, k
    <3>1. Pairs!ProbeEnd(r.key, N, k, Empty) = j BY DEF j
    <3> QED BY <1>4, <2>2, <2>3, <2>4, <3>1, FillTable
  <2>6. Cardinality(Used(key, i)) = Cardinality(Used(key, i - 1)) + 1
    <3>1. Used(key, i) = Used(key, i - 1) \cup {i - 1} /\ i - 1 \notin Used(key, i - 1)
      <4>1. i - 1 \in Used(key, i) /\ i - 1 \notin Used(key, i - 1) BY <1>1, <1>3, <1>6, <1>a DEF Used
      <4> QED BY <1>2, <1>3, <4>1 DEF Used
    <3>2. IsFiniteSet(Used(key, i - 1)) BY <1>1, UsedFinite
    <3> QED BY <3>1, <3>2, FS_AddElement
  <2>7. new[j] = k /\ nf[j] = i - 1
        /\ \A y \in 0..(N - 1) : y # j => new[y] = r.key[y] /\ nf[y] = r.from[y]
    BY <1>4, <2>4 DEF IsTable
  <2>8. nf \in [0..(N - 1) -> 0..n]
    <3>1. i - 1 \in 0..n BY <1>0, <1>1
    <3> QED BY <1>4, <3>1
  <2> HIDE DEF new, nf, j
  <2>9. \A y \in 0..(N - 1) : new[y] = Empty <=> nf[y] = n BY <1>1, <1>4, <1>6, <2>7
  <2>10. \A y \in Used(new, N) : nf[y] \in 0..(i - 1) /\ new[y] = key[nf[y]]
    <3>1. \A y \in Used(r.key, N) : y \in 0..(N - 1) /\ y # j BY <2>5 DEF Used
    <3> QED BY <1>3, <1>4, <1>a, <2>5, <2>7, <3>1
  <2>11. \A x \in 0..(i - 1) : key[x] # Empty => \E y \in Used(new, N) : nf[y] = x
    <3> SUFFICES ASSUME NEW x \in 0..(i - 1), key[x] # Empty PROVE \E y \in Used(new, N) : nf[y] = x
      OBVIOUS
    <3>1. CASE x = i - 1 BY <2>5, <2>7, <3>1
    <3>2. CASE x # i - 1
      <4>1. x \in 0..((i - 1) - 1) BY <1>2, <3>2
      <4>2. PICK y \in Used(r.key, N) : r.from[y] = x BY <1>4, <4>1
      <4>3. y \in Used(new, N) /\ y # j /\ y \in 0..(N - 1) BY <2>5, <4>2 DEF Used
      <4> QED BY <2>7, <4>2, <4>3
    <3> QED BY <3>1, <3>2
  <2> QED BY <1>4, <2>1, <2>5, <2>6, <2>8, <2>9, <2>10, <2>11 DEF Putting, N
<1> QED BY <1>5, <1>6

\* What destination_map_resize and event_graph_map_resize put into the new table.
LEMMA PlacedRight ==
  ASSUME NEW key, NEW n, IsTable(key, n), Probed(key, n)
  PROVE  Putting(key, n, n, Pairs!Placed(key, n))
<1> DEFINE f == CHOOSE g : PlaceDef(g, key, n)
<1>1. n \in Nat \ {0} BY DEF IsTable
<1>2. PlaceDef(f, key, n) BY PlaceExists
<1>3. Pairs!Placed(key, n) = f[n] BY PlacedIs
<1> HIDE DEF f
<1>4. f[0] = NoKeys(n) /\ \A i \in 1..n : f[i] = Put1(key, n, i, f[i - 1]) BY <1>1, <1>2 DEF PlaceDef
<1> DEFINE S == {i \in Nat : i <= n => Putting(key, n, i, f[i])}
<1>5. 0 \in S BY <1>4, PutFirst
<1>6. ASSUME NEW i \in Nat, i \in S PROVE i + 1 \in S
  <2> SUFFICES ASSUME i + 1 <= n PROVE Putting(key, n, i + 1, f[i + 1]) OBVIOUS
  <2>1. i + 1 \in 1..n /\ (i + 1) - 1 = i /\ i <= n BY <1>1
  <2>2. Putting(key, n, i, f[i]) BY <1>6, <2>1
  <2>3. f[i + 1] = Put1(key, n, i + 1, f[i]) BY <1>4, <2>1
  <2> QED BY <2>1, <2>2, <2>3, PutNext
<1> HIDE DEF S
<1>7. n \in S BY <1>1, <1>5, <1>6, SetInduction
<1> QED BY <1>1, <1>3, <1>7 DEF S

-----------------------------------------------------------------------------
\* A destination map of source a agrees with the history f of the counts.
DestOK(d, a, f) ==
  /\ d = [cap |-> d.cap, size |-> d.size, key |-> d.key, freq |-> d.freq]
  /\ IsTable(d.key, d.cap) /\ Probed(d.key, d.cap) /\ d.size = Cardinality(Used(d.key, d.cap))
  /\ d.freq \in [0..(d.cap - 1) -> Nat]
  /\ \A j \in Used(d.key, d.cap) :
       <<a, d.key[j]>> \in Edges /\ d.freq[j] = f[<<a, d.key[j]>>] /\ d.freq[j] # 0
  /\ \A b \in Events : <<a, b>> \in Edges /\ f[<<a, b>>] # 0 => \E j \in Used(d.key, d.cap) : d.key[j] = b

\* So does the map of all sources.
MapOK(m, f) ==
  /\ m = [cap |-> m.cap, size |-> m.size, key |-> m.key, dest |-> m.dest]
  /\ IsTable(m.key, m.cap) /\ Probed(m.key, m.cap) /\ m.size = Cardinality(Used(m.key, m.cap))
  /\ m.dest = [i \in 0..(m.cap - 1) |-> m.dest[i]]
  /\ \A i \in Used(m.key, m.cap) : DestOK(m.dest[i], m.key[i], f)
  /\ \A e \in Edges : f[e] # 0 => \E i \in Used(m.key, m.cap) : m.key[i] = e[1]

\* A new destination map has counted nothing, and has room.
LEMMA NewDestOK ==
  ASSUME NEW a, NEW f, \A b \in Events : <<a, b>> \in Edges => f[<<a, b>>] = 0
  PROVE  DestOK(Pairs!NewDest, a, f) /\ Pairs!NewDest.size < Pairs!NewDest.cap
<1> DEFINE d == Pairs!NewDest
<1>1. /\ d = [cap |-> d.cap, size |-> d.size, key |-> d.key, freq |-> d.freq]
      /\ d.cap = MinSlots /\ d.size = 0 /\ d.key = [i \in 0..(MinSlots - 1) |-> Empty]
      /\ d.freq = [i \in 0..(MinSlots - 1) |-> 0]
  BY DEF Pairs!NewDest
<1> HIDE DEF d
<1>2. MinSlots \in Nat \ {0} BY PairAssumption
<1>3. Used(d.key, d.cap) = {} BY <1>1 DEF Used
<1>4. IsTable(d.key, d.cap) BY <1>1, <1>2 DEF IsTable
<1>5. Probed(d.key, d.cap) BY <1>3 DEF Probed
<1>6. d.size = Cardinality(Used(d.key, d.cap)) BY <1>1, <1>3, FS_EmptySet
<1>7. d.freq \in [0..(d.cap - 1) -> Nat] BY <1>1
<1>8. d.size < d.cap BY <1>1, <1>2
<1>9. DestOK(d, a, f) BY <1>1, <1>3, <1>4, <1>5, <1>6, <1>7 DEF DestOK
<1> QED BY <1>8, <1>9 DEF d

\* A table that is full is crowded; a table that is not has room.
LEMMA Full ==
  ASSUME NEW t, IsTable(t.key, t.cap), t.size = Cardinality(Used(t.key, t.cap))
  PROVE  /\ Used(t.key, t.cap) = 0..(t.cap - 1) => t.size = t.cap /\ Pairs!Crowded75(t)
         /\ t.size < t.cap => Used(t.key, t.cap) # 0..(t.cap - 1)
         /\ t.size \in 0..t.cap /\ t.cap \in Nat \ {0}
<1>1. t.cap \in Nat \ {0} BY DEF IsTable
<1>2. t.size \in 0..t.cap /\ (t.size = t.cap <=> Used(t.key, t.cap) = 0..(t.cap - 1)) BY <1>1, UsedFinite
<1>3. t.size = t.cap => Pairs!Crowded75(t) BY <1>1 DEF Pairs!Crowded75
<1> QED BY <1>1, <1>2, <1>3

\* destination_map_resize keeps the counts and makes room.
LEMMA DestResizedOK ==
  ASSUME NEW d, NEW a, NEW f, DestOK(d, a, f)
  PROVE  DestOK(Pairs!DestResized(d), a, f) /\ Pairs!DestResized(d).size < Pairs!DestResized(d).cap
<1> DEFINE p == Pairs!Placed(d.key, d.cap)
           n == d.cap
           r == Pairs!DestResized(d)
<1>1. /\ d = [cap |-> n, size |-> d.size, key |-> d.key, freq |-> d.freq]
      /\ IsTable(d.key, n) /\ Probed(d.key, n) /\ d.size = Cardinality(Used(d.key, n))
      /\ d.freq \in [0..(n - 1) -> Nat]
      /\ \A j \in Used(d.key, n) :
           <<a, d.key[j]>> \in Edges /\ d.freq[j] = f[<<a, d.key[j]>>] /\ d.freq[j] # 0
      /\ \A b \in Events : <<a, b>> \in Edges /\ f[<<a, b>>] # 0 => \E j \in Used(d.key, n) : d.key[j] = b
  BY DEF DestOK
<1>2. n \in Nat \ {0} /\ d.key \in [0..(n - 1) -> Events \cup {Empty}] BY <1>1 DEF IsTable
<1>3. Putting(d.key, n, n, p) BY <1>1, PlacedRight
<1> HIDE DEF p
<1>4. /\ r.cap = 2 * n /\ r.size = d.size /\ r.key = p.key
      /\ r.freq = [j \in DOMAIN p.key |-> IF p.from[j] = n THEN 0 ELSE d.freq[p.from[j]]]
      /\ r = [cap |-> r.cap, size |-> r.size, key |-> r.key, freq |-> r.freq]
  <2>1. r = [d EXCEPT !.cap = 2 * n, !.key = p.key,
                      !.freq = [j \in DOMAIN p.key |-> IF p.from[j] = n THEN 0 ELSE d.freq[p.from[j]]]]
    BY DEF Pairs!DestResized, p
  <2> HIDE DEF r
  <2> QED BY <1>1, <2>1
<1> HIDE DEF r, n
<1>5. /\ IsTable(p.key, 2 * n) /\ Probed(p.key, 2 * n) /\ p.from \in [0..(2 * n - 1) -> 0..n]
      /\ \A j \in 0..(2 * n - 1) : p.key[j] = Empty <=> p.from[j] = n
      /\ \A j \in Used(p.key, 2 * n) : p.from[j] \in 0..(n - 1) /\ p.key[j] = d.key[p.from[j]]
      /\ \A x \in 0..(n - 1) : d.key[x] # Empty => \E j \in Used(p.key, 2 * n) : p.from[j] = x
      /\ Cardinality(Used(p.key, 2 * n)) = Cardinality(Used(d.key, n))
  BY <1>3 DEF Putting
<1>6. DOMAIN p.key = 0..(2 * n - 1) BY <1>5 DEF IsTable
<1>7. \A j \in 0..(2 * n - 1) : p.from[j] = n \/ p.from[j] \in 0..(n - 1) BY <1>2, <1>5
<1>8. r.freq \in [0..(2 * n - 1) -> Nat]
  <2>1. \A j \in 0..(2 * n - 1) : (IF p.from[j] = n THEN 0 ELSE d.freq[p.from[j]]) \in Nat
    BY <1>1, <1>7
  <2> QED BY <1>4, <1>6, <2>1
<1>9. ASSUME NEW j \in Used(p.key, 2 * n)
      PROVE  /\ p.from[j] \in Used(d.key, n) /\ p.key[j] = d.key[p.from[j]]
             /\ r.freq[j] = d.freq[p.from[j]]
  <2>1. j \in 0..(2 * n - 1) /\ p.key[j] # Empty BY DEF Used
  <2>2. p.from[j] \in 0..(n - 1) /\ p.key[j] = d.key[p.from[j]] /\ p.from[j] # n BY <1>5, <2>1
  <2>3. p.from[j] \in Used(d.key, n) BY <2>1, <2>2 DEF Used
  <2> QED BY <1>4, <1>6, <2>1, <2>2, <2>3
<1>10. ASSUME NEW j \in Used(p.key, 2 * n)
       PROVE  <<a, p.key[j]>> \in Edges /\ r.freq[j] = f[<<a, p.key[j]>>] /\ r.freq[j] # 0
  BY <1>1, <1>9
<1>11. ASSUME NEW b \in Events, <<a, b>> \in Edges, f[<<a, b>>] # 0
       PROVE  \E j \in Used(p.key, 2 * n) : p.key[j] = b
  <2>1. PICK x \in Used(d.key, n) : d.key[x] = b BY <1>1, <1>11
  <2>2. x \in 0..(n - 1) /\ d.key[x] # Empty BY DEF Used
  <2>3. PICK j \in Used(p.key, 2 * n) : p.from[j] = x BY <1>5, <2>2
  <2> QED BY <1>5, <2>1, <2>3
<1>12. r.size = Cardinality(Used(p.key, 2 * n)) BY <1>1, <1>4, <1>5
<1>13. DestOK(r, a, f) BY <1>4, <1>5, <1>8, <1>10, <1>11, <1>12 DEF DestOK
<1>14. r.size < r.cap
  <2>1. d.size \in 0..n BY <1>1, Full DEF n
  <2> QED BY <1>2, <1>4, <2>1
<1> QED BY <1>13, <1>14 DEF r

\* event_graph_map_resize keeps the destination maps and makes room.
LEMMA MapResizedOK ==
  ASSUME NEW m, NEW f, MapOK(m, f)
  PROVE  MapOK(Pairs!MapResized(m), f) /\ Pairs!MapResized(m).size < Pairs!MapResized(m).cap
<1> DEFINE p == Pairs!Placed(m.key, m.cap)
           n == m.cap
           r == Pairs!MapResized(m)
<1>1. /\ m = [cap |-> n, size |-> m.size, key |-> m.key, dest |-> m.dest]
      /\ IsTable(m.key, n) /\ Probed(m.key, n) /\ m.size = Cardinality(Used(m.key, n))
      /\ \A i \in Used(m.key, n) : DestOK(m.dest[i], m.key[i], f)
      /\ \A e \in Edges : f[e] # 0 => \E i \in Used(m.key, n) : m.key[i] = e[1]
  BY DEF MapOK
<1>2. n \in Nat \ {0} BY <1>1 DEF IsTable
<1>3. Putting(m.key, n, n, p) BY <1>1, PlacedRight
<1> HIDE DEF p
<1>4. /\ r.cap = 2 * n /\ r.size = m.size /\ r.key = p.key
      /\ r.dest = [j \in DOMAIN p.key |-> IF p.from[j] = n THEN Pairs!NoDest ELSE m.dest[p.from[j]]]
      /\ r = [cap |-> r.cap, size |-> r.size, key |-> r.key, dest |-> r.dest]
  <2>1. r = [m EXCEPT !.cap = 2 * n, !.key = p.key,
                      !.dest = [j \in DOMAIN p.key |-> IF p.from[j] = n THEN Pairs!NoDest
                                                       ELSE m.dest[p.from[j]]]]
    BY DEF Pairs!MapResized, p
  <2> HIDE DEF r
  <2> QED BY <1>1, <2>1
<1> HIDE DEF r, n
<1>5. /\ IsTable(p.key, 2 * n) /\ Probed(p.key, 2 * n)
      /\ \A j \in Used(p.key, 2 * n) : p.from[j] \in 0..(n - 1) /\ p.key[j] = m.key[p.from[j]]
      /\ \A x \in 0..(n - 1) : m.key[x] # Empty => \E j \in Used(p.key, 2 * n) : p.from[j] = x
      /\ Cardinality(Used(p.key, 2 * n)) = Cardinality(Used(m.key, n))
  BY <1>3 DEF Putting
<1>6. DOMAIN p.key = 0..(2 * n - 1) BY <1>5 DEF IsTable
<1>7. r.dest = [j \in 0..(r.cap - 1) |-> r.dest[j]] BY <1>4, <1>6
<1>8. ASSUME NEW j \in Used(p.key, 2 * n) PROVE DestOK(r.dest[j], p.key[j], f)
  <2>1. j \in 0..(2 * n - 1) /\ p.key[j] # Empty BY DEF Used
  <2>2. p.from[j] \in 0..(n - 1) /\ p.key[j] = m.key[p.from[j]] /\ p.from[j] # n BY <1>2, <1>5
  <2>3. p.from[j] \in Used(m.key, n) BY <2>1, <2>2 DEF Used
  <2>4. r.dest[j] = m.dest[p.from[j]] BY <1>4, <1>6, <2>1, <2>2
  <2> QED BY <1>1, <2>2, <2>3, <2>4
<1>9. ASSUME NEW e \in Edges, f[e] # 0 PROVE \E j \in Used(p.key, 2 * n) : p.key[j] = e[1]
  <2>1. PICK x \in Used(m.key, n) : m.key[x] = e[1] BY <1>1, <1>9
  <2>2. x \in 0..(n - 1) /\ m.key[x] # Empty BY DEF Used
  <2>3. PICK j \in Used(p.key, 2 * n) : p.from[j] = x BY <1>5, <2>2
  <2> QED BY <1>5, <2>1, <2>3
<1>10. r.size = Cardinality(Used(p.key, 2 * n)) BY <1>1, <1>4, <1>5
<1>11. MapOK(r, f)
  <2> DEFINE U == Used(p.key, 2 * n)
  <2>1. Used(r.key, r.cap) = U /\ r.key = p.key /\ r.cap = 2 * n BY <1>4
  <2>2. IsTable(r.key, r.cap) /\ Probed(r.key, r.cap) BY <1>5, <2>1
  <2>3. \A i \in U : DestOK(r.dest[i], p.key[i], f) BY <1>8
  <2>4. \A e \in Edges : f[e] # 0 => \E i \in U : p.key[i] = e[1] BY <1>9
  <2>5. r.size = Cardinality(U) BY <1>10
  <2> HIDE DEF U
  <2>6. r = [cap |-> r.cap, size |-> r.size, key |-> r.key, dest |-> r.dest] BY <1>4
  <2>7. r.size = Cardinality(Used(r.key, r.cap)) BY <2>1, <2>5
  <2>8. \A i \in Used(r.key, r.cap) : DestOK(r.dest[i], r.key[i], f) BY <2>1, <2>3
  <2>9. \A e \in Edges : f[e] # 0 => \E i \in Used(r.key, r.cap) : r.key[i] = e[1] BY <2>1, <2>4
  <2> QED BY <1>7, <2>2, <2>6, <2>7, <2>8, <2>9 DEF MapOK
<1>12. r.size < r.cap
  <2>1. m.size \in 0..n BY <1>1, Full DEF n
  <2> QED BY <1>2, <1>4, <2>1
<1> QED BY <1>11, <1>12 DEF r

\* destination_map_increment counts the edge, or the table is full and it says so.
LEMMA CountedOK ==
  ASSUME NEW d, NEW a, NEW b, NEW f, DestOK(d, a, f), f \in [Edges -> Nat], <<a, b>> \in Edges, b \in Events
  PROVE  LET c == Pairs!Counted(d, b) IN
         \/ c.ret = 0 /\ c.dest = d /\ Pairs!Crowded75(d) /\ ~(d.size < d.cap)
         \/ /\ c.ret = f[<<a, b>>] + 1
            /\ DestOK(c.dest, a, [f EXCEPT ![<<a, b>>] = @ + 1])
<1> DEFINE n == d.cap
           i == Pairs!ProbeEnd(d.key, n, b, b)
           c == Pairs!Counted(d, b)
           g == [f EXCEPT ![<<a, b>>] = @ + 1]
<1>1. /\ d = [cap |-> n, size |-> d.size, key |-> d.key, freq |-> d.freq]
      /\ IsTable(d.key, n) /\ Probed(d.key, n) /\ d.size = Cardinality(Used(d.key, n))
      /\ d.freq \in [0..(n - 1) -> Nat]
      /\ \A j \in Used(d.key, n) :
           <<a, d.key[j]>> \in Edges /\ d.freq[j] = f[<<a, d.key[j]>>] /\ d.freq[j] # 0
      /\ \A e \in Events : <<a, e>> \in Edges /\ f[<<a, e>>] # 0 => \E j \in Used(d.key, n) : d.key[j] = e
  BY DEF DestOK
<1>2. n \in Nat \ {0} /\ d.key \in [0..(n - 1) -> Events \cup {Empty}] /\ b # Empty
  BY <1>1, EventFacts DEF IsTable
<1>3. /\ i \in 0..(n - 1) \/ i = -1
      /\ i \in 0..(n - 1) => d.key[i] \in {Empty, b}
      /\ i = -1 => Used(d.key, n) = 0..(n - 1)
      /\ \A j \in Used(d.key, n) : d.key[j] = b => i = j
  BY <1>1, Lookup
<1>4. c = IF i = -1 THEN [dest |-> d, ret |-> 0]
          ELSE IF d.key[i] = b THEN [dest |-> [d EXCEPT !.freq[i] = @ + 1], ret |-> d.freq[i] + 1]
          ELSE [dest |-> [d EXCEPT !.key[i] = b, !.freq[i] = 1, !.size = @ + 1], ret |-> 1]
  BY DEF Pairs!Counted, Pairs!Slot
<1>5. /\ g \in [Edges -> Nat] /\ g[<<a, b>>] = f[<<a, b>>] + 1
      /\ \A e \in Edges : e # <<a, b>> => g[e] = f[e]
  OBVIOUS
<1>6. \A e \in Events : <<a, e>> \in Edges /\ e # b => g[<<a, e>>] = f[<<a, e>>]
  <2>1. \A e \in Events : e # b => <<a, e>> # <<a, b>> OBVIOUS
  <2> QED BY <1>5, <2>1
<1>a. Pairs!ProbeEnd(d.key, n, b, b) = i OBVIOUS
<1> HIDE DEF g, c, i
<1>7. CASE i = -1
  <2>1. c.ret = 0 /\ c.dest = d BY <1>4, <1>7
  <2>2. n = d.cap OBVIOUS
  <2> HIDE DEF n
  <2>3. /\ Used(d.key, d.cap) = 0..(d.cap - 1) /\ IsTable(d.key, d.cap)
        /\ d.size = Cardinality(Used(d.key, d.cap))
    BY <1>1, <1>3, <1>7, <2>2
  <2>4. Pairs!Crowded75(d) /\ ~(d.size < d.cap) BY <2>3, Full
  <2> QED BY <2>1, <2>4 DEF c
<1> HIDE DEF n
<1>8. CASE i # -1 /\ d.key[i] = b
  <2> DEFINE e == c.dest
             fr == [d.freq EXCEPT ![i] = @ + 1]
  <2>0. i \in 0..(n - 1) /\ i \in Used(d.key, n) BY <1>2, <1>3, <1>8 DEF Used
  <2>1. c.ret = d.freq[i] + 1 /\ e = [d EXCEPT !.freq[i] = @ + 1] BY <1>4, <1>8
  <2>2. e = [cap |-> n, size |-> d.size, key |-> d.key, freq |-> fr] BY <1>1, <2>1
  <2>3. /\ fr[i] = d.freq[i] + 1 /\ fr \in [0..(n - 1) -> Nat]
        /\ \A j \in 0..(n - 1) : j # i => fr[j] = d.freq[j]
    <3>1. d.freq[i] \in Nat BY <1>1, <2>0
    <3>2. d.freq[i] + 1 \in Nat BY <3>1
    <3> HIDE DEF n
    <3> QED BY <1>1, <2>0, <3>2
  <2> HIDE DEF fr, e
  <2>4. \A j \in Used(d.key, n) : <<a, d.key[j]>> \in Edges /\ fr[j] = g[<<a, d.key[j]>>] /\ fr[j] # 0
    <3> SUFFICES ASSUME NEW j \in Used(d.key, n)
                 PROVE  <<a, d.key[j]>> \in Edges /\ fr[j] = g[<<a, d.key[j]>>] /\ fr[j] # 0
      OBVIOUS
    <3>1. <<a, d.key[j]>> \in Edges /\ d.freq[j] = f[<<a, d.key[j]>>] /\ d.freq[j] # 0 BY <1>1
    <3>2. CASE j = i
      <4>1. fr[j] = f[<<a, b>>] + 1 /\ f[<<a, b>>] \in Nat BY <1>8, <2>3, <3>1, <3>2
      <4> QED BY <1>5, <1>8, <3>1, <3>2, <4>1
    <3>3. CASE j # i
      <4>1. j \in 0..(n - 1) /\ d.key[j] # b /\ d.key[j] \in Events BY <1>2, <1>3, <3>3 DEF Used
      <4> QED BY <1>6, <2>3, <3>1, <3>3, <4>1
    <3> QED BY <3>2, <3>3
  <2>5. \A y \in Events : <<a, y>> \in Edges /\ g[<<a, y>>] # 0 => \E j \in Used(d.key, n) : d.key[j] = y
    BY <1>1, <1>6, <1>8, <2>0
  <2>6. e.cap = n /\ e.size = d.size /\ e.key = d.key /\ e.freq = fr
        /\ e = [cap |-> e.cap, size |-> e.size, key |-> e.key, freq |-> e.freq]
    BY <2>2
  <2>7. DestOK(e, a, g) BY <1>1, <2>3, <2>4, <2>5, <2>6 DEF DestOK
  <2>8. c.ret = f[<<a, b>>] + 1 BY <1>1, <1>8, <2>0, <2>1
  <2> QED BY <2>7, <2>8 DEF e, c, g
<1>9. CASE i # -1 /\ d.key[i] # b
  <2> DEFINE e == c.dest
             fr == [d.freq EXCEPT ![i] = 1]
             k == [d.key EXCEPT ![i] = b]
  <2>0. i \in 0..(n - 1) /\ d.key[i] = Empty BY <1>3, <1>9
  <2>1. c.ret = 1 /\ e = [d EXCEPT !.key[i] = b, !.freq[i] = 1, !.size = @ + 1] BY <1>4, <1>9
  <2>2. e = [cap |-> n, size |-> d.size + 1, key |-> k, freq |-> fr]
    <3> DEFINE r == [cap |-> n, size |-> d.size, key |-> d.key, freq |-> d.freq]
    <3>1. e = [r EXCEPT !.key[i] = b, !.freq[i] = 1, !.size = @ + 1] BY <1>1, <2>1
    <3> DEFINE r1 == [r EXCEPT !.key[i] = b]
               r2 == [r1 EXCEPT !.freq[i] = 1]
               r3 == [r2 EXCEPT !.size = @ + 1]
    <3>2. e = r3 BY <3>1
    <3>3. r1 = [cap |-> n, size |-> d.size, key |-> k, freq |-> d.freq] OBVIOUS
    <3> HIDE DEF r1
    <3>4. r2 = [cap |-> n, size |-> d.size, key |-> k, freq |-> fr] BY <3>3
    <3> HIDE DEF r2, k, fr
    <3>5. r3 = [cap |-> n, size |-> d.size + 1, key |-> k, freq |-> fr] BY <3>4
    <3> HIDE DEF r3
    <3> QED BY <3>2, <3>5
  <2>a. \A j \in Used(d.key, n) : d.key[j] # b BY <1>3, <1>9
  <2>3. /\ IsTable(k, n) /\ Probed(k, n) /\ Used(k, n) = Used(d.key, n) \cup {i} /\ i \notin Used(d.key, n)
        /\ Cardinality(Used(k, n)) = Cardinality(Used(d.key, n)) + 1
    <3>1. Pairs!ProbeEnd(d.key, n, b, b) = i BY <1>a
    <3> QED BY <1>1, <2>0, <2>a, <3>1, FillTable
  <2>4. /\ fr[i] = 1 /\ fr \in [0..(n - 1) -> Nat] /\ k[i] = b
        /\ \A j \in 0..(n - 1) : j # i => fr[j] = d.freq[j] /\ k[j] = d.key[j]
    BY <1>1, <1>2, <2>0
  <2>5. f[<<a, b>>] = 0 BY <1>1, <2>a
  <2> HIDE DEF fr, e, k
  <2>6. \A j \in Used(k, n) : <<a, k[j]>> \in Edges /\ fr[j] = g[<<a, k[j]>>] /\ fr[j] # 0
    <3> SUFFICES ASSUME NEW j \in Used(k, n)
                 PROVE  <<a, k[j]>> \in Edges /\ fr[j] = g[<<a, k[j]>>] /\ fr[j] # 0
      OBVIOUS
    <3>1. CASE j = i
      <4>1. k[j] = b /\ fr[j] = 1 BY <2>4, <3>1
      <4>2. g[<<a, b>>] = 1 BY <1>5, <2>5
      <4> QED BY <4>1, <4>2
    <3>2. CASE j # i
      <4>1. j \in Used(d.key, n) /\ j \in 0..(n - 1) BY <2>3, <3>2 DEF Used
      <4>2. d.key[j] # b /\ d.key[j] \in Events /\ k[j] = d.key[j] /\ fr[j] = d.freq[j]
        BY <1>2, <2>4, <2>a, <3>2, <4>1 DEF Used
      <4> QED BY <1>1, <1>6, <4>1, <4>2
    <3> QED BY <3>1, <3>2
  <2>7. \A y \in Events : <<a, y>> \in Edges /\ g[<<a, y>>] # 0 => \E j \in Used(k, n) : k[j] = y
    <3> SUFFICES ASSUME NEW y \in Events, <<a, y>> \in Edges, g[<<a, y>>] # 0
                 PROVE  \E j \in Used(k, n) : k[j] = y
      OBVIOUS
    <3>1. CASE y = b BY <2>3, <2>4, <3>1
    <3>2. CASE y # b
      <4>1. PICK j \in Used(d.key, n) : d.key[j] = y BY <1>1, <1>6, <3>2
      <4>2. j \in Used(k, n) /\ j # i /\ j \in 0..(n - 1) BY <2>3, <4>1 DEF Used
      <4> QED BY <2>4, <4>1, <4>2
    <3> QED BY <3>1, <3>2
  <2>8. e.cap = n /\ e.size = d.size + 1 /\ e.key = k /\ e.freq = fr
        /\ e = [cap |-> e.cap, size |-> e.size, key |-> e.key, freq |-> e.freq]
    BY <2>2
  <2>9. DestOK(e, a, g) BY <1>1, <2>3, <2>4, <2>6, <2>7, <2>8 DEF DestOK
  <2>10. c.ret = f[<<a, b>>] + 1 BY <2>1, <2>5
  <2> QED BY <2>9, <2>10 DEF e, c, g
<1> QED BY <1>7, <1>8, <1>9

-----------------------------------------------------------------------------
\* The inductive invariant: the map agrees with the history of the counts.
PairInv ==
  /\ freq \in [Edges -> Nat] /\ MapOK(map, freq) /\ short \in BOOLEAN
  /\ ret = 0 \/ (last \in Edges /\ ret = freq[last])
  /\ ret = 0 => short \/ \A e \in Edges : freq[e] = 0

\* The steps of event_graph_map_increment: whether the source in slot i is new, its
\* destination map, that with room if an allocation succeeds, and the maps after.
IsNew(m, i, a) == i # -1 /\ m.key[i] # a
DestOf(m, i, a) == IF i = -1 THEN Pairs!NoDest ELSE IF IsNew(m, i, a) THEN Pairs!NewDest ELSE m.dest[i]
Roomy(d, makes) == IF d # Pairs!NoDest /\ Pairs!Crowded75(d) /\ makes THEN Pairs!DestResized(d) ELSE d
Bump(f, a, b) == [f EXCEPT ![<<a, b>>] = @ + 1]
MapAfter(m, i, a, x) ==
  [m EXCEPT !.key[i] = a, !.dest[i] = x, !.size = IF m.key[i] # a THEN @ + 1 ELSE @]

\* The source's slot after a call has counted edge <<a, b>> in its destination map x.
LEMMA SourceOK ==
  ASSUME NEW m, NEW f, MapOK(m, f), f \in [Edges -> Nat], NEW a \in Events, NEW b \in Events,
         <<a, b>> \in Edges, NEW i \in 0..(m.cap - 1), Pairs!ProbeEnd(m.key, m.cap, a, a) = i,
         NEW x, NEW g, g \in [Edges -> Nat], \A e \in Edges : e[1] # a => g[e] = f[e], DestOK(x, a, g)
  PROVE  MapOK(MapAfter(m, i, a, x), g)
<1> DEFINE n == m.cap
           size == IF m.key[i] # a THEN m.size + 1 ELSE m.size
           k == [m.key EXCEPT ![i] = a]
           t == [m.dest EXCEPT ![i] = x]
           r == [m EXCEPT !.key[i] = a, !.dest[i] = x, !.size = IF m.key[i] # a THEN @ + 1 ELSE @]
<1>1. /\ m = [cap |-> n, size |-> m.size, key |-> m.key, dest |-> m.dest]
      /\ IsTable(m.key, n) /\ Probed(m.key, n) /\ m.size = Cardinality(Used(m.key, n))
      /\ m.dest = [j \in 0..(n - 1) |-> m.dest[j]]
      /\ \A j \in Used(m.key, n) : DestOK(m.dest[j], m.key[j], f)
      /\ \A e \in Edges : f[e] # 0 => \E j \in Used(m.key, n) : m.key[j] = e[1]
  BY DEF MapOK
<1>2. n \in Nat \ {0} /\ m.key \in [0..(n - 1) -> Events \cup {Empty}] /\ a # Empty
  BY <1>1, EventFacts DEF IsTable
<1>3. m.key[i] \in {Empty, a} /\ \A j \in Used(m.key, n) : m.key[j] = a => j = i
  <2> DEFINE y == Pairs!ProbeEnd(m.key, n, a, a)
  <2>1. /\ y \in 0..(n - 1) => m.key[y] \in {Empty, a}
        /\ \A j \in Used(m.key, n) : m.key[j] = a => y = j
    BY <1>1, Lookup
  <2> QED BY <2>1
<1>4. r = [cap |-> n, size |-> size, key |-> k, dest |-> t]
  <2> DEFINE q == [cap |-> n, size |-> m.size, key |-> m.key, dest |-> m.dest]
             r1 == [q EXCEPT !.key[i] = a]
             r2 == [r1 EXCEPT !.dest[i] = x]
             r3 == [r2 EXCEPT !.size = IF m.key[i] # a THEN @ + 1 ELSE @]
  <2>1. m = q BY <1>1
  <2>2. r = [m EXCEPT !.key[i] = a, !.dest[i] = x, !.size = IF m.key[i] # a THEN @ + 1 ELSE @]
    OBVIOUS
  <2> HIDE DEF r
  <2>3. r = [q EXCEPT !.key[i] = a, !.dest[i] = x, !.size = IF m.key[i] # a THEN @ + 1 ELSE @]
    <3> HIDE DEF q
    <3> QED BY <2>1, <2>2
  <2>4. r = r3 BY <2>3
  <2>5. r1 = [cap |-> n, size |-> m.size, key |-> k, dest |-> m.dest] OBVIOUS
  <2> HIDE DEF r1
  <2>6. r2 = [cap |-> n, size |-> m.size, key |-> k, dest |-> t] BY <2>5
  <2> HIDE DEF r2, k, t
  <2>7. r3 = [cap |-> n, size |-> size, key |-> k, dest |-> t] BY <2>6
  <2> HIDE DEF r3
  <2> QED BY <2>4, <2>7
<1>5. /\ t[i] = x /\ k[i] = a /\ \A j \in 0..(n - 1) : j # i => t[j] = m.dest[j] /\ k[j] = m.key[j]
      /\ t = [j \in 0..(n - 1) |-> t[j]]
  BY <1>1, <1>2
<1>a. Pairs!ProbeEnd(m.key, n, a, a) = i OBVIOUS
<1>6. /\ IsTable(k, n) /\ Probed(k, n) /\ Used(k, n) = Used(m.key, n) \cup {i}
      /\ size = Cardinality(Used(k, n))
  <2> DEFINE y == m.key
  <2>1. /\ IsTable(y, n) /\ Probed(y, n) /\ i \in 0..(n - 1)
        /\ Pairs!ProbeEnd(y, n, a, a) = i /\ k = Written(y, i, a)
    BY <1>1, <1>a DEF Written
  <2> HIDE DEF n, y, k
  <2>2. IsTable(k, n) /\ Probed(k, n) BY <2>1, PutKey
  <2>3. Used(k, n) = Used(y, n) \cup {i} BY <2>1, PutKey
  <2>4. Cardinality(Used(k, n)) = IF y[i] # a THEN Cardinality(Used(y, n)) + 1 ELSE Cardinality(Used(y, n))
    BY <2>1, PutKey
  <2> QED BY <1>1, <2>2, <2>3, <2>4 DEF y
<1> HIDE DEF r, t, k, size
<1>7. ASSUME NEW j \in Used(k, n) PROVE DestOK(t[j], k[j], g)
  <2>1. CASE j = i BY <1>5, <2>1
  <2>2. CASE j # i
    <3>1. j \in Used(m.key, n) /\ j \in 0..(n - 1) BY <1>6, <2>2 DEF Used
    <3>2. t[j] = m.dest[j] /\ k[j] = m.key[j] /\ k[j] # a /\ DestOK(t[j], k[j], f)
      BY <1>1, <1>3, <1>5, <2>2, <3>1
    <3>3. \A y \in Events : <<k[j], y>> \in Edges => g[<<k[j], y>>] = f[<<k[j], y>>] BY <3>2
    <3> DEFINE d == t[j]
               b1 == k[j]
    <3>4. \A y \in Used(d.key, d.cap) : d.key[y] \in Events
      <4>1. IsTable(d.key, d.cap) BY <3>2 DEF DestOK
      <4> HIDE DEF d
      <4> QED BY <4>1 DEF IsTable, Used
    <3>5. DestOK(d, b1, f) /\ \A y \in Events : <<b1, y>> \in Edges => g[<<b1, y>>] = f[<<b1, y>>]
      BY <3>2, <3>3
    <3> HIDE DEF d, b1
    <3>6. DestOK(d, b1, g) BY <3>4, <3>5 DEF DestOK
    <3> QED BY <3>6 DEF d, b1
  <2> QED BY <2>1, <2>2
<1>8. ASSUME NEW e \in Edges, g[e] # 0 PROVE \E j \in Used(k, n) : k[j] = e[1]
  <2>1. CASE e[1] = a BY <1>5, <1>6, <2>1
  <2>2. CASE e[1] # a
    <3>1. PICK j \in Used(m.key, n) : m.key[j] = e[1] BY <1>1, <1>8, <2>2
    <3>2. j \in 0..(n - 1) /\ m.key[j] # Empty BY DEF Used
    <3>3. j # i BY <1>3, <2>2, <3>1, <3>2
    <3> QED BY <1>5, <1>6, <3>1, <3>2, <3>3
  <2> QED BY <2>1, <2>2
<1>9. r.cap = n /\ r.size = size /\ r.key = k /\ r.dest = t
      /\ r = [cap |-> r.cap, size |-> r.size, key |-> r.key, dest |-> r.dest]
  BY <1>4
<1>10. MapOK(r, g)
  <2>1. IsTable(r.key, r.cap) /\ Probed(r.key, r.cap) /\ r.size = Cardinality(Used(r.key, r.cap))
    BY <1>6, <1>9
  <2>2. r.dest = [j \in 0..(r.cap - 1) |-> r.dest[j]] BY <1>5, <1>9
  <2>3. \A j \in Used(r.key, r.cap) : DestOK(r.dest[j], r.key[j], g) BY <1>7, <1>9
  <2>4. \A e \in Edges : g[e] # 0 => \E j \in Used(r.key, r.cap) : r.key[j] = e[1] BY <1>8, <1>9
  <2>5. r = [cap |-> r.cap, size |-> r.size, key |-> r.key, dest |-> r.dest] BY <1>9
  <2> QED BY <2>1, <2>2, <2>3, <2>4, <2>5 DEF MapOK
<1> QED BY <1>10 DEF r, MapAfter

\* The destination map of the source in slot i, and whether it is a new one, with the
\* increment's outcome for edge <<a, b>>.
LEMMA IncrementOK ==
  ASSUME NEW m, NEW f, NEW a \in Events, NEW b \in Events, NEW i,
         NEW grown \in BOOLEAN, NEW makes \in BOOLEAN,
         MapOK(m, f), f \in [Edges -> Nat], <<a, b>> \in Edges, i = Pairs!Slot(m, a), grown => m.size < m.cap
  PROVE  /\ i = -1 => Pairs!Crowded75(m) /\ ~grown
         /\ i # -1 => i \in 0..(m.cap - 1)
         /\ i # -1 /\ (IsNew(m, i, a) => makes) =>
              \/ /\ Pairs!Counted(Roomy(DestOf(m, i, a), makes), b).ret = 0
                 /\ DestOf(m, i, a) # Pairs!NoDest /\ Pairs!Crowded75(DestOf(m, i, a)) /\ ~makes
                 /\ ~IsNew(m, i, a) /\ Pairs!Counted(Roomy(DestOf(m, i, a), makes), b).dest = m.dest[i]
              \/ /\ Pairs!Counted(Roomy(DestOf(m, i, a), makes), b).ret = f[<<a, b>>] + 1
                 /\ DestOK(Pairs!Counted(Roomy(DestOf(m, i, a), makes), b).dest, a, Bump(f, a, b))
<1> DEFINE n == m.cap
           new == IsNew(m, i, a)
           d == DestOf(m, i, a)
           r == Roomy(d, makes)
           c == Pairs!Counted(r, b)
           g == Bump(f, a, b)
<1>1. /\ IsTable(m.key, n) /\ Probed(m.key, n) /\ m.size = Cardinality(Used(m.key, n))
      /\ \A j \in Used(m.key, n) : DestOK(m.dest[j], m.key[j], f)
      /\ \A e \in Edges : f[e] # 0 => \E j \in Used(m.key, n) : m.key[j] = e[1]
  BY DEF MapOK
<1>2. n \in Nat \ {0} /\ m.key \in [0..(n - 1) -> Events \cup {Empty}] /\ a # Empty
  BY <1>1, EventFacts DEF IsTable
<1>3. /\ i \in 0..(n - 1) \/ i = -1
      /\ i \in 0..(n - 1) => m.key[i] \in {Empty, a}
      /\ i = -1 => Used(m.key, n) = 0..(n - 1)
      /\ \A j \in Used(m.key, n) : m.key[j] = a => i = j
  <2> DEFINE y == Pairs!ProbeEnd(m.key, n, a, a)
  <2>1. /\ y \in 0..(n - 1) \/ y = -1
        /\ y \in 0..(n - 1) => m.key[y] \in {Empty, a}
        /\ y = -1 => Used(m.key, n) = 0..(n - 1)
        /\ \A j \in Used(m.key, n) : m.key[j] = a => y = j
    BY <1>1, Lookup
  <2>2. i = y BY DEF Pairs!Slot
  <2> HIDE DEF y
  <2> QED BY <2>1, <2>2
<1>4. i = -1 => Pairs!Crowded75(m) /\ ~grown
  <2>1. /\ Used(m.key, m.cap) = 0..(m.cap - 1) => m.size = m.cap /\ Pairs!Crowded75(m)
        /\ m.size < m.cap => Used(m.key, m.cap) # 0..(m.cap - 1)
    BY <1>1, Full
  <2> QED BY <1>3, <2>1
<1>5. i # -1 => i \in 0..(m.cap - 1) BY <1>3
<1>6. ASSUME i # -1, new => makes
      PROVE  \/ /\ c.ret = 0 /\ d # Pairs!NoDest /\ Pairs!Crowded75(d) /\ ~makes
                /\ ~new /\ c.dest = m.dest[i]
             \/ c.ret = f[<<a, b>>] + 1 /\ DestOK(c.dest, a, g)
  <2>1. DestOK(d, a, f) /\ (new => d.size < d.cap) /\ (~new => d = m.dest[i])
    <3>1. CASE new
      <4>1. \A y \in Events : <<a, y>> \in Edges => f[<<a, y>>] = 0
        <5> SUFFICES ASSUME NEW y \in Events, <<a, y>> \in Edges, f[<<a, y>>] # 0 PROVE FALSE OBVIOUS
        <5>1. PICK j \in Used(m.key, n) : m.key[j] = a BY <1>1
        <5> QED BY <1>3, <3>1, <5>1 DEF IsNew
      <4>2. DestOK(Pairs!NewDest, a, f) /\ Pairs!NewDest.size < Pairs!NewDest.cap BY <4>1, NewDestOK
      <4>3. d = Pairs!NewDest BY <3>1 DEF DestOf, IsNew
      <4> HIDE DEF d
      <4> QED BY <3>1, <4>2, <4>3
    <3>2. CASE ~new
      <4>1. m.key[i] = a /\ i \in 0..(n - 1) BY <1>3, <1>6, <3>2 DEF IsNew
      <4>2. i \in Used(m.key, n) BY <1>2, <4>1 DEF Used
      <4>3. d = m.dest[i] BY <1>6, <3>2 DEF DestOf
      <4> HIDE DEF d, new
      <4> QED BY <1>1, <3>2, <4>1, <4>2, <4>3
    <3> QED BY <3>1, <3>2
  <2>2. d # Pairs!NoDest
    <3>1. d.cap \in Nat \ {0} BY <2>1 DEF DestOK, IsTable
    <3>2. Pairs!NoDest.cap = 0 BY DEF Pairs!NoDest
    <3> HIDE DEF d
    <3> QED BY <3>1, <3>2
  <2> HIDE DEF d
  <2>3. DestOK(r, a, f) /\ (Pairs!Crowded75(d) /\ makes => r.size < r.cap)
        /\ (~(Pairs!Crowded75(d) /\ makes) => r = d)
    <3>1. DestOK(Pairs!DestResized(d), a, f) /\ Pairs!DestResized(d).size < Pairs!DestResized(d).cap
      BY <2>1, DestResizedOK
    <3> QED BY <2>1, <2>2, <3>1 DEF Roomy
  <2> HIDE DEF r
  <2>4. \/ c.ret = 0 /\ c.dest = r /\ Pairs!Crowded75(r) /\ ~(r.size < r.cap)
        \/ c.ret = f[<<a, b>>] + 1 /\ DestOK(c.dest, a, g)
    BY <2>3, CountedOK DEF Bump
  <2> HIDE DEF c, g
  <2>5. ASSUME c.ret = 0, c.dest = r, Pairs!Crowded75(r), ~(r.size < r.cap)
        PROVE  /\ c.ret = 0 /\ d # Pairs!NoDest /\ Pairs!Crowded75(d) /\ ~makes
               /\ ~new /\ c.dest = m.dest[i]
    <3>1. ~(Pairs!Crowded75(d) /\ makes) BY <2>3, <2>5
    <3>2. r = d BY <2>3, <3>1
    <3>3. Pairs!Crowded75(d) /\ ~makes BY <2>5, <3>1, <3>2
    <3>4. ~new BY <1>6, <3>3
    <3> QED BY <2>1, <2>2, <2>5, <3>2, <3>3, <3>4
  <2> QED BY <2>4, <2>5
<1> QED BY <1>4, <1>5, <1>6

\* event_graph_map_increment keeps the invariant, whichever allocations fail.
LEMMA StepIncrement ==
  ASSUME PairInv, NEW e \in Edges, NEW grows \in BOOLEAN, NEW makes \in BOOLEAN,
         Pairs!Increment(e[1], e[2], grows, makes)
  PROVE  PairInv'
<1> DEFINE a == e[1]
           b == e[2]
           grown == Pairs!Crowded75(map) /\ grows
           m == IF grown THEN Pairs!MapResized(map) ELSE map
           i == Pairs!Slot(m, a)
           new == IsNew(m, i, a)
           d == DestOf(m, i, a)
           c == Pairs!Counted(Roomy(d, makes), b)
           g == Bump(freq, a, b)
<1>0. /\ freq \in [Edges -> Nat] /\ MapOK(map, freq) /\ short \in BOOLEAN
      /\ ret = 0 \/ (last \in Edges /\ ret = freq[last])
      /\ ret = 0 => short \/ \A x \in Edges : freq[x] = 0
  BY DEF PairInv
<1>1. /\ last' = <<a, b>>
      /\ short' = \/ short
                  \/ Pairs!Crowded75(map) /\ ~grows
                  \/ (new \/ (d # Pairs!NoDest /\ Pairs!Crowded75(d))) /\ ~makes
      /\ i = -1 \/ (new /\ ~makes) => map' = m /\ ret' = 0
      /\ ~(i = -1 \/ (new /\ ~makes)) =>
           /\ map' = [m EXCEPT !.key[i] = a, !.dest[i] = c.dest, !.size = IF new THEN @ + 1 ELSE @]
           /\ ret' = c.ret
      /\ freq' = [freq EXCEPT ![last'] = IF ret' = 0 THEN @ ELSE @ + 1]
  BY DEF Pairs!Increment, IsNew, DestOf, Roomy
<1>2. a \in Events /\ b \in Events /\ <<a, b>> \in Edges /\ <<a, b>> = e BY EventFacts
<1>3. MapOK(m, freq) /\ (grown => m.size < m.cap)
  <2>1. MapOK(Pairs!MapResized(map), freq) /\ Pairs!MapResized(map).size < Pairs!MapResized(map).cap
    BY <1>0, MapResizedOK
  <2> QED BY <1>0, <2>1
<1>4. grown \in BOOLEAN OBVIOUS
<1>5. /\ i = -1 => Pairs!Crowded75(m) /\ ~grown
      /\ i # -1 => i \in 0..(m.cap - 1)
      /\ i # -1 /\ (new => makes) =>
           \/ /\ c.ret = 0 /\ d # Pairs!NoDest /\ Pairs!Crowded75(d) /\ ~makes
              /\ ~new /\ c.dest = m.dest[i]
           \/ c.ret = freq[<<a, b>>] + 1 /\ DestOK(c.dest, a, g)
  <2>1. i = Pairs!Slot(m, a) OBVIOUS
  <2> HIDE DEF m, i, grown, a, b
  <2> QED BY <1>0, <1>2, <1>3, <1>4, <2>1, IncrementOK
<1>6. ~grown => m = map OBVIOUS
<1>7. g \in [Edges -> Nat] /\ g[e] = freq[e] + 1 /\ \A x \in Edges : x # e => g[x] = freq[x]
  BY <1>0, <1>2 DEF Bump
<1>8. last' = e /\ freq' = [freq EXCEPT ![e] = IF ret' = 0 THEN @ ELSE @ + 1]
  BY <1>1, <1>2
<1>9. (ret' = 0 => freq' = freq) /\ (ret' # 0 => freq' = g) BY <1>0, <1>2, <1>8 DEF Bump
<1>10. (i = -1 => grown = FALSE /\ Pairs!Crowded75(map))
  BY <1>5, <1>6
<1>11. i = Pairs!ProbeEnd(m.key, m.cap, a, a) BY DEF Pairs!Slot
<1>12. (grown <=> Pairs!Crowded75(map) /\ grows) /\ (new <=> i # -1 /\ m.key[i] # a) BY DEF IsNew
<1> HIDE DEF m, c, d, i, g, grown, a, b, new
<1>13. CASE i = -1
  <2>1. map' = m /\ ret' = 0 BY <1>1, <1>13
  <2>2. short' BY <1>1, <1>10, <1>12, <1>13
  <2> QED BY <1>0, <1>1, <1>3, <1>8, <1>9, <2>1, <2>2 DEF PairInv
<1>14. CASE i # -1 /\ new /\ ~makes
  <2>1. map' = m /\ ret' = 0 BY <1>1, <1>14
  <2>2. short' BY <1>1, <1>14
  <2> QED BY <1>0, <1>1, <1>3, <1>8, <1>9, <2>1, <2>2 DEF PairInv
<1>15. CASE i # -1 /\ (new => makes)
  <2> DEFINE x == c.dest
  <2>1. map' = [m EXCEPT !.key[i] = a, !.dest[i] = x, !.size = IF new THEN @ + 1 ELSE @]
        /\ ret' = c.ret
    BY <1>1, <1>15
  <2>2. map' = MapAfter(m, i, a, x) BY <1>12, <1>15, <2>1 DEF MapAfter
  <2>3. i \in 0..(m.cap - 1) BY <1>5, <1>15
  <2>4. CASE c.ret = 0 /\ d # Pairs!NoDest /\ Pairs!Crowded75(d) /\ ~makes /\ ~new /\ x = m.dest[i]
    <3>1. m.key[i] = a /\ ret' = 0 /\ short' BY <1>1, <1>12, <1>15, <2>1, <2>4
    <3>2. DestOK(m.dest[i], a, freq)
      <4>1. i \in Used(m.key, m.cap) BY <1>2, <2>3, <3>1, EventFacts DEF Used
      <4> QED BY <1>3, <3>1, <4>1 DEF MapOK
    <3>3. MapOK(map', freq)
      <4>1. DestOK(x, a, freq) /\ Pairs!ProbeEnd(m.key, m.cap, a, a) = i BY <1>11, <2>4, <3>2
      <4>2. \A y \in Edges : y[1] # a => freq[y] = freq[y] OBVIOUS
      <4>3. MapOK(MapAfter(m, i, a, x), freq)
        BY <1>0, <1>2, <1>3, <2>3, <4>1, <4>2, SourceOK
      <4> QED BY <2>2, <4>3
    <3> QED BY <1>0, <1>8, <1>9, <3>1, <3>3 DEF PairInv
  <2>5. CASE c.ret = freq[<<a, b>>] + 1 /\ DestOK(x, a, g)
    <3>1. ret' = freq[e] + 1 /\ ret' # 0 BY <1>0, <1>2, <2>1, <2>5
    <3>2. MapOK(map', g)
      <4>1. DestOK(x, a, g) /\ Pairs!ProbeEnd(m.key, m.cap, a, a) = i BY <1>11, <2>5
      <4>2. \A y \in Edges : y[1] # a => g[y] = freq[y] BY <1>7 DEF a
      <4>3. MapOK(MapAfter(m, i, a, x), g)
        BY <1>0, <1>2, <1>3, <1>7, <2>3, <4>1, <4>2, SourceOK
      <4> QED BY <2>2, <4>3
    <3>3. short' \in BOOLEAN BY <1>1
    <3> QED BY <1>7, <1>8, <1>9, <3>1, <3>2, <3>3 DEF PairInv
  <2> QED BY <1>5, <1>15, <2>4, <2>5
<1> QED BY <1>13, <1>14, <1>15

\* So does event_graph_map_clear.
LEMMA StepClear == PairInv /\ Pairs!ClearMap => PairInv'
<1> SUFFICES ASSUME PairInv, Pairs!ClearMap PROVE PairInv' OBVIOUS
<1> DEFINE n == map.cap
<1>1. /\ map' = [map EXCEPT !.size = 0, !.key = [i \in DOMAIN @ |-> Empty],
                            !.dest = [i \in DOMAIN @ |-> Pairs!NoDest]]
      /\ freq' = [e \in Edges |-> 0] /\ ret' = 0 /\ UNCHANGED <<last, short>>
  BY DEF Pairs!ClearMap
<1>2. /\ map = [cap |-> n, size |-> map.size, key |-> map.key, dest |-> map.dest]
      /\ IsTable(map.key, n) /\ map.dest = [i \in 0..(n - 1) |-> map.dest[i]]
  BY DEF PairInv, MapOK
<1>3. DOMAIN map.key = 0..(n - 1) /\ DOMAIN map.dest = 0..(n - 1) /\ n \in Nat \ {0}
  BY <1>2 DEF IsTable
<1> DEFINE k == [i \in 0..(n - 1) |-> Empty]
           t == [i \in 0..(n - 1) |-> Pairs!NoDest]
<1>4. map' = [cap |-> n, size |-> 0, key |-> k, dest |-> t]
  <2> DEFINE q == [cap |-> n, size |-> map.size, key |-> map.key, dest |-> map.dest]
             r1 == [q EXCEPT !.size = 0]
             r2 == [r1 EXCEPT !.key = [i \in DOMAIN @ |-> Empty]]
             r3 == [r2 EXCEPT !.dest = [i \in DOMAIN @ |-> Pairs!NoDest]]
  <2>1. map = q BY <1>2
  <2>2. map' = [q EXCEPT !.size = 0, !.key = [i \in DOMAIN @ |-> Empty],
                         !.dest = [i \in DOMAIN @ |-> Pairs!NoDest]]
    <3> HIDE DEF q
    <3> QED BY <1>1, <2>1
  <2>3. map' = r3 BY <2>2
  <2>4. r1 = [cap |-> n, size |-> 0, key |-> map.key, dest |-> map.dest] OBVIOUS
  <2> HIDE DEF r1
  <2> DEFINE k1 == [i \in DOMAIN r1.key |-> Empty]
  <2>a. r2 = [r1 EXCEPT !.key = k1] OBVIOUS
  <2>b. k1 = k BY <1>3, <2>4
  <2> HIDE DEF r2, k1, k
  <2>5. r2 = [cap |-> n, size |-> 0, key |-> k, dest |-> map.dest] BY <2>4, <2>a, <2>b
  <2> DEFINE t1 == [i \in DOMAIN r2.dest |-> Pairs!NoDest]
  <2>c. r3 = [r2 EXCEPT !.dest = t1] OBVIOUS
  <2>d. t1 = t BY <1>3, <2>5
  <2> HIDE DEF r3, t1, t
  <2>6. r3 = [cap |-> n, size |-> 0, key |-> k, dest |-> t] BY <2>5, <2>c, <2>d
  <2> HIDE DEF r3
  <2> QED BY <2>3, <2>6
<1> DEFINE m == map'
<1>5. m.cap = n /\ m.size = 0 /\ m.key = k /\ m.dest = t
      /\ m = [cap |-> m.cap, size |-> m.size, key |-> m.key, dest |-> m.dest]
  BY <1>4
<1>6. IsTable(k, n) /\ Used(k, n) = {} /\ t = [i \in 0..(n - 1) |-> t[i]] BY <1>3 DEF IsTable, Used
<1>7. Probed(k, n) /\ Cardinality(Used(k, n)) = 0 BY <1>6, FS_EmptySet DEF Probed
<1> DEFINE f == [e \in Edges |-> 0]
<1>8. f \in [Edges -> Nat] /\ \A e \in Edges : f[e] = 0 OBVIOUS
<1> HIDE DEF k, t, f, m
<1>9. MapOK(m, f)
  <2>1. IsTable(m.key, m.cap) /\ Probed(m.key, m.cap) /\ m.size = Cardinality(Used(m.key, m.cap))
    BY <1>5, <1>6, <1>7
  <2>2. m.dest = [i \in 0..(m.cap - 1) |-> m.dest[i]] BY <1>5, <1>6
  <2>3. Used(m.key, m.cap) = {} BY <1>5, <1>6
  <2>4. m = [cap |-> m.cap, size |-> m.size, key |-> m.key, dest |-> m.dest] BY <1>5
  <2> QED BY <1>8, <2>1, <2>2, <2>3, <2>4 DEF MapOK
<1>10. freq' = f BY <1>1 DEF f
<1>11. short' \in BOOLEAN BY <1>1 DEF PairInv
<1>12. MapOK(map', f) BY <1>9 DEF m
<1> QED BY <1>1, <1>8, <1>10, <1>11, <1>12 DEF PairInv

\* An empty map has counted nothing.
LEMMA PairStart == Pairs!PairInit => PairInv
<1> SUFFICES ASSUME Pairs!PairInit PROVE PairInv OBVIOUS
<1> DEFINE n == MinSlots
           k == [i \in 0..(n - 1) |-> Empty]
           t == [i \in 0..(n - 1) |-> Pairs!NoDest]
           f == [e \in Edges |-> 0]
           m == map
<1>1. m = [cap |-> n, size |-> 0, key |-> k, dest |-> t] /\ freq = f /\ ret = 0 /\ short = FALSE
  BY DEF Pairs!PairInit, Pairs!NewMap
<1>2. n \in Nat \ {0} BY PairAssumption
<1>3. m.cap = n /\ m.size = 0 /\ m.key = k /\ m.dest = t
      /\ m = [cap |-> m.cap, size |-> m.size, key |-> m.key, dest |-> m.dest]
  BY <1>1
<1>4. IsTable(k, n) /\ Used(k, n) = {} /\ t = [i \in 0..(n - 1) |-> t[i]] BY <1>2 DEF IsTable, Used
<1>5. Probed(k, n) /\ Cardinality(Used(k, n)) = 0 BY <1>4, FS_EmptySet DEF Probed
<1>6. f \in [Edges -> Nat] /\ \A e \in Edges : f[e] = 0 OBVIOUS
<1> HIDE DEF k, t, f, m, n
<1>7. MapOK(m, f)
  <2>1. IsTable(m.key, m.cap) /\ Probed(m.key, m.cap) /\ m.size = Cardinality(Used(m.key, m.cap))
    BY <1>3, <1>4, <1>5
  <2>2. m.dest = [i \in 0..(m.cap - 1) |-> m.dest[i]] BY <1>3, <1>4
  <2>3. Used(m.key, m.cap) = {} BY <1>3, <1>4
  <2>4. m = [cap |-> m.cap, size |-> m.size, key |-> m.key, dest |-> m.dest] BY <1>3
  <2> QED BY <1>6, <2>1, <2>2, <2>3, <2>4 DEF MapOK
<1> QED BY <1>1, <1>6, <1>7 DEF PairInv, m

\* event_graph_map_get_frequency answers how often the edge was counted.
LEMMA FrequencyIs ==
  ASSUME PairInv, NEW e \in Edges
  PROVE  Pairs!GetFrequency(e[1], e[2]) = freq[e]
<1> DEFINE a == e[1]
           b == e[2]
           i == Pairs!Slot(map, a)
           d == map.dest[i]
           j == Pairs!Slot(d, b)
<1>1. a \in Events /\ b \in Events /\ e = <<a, b>> /\ a # Empty /\ b # Empty BY EventFacts
<1>2. /\ IsTable(map.key, map.cap) /\ Probed(map.key, map.cap)
      /\ \A x \in Used(map.key, map.cap) : DestOK(map.dest[x], map.key[x], freq)
      /\ freq[e] # 0 => \E x \in Used(map.key, map.cap) : map.key[x] = a
      /\ freq[e] \in Nat
  BY DEF PairInv, MapOK
<1>3. /\ i \in 0..(map.cap - 1) \/ i = -1
      /\ \A x \in Used(map.key, map.cap) : map.key[x] = a => i = x
  <2> DEFINE y == Pairs!ProbeEnd(map.key, map.cap, a, a)
  <2>1. /\ y \in 0..(map.cap - 1) \/ y = -1
        /\ \A x \in Used(map.key, map.cap) : map.key[x] = a => y = x
    BY <1>1, <1>2, Lookup
  <2> QED BY <2>1 DEF Pairs!Slot
<1>4. map.cap \in Nat /\ i # -1 => i \in 0..(map.cap - 1) BY <1>3
<1>5. Pairs!GetFrequency(a, b) = IF i = -1 \/ map.key[i] # a THEN 0
                                 ELSE IF j = -1 \/ d.key[j] # b THEN 0 ELSE d.freq[j]
  BY DEF Pairs!GetFrequency
<1>6. map.cap \in Nat \ {0} BY <1>2 DEF IsTable
<1> HIDE DEF i, a, b
<1>7. CASE i = -1 \/ map.key[i] # a
  <2>1. freq[e] = 0
    <3> SUFFICES ASSUME freq[e] # 0 PROVE FALSE OBVIOUS
    <3>1. PICK x \in Used(map.key, map.cap) : map.key[x] = a BY <1>2
    <3>2. x \in 0..(map.cap - 1) BY DEF Used
    <3> QED BY <1>3, <1>6, <1>7, <3>1, <3>2
  <2> QED BY <1>5, <1>7, <2>1 DEF a, b
<1>8. CASE i # -1 /\ map.key[i] = a
  <2>1. i \in Used(map.key, map.cap) BY <1>1, <1>4, <1>6, <1>8 DEF Used
  <2>2. DestOK(d, a, freq) BY <1>2, <1>8, <2>1
  <2> HIDE DEF d
  <2>3. /\ IsTable(d.key, d.cap) /\ Probed(d.key, d.cap)
        /\ \A x \in Used(d.key, d.cap) : d.freq[x] = freq[<<a, d.key[x]>>]
        /\ freq[<<a, b>>] # 0 => \E x \in Used(d.key, d.cap) : d.key[x] = b
    BY <1>1, <2>2 DEF DestOK
  <2>4. /\ j \in 0..(d.cap - 1) \/ j = -1
        /\ \A x \in Used(d.key, d.cap) : d.key[x] = b => j = x
    <3> DEFINE y == Pairs!ProbeEnd(d.key, d.cap, b, b)
    <3>1. /\ y \in 0..(d.cap - 1) \/ y = -1
          /\ \A x \in Used(d.key, d.cap) : d.key[x] = b => y = x
      BY <1>1, <2>3, Lookup
    <3> QED BY <3>1 DEF Pairs!Slot
  <2>5. d.cap \in Nat \ {0} BY <2>3 DEF IsTable
  <2> HIDE DEF j
  <2>6. CASE j = -1 \/ d.key[j] # b
    <3>1. freq[<<a, b>>] = 0
      <4> SUFFICES ASSUME freq[<<a, b>>] # 0 PROVE FALSE OBVIOUS
      <4>1. PICK x \in Used(d.key, d.cap) : d.key[x] = b BY <2>3
      <4>2. x \in 0..(d.cap - 1) BY DEF Used
      <4> QED BY <2>4, <2>5, <2>6, <4>1, <4>2
    <3> QED BY <1>1, <1>5, <1>8, <2>6, <3>1 DEF a, b
  <2>7. CASE j # -1 /\ d.key[j] = b
    <3>1. j \in Used(d.key, d.cap) BY <1>1, <2>4, <2>7 DEF Used
    <3>2. d.freq[j] = freq[e] BY <1>1, <2>3, <2>7, <3>1
    <3> QED BY <1>5, <1>8, <2>7, <3>2 DEF a, b
  <2> QED BY <2>6, <2>7
<1> QED BY <1>7, <1>8

-----------------------------------------------------------------------------
\* The edges counted whose sources are in the first i slots, and those of one source.
CountedTo(m, f, i) ==
  {e \in Edges : f[e] # 0 /\ \E j \in Used(m.key, m.cap) : j < i /\ m.key[j] = e[1]}
CountedFrom(f, a) == {e \in Edges : f[e] # 0 /\ e[1] = a}

\* A destination map's size is the number of the edges counted from its source.
LEMMA SizeIs ==
  ASSUME NEW d, NEW a, NEW f, DestOK(d, a, f)
  PROVE  Cardinality(CountedFrom(f, a)) = d.size
<1> DEFINE U == Used(d.key, d.cap)
           b == [j \in U |-> <<a, d.key[j]>>]
<1>1. /\ IsTable(d.key, d.cap) /\ Probed(d.key, d.cap) /\ d.size = Cardinality(U)
      /\ \A j \in U : <<a, d.key[j]>> \in Edges /\ f[<<a, d.key[j]>>] # 0
      /\ \A x \in Events : <<a, x>> \in Edges /\ f[<<a, x>>] # 0 => \E j \in U : d.key[j] = x
  BY DEF DestOK
<1>2. IsFiniteSet(U) BY <1>1, UsedFinite DEF IsTable
<1>3. \A j, k \in U : d.key[j] = d.key[k] => j = k BY <1>1 DEF Probed
<1>4. \A j \in U : b[j] = <<a, d.key[j]>> OBVIOUS
<1>5. b \in [U -> CountedFrom(f, a)] BY <1>1 DEF CountedFrom
<1> HIDE DEF U
<1>6. \A j, k \in U : b[j] = b[k] => j = k BY <1>3
<1>7. \A e \in CountedFrom(f, a) : \E j \in U : b[j] = e
  <2> TAKE e \in CountedFrom(f, a)
  <2>1. e \in Edges /\ e = <<a, e[2]>> /\ e[2] \in Events /\ f[e] # 0 BY EventFacts DEF CountedFrom
  <2>2. PICK j \in U : d.key[j] = e[2] BY <1>1, <2>1
  <2> QED BY <2>1, <2>2
<1> HIDE DEF b
<1>8. b \in Bijection(U, CountedFrom(f, a))
  BY <1>5, <1>6, <1>7 DEF Bijection, Injection, Surjection, IsInjective
<1>9. ExistsBijection(U, CountedFrom(f, a)) BY <1>8 DEF ExistsBijection
<1> QED BY <1>1, <1>2, <1>9, FS_Bijection

\* EdgeCount, as a function of the slots.
SlotCount(m, i) == IF m.key[i] = Empty THEN 0 ELSE m.dest[i].size
SumTo(f, m) == f = [i \in 0..m.cap |-> IF i = 0 THEN 0 ELSE f[i - 1] + SlotCount(m, i - 1)]

\* EdgeCount, without its LET.
LEMMA EdgeCountIs == Pairs!EdgeCount = (CHOOSE f : SumTo(f, map))[map.cap]
BY DEF Pairs!EdgeCount, SumTo, SlotCount

\* Its recursion has a solution.
LEMMA SumToExists ==
  ASSUME NEW m, NEW f, MapOK(m, f)
  PROVE  \E s : SumTo(s, m)
<1> DEFINE F == [a \in (1..m.cap) \X Nat |-> a[2] + SlotCount(m, a[1] - 1)]
<1>1. m.cap \in Nat \ {0} BY DEF MapOK, IsTable
<1>2. \A i \in 0..(m.cap - 1) : SlotCount(m, i) \in Nat
  <2> TAKE i \in 0..(m.cap - 1)
  <2>1. CASE m.key[i] = Empty BY <2>1 DEF SlotCount
  <2>2. CASE m.key[i] # Empty
    <3>1. i \in Used(m.key, m.cap) BY <2>2 DEF Used
    <3> DEFINE d == m.dest[i]
    <3>2. DestOK(d, m.key[i], f) BY <3>1 DEF MapOK
    <3> HIDE DEF d
    <3>3. IsTable(d.key, d.cap) /\ d.size = Cardinality(Used(d.key, d.cap)) BY <3>2 DEF DestOK
    <3>4. d.size \in Nat BY <3>3, UsedFinite DEF IsTable
    <3> QED BY <2>2, <3>4 DEF SlotCount, d
  <2> QED BY <2>1, <2>2
<1>3. F \in [(1..m.cap) \X Nat -> Nat]
  <2>1. \A a \in (1..m.cap) \X Nat : a[2] + SlotCount(m, a[1] - 1) \in Nat
    <3> TAKE a \in (1..m.cap) \X Nat
    <3>1. a[1] - 1 \in 0..(m.cap - 1) /\ a[2] \in Nat BY <1>1
    <3>2. SlotCount(m, a[1] - 1) \in Nat BY <1>2, <3>1
    <3> QED BY <3>1, <3>2
  <2> QED BY <2>1
<1>4. \A i \in 1..m.cap, r \in Nat : F[<<i, r>>] = r + SlotCount(m, i - 1) OBVIOUS
<1> HIDE DEF F
<1>5. PICK s \in [0..m.cap -> Nat] : Iterates(s, m.cap, 0, F) BY <1>1, <1>3, Iteration
<1>6. ASSUME NEW i \in 0..m.cap, i # 0 PROVE s[i] = s[i - 1] + SlotCount(m, i - 1)
  <2>1. i \in 1..m.cap /\ i - 1 \in 0..m.cap BY <1>1, <1>6
  <2> QED BY <1>4, <1>5, <2>1 DEF Iterates
<1>7. s[0] = 0 BY <1>5 DEF Iterates
<1>8. s = [i \in 0..m.cap |-> IF i = 0 THEN 0 ELSE s[i - 1] + SlotCount(m, i - 1)] BY <1>5, <1>6, <1>7
<1> QED BY <1>8 DEF SumTo

\* The sum over the slots counts every edge once.
LEMMA EdgesSummed ==
  ASSUME PairInv
  PROVE  Pairs!EdgeCount = Cardinality({e \in Edges : freq[e] # 0})
<1> DEFINE n == map.cap
           C(i) == CountedTo(map, freq, i)
           U == Used(map.key, n)
           s == CHOOSE f : SumTo(f, map)
<1>1. /\ IsTable(map.key, n) /\ Probed(map.key, n) /\ MapOK(map, freq)
      /\ \A i \in U : DestOK(map.dest[i], map.key[i], freq)
      /\ \A e \in Edges : freq[e] # 0 => \E i \in U : map.key[i] = e[1]
  BY DEF PairInv, MapOK
<1>2. n \in Nat \ {0} BY <1>1 DEF IsTable
<1>3. SumTo(s, map) BY <1>1, SumToExists
<1> HIDE DEF s
<1>4. s[0] = 0 /\ \A i \in 0..(n - 1) : s[i + 1] = s[i] + SlotCount(map, i)
  <2>1. s[0] = 0 BY <1>2, <1>3 DEF SumTo
  <2>2. ASSUME NEW i \in 0..(n - 1) PROVE s[i + 1] = s[i] + SlotCount(map, i)
    <3>1. i + 1 \in 0..n /\ i + 1 # 0 /\ (i + 1) - 1 = i BY <1>2
    <3> QED BY <1>3, <3>1 DEF SumTo
  <2> QED BY <2>1, <2>2
<1>5. \A i : IsFiniteSet(C(i)) BY PairAssumption, FS_Subset DEF CountedTo
<1>6. \A a : IsFiniteSet(CountedFrom(freq, a)) BY PairAssumption, FS_Subset DEF CountedFrom
<1>7. \A i, j \in U : map.key[i] = map.key[j] => i = j BY <1>1 DEF Probed
<1> DEFINE S == {i \in Nat : i <= n => s[i] = Cardinality(C(i))}
<1>8. 0 \in S
  <2>1. C(0) = {} BY DEF CountedTo, Used
  <2> QED BY <1>4, <2>1, FS_EmptySet
<1>9. ASSUME NEW i \in Nat, i \in S PROVE i + 1 \in S
  <2> SUFFICES ASSUME i + 1 <= n PROVE s[i + 1] = Cardinality(C(i + 1)) OBVIOUS
  <2>1. i \in 0..(n - 1) /\ s[i] = Cardinality(C(i)) /\ s[i + 1] = s[i] + SlotCount(map, i)
    BY <1>2, <1>4, <1>9
  <2>2. U \subseteq 0..(n - 1) BY DEF Used
  <2>3. \A j \in U : j < i + 1 <=> j < i \/ j = i BY <1>2, <2>2
  <2>4. CASE map.key[i] = Empty
    <3>1. i \notin U BY <2>4 DEF Used
    <3>2. C(i + 1) = C(i) BY <2>3, <3>1 DEF CountedTo
    <3>3. SlotCount(map, i) = 0 BY <2>4 DEF SlotCount
    <3>4. Cardinality(C(i)) \in Nat BY <1>5, FS_CardinalityType
    <3> QED BY <2>1, <3>2, <3>3, <3>4
  <2>5. CASE map.key[i] # Empty
    <3> DEFINE a == map.key[i]
    <3>1. i \in U BY <2>1, <2>5 DEF Used
    <3>2. C(i + 1) = C(i) \cup CountedFrom(freq, a) BY <2>3, <3>1 DEF CountedTo, CountedFrom
    <3>3. C(i) \cap CountedFrom(freq, a) = {}
      <4> SUFFICES ASSUME NEW e \in C(i), e \in CountedFrom(freq, a) PROVE FALSE OBVIOUS
      <4>1. e[1] = a BY DEF CountedFrom
      <4>2. PICK j \in U : j < i /\ map.key[j] = e[1] BY DEF CountedTo
      <4>3. j = i BY <1>7, <3>1, <4>1, <4>2
      <4> QED BY <2>1, <4>2, <4>3
    <3>4. Cardinality(CountedFrom(freq, a)) = map.dest[i].size BY <1>1, <3>1, SizeIs
    <3>5. SlotCount(map, i) = map.dest[i].size BY <2>5 DEF SlotCount
    <3>6. Cardinality(C(i)) \in Nat /\ Cardinality(CountedFrom(freq, a)) \in Nat
      BY <1>5, <1>6, FS_CardinalityType
    <3> HIDE DEF C, a
    <3>7. Cardinality(C(i + 1)) = Cardinality(C(i)) + Cardinality(CountedFrom(freq, a))
                                  - Cardinality(C(i) \cap CountedFrom(freq, a))
      BY <1>5, <1>6, <3>2, FS_Union
    <3>8. Cardinality(C(i) \cap CountedFrom(freq, a)) = 0 BY <3>3, FS_EmptySet
    <3> QED BY <2>1, <3>4, <3>5, <3>6, <3>7, <3>8
  <2> QED BY <2>4, <2>5
<1> HIDE DEF S
<1>10. n \in S BY <1>2, <1>8, <1>9, SetInduction
<1>11. s[n] = Cardinality(C(n)) BY <1>2, <1>10 DEF S
<1>12. C(n) = {e \in Edges : freq[e] # 0}
  <2>1. \A j \in U : j < n BY <1>2 DEF Used
  <2> QED BY <1>1, <2>1 DEF CountedTo
<1>13. Pairs!EdgeCount = s[n] BY EdgeCountIs DEF s
<1> QED BY <1>11, <1>12, <1>13

\* The invariant says what CountsExact says.
LEMMA CountsFollow == PairInv => CountsExact
<1> SUFFICES ASSUME PairInv PROVE CountsExact OBVIOUS
<1>1. \A e \in Edges : Pairs!GetFrequency(e[1], e[2]) = freq[e] BY FrequencyIs
<1>2. FrequenciesExact BY <1>1 DEF PairInv, FrequenciesExact
<1>3. {e \in Edges : Pairs!GetFrequency(e[1], e[2]) > 0} = {e \in Edges : freq[e] # 0}
  <2>1. \A e \in Edges : freq[e] \in Nat BY DEF PairInv
  <2>2. \A e \in Edges : Pairs!GetFrequency(e[1], e[2]) > 0 <=> freq[e] # 0 BY <1>1, <2>1
  <2> QED BY <2>2
<1>4. EdgeCountExact BY <1>3, EdgesSummed DEF EdgeCountExact
<1> QED BY <1>2, <1>4 DEF CountsExact

\* event_pair_set.c counts right: through growth of its tables, failing allocations and
\* clearing, every edge has the frequency with which it was counted, and the coverage
\* reported is the number of edges counted.
THEOREM CountsCorrect == TablesSpec => []CountsExact
<1>1. TablesInit => PairInv BY PairStart DEF TablesInit
<1>2. PairInv /\ [TablesNext]_allVars => PairInv'
  <2> SUFFICES ASSUME PairInv, [TablesNext]_allVars PROVE PairInv' OBVIOUS
  <2>1. CASE UNCHANGED <<map, ret, freq, last, short, calls>> BY <2>1 DEF PairInv
  <2>2. CASE Pairs!PairNext
    <3>1. ASSUME NEW e \in Edges, NEW grows \in BOOLEAN, NEW makes \in BOOLEAN,
                 Pairs!Increment(e[1], e[2], grows, makes)
          PROVE  PairInv'
      BY <3>1, StepIncrement
    <3> QED BY <2>2, <3>1, StepClear DEF Pairs!PairNext
  <2> QED BY <2>1, <2>2 DEF TablesNext, allVars
<1> QED BY <1>1, <1>2, CountsFollow, PTL DEF TablesSpec
=============================================================================
