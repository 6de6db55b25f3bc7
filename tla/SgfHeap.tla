------------------------------ MODULE SgfHeap ------------------------------
(***************************************************************************)
(* The array operations that the candidate queues of the fuzzer share      *)
(* (SGF/main/src/sgf-queue-*.c): binary heaps and the small sorted array.  *)
(* Each queue file has its own copy of them; the copies only differ in the *)
(* direction of the comparison, here dir: the greatest score is at the     *)
(* root of a heap in direction Higher, the least in direction Lower.       *)
(* Index i of the code is i + 1.                                           *)
(***************************************************************************)
EXTENDS Integers, Sequences, SequencesExt

Higher == 1       \* max-heap
Lower == -1       \* min-heap

\* Whether x belongs nearer to the root than y.
Above(dir, x, y) == dir * x.score > dir * y.score

\* The positions from p up to the root.
PathToRoot[p \in Nat] == IF p = 0 THEN {} ELSE {p} \cup PathToRoot[p \div 2]

\* heappush: x rises from the end, and pushes its ancestors down, up to the first place
\* whose parent it is not above.
HeapPush(dir, h, x) ==
  LET n == Len(h) + 1
      stop == Max({p \in PathToRoot[n] : p = 1 \/ ~Above(dir, x, h[p \div 2])})
  IN  [i \in 1..n |-> IF i = stop THEN x
                      ELSE IF i > stop /\ i \in PathToRoot[n] THEN h[i \div 2] ELSE h[i]]

\* x sinks from position p of the array h.
SiftDown(dir, h, p, x) ==
  LET n == Len(h)
      Child(i) == IF 2 * i < n /\ Above(dir, h[2 * i + 1], h[2 * i]) THEN 2 * i + 1 ELSE 2 * i
      sink[i \in 1..n] ==
        IF 2 * i <= n /\ Above(dir, h[Child(i)], x) THEN sink[Child(i)] ELSE i
      stop == sink[p]
  IN  [i \in 1..n |-> IF i = stop THEN x
                      ELSE IF i >= p /\ i \in PathToRoot[stop] THEN h[Child(i)] ELSE h[i]]

\* heappop without its result, which is Head(h): the last leaf sinks from the root.
HeapPop(dir, h) ==
  IF Len(h) = 1 THEN <<>> ELSE SiftDown(dir, Front(h), 1, Last(h))

\* tbq_heapify: every inner node sinks, the last one first.
Heapify(dir, h) ==
  LET inner == Len(h) \div 2
      done[k \in 0..inner] ==
        IF k = 0 THEN h
        ELSE LET i == inner + 1 - k IN SiftDown(dir, done[k - 1], i, done[k - 1][i])
  IN  done[inner]

\* sorted_insert: binary search in an ascending array, then shift right.
SortedInsert(s, x) ==
  LET find[w \in (0..Len(s)) \X (0..Len(s))] ==
        LET l == w[1]
            r == w[2]
            mid == (l + r) \div 2
        IN  IF l >= r THEN l
            ELSE IF s[mid + 1].score < x.score THEN find[<<mid + 1, r>>] ELSE find[<<l, mid>>]
  IN  InsertAt(s, find[<<0, Len(s)>>] + 1, x)

\* Mutant: the runner-up buffer takes entries at its end.
AdmitUnsorted(r, ru, bd, x) ==
  IF Len(ru) < r THEN [runner |-> Append(ru, x), bad |-> bd]
  ELSE [runner |-> ru, bad |-> Append(bd, x)]

\* admit_to_runner_up: x enters a runner-up buffer of capacity r, which may
\* push its worst entry into the bad pile, or goes there itself.
AdmitToRunnerUp(r, ru, bd, x) ==
  IF r = 0 THEN [runner |-> ru, bad |-> Append(bd, x)]
  ELSE IF Len(ru) < r THEN [runner |-> SortedInsert(ru, x), bad |-> bd]
  ELSE IF x.score > ru[1].score THEN [runner |-> SortedInsert(Tail(ru), x), bad |-> Append(bd, ru[1])]
  ELSE [runner |-> ru, bad |-> Append(bd, x)]

\* The good pile that a scan of the bad pile b leaves when it pushes every entry
\* and pops the root whenever there are more than m.
RefillFrom(dir, m, b) ==
  LET scan[i \in 0..Len(b)] ==
        IF i = 0 THEN <<>>
        ELSE LET h == HeapPush(dir, scan[i - 1], b[i])
             IN  IF Len(h) > m THEN HeapPop(dir, h) ELSE h
  IN  scan[Len(b)]

\* No entry is above its parent.
IsHeap(dir, h) == \A i \in 2..Len(h) : ~Above(dir, h[i], h[i \div 2])

Ascending(s) == \A i, j \in 1..Len(s) : i < j => s[i].score <= s[j].score
=============================================================================
