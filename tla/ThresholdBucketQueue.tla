------------------------ MODULE ThresholdBucketQueue ------------------------
(***************************************************************************)
(* sgf-queue-threshold-bucket.c: a min-heap of m good entries, an array of *)
(* the others, and a rebuild of both every T operations.                   *)
(***************************************************************************)
EXTENDS SgfHeap, FiniteSets

CONSTANTS Score, MaxEntries, Null,
          M,        \* capacity of the good pile
          T,        \* operations between rebuilds
          BadCap    \* initial capacity of the bad pile's array

VARIABLES good, bad, badCap, ops, lastId, out

vars == <<good, bad, badCap, ops, lastId, out>>

Init ==
  /\ good = <<>> /\ bad = <<>> /\ badCap = BadCap
  /\ ops = 0 /\ lastId = 0 /\ out = Null

\* The orders qsort with compare_nodes_desc may leave: it is not stable.
SortedDesc(s) ==
  LET Best(X) == {x \in X : \A y \in X : y.score <= x.score}
      orders[X \in SUBSET ToSet(s)] ==
        IF X = {} THEN {<<>>}
        ELSE UNION {{<<x>> \o t : t \in orders[X \ {x}]} : x \in Best(X)}
  IN  orders[ToSet(s)]

\* tbq_rebuild of piles g and b, entered with the operation counter at n.
Rebuild(g, b, n) ==
  IF g \o b = <<>>
  THEN good' = g /\ bad' = b /\ ops' = n
  ELSE \E all \in SortedDesc(g \o b) :
         LET take == IF M < Len(all) THEN M ELSE Len(all)
         IN  /\ good' = Heapify(Lower, SubSeq(all, 1, take))
             /\ bad' = SubSeq(all, take + 1, Len(all))
             /\ ops' = 0

\* The operation is counted; the T-th since the last rebuild rebuilds.
CountOp(g, b, n) ==
  IF n >= T THEN Rebuild(g, b, n) ELSE good' = g /\ bad' = b /\ ops' = n

\* Appending to the bad pile doubles a full array.
Grown(b) == IF Len(b) = badCap THEN badCap * 2 ELSE badCap

\* tbq_enqueue of an entry.
Admit(x) ==
  IF Len(good) < M
  THEN CountOp(HeapPush(Lower, good, x), bad, ops + 1) /\ UNCHANGED badCap
  ELSE /\ IF x.score > good[1].score
          THEN CountOp(HeapPush(Lower, HeapPop(Lower, good), x), Append(bad, good[1]), ops + 1)
          ELSE CountOp(good, Append(bad, x), ops + 1)
       /\ badCap' = Grown(bad)

Enqueue ==
  /\ lastId < MaxEntries
  /\ \E s \in Score : Admit([id |-> lastId + 1, score |-> s])
  /\ lastId' = lastId + 1
  /\ UNCHANGED out

\* tbq_dequeue from a good pile that is not empty: the last leaf goes, and the
\* rebuild that may follow does not see it.
TakeLeaf ==
  /\ good # <<>>
  /\ out' = Last(good)
  /\ CountOp(Front(good), bad, ops + 1)
  /\ UNCHANGED <<badCap, lastId>>

\* tbq_dequeue from an empty good pile: a rebuild from the bad pile, then as
\* above, with the counter just reset.
Refill ==
  /\ good = <<>> /\ bad # <<>>
  /\ \E all \in SortedDesc(bad) :
       LET take == IF M < Len(all) THEN M ELSE Len(all)
           g == Heapify(Lower, SubSeq(all, 1, take))
       IN  out' = Last(g) /\ CountOp(Front(g), SubSeq(all, take + 1, Len(all)), 1)
  /\ UNCHANGED <<badCap, lastId>>

DequeueEmpty ==
  /\ good = <<>> /\ bad = <<>>
  /\ out' = Null
  /\ UNCHANGED <<good, bad, badCap, ops, lastId>>

Dequeue == TakeLeaf \/ Refill \/ DequeueEmpty

Next == Enqueue \/ Dequeue
Spec == Init /\ [][Next]_vars
-----------------------------------------------------------------------------
\* The good pile stays a min-heap of at most m entries although dequeue removes
\* its last leaf without sifting: its root is the admission threshold.
GoodPileIsHeap == Len(good) <= M /\ IsHeap(Lower, good)

\* A rebuild, which writes the bad pile without growing its array, never
\* writes beyond it.
BadPileFits == Len(bad) <= badCap

\* The piles are never stale for T operations, unless there is nothing to rebuild.
RebuiltInTime == ops < T \/ good \o bad = <<>>
=============================================================================
