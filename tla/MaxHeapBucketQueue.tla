------------------------- MODULE MaxHeapBucketQueue -------------------------
(***************************************************************************)
(* sgf-queue-maxheap-bucket.c: a max-heap of m entries, a sorted buffer of *)
(* r runners-up, an array of the others, and an admission threshold.       *)
(***************************************************************************)
EXTENDS SgfHeap, FiniteSets

CONSTANTS Score, MaxEntries, Null,
          M,        \* capacity of the good pile
          R         \* capacity of the runner-up buffer

VARIABLES good, runner, bad, threshold, filling, lastId, out,
          handed    \* history: how many entries dequeue has returned

vars == <<good, runner, bad, threshold, filling, lastId, out, handed>>

Init ==
  /\ good = <<>> /\ runner = <<>> /\ bad = <<>>
  /\ threshold = 0 /\ filling = TRUE
  /\ lastId = 0 /\ out = Null /\ handed = 0

MinScore(h) == CHOOSE s \in {x.score : x \in ToSet(h)} : \A x \in ToSet(h) : s <= x.score

ToRunnerUp(x) ==
  LET a == AdmitToRunnerUp(R, runner, bad, x) IN runner' = a.runner /\ bad' = a.bad

\* mhb_enqueue while the good pile has room.
AdmitToRoom(x) ==
  LET g == HeapPush(Higher, good, x)
  IN  /\ good' = g
      /\ filling' = (filling /\ Len(g) # M)
      /\ threshold' = IF Len(g) = M THEN MinScore(g)
                      ELSE IF filling /\ (Len(g) = 1 \/ x.score < threshold) THEN x.score
                      ELSE threshold
      /\ UNCHANGED <<runner, bad>>

\* mhb_enqueue with a full good pile.  The entry it evicts is the root.
AdmitToFull(x) ==
  IF x.score > threshold
  THEN LET g == HeapPush(Higher, HeapPop(Higher, good), x)
       IN  good' = g /\ threshold' = MinScore(g) /\ ToRunnerUp(good[1]) /\ UNCHANGED filling
  ELSE UNCHANGED <<good, threshold, filling>> /\ ToRunnerUp(x)

Enqueue ==
  /\ lastId < MaxEntries
  /\ \E s \in Score : LET x == [id |-> lastId + 1, score |-> s]
                      IN  IF Len(good) < M THEN AdmitToRoom(x) ELSE AdmitToFull(x)
  /\ lastId' = lastId + 1
  /\ UNCHANGED <<out, handed>>

\* mhb_rebuild_from_bad: what the scan pops, the root of a max-heap, is freed.
Refilled == RefillFrom(Higher, M, bad)

Refill ==
  /\ good = <<>> /\ runner = <<>> /\ bad # <<>>
  /\ out' = Head(Refilled) /\ good' = HeapPop(Higher, Refilled)
  /\ threshold' = MinScore(Refilled)
  /\ bad' = <<>>
  /\ handed' = handed + 1
  /\ UNCHANGED <<runner, filling, lastId>>

\* mhb_dequeue from a good pile that is not empty: the root goes and the best
\* runner-up is promoted; the threshold stays.
TakeMax ==
  /\ good # <<>>
  /\ out' = Head(good)
  /\ LET g == HeapPop(Higher, good)
     IN  IF runner = <<>>
         THEN good' = g /\ UNCHANGED runner
         ELSE good' = HeapPush(Higher, g, Last(runner)) /\ runner' = Front(runner)
  /\ handed' = handed + 1
  /\ UNCHANGED <<bad, threshold, filling, lastId>>

\* mhb_dequeue returns NULL.
DequeueNull ==
  /\ good = <<>> /\ (runner # <<>> \/ bad = <<>>)
  /\ out' = Null
  /\ UNCHANGED <<good, runner, bad, threshold, filling, lastId, handed>>

Next == Enqueue \/ TakeMax \/ Refill \/ DequeueNull
Spec == Init /\ [][Next]_vars
-----------------------------------------------------------------------------
\* The good pile is a max-heap of at most m entries and the runner-up buffer is
\* sorted and at most r long, although entries are promoted, evicted and taken.
TiersInShape ==
  /\ Len(good) <= M /\ IsHeap(Higher, good)
  /\ Len(runner) <= R /\ Ascending(runner)

\* The admission threshold is exact whenever it decides: with a full good pile
\* that nothing has been promoted into, it is the least score in it.
ThresholdExactWhileEnqueuing ==
  handed = 0 /\ good # <<>> => threshold = MinScore(good)

\* Until the first dequeue the good pile holds the top m candidates.
GoodPileHoldsTop ==
  handed = 0 => \A x \in ToSet(good) : \A y \in ToSet(runner) \cup ToSet(bad) : x.score >= y.score

\* A refill takes the top m entries of the bad pile.
RefillKeepsTop ==
  good = <<>> /\ runner = <<>> /\ bad # <<>> =>
    \A x \in ToSet(Refilled) : \A y \in ToSet(bad) \ ToSet(Refilled) : x.score >= y.score

\* The threshold is a lower bound on the good pile's minimum.
ThresholdIsLowerBound == \A x \in ToSet(good) : threshold <= x.score
=============================================================================
