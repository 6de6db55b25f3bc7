------------------------------ MODULE SgfQueue ------------------------------
(***************************************************************************)
(* The bounded candidate queue as the fuzzer sees it: sgf-queue-dispatch.c *)
(* creates one of four implementations by name and routes every call to    *)
(* it.  The variables hold the state of whichever implementation that is.  *)
(***************************************************************************)
EXTENDS SgfHeap

CONSTANTS Score, MaxEntries, Null,
          M, R,         \* capacities of the good pile and the runner-up buffer
          T,            \* operations between rebuilds of the threshold_bucket queue
          BadCap        \* initial capacity of its bad pile

ASSUME QueueAssumption ==
  /\ Score \subseteq Nat /\ MaxEntries \in Nat
  /\ M \in Nat \ {0} /\ R \in Nat /\ T \in Nat \ {0} /\ BadCap \in Nat \ {0}

Impl == {"maxheap", "threshold_bucket", "runner_up", "maxheap_bucket"}

VARIABLES impl, good, runner, bad, badCap, ops, threshold, filling, lastId, out, handed

vars == <<impl, good, runner, bad, badCap, ops, threshold, filling, lastId, out, handed>>

Mh  == INSTANCE MaxHeapQueue WITH heap <- good
Tbq == INSTANCE ThresholdBucketQueue
Rup == INSTANCE RunnerUpQueue
Mhb == INSTANCE MaxHeapBucketQueue

\* sgf_queue_create
Init == impl \in Impl /\ Mh!Init /\ Tbq!Init /\ Mhb!Init

Maxheap ==
  /\ impl = "maxheap" /\ Mh!Next
  /\ UNCHANGED <<runner, bad, badCap, ops, threshold, filling, handed>>

ThresholdBucket ==
  /\ impl = "threshold_bucket" /\ Tbq!Next
  /\ UNCHANGED <<runner, threshold, filling, handed>>

RunnerUp ==
  /\ impl = "runner_up" /\ Rup!Next
  /\ UNCHANGED <<badCap, ops, threshold, filling>>

MaxheapBucket == impl = "maxheap_bucket" /\ Mhb!Next /\ UNCHANGED <<badCap, ops>>

Next == (Maxheap \/ ThresholdBucket \/ RunnerUp \/ MaxheapBucket) /\ UNCHANGED impl

Spec == Init /\ [][Next]_vars
-----------------------------------------------------------------------------
Promise == INSTANCE CandidateQueue
             WITH contents <- ToSet(good) \cup ToSet(runner) \cup ToSet(bad)

\* Every implementation behaves like a set of entries, through evictions,
\* promotions, rebuilds and the removal of leaves: nothing is invented or handed
\* out twice, NULL is returned only by an empty queue, the maxheap hands out a best
\* entry, and what is lost at all is what the queue may lose.
ImplementsQueue == Promise!CQSpec

\* The arrays keep the order their next operation relies on, although leaves are
\* removed without sifting and entries are promoted between the tiers.
PilesInShape ==
  /\ impl = "maxheap" => IsHeap(Higher, good)
  /\ impl = "threshold_bucket" => Tbq!GoodPileIsHeap
  /\ impl = "runner_up" => Rup!TiersInShape
  /\ impl = "maxheap_bucket" => Mhb!TiersInShape

\* A rebuild of the threshold_bucket queue, which writes the bad pile without
\* growing its array, never writes beyond it.
BadPileFits == impl = "threshold_bucket" => Tbq!BadPileFits

\* Its piles are never stale for T operations, unless there is nothing to rebuild.
RebuiltInTime == impl = "threshold_bucket" => Tbq!RebuiltInTime

\* Until the first dequeue the tiers of the runner_up queue are what the file's
\* head says: the top m, the next r, the rest.
TiersOrdered == impl = "runner_up" => Rup!TiersOrdered

\* Until the first dequeue the threshold of the maxheap_bucket queue is the least
\* score of its good pile, whichever entries were evicted from it.
ThresholdExact == impl = "maxheap_bucket" => Mhb!ThresholdExactWhileEnqueuing

\* Over any mix of enqueues, dequeues, promotions, refills and rebuilds the tiers of a
\* queue keep the order, the capacity and the cached bound that its next operation
\* relies on.
TiersSound ==
  /\ PilesInShape /\ BadPileFits /\ RebuiltInTime
  /\ TiersOrdered /\ ThresholdExact

\* Until the first dequeue the good pile of the maxheap_bucket queue holds the
\* top m candidates.
GoodPileHoldsTop == impl = "maxheap_bucket" => Mhb!GoodPileHoldsTop
=============================================================================
