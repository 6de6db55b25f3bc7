---------------------------- MODULE MaxHeapQueue ----------------------------
(***************************************************************************)
(* sgf-queue-maxheap.c, the default candidate queue: one unbounded         *)
(* max-heap.                                                               *)
(***************************************************************************)
EXTENDS SgfHeap

CONSTANTS Score, MaxEntries, Null

VARIABLES heap, lastId, out

vars == <<heap, lastId, out>>

Init == heap = <<>> /\ lastId = 0 /\ out = Null

\* maxheap_enqueue; at most MaxEntries entries are created.
Enqueue ==
  /\ lastId < MaxEntries
  /\ \E s \in Score : heap' = HeapPush(Higher, heap, [id |-> lastId + 1, score |-> s])
  /\ lastId' = lastId + 1
  /\ UNCHANGED out

\* maxheap_dequeue
Dequeue ==
  /\ IF heap = <<>> THEN out' = Null /\ UNCHANGED heap
     ELSE out' = Head(heap) /\ heap' = HeapPop(Higher, heap)
  /\ UNCHANGED lastId

Next == Enqueue \/ Dequeue
Spec == Init /\ [][Next]_vars
=============================================================================
