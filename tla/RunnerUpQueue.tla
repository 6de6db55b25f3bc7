--------------------------- MODULE RunnerUpQueue ---------------------------
(***************************************************************************)
(* sgf-queue-runner-up.c: a min-heap of m good entries, a sorted buffer of *)
(* the r next best ones, and an array of the others.                       *)
(***************************************************************************)
EXTENDS SgfHeap, FiniteSets

CONSTANTS Score, MaxEntries, Null,
          M,        \* capacity of the good pile
          R         \* capacity of the runner-up buffer

VARIABLES good, runner, bad, lastId, out,
          handed    \* history: how many entries dequeue has returned

vars == <<good, runner, bad, lastId, out, handed>>

Init ==
  /\ good = <<>> /\ runner = <<>> /\ bad = <<>>
  /\ lastId = 0 /\ out = Null /\ handed = 0

ToRunnerUp(x) ==
  LET a == AdmitToRunnerUp(R, runner, bad, x) IN runner' = a.runner /\ bad' = a.bad

\* rup_enqueue of an entry.
Admit(x) ==
  IF Len(good) < M
  THEN good' = HeapPush(Lower, good, x) /\ UNCHANGED <<runner, bad>>
  ELSE IF x.score > good[1].score
       THEN good' = HeapPush(Lower, HeapPop(Lower, good), x) /\ ToRunnerUp(good[1])
       ELSE UNCHANGED good /\ ToRunnerUp(x)

Enqueue ==
  /\ lastId < MaxEntries
  /\ \E s \in Score : Admit([id |-> lastId + 1, score |-> s])
  /\ lastId' = lastId + 1
  /\ UNCHANGED <<out, handed>>

\* Mutant: the refill keeps the first m entries of the bad pile.
RefilledFirst == SubSeq(bad, 1, IF M < Len(bad) THEN M ELSE Len(bad))

\* rup_rebuild_from_bad: the entries that the scan pops are freed.
Refilled == RefillFrom(Lower, M, bad)

Refill ==
  /\ good = <<>> /\ runner = <<>> /\ bad # <<>>
  /\ out' = Last(Refilled) /\ good' = Front(Refilled)
  /\ bad' = <<>> /\ UNCHANGED runner
  /\ handed' = handed + 1
  /\ UNCHANGED lastId

\* rup_dequeue from a good pile that is not empty: the last leaf goes and the
\* best runner-up is promoted.
TakeLeaf ==
  /\ good # <<>>
  /\ out' = Last(good)
  /\ IF runner = <<>>
     THEN good' = Front(good) /\ UNCHANGED runner
     ELSE good' = HeapPush(Lower, Front(good), Last(runner)) /\ runner' = Front(runner)
  /\ handed' = handed + 1
  /\ UNCHANGED <<bad, lastId>>

\* rup_dequeue returns NULL.
DequeueNull ==
  /\ good = <<>> /\ (runner # <<>> \/ bad = <<>>)
  /\ out' = Null
  /\ UNCHANGED <<good, runner, bad, lastId, handed>>

Next == Enqueue \/ TakeLeaf \/ Refill \/ DequeueNull
Spec == Init /\ [][Next]_vars
-----------------------------------------------------------------------------
\* rup_size
Size == Len(good) + Len(runner) + Len(bad)

\* The good pile is a min-heap of at most m entries and the runner-up buffer is
\* sorted and at most r long, whatever leaves from their ends.
TiersInShape ==
  /\ Len(good) <= M /\ IsHeap(Lower, good)
  /\ Len(runner) <= R /\ Ascending(runner)

\* Until the first dequeue the tiers are what the file's head says: the top m,
\* the next r, the rest.
TiersOrdered ==
  handed = 0 =>
    /\ \A x \in ToSet(good) : \A y \in ToSet(runner) \cup ToSet(bad) : x.score >= y.score
    /\ \A x \in ToSet(runner) : \A y \in ToSet(bad) : x.score >= y.score

\* Every entry that was enqueued is queued or has been returned.
NoneDropped == Size = lastId - handed
=============================================================================
