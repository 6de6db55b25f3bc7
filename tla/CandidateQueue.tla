--------------------------- MODULE CandidateQueue ---------------------------
(***************************************************************************)
(* What the implementations behind sgf-queue.h promise.  A queue is the    *)
(* set of its entries: one that was enqueued stays until it is dequeued,   *)
(* dequeue returns an entry as long as there is one and NULL otherwise,    *)
(* and the maxheap returns a best one.  The three-tier queues may lose     *)
(* entries while they dequeue; the runner_up queue loses only entries that *)
(* are no better than any it keeps.                                        *)
(***************************************************************************)
EXTENDS Integers

CONSTANTS Score,     \* perf_score values
          Impl,      \* the names of the implementations
          Null

VARIABLES impl,      \* the implementation that sgf_queue_create was asked for
          contents,  \* the queued entries
          lastId,    \* entry ids are handed out in order, each enqueued once
          out        \* what the last dequeue returned

cqVars == <<impl, contents, lastId, out>>

CQInit == impl \in Impl /\ contents = {} /\ lastId = 0 /\ out = Null

CQEnqueue ==
  \E s \in Score :
    /\ contents' = contents \cup {[id |-> lastId + 1, score |-> s]}
    /\ lastId' = lastId + 1
    /\ UNCHANGED <<impl, out>>

NoBetter(X, Y) == \A x \in X, y \in Y : x.score <= y.score

\* Entry x is returned and the entries of kept stay.
MayKeep(x, kept) ==
  /\ impl \in {"maxheap", "threshold_bucket"} => kept = contents \ {x}
  /\ impl = "maxheap" => NoBetter(contents, {x})
  /\ impl = "runner_up" => NoBetter((contents \ {x}) \ kept, kept \cup {x})

CQDequeue ==
  /\ IF contents = {}
     THEN out' = Null /\ UNCHANGED contents
     ELSE \E x \in contents :
            /\ out' = x
            /\ contents' \subseteq contents \ {x}
            /\ MayKeep(x, contents')
  /\ UNCHANGED <<impl, lastId>>

CQSpec == CQInit /\ [][CQEnqueue \/ CQDequeue]_cqVars
=============================================================================
