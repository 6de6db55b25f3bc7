------------------------------ MODULE SeenSet -------------------------------
(***************************************************************************)
(* What skeleton_graph_seen_or_add promises: a set of keys, and for each   *)
(* request whether its key was in the set.                                 *)
(***************************************************************************)
CONSTANTS Keys, None
VARIABLES keys,   \* the keys recorded
          arg,    \* the key of the request being served, or None
          answer  \* of the last request: "seen" or "new"

Init == keys = {} /\ arg = None /\ answer = "new"

Request(k) == arg = None /\ arg' = k /\ UNCHANGED <<keys, answer>>
Answer ==
  /\ arg # None
  /\ answer' = IF arg \in keys THEN "seen" ELSE "new"
  /\ keys' = keys \cup {arg}
  /\ arg' = None

\* A graph without a hash is not recorded.
Ignore == arg = None /\ answer' = "new" /\ UNCHANGED <<keys, arg>>

Next == (\E k \in Keys : Request(k)) \/ Answer \/ Ignore

Spec == Init /\ [][Next]_<<keys, arg, answer>>
=============================================================================
