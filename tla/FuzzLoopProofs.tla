--------------------------- MODULE FuzzLoopProofs ---------------------------
(***************************************************************************)
(* Proofs about SkeletonStage for every mutator, target and tree, and      *)
(* about PhaseControl, the loop around it, for every value of its          *)
(* constants.                                                              *)
(***************************************************************************)
EXTENDS SkeletonStage, PhaseControl, SequenceTheorems, TLAPS

\* The type invariant in parts: what an action leaves alone it leaves alone as a
\* whole.
EntryTypes ==
  /\ corpus \in Seq(Graphs)
  /\ feedback \in Seq(MaybeFeedback) /\ Len(feedback) = Len(corpus)
  /\ simulated \in Seq(BOOLEAN) /\ Len(simulated) = Len(corpus)
  /\ forbidden \in Seq(SUBSET Events) /\ Len(forbidden) = Len(corpus)
  /\ children \in Seq(BOOLEAN) /\ Len(children) = Len(corpus)

\* Every index the stage holds is that of an entry.
TreeTypes ==
  /\ cur \in Entries /\ step \in Nat \ {0} /\ instance \in Nat /\ stageCur \in Nat
  /\ prev \in Seq(Nat) /\ \A k \in 1..Len(prev) : prev[k] \in Entries
  /\ curr \in Seq(Nat) /\ \A k \in 1..Len(curr) : curr[k] \in Entries

\* There is a candidate from its first mutation on.
CandidateTypes ==
  /\ pc \in {"select", "simulate", "mutate", "chain", "score", "aborted"}
  /\ working \in Graphs \cup {NoGraph} /\ added \in Events \cup {NoEvent}
  /\ chain \in 0..3 /\ result \in MaybeFeedback
  /\ pc \in {"chain", "score"} => working \in Graphs

MemoryTypes == seen \subseteq Graphs /\ shm \in Graphs \cup {NoGraph}

TypeInv == EntryTypes /\ TreeTypes /\ CandidateTypes /\ MemoryTypes

LEMMA TypeInvTypes == TypeInv => TypeOK
BY DEF TypeInv, EntryTypes, TreeTypes, CandidateTypes, MemoryTypes, TypeOK, Entries

LEMMA EntriesFrame == EntryTypes /\ UNCHANGED entryVars => EntryTypes' /\ Entries' = Entries
BY DEF EntryTypes, entryVars, Entries

LEMMA TreeFrame == TreeTypes /\ UNCHANGED treeVars /\ UNCHANGED corpus => TreeTypes'
BY DEF TreeTypes, treeVars, Entries

\* What Append leaves and adds.
LEMMA AppendLookup ==
  ASSUME NEW S, NEW s \in Seq(S), NEW x \in S
  PROVE  /\ Append(s, x)[Len(s) + 1] = x
         /\ \A i \in 1..Len(s) : Append(s, x)[i] = s[i]
BY AppendProperties

LEMMA ModBound ==
  ASSUME NEW a \in Nat, NEW n \in Nat \ {0}
  PROVE  (a % n) + 1 \in 1..n
OBVIOUS

LEMMA ParentIsEntry == TypeInv => Parent \in Entries /\ corpus[Parent] \in Graphs
<1> SUFFICES ASSUME TypeInv PROVE Parent \in Entries
  BY DEF TypeInv, EntryTypes, Entries
<1> USE DEF TypeInv, TreeTypes
<1>1. CASE prev = <<>>
  BY <1>1 DEF Parent
<1>2. CASE prev # <<>>
  <2>1. Len(prev) \in Nat \ {0}
    BY <1>2
  <2>2. (instance % Len(prev)) + 1 \in 1..Len(prev)
    BY <2>1, ModBound
  <2> QED
    BY <1>2, <2>2 DEF Parent
<1> QED
  BY <1>1, <1>2

\* What a mutation leaves as the candidate.
LEMMA MutatedType ==
  ASSUME TypeInv, NEW g \in Graphs, NEW adds \in BOOLEAN, Mutated(g, adds)
  PROVE  working' \in Graphs /\ added' \in Events \cup {NoEvent}
BY DEF Mutated

\* The sequences that the tree starts from.
LEMMA ShortSeqs ==
  ASSUME NEW i \in Nat
  PROVE  /\ <<>> \in Seq(Nat) /\ 1..Len(<<>>) = {}
         /\ <<i>> \in Seq(Nat) /\ \A k \in 1..Len(<<i>>) : <<i>>[k] = i
OBVIOUS

\* The tree's sequences of entries before and at the start of a stage.
LEMMA StartSeqs ==
  ASSUME TypeInv, NEW i \in Entries, NEW p \in {prev, <<i>>}, NEW c \in {curr, <<>>}
  PROVE  /\ p \in Seq(Nat) /\ \A k \in 1..Len(p) : p[k] \in Entries
         /\ c \in Seq(Nat) /\ \A k \in 1..Len(c) : c[k] \in Entries
<1>1. i \in Nat
  BY DEF Entries
<1>2. /\ prev \in Seq(Nat) /\ \A k \in 1..Len(prev) : prev[k] \in Entries
      /\ curr \in Seq(Nat) /\ \A k \in 1..Len(curr) : curr[k] \in Entries
  BY DEF TypeInv, TreeTypes
<1>3. <<i>> \in Seq(Nat) /\ \A k \in 1..Len(<<i>>) : <<i>>[k] \in Entries
  BY <1>1, ShortSeqs
<1>4. <<>> \in Seq(Nat) /\ \A k \in 1..Len(<<>>) : <<>>[k] \in Entries
  BY <1>1, ShortSeqs
<1>5. p \in Seq(Nat) /\ \A k \in 1..Len(p) : p[k] \in Entries
  <2>1. CASE p = prev
    BY <2>1, <1>2
  <2>2. CASE p = <<i>>
    BY <2>2, <1>3
  <2> QED
    BY <2>1, <2>2
<1>6. c \in Seq(Nat) /\ \A k \in 1..Len(c) : c[k] \in Entries
  <2>1. CASE c = curr
    BY <2>1, <1>2
  <2>2. CASE c = <<>>
    BY <2>2, <1>4
  <2> QED
    BY <2>1, <2>2
<1> QED
  BY <1>5, <1>6

\* What a step of the tree does to its variables, for a corpus of n entries.
LEMMA AdvanceType ==
  ASSUME TypeInv, NEW n \in Nat, n >= Len(corpus),
         NEW kids \in Seq(Nat), \A k \in 1..Len(kids) : kids[k] \in 1..n,
         NEW made \in Nat, Advance(kids, made)
  PROVE  /\ pc' \in {"mutate", "select"}
         /\ cur' = cur /\ cur' \in 1..n
         /\ step' \in Nat \ {0} /\ instance' \in Nat /\ stageCur' \in Nat
         /\ prev' \in Seq(Nat) /\ \A k \in 1..Len(prev') : prev'[k] \in 1..n
         /\ curr' \in Seq(Nat) /\ \A k \in 1..Len(curr') : curr'[k] \in 1..n
         /\ working' = NoGraph /\ added' = NoEvent /\ chain' = 0 /\ result' = NoFeedback
<1>1. \A k \in 1..Len(prev) : prev[k] \in 1..n
  BY DEF TypeInv, EntryTypes, TreeTypes, Entries
<1>2. cur \in 1..n
  BY DEF TypeInv, EntryTypes, TreeTypes, Entries
<1>3. CASE instance + 1 < 2^(step - 1) /\ made < StageMax
  BY <1>1, <1>2, <1>3 DEF Advance, TypeInv, TreeTypes
<1>4. CASE ~(instance + 1 < 2^(step - 1) /\ made < StageMax)
  <2>1. /\ pc' \in {"mutate", "select"} /\ cur' = cur
        /\ step' \in Nat \ {0} /\ instance' = 0 /\ stageCur' = made
        /\ prev' = kids /\ curr' = <<>>
        /\ working' = NoGraph /\ added' = NoEvent /\ chain' = 0 /\ result' = NoFeedback
    BY <1>4 DEF Advance, TypeInv, TreeTypes
  <2>2. curr' \in Seq(Nat) /\ \A k \in 1..Len(curr') : curr'[k] \in 1..n
    BY <2>1, ShortSeqs
  <2> QED
    BY <1>2, <2>1, <2>2
<1> QED
  BY <1>3, <1>4

\* The step after a candidate that is not added.
LEMMA DropType ==
  ASSUME TypeInv, Advance(curr, stageCur), corpus' = corpus
  PROVE  TreeTypes' /\ CandidateTypes'
<1>1. /\ Len(corpus) \in Nat /\ Len(corpus) >= Len(corpus)
      /\ curr \in Seq(Nat) /\ stageCur \in Nat
      /\ \A k \in 1..Len(curr) : curr[k] \in 1..Len(corpus)
  BY DEF TypeInv, EntryTypes, TreeTypes, Entries
<1>2. /\ pc' \in {"mutate", "select"}
      /\ cur' \in 1..Len(corpus)
      /\ step' \in Nat \ {0} /\ instance' \in Nat /\ stageCur' \in Nat
      /\ prev' \in Seq(Nat) /\ \A k \in 1..Len(prev') : prev'[k] \in 1..Len(corpus)
      /\ curr' \in Seq(Nat) /\ \A k \in 1..Len(curr') : curr'[k] \in 1..Len(corpus)
      /\ working' = NoGraph /\ added' = NoEvent /\ chain' = 0 /\ result' = NoFeedback
  BY <1>1, AdvanceType
<1>3. TreeTypes'
  BY <1>2 DEF TreeTypes, Entries
<1>4. CandidateTypes'
  BY <1>2 DEF CandidateTypes, MaybeFeedback
<1> QED
  BY <1>3, <1>4

\* The start of a stage on entry i, with whatever sequences it leaves.
LEMMA StartType ==
  ASSUME TypeInv, NEW i \in Entries, cur' = i, Len(corpus') = Len(corpus),
         step' \in Nat \ {0}, instance' \in Nat, stageCur' \in Nat,
         prev' \in {prev, <<i>>}, curr' \in {curr, <<>>}
  PROVE  TreeTypes'
<1>1. /\ prev' \in Seq(Nat) /\ \A k \in 1..Len(prev') : prev'[k] \in Entries
      /\ curr' \in Seq(Nat) /\ \A k \in 1..Len(curr') : curr'[k] \in Entries
  BY StartSeqs
<1>2. Entries' = Entries
  BY DEF Entries
<1> QED
  BY <1>1, <1>2 DEF TreeTypes

LEMMA InitType == Init => TypeInv
<1> SUFFICES ASSUME Init PROVE TypeInv
  OBVIOUS
<1> USE StageAssumption
<1>1. corpus \in Seq(Graphs) /\ Len(corpus) \in Nat \ {0} /\ cur = 1
  BY DEF Init
<1>2. /\ feedback \in Seq(MaybeFeedback) /\ Len(feedback) = Len(corpus)
      /\ simulated \in Seq(BOOLEAN) /\ Len(simulated) = Len(corpus)
      /\ forbidden \in Seq(SUBSET Events) /\ Len(forbidden) = Len(corpus)
      /\ children \in Seq(BOOLEAN) /\ Len(children) = Len(corpus)
  BY <1>1 DEF Init, Entries, MaybeFeedback
<1>3. EntryTypes
  BY <1>1, <1>2 DEF EntryTypes
<1>4. TreeTypes
  BY <1>1, ShortSeqs DEF Init, TreeTypes, Entries
<1>5. CandidateTypes /\ MemoryTypes
  BY DEF Init, CandidateTypes, MemoryTypes, MaybeFeedback
<1> QED
  BY <1>3, <1>4, <1>5 DEF TypeInv

LEMMA NextType == TypeInv /\ [Next]_vars => TypeInv'
<1> SUFFICES ASSUME TypeInv, [Next]_vars PROVE TypeInv'
  OBVIOUS
<1> USE StageAssumption
<1>p. Parent \in Entries /\ corpus[Parent] \in Graphs
  BY ParentIsEntry
<1>e. UNCHANGED entryVars => EntryTypes' /\ corpus' = corpus
  BY EntriesFrame DEF TypeInv, entryVars
<1>t. UNCHANGED <<entryVars, treeVars>> => TreeTypes'
  BY TreeFrame DEF TypeInv, entryVars
<1>w. ASSUME pc \in {"chain", "score"} PROVE working \in Graphs
  BY <1>w DEF TypeInv, CandidateTypes
<1>c. corpus[cur] \in Graphs
  BY DEF TypeInv, EntryTypes, TreeTypes, Entries
<1>1. ASSUME NEW i \in Entries, Select(i) PROVE TypeInv'
  <2>1. /\ cur' = i /\ pc' \in {"simulate", "mutate", "aborted"}
        /\ step' \in Nat \ {0} /\ instance' \in Nat /\ stageCur' \in Nat
        /\ prev' \in {prev, <<i>>} /\ curr' \in {curr, <<>>}
    BY <1>1 DEF Select, BeginOrAbort, BeginStage, TypeInv, TreeTypes
  <2>2. UNCHANGED entryVars /\ UNCHANGED candidateVars /\ seen' = seen /\ shm' = shm
    BY <1>1 DEF Select
  <2>3. EntryTypes' /\ corpus' = corpus
    BY <2>2, <1>e
  <2>4. TreeTypes'
    BY <2>1, <2>3, StartType
  <2>5. CandidateTypes' /\ MemoryTypes'
    BY <2>1, <2>2 DEF TypeInv, CandidateTypes, MemoryTypes, candidateVars
  <2> QED
    BY <2>3, <2>4, <2>5 DEF TypeInv
<1>2. CASE SimulateOk
  <2>1. /\ cur' = cur /\ pc' \in {"mutate", "aborted"}
        /\ step' \in Nat \ {0} /\ instance' \in Nat /\ stageCur' \in Nat
        /\ prev' \in {prev, <<cur>>} /\ curr' \in {curr, <<>>}
    BY <1>2 DEF SimulateOk, BeginOrAbort, BeginStage, TypeInv, TreeTypes
  <2>2. /\ corpus' = corpus /\ forbidden' = forbidden /\ children' = children /\ seen' = seen
        /\ working' = working /\ added' = added /\ chain' = chain
        /\ feedback' = [feedback EXCEPT ![cur] = result']
        /\ simulated' = [simulated EXCEPT ![cur] = TRUE]
    BY <1>2 DEF SimulateOk
  <2>3. result' \in MaybeFeedback /\ shm' \in Graphs \cup {NoGraph}
    BY <1>2, <1>c DEF SimulateOk, ReadFeedback, Written, MaybeFeedback, TypeInv, MemoryTypes
  <2>4. cur \in Entries /\ cur \in 1..Len(feedback) /\ cur \in 1..Len(simulated)
    BY DEF TypeInv, EntryTypes, TreeTypes, Entries
  <2>5. feedback' \in Seq(MaybeFeedback) /\ Len(feedback') = Len(feedback)
    BY <2>2, <2>3, <2>4, ExceptSeq DEF TypeInv, EntryTypes
  <2>6. simulated' \in Seq(BOOLEAN) /\ Len(simulated') = Len(simulated)
    BY <2>2, <2>4, ExceptSeq DEF TypeInv, EntryTypes
  <2>7. EntryTypes'
    BY <2>2, <2>5, <2>6 DEF TypeInv, EntryTypes
  <2>8. TreeTypes'
    BY <2>1, <2>2, <2>4, StartType
  <2>9. CandidateTypes' /\ MemoryTypes'
    BY <2>1, <2>2, <2>3 DEF TypeInv, CandidateTypes, MemoryTypes
  <2> QED
    BY <2>7, <2>8, <2>9 DEF TypeInv
<1>3. CASE SimulateFails
  <2>1. UNCHANGED <<entryVars, treeVars>> /\ UNCHANGED candidateVars /\ seen' = seen
    BY <1>3 DEF SimulateFails
  <2>2. CandidateTypes' /\ MemoryTypes'
    BY <1>3, <2>1, <1>c DEF SimulateFails, Written, TypeInv, CandidateTypes, MemoryTypes,
                            candidateVars
  <2> QED
    BY <2>1, <2>2, <1>e, <1>t DEF TypeInv
<1>4. CASE Mutate
  <2>1. working' \in Graphs /\ added' \in Events \cup {NoEvent}
    BY <1>4, <1>p, MutatedType DEF Mutate
  <2>2. UNCHANGED <<entryVars, treeVars>>
    BY <1>4 DEF Mutate
  <2>3. CandidateTypes' /\ MemoryTypes'
    BY <1>4, <2>1 DEF Mutate, TypeInv, CandidateTypes, MemoryTypes
  <2> QED
    BY <2>2, <2>3, <1>e, <1>t DEF TypeInv
<1>5. CASE Chain
  <2>1. working' \in Graphs /\ added' \in Events \cup {NoEvent}
    BY <1>5, <1>w, MutatedType DEF Chain
  <2>2. UNCHANGED <<entryVars, treeVars>>
    BY <1>5 DEF Chain
  <2>3. CandidateTypes' /\ MemoryTypes'
    BY <1>5, <2>1 DEF Chain, TypeInv, CandidateTypes, MemoryTypes
  <2> QED
    BY <2>2, <2>3, <1>e, <1>t DEF TypeInv
<1>6. CASE SkipDuplicate
  <2>1. UNCHANGED entryVars /\ Advance(curr, stageCur) /\ seen' = seen /\ shm' = shm
    BY <1>6 DEF SkipDuplicate
  <2>2. MemoryTypes'
    BY <2>1 DEF TypeInv, MemoryTypes
  <2> QED
    BY <2>1, <2>2, <1>e, DropType DEF TypeInv
<1>7. CASE Reject
  <2>1. added \in Events \cup {NoEvent} /\ working \in Graphs
    BY <1>7, <1>w DEF Reject, TypeInv, CandidateTypes
  <2>2. Parent \in 1..Len(forbidden)
    BY <1>p DEF TypeInv, EntryTypes, Entries
  <2>3. forbidden[Parent] \cup ({added} \ {NoEvent}) \in SUBSET Events
    BY <2>1, <2>2 DEF TypeInv, EntryTypes
  <2>4. /\ corpus' = corpus /\ feedback' = feedback /\ simulated' = simulated
        /\ children' = children /\ seen' = seen
        /\ forbidden' = [forbidden EXCEPT ![Parent] = forbidden[Parent] \cup ({added} \ {NoEvent})]
        /\ Advance(curr, stageCur) /\ shm' \in Written(working)
    BY <1>7 DEF Reject
  <2>5. forbidden' \in Seq(SUBSET Events) /\ Len(forbidden') = Len(forbidden)
    BY <2>2, <2>3, <2>4, ExceptSeq DEF TypeInv, EntryTypes
  <2>6. EntryTypes'
    BY <2>4, <2>5 DEF TypeInv, EntryTypes
  <2>7. MemoryTypes'
    BY <2>1, <2>4 DEF Written, TypeInv, MemoryTypes
  <2> QED
    BY <2>4, <2>6, <2>7, DropType DEF TypeInv
<1>8. CASE Fault
  <2>1. /\ UNCHANGED entryVars /\ Advance(curr, stageCur) /\ seen' = seen
        /\ shm' \in Written(working) /\ working \in Graphs
    BY <1>8, <1>w DEF Fault
  <2>2. MemoryTypes'
    BY <2>1 DEF Written, TypeInv, MemoryTypes
  <2> QED
    BY <2>1, <2>2, <1>e, DropType DEF TypeInv
<1>9. CASE RunOk
  <2>1. working \in Graphs
    BY <1>9, <1>w DEF RunOk
  <2>2. result' \in MaybeFeedback /\ shm' \in Graphs \cup {NoGraph}
    BY <1>9, <2>1 DEF RunOk, ReadFeedback, Written, MaybeFeedback, TypeInv, MemoryTypes
  <2>3. UNCHANGED <<entryVars, treeVars>>
    BY <1>9 DEF RunOk
  <2>4. CandidateTypes' /\ MemoryTypes'
    BY <1>9, <2>1, <2>2 DEF RunOk, TypeInv, CandidateTypes, MemoryTypes
  <2> QED
    BY <2>3, <2>4, <1>e, <1>t DEF TypeInv
<1>10. CASE Enqueue
  <2>1. working \in Graphs /\ result \in MaybeFeedback
    BY <1>10, <1>w DEF Enqueue, TypeInv, CandidateTypes
  <2>2. corpus' \in Seq(Graphs) /\ Len(corpus') = Len(corpus) + 1
    BY <1>10, <2>1, AppendProperties DEF Enqueue, TypeInv, EntryTypes
  <2>3. feedback' \in Seq(MaybeFeedback) /\ Len(feedback') = Len(corpus')
    BY <1>10, <2>1, <2>2, AppendProperties DEF Enqueue, TypeInv, EntryTypes
  <2>4. simulated' \in Seq(BOOLEAN) /\ Len(simulated') = Len(corpus')
    BY <1>10, <2>2, AppendProperties DEF Enqueue, TypeInv, EntryTypes
  <2>5. forbidden' \in Seq(SUBSET Events) /\ Len(forbidden') = Len(corpus')
    BY <1>10, <2>2, AppendProperties DEF Enqueue, TypeInv, EntryTypes
  <2>6. children' \in Seq(BOOLEAN) /\ Len(children') = Len(corpus')
    <3>1. /\ [children EXCEPT ![Parent] = TRUE] \in Seq(BOOLEAN)
          /\ Len([children EXCEPT ![Parent] = TRUE]) = Len(corpus)
      BY <1>p, ExceptSeq DEF TypeInv, EntryTypes, Entries
    <3> QED
      BY <1>10, <2>2, <3>1 DEF Enqueue
  <2>7. EntryTypes'
    BY <2>2, <2>3, <2>4, <2>5, <2>6 DEF EntryTypes
  <2>8. DEFINE kids == Append(curr, Len(corpus) + 1)
  <2>9. Len(corpus) \in Nat /\ Len(corpus') \in Nat /\ Len(corpus') >= Len(corpus)
    BY <2>2, LenProperties DEF TypeInv, EntryTypes
  <2>10. kids \in Seq(Nat) /\ stageCur + 1 \in Nat
    BY <2>9 DEF TypeInv, TreeTypes
  <2>11. \A k \in 1..Len(kids) : kids[k] \in 1..Len(corpus')
    BY <2>2, <2>9, <2>10 DEF TypeInv, TreeTypes, Entries
  <2>12. Advance(kids, stageCur + 1)
    BY <1>10 DEF Enqueue
  <2> HIDE DEF kids
  <2>13. /\ pc' \in {"mutate", "select"} /\ cur' \in 1..Len(corpus')
         /\ step' \in Nat \ {0} /\ instance' \in Nat /\ stageCur' \in Nat
         /\ prev' \in Seq(Nat) /\ \A k \in 1..Len(prev') : prev'[k] \in 1..Len(corpus')
         /\ curr' \in Seq(Nat) /\ \A k \in 1..Len(curr') : curr'[k] \in 1..Len(corpus')
         /\ working' = NoGraph /\ added' = NoEvent /\ chain' = 0 /\ result' = NoFeedback
    BY <2>9, <2>10, <2>11, <2>12, AdvanceType
  <2>14. TreeTypes'
    BY <2>13 DEF TreeTypes, Entries
  <2>15. CandidateTypes'
    BY <2>13 DEF CandidateTypes, MaybeFeedback
  <2>16. MemoryTypes'
    BY <1>10, <2>1 DEF Enqueue, TypeInv, MemoryTypes
  <2> QED
    BY <2>7, <2>14, <2>15, <2>16 DEF TypeInv
<1>11. CASE Discard
  <2>1. UNCHANGED entryVars /\ Advance(curr, stageCur) /\ seen' = seen /\ shm' = shm
    BY <1>11 DEF Discard
  <2>2. MemoryTypes'
    BY <2>1 DEF TypeInv, MemoryTypes
  <2> QED
    BY <2>1, <2>2, <1>e, DropType DEF TypeInv
<1>12. CASE UNCHANGED vars
  <2>1. CandidateTypes' /\ MemoryTypes'
    BY <1>12 DEF vars, candidateVars, TypeInv, CandidateTypes, MemoryTypes
  <2> QED
    BY <1>12, <2>1, <1>e, <1>t DEF vars, TypeInv
<1> QED
  BY <1>1, <1>2, <1>3, <1>4, <1>5, <1>6, <1>7, <1>8, <1>9, <1>10, <1>11, <1>12 DEF Next

\* The types, and that every parent and child of the tree is an entry.
THEOREM StageTypeCorrect == Spec => []TypeOK
BY TypeInvTypes, InitType, NextType, PTL DEF Spec

LEMMA AlwaysTyped == Spec => []TypeInv
BY InitType, NextType, PTL DEF Spec
-----------------------------------------------------------------------------
\* Every added graph is in the seen set, which only grows, and a candidate that
\* has run is not in it: this is what keeps graphs from being added again.
SeenInv ==
  /\ AddedOnce
  /\ \A i \in Entries : ~IsSeed(i) => corpus[i] \in seen
  /\ pc = "score" => working \notin seen

LEMMA SeenStep == TypeInv /\ SeenInv /\ [Next]_vars => SeenInv'
<1> SUFFICES ASSUME TypeInv, SeenInv, [Next]_vars PROVE SeenInv'
  OBVIOUS
<1>1. CASE Enqueue
  <2>1. /\ corpus \in Seq(Graphs) /\ working \in Graphs /\ working \notin seen
        /\ corpus' = Append(corpus, working) /\ seen' = seen \cup {working}
    BY <1>1 DEF Enqueue, TypeInv, EntryTypes, CandidateTypes, SeenInv
  <2>2. pc' # "score"
    BY <1>1 DEF Enqueue, Advance
  <2>3. \A i \in Entries' :
          \/ i \in Entries /\ corpus'[i] = corpus[i]
          \/ i = Len(corpus) + 1 /\ corpus'[i] = working
    BY <2>1, AppendProperties DEF Entries
  <2>4. \A i \in Entries' : ~IsSeed(i) => corpus'[i] \in seen'
    BY <2>1, <2>3 DEF SeenInv
  <2>5. AddedOnce'
    <3> SUFFICES ASSUME NEW i \in Entries', NEW j \in Entries',
                        ~IsSeed(i), ~IsSeed(j), corpus'[i] = corpus'[j]
                 PROVE  i = j
      BY DEF AddedOnce, IsSeed
    <3> QED
      BY <2>1, <2>3 DEF SeenInv, AddedOnce
  <2> QED
    BY <2>2, <2>4, <2>5 DEF SeenInv, IsSeed
<1>2. CASE RunOk
  BY <1>2 DEF RunOk, SeenInv, AddedOnce, Entries, IsSeed, entryVars
<1>3. CASE UNCHANGED <<corpus, seen>> /\ pc' # "score"
  BY <1>3 DEF SeenInv, AddedOnce, Entries, IsSeed
<1>4. CASE UNCHANGED vars
  BY <1>4 DEF vars, entryVars, candidateVars, SeenInv, AddedOnce, Entries, IsSeed
<1> QED
  BY <1>1, <1>2, <1>3, <1>4
    DEF Next, Select, SimulateOk, SimulateFails, BeginOrAbort, Mutate, Chain, SkipDuplicate,
        Reject, Fault, Discard, Advance, entryVars

\* Whatever the mutator and the target do, a stage never adds to the corpus a
\* graph that some stage has added before.
THEOREM AddedOnceCorrect == Spec => []AddedOnce
<1>1. Init => SeenInv
  BY StageAssumption DEF Init, SeenInv, AddedOnce, Entries, IsSeed
<1>2. SeenInv => AddedOnce
  BY DEF SeenInv
<1> QED
  BY <1>1, <1>2, AlwaysTyped, SeenStep, PTL DEF Spec
-----------------------------------------------------------------------------
\* A simulated entry has feedback and every added entry is simulated; a seed is
\* run only when it is not; a candidate that has run has feedback.
FeedbackInv ==
  /\ AddedHasFeedback
  /\ EnableFeedback => \A i \in Entries : simulated[i] => feedback[i] # NoFeedback
  /\ \A i \in Entries : ~IsSeed(i) => simulated[i]
  /\ pc = "simulate" => EnableFeedback /\ ~simulated[cur]
  /\ EnableFeedback /\ pc = "score" => result # NoFeedback

LEMMA FeedbackStep == TypeInv /\ FeedbackInv /\ [Next]_vars => FeedbackInv'
<1> SUFFICES ASSUME TypeInv, FeedbackInv, [Next]_vars PROVE FeedbackInv'
  OBVIOUS
<1> USE StageAssumption
<1>t. /\ cur \in Entries /\ shm # NoFeedback /\ Entries = 1..Len(corpus)
      /\ feedback \in Seq(MaybeFeedback) /\ Len(feedback) = Len(corpus)
      /\ simulated \in Seq(BOOLEAN) /\ Len(simulated) = Len(corpus)
      /\ corpus \in Seq(Graphs)
  BY DEF TypeInv, EntryTypes, TreeTypes, MemoryTypes, Entries
<1>g. ASSUME NEW g \in Graphs, EnableFeedback, ReadFeedback(g) PROVE result' # NoFeedback
  BY <1>g, <1>t DEF ReadFeedback, Written
<1>1. ASSUME NEW i \in Entries, Select(i) PROVE FeedbackInv'
  <2>1. pc' \in {"simulate", "mutate"} /\ (pc' = "simulate" => EnableFeedback /\ ~simulated[i])
    BY <1>1 DEF Select, BeginOrAbort, FeedbackInv
  <2> QED
    BY <1>1, <2>1 DEF Select, FeedbackInv, AddedHasFeedback, Entries, IsSeed, entryVars
<1>2. CASE SimulateOk
  <2>1. corpus[cur] \in Graphs /\ EnableFeedback
    BY <1>2, <1>t DEF SimulateOk, FeedbackInv
  <2>2. result' # NoFeedback
    BY <1>2, <1>g, <2>1 DEF SimulateOk
  <2>3. pc' = "mutate"
    BY <1>2, <2>2 DEF SimulateOk, BeginOrAbort
  <2>4. /\ corpus' = corpus
        /\ feedback' = [feedback EXCEPT ![cur] = result']
        /\ simulated' = [simulated EXCEPT ![cur] = TRUE]
    BY <1>2 DEF SimulateOk
  <2>5. \A i \in Entries :
          /\ feedback'[i] = IF i = cur THEN result' ELSE feedback[i]
          /\ i # cur => simulated'[i] = simulated[i]
          /\ simulated'[cur] = TRUE
    <3>1. \A i \in Entries : feedback'[i] = IF i = cur THEN result' ELSE feedback[i]
      BY <1>t, <2>4
    <3>2. \A i \in Entries : i # cur => simulated'[i] = simulated[i]
      BY <1>t, <2>4
    <3>3. simulated'[cur] = TRUE
      <4>1. cur \in DOMAIN simulated
        BY <1>t
      <4> QED
        BY <2>4, <4>1, Zenon
    <3> QED
      BY <3>1, <3>2, <3>3
  <2> QED
    BY <2>2, <2>3, <2>4, <2>5 DEF FeedbackInv, AddedHasFeedback, Entries, IsSeed
<1>3. CASE SimulateFails
  BY <1>3, <1>t DEF SimulateFails, FeedbackInv, AddedHasFeedback, Entries, IsSeed, entryVars,
                    treeVars
<1>4. CASE RunOk
  <2>1. EnableFeedback => result' # NoFeedback
    BY <1>4, <1>g DEF RunOk, TypeInv, CandidateTypes
  <2> QED
    BY <1>4, <2>1 DEF RunOk, FeedbackInv, AddedHasFeedback, Entries, IsSeed, entryVars
<1>5. CASE Enqueue
  <2>1. /\ corpus' = Append(corpus, working) /\ feedback' = Append(feedback, result)
        /\ simulated' = Append(simulated, TRUE)
        /\ pc' \in {"mutate", "select"}
        /\ EnableFeedback => result # NoFeedback
    BY <1>5 DEF Enqueue, Advance, FeedbackInv
  <2>2. result \in MaybeFeedback /\ working \in Graphs
    BY <1>5 DEF Enqueue, TypeInv, CandidateTypes
  <2>3. \A i \in Entries' :
          \/ i \in Entries /\ feedback'[i] = feedback[i] /\ simulated'[i] = simulated[i]
          \/ i = Len(corpus) + 1 /\ feedback'[i] = result /\ simulated'[i] = TRUE
    <3>1. Len(corpus') = Len(corpus) + 1
      BY <1>t, <2>1, <2>2, AppendProperties
    <3>2. \A i \in 1..Len(corpus) : feedback'[i] = feedback[i]
      <4>1. \A i \in 1..Len(feedback) : Append(feedback, result)[i] = feedback[i]
        BY <1>t, <2>2, AppendLookup
      <4> QED
        BY <1>t, <2>1, <4>1, Zenon
    <3>3. \A i \in 1..Len(corpus) : simulated'[i] = simulated[i]
      <4>1. ASSUME NEW t \in BOOLEAN
            PROVE  \A i \in 1..Len(simulated) : Append(simulated, t)[i] = simulated[i]
        BY <1>t, AppendProperties
      <4>2. \A i \in 1..Len(simulated) : Append(simulated, TRUE)[i] = simulated[i]
        BY <4>1, Zenon
      <4> QED
        BY <1>t, <2>1, <4>2, Zenon
    <3>4. feedback'[Len(corpus) + 1] = result
      <4>1. Append(feedback, result)[Len(feedback) + 1] = result
        BY <1>t, <2>2, AppendLookup
      <4> QED
        BY <1>t, <2>1, <4>1, Zenon
    <3>5. simulated'[Len(corpus) + 1] = TRUE
      <4>1. Append(simulated, TRUE)[Len(simulated) + 1] = TRUE
        BY <1>t, AppendProperties, Zenon
      <4> QED
        BY <1>t, <2>1, <4>1, Zenon
    <3>6. \A i \in Entries' : i \in Entries \/ i = Len(corpus) + 1
      <4>1. Len(corpus) \in Nat
        BY <1>t, LenProperties
      <4>2. \A i \in 1..(Len(corpus) + 1) : i \in 1..Len(corpus) \/ i = Len(corpus) + 1
        BY <4>1
      <4>3. Entries' = 1..(Len(corpus) + 1)
        BY <3>1, Zenon DEF Entries
      <4> QED
        BY <4>2, <4>3, Zenon DEF Entries
    <3> QED
      BY <1>t, <3>2, <3>3, <3>4, <3>5, <3>6, Zenon DEF Entries
  <2> QED
    BY <2>1, <2>3 DEF FeedbackInv, AddedHasFeedback, IsSeed
<1>6. CASE UNCHANGED <<corpus, feedback, simulated>> /\ pc' \in {"mutate", "select", "chain"}
  BY <1>6 DEF FeedbackInv, AddedHasFeedback, Entries, IsSeed
<1>7. CASE UNCHANGED vars
  BY <1>7 DEF vars, entryVars, treeVars, candidateVars, FeedbackInv, AddedHasFeedback, Entries,
              IsSeed
<1> QED
  BY <1>1, <1>2, <1>3, <1>4, <1>5, <1>6, <1>7
    DEF Next, Mutate, Chain, SkipDuplicate, Reject, Fault, Discard, Advance, entryVars

\* The program never leaves for lack of feedback on an entry it added itself.
THEOREM FeedbackCorrect == Spec => []AddedHasFeedback
<1>1. Init => FeedbackInv
  BY StageAssumption DEF Init, FeedbackInv, AddedHasFeedback, Entries, IsSeed
<1>2. FeedbackInv => AddedHasFeedback
  BY DEF FeedbackInv
<1> QED
  BY <1>1, <1>2, AlwaysTyped, FeedbackStep, PTL DEF Spec
-----------------------------------------------------------------------------
\* With feedback on, the event noted with a candidate is the one whose addition
\* to the parent's graph gave it: a chained mutation adds none.
DoomedInv ==
  /\ ForbiddenIsDoomed
  /\ EnableFeedback /\ pc = "chain" /\ added # NoEvent
       => <<corpus[Parent], added, working>> \in Adds

LEMMA DoomedStep == TypeInv /\ DoomedInv /\ [Next]_vars => DoomedInv'
<1> SUFFICES ASSUME TypeInv, DoomedInv, [Next]_vars, EnableFeedback PROVE DoomedInv'
  BY DEF DoomedInv, ForbiddenIsDoomed
<1> USE StageAssumption
<1>t. /\ corpus \in Seq(Graphs) /\ Entries = 1..Len(corpus)
      /\ forbidden \in Seq(SUBSET Events) /\ Len(forbidden) = Len(corpus)
      /\ Parent \in Entries
  BY ParentIsEntry DEF TypeInv, EntryTypes, Entries
<1>1. CASE Mutate
  <2>1. added' # NoEvent => <<corpus[Parent], added', working'>> \in Adds
    BY <1>1 DEF Mutate, Mutated
  <2>2. UNCHANGED <<corpus, forbidden, treeVars>>
    BY <1>1 DEF Mutate, entryVars
  <2> QED
    BY <2>1, <2>2 DEF DoomedInv, ForbiddenIsDoomed, Entries, Parent, treeVars
<1>2. CASE Chain
  <2>1. added' = NoEvent /\ UNCHANGED <<corpus, forbidden>>
    BY <1>2 DEF Chain, Mutated, entryVars
  <2> QED
    BY <2>1 DEF DoomedInv, ForbiddenIsDoomed, Entries
<1>3. CASE Reject
  <2>1. /\ corpus' = corpus /\ pc' # "chain"
        /\ forbidden' = [forbidden EXCEPT ![Parent] = forbidden[Parent] \cup ({added} \ {NoEvent})]
    BY <1>3 DEF Reject, Advance
  <2>2. added # NoEvent => /\ working \in Unrealisable
                           /\ <<corpus[Parent], added, working>> \in Adds
    BY <1>3 DEF Reject, DoomedInv
  <2>3. \A i \in Entries : \A e \in forbidden'[i] :
          e \in forbidden[i] \/ (i = Parent /\ e = added /\ added # NoEvent)
    BY <1>t, <2>1
  <2> QED
    BY <2>1, <2>2, <2>3 DEF DoomedInv, ForbiddenIsDoomed, Entries
<1>4. CASE Enqueue
  <2>1. /\ corpus' = Append(corpus, working) /\ forbidden' = Append(forbidden, {})
        /\ pc' # "chain" /\ working \in Graphs
    BY <1>4 DEF Enqueue, Advance, TypeInv, CandidateTypes
  <2>2. \A i \in Entries' :
          \/ i \in Entries /\ corpus'[i] = corpus[i] /\ forbidden'[i] = forbidden[i]
          \/ forbidden'[i] = {}
    BY <1>t, <2>1, AppendProperties DEF Entries
  <2> QED
    BY <2>1, <2>2 DEF DoomedInv, ForbiddenIsDoomed
<1>5. CASE UNCHANGED <<corpus, forbidden>> /\ pc' # "chain"
  BY <1>5 DEF DoomedInv, ForbiddenIsDoomed, Entries
<1>6. CASE UNCHANGED vars
  BY <1>6 DEF vars, entryVars, treeVars, candidateVars, DoomedInv, ForbiddenIsDoomed, Entries,
              Parent
<1> QED
  BY <1>1, <1>2, <1>3, <1>4, <1>5, <1>6
    DEF Next, Select, SimulateOk, SimulateFails, BeginOrAbort, SkipDuplicate, Fault, RunOk,
        Discard, Advance, entryVars

\* With feedback on, no chain of mutations makes the fuzzer forbid an event that
\* the parent could be extended with.
THEOREM ForbiddenCorrect == Spec => []ForbiddenIsDoomed
<1>1. Init => DoomedInv
  BY StageAssumption DEF Init, DoomedInv, ForbiddenIsDoomed, Entries
<1>2. DoomedInv => ForbiddenIsDoomed
  BY DEF DoomedInv
<1> QED
  BY <1>1, <1>2, AlwaysTyped, DoomedStep, PTL DEF Spec
-----------------------------------------------------------------------------
(* PhaseControl. *)

\* Every step keeps the types.
LEMMA TypeStep == LoopTypeOK /\ [LoopNext]_loopVars => LoopTypeOK'
<1> SUFFICES ASSUME LoopTypeOK, [LoopNext]_loopVars PROVE LoopTypeOK'
  OBVIOUS
<1> USE PhaseAssumption
<1>1. CASE LoopTop
  <2>1. ASSUME NEW n \in Nat, NewCycle(n) PROVE LoopTypeOK'
    <3>1. /\ CapAt(cyclesWoFinds + 1, EmptyCycles) \in 0..EmptyCycles
          /\ CapAt(idle + 1, EmptyCycles) \in 0..EmptyCycles
      BY DEF LoopTypeOK, CapAt
    <3>2. NextCycle \in 0..4
      BY DEF LoopTypeOK, NextCycle
    <3>3. /\ queueCycle' \in 0..4 /\ queuedItems' = n /\ prevQueued' = n /\ runs' = 0
          /\ cyclesWoFinds' \in 0..EmptyCycles /\ idle' \in 0..EmptyCycles
          /\ fresh' = FALSE /\ drought' = drought
      BY <2>1, <3>1, <3>2 DEF NewCycle, CountEmpty
    <3>4. compacted' \in BOOLEAN
      BY <1>1, Zenon DEF LoopTop, LoopTypeOK, historyVars
    <3> QED
      BY <1>1, <3>3, <3>4 DEF LoopTop, LoopTypeOK, pruningVars, seedVars
  <2>2. CASE \E enough \in BOOLEAN : ~CycleOver(enough)
                /\ runs' = runs + 1
                /\ UNCHANGED <<queuedItems, queueCycle, prevQueued, cyclesWoFinds, historyVars>>
    BY <1>1, <2>2 DEF LoopTop, LoopTypeOK, pruningVars, seedVars, historyVars
  <2> QED
    BY <1>1, <2>1, <2>2 DEF LoopTop, LoopTypeOK
<1>2. CASE ManagePhase
  <2>1. NormalPhase \in {"MO", "RF", "POTENTIAL"}
    BY DEF NormalPhase
  <2> USE <1>2 DEF ManagePhase, cycleVars, historyVars, seedVars
  <2>2. CASE PruneOn
    BY <2>2 DEF PruneOn, LoopTypeOK
  <2>3. CASE LeavePruning
    BY <2>1, <2>3 DEF LeavePruning, LoopTypeOK
  <2>4. CASE EnterPruning
    BY <2>4 DEF EnterPruning, LoopTypeOK
  <2>5. CASE StayNormal
    BY <2>1, <2>5 DEF StayNormal, LoopTypeOK
  <2> QED
    BY <2>2, <2>3, <2>4, <2>5
<1>3. CASE SkipSeed
  BY <1>3 DEF SkipSeed, LoopTypeOK, cycleVars, pruningVars, seedVars, historyVars
<1>4. ASSUME NEW kids \in 0..MaxKids, FuzzSeed(kids) PROVE LoopTypeOK'
  <2>1. CapAt(drought + 1, StagnantSeeds) \in 0..StagnantSeeds
    BY DEF LoopTypeOK, CapAt
  <2>2. queuedItems' \in Nat /\ finds' \in Nat /\ stagnant' \in Nat /\ productive' \in Nat
    BY <1>4 DEF FuzzSeed, LoopTypeOK
  <2>3. fresh' \in BOOLEAN
    BY <1>4 DEF FuzzSeed, LoopTypeOK
  <2>4. /\ cyclesWoFinds' \in 0..EmptyCycles /\ idle' \in 0..EmptyCycles
        /\ drought' \in 0..StagnantSeeds
    BY <1>4, <2>1 DEF FuzzSeed, LoopTypeOK
  <2> QED
    BY <1>4, <2>2, <2>3, <2>4 DEF FuzzSeed, LoopTypeOK, pruningVars
<1>5. CASE UNCHANGED loopVars
  BY <1>5 DEF loopVars, LoopTypeOK
<1> QED
  BY <1>1, <1>2, <1>3, <1>4, <1>5 DEF LoopNext

LEMMA TypeInit == LoopInit => LoopTypeOK
<1> SUFFICES ASSUME LoopInit PROVE LoopTypeOK
  OBVIOUS
<1>1. inPruning \in BOOLEAN /\ fresh \in BOOLEAN /\ compacted \in BOOLEAN
  BY Zenon DEF LoopInit
<1>2. /\ cyclesWoFinds \in 0..EmptyCycles /\ idle \in 0..EmptyCycles
      /\ drought \in 0..StagnantSeeds /\ queueCycle \in 0..4
  BY PhaseAssumption DEF LoopInit
<1> QED
  BY <1>1, <1>2, PhaseAssumption DEF LoopInit, LoopTypeOK

\* The types of the loop's counters, in every campaign.
THEOREM PhaseTypeCorrect == LoopSpec => []LoopTypeOK
BY TypeInit, TypeStep, PTL DEF LoopSpec
-----------------------------------------------------------------------------
\* The phase agrees with the pruning flag from the phase management to the next
\* one: the fuzzed seed is mutated in the phase the flag says.
PruningInv == PruningBounded /\ (loopPc = "phase" \/ (inPruning <=> phase = "PRUNING"))

LEMMA PruningStep == LoopTypeOK /\ PruningInv /\ [LoopNext]_loopVars => PruningInv'
<1> SUFFICES ASSUME LoopTypeOK, PruningInv, [LoopNext]_loopVars PROVE PruningInv'
  OBVIOUS
<1> USE PhaseAssumption DEF PruningInv, PruningBounded
<1>1. CASE LoopTop
  BY <1>1 DEF LoopTop, pruningVars
<1>2. CASE ManagePhase
  <2>1. NormalPhase # "PRUNING"
    BY DEF NormalPhase
  <2> USE <1>2 DEF ManagePhase
  <2>2. CASE PruneOn
    BY <2>2 DEF PruneOn, Solved, LoopTypeOK
  <2>3. CASE LeavePruning
    BY <2>1, <2>3 DEF LeavePruning
  <2>4. CASE EnterPruning
    BY <2>4 DEF EnterPruning
  <2>5. CASE StayNormal
    BY <2>1, <2>5 DEF StayNormal
  <2> QED
    BY <2>2, <2>3, <2>4, <2>5
<1>3. CASE SkipSeed
  BY <1>3 DEF SkipSeed, pruningVars
<1>4. ASSUME NEW kids \in 0..MaxKids, FuzzSeed(kids) PROVE PruningInv'
  BY <1>4 DEF FuzzSeed, pruningVars
<1>5. CASE UNCHANGED loopVars
  BY <1>5 DEF loopVars
<1> QED
  BY <1>1, <1>2, <1>3, <1>4, <1>5 DEF LoopNext

\* A pruning phase never outlives SafetyCap seeds, with or without compaction,
\* and the mutator always works in the phase that the flag announces.
THEOREM PruningCorrect == LoopSpec => []PruningBounded
<1>1. LoopInit => PruningInv
  BY PhaseAssumption DEF LoopInit, PruningInv, PruningBounded
<1>2. PruningInv => PruningBounded
  BY DEF PruningInv
<1> QED
  BY <1>1, <1>2, PhaseTypeCorrect, PruningStep, PTL DEF LoopSpec
-----------------------------------------------------------------------------
\* Until the first compaction the corpus differs from the last cycle's exactly
\* when an entry was added, so the comparison of sizes counts the empty cycles; and
\* a run of stagnant seeds is never longer than the real drought.
DroughtInv ==
  /\ ~compacted => /\ cyclesWoFinds = idle
                   /\ queuedItems >= prevQueued
                   /\ fresh <=> queuedItems > prevQueued
  /\ stagnant <= drought \/ drought >= StagnantSeeds

LEMMA DroughtStep == LoopTypeOK /\ DroughtInv /\ [LoopNext]_loopVars => DroughtInv'
<1> SUFFICES ASSUME LoopTypeOK, DroughtInv, [LoopNext]_loopVars PROVE DroughtInv'
  OBVIOUS
<1> USE PhaseAssumption
<1>1. CASE LoopTop
  <2>1. CASE NewCycle(queuedItems) /\ UNCHANGED compacted
    BY <1>1, <2>1 DEF LoopTop, NewCycle, CountEmpty, LoopTypeOK, DroughtInv, seedVars
  <2>2. CASE UNCHANGED <<queuedItems, queueCycle, prevQueued, cyclesWoFinds, historyVars>>
    BY <1>1, <2>2 DEF LoopTop, DroughtInv, seedVars, historyVars
  <2>3. CASE compacted' = TRUE /\ \E n \in 1..queuedItems : NewCycle(n)
    BY <1>1, <2>3 DEF LoopTop, NewCycle, DroughtInv, seedVars
  <2> QED
    BY <1>1, <2>1, <2>2, <2>3 DEF LoopTop
<1>2. CASE ManagePhase
  <2>1. stagnant' = stagnant \/ stagnant' = 0
    BY <1>2 DEF ManagePhase, PruneOn, LeavePruning, EnterPruning, StayNormal, seedVars
  <2> QED
    BY <1>2, <2>1 DEF ManagePhase, DroughtInv, cycleVars, historyVars, LoopTypeOK
<1>3. CASE SkipSeed
  BY <1>3 DEF SkipSeed, DroughtInv, cycleVars, seedVars, historyVars
<1>4. ASSUME NEW kids \in 0..MaxKids, FuzzSeed(kids) PROVE DroughtInv'
  <2>1. CASE kids > 0
    BY <1>4, <2>1 DEF FuzzSeed, DroughtInv, LoopTypeOK
  <2>2. CASE kids = 0
    <3>1. drought' = CapAt(drought + 1, StagnantSeeds) /\ stagnant' = stagnant + 1
      BY <1>4, <2>2 DEF FuzzSeed
    <3>2. stagnant' <= drought' \/ drought' >= StagnantSeeds
      BY <3>1 DEF CapAt, DroughtInv, LoopTypeOK
    <3> QED
      BY <1>4, <2>2, <3>2 DEF FuzzSeed, DroughtInv, LoopTypeOK
  <2> QED
    BY <2>1, <2>2
<1>5. CASE UNCHANGED loopVars
  BY <1>5 DEF loopVars, DroughtInv
<1> QED
  BY <1>1, <1>2, <1>3, <1>4, <1>5 DEF LoopNext

LEMMA DroughtInit == LoopInit => DroughtInv
BY PhaseAssumption DEF LoopInit, DroughtInv

\* Until the first compaction cycles_wo_finds counts the empty cycles in a row.
THEOREM EmptyCyclesCorrect == LoopSpec => []EmptyCyclesExact
<1>1. DroughtInv => EmptyCyclesExact
  BY DEF DroughtInv, EmptyCyclesExact
<1> QED
  BY <1>1, DroughtInit, DroughtStep, PhaseTypeCorrect, PTL DEF LoopSpec

\* Both at once: the counters the loop decides by, for all thresholds and caps.
THEOREM LoopCountersCorrect == LoopSpec => []CountersSound
BY EmptyCyclesCorrect, PruningCorrect, PTL DEF CountersSound

\* A step that enters the pruning phase is the phase management's, which looks
\* only at counters that DroughtInv bounds by the real drought.
LEMMA EnterWhenStuck ==
  LoopTypeOK /\ DroughtInv /\ [LoopNext]_loopVars =>
    (~compacted /\ ~inPruning /\ inPruning' => drought >= StagnantSeeds \/ idle >= EmptyCycles)
<1> SUFFICES ASSUME LoopTypeOK, DroughtInv, [LoopNext]_loopVars, ~compacted, ~inPruning, inPruning'
             PROVE  drought >= StagnantSeeds \/ idle >= EmptyCycles
  OBVIOUS
<1>1. EnterPruning
  BY DEF LoopNext, loopVars, LoopTop, ManagePhase, PruneOn, LeavePruning, StayNormal, SkipSeed,
         FuzzSeed, pruningVars
<1> QED
  BY <1>1, PhaseAssumption DEF EnterPruning, Stuck, DroughtInv, LoopTypeOK

\* Until the first compaction the pruning phase is entered only after StagnantSeeds
\* seeds or EmptyCycles cycles in a row that added nothing.
THEOREM PruningEntryCorrect == LoopSpec => PruningOnlyWhenStuck
<1>1. LoopTypeOK /\ DroughtInv /\ [LoopNext]_loopVars =>
        [~compacted /\ ~inPruning /\ inPruning' =>
           drought >= StagnantSeeds \/ idle >= EmptyCycles]_loopVars
  BY EnterWhenStuck
<1> QED
  BY <1>1, DroughtInit, DroughtStep, PhaseTypeCorrect, PTL DEF LoopSpec, PruningOnlyWhenStuck
=============================================================================
