--------------------------- MODULE SkeletonStage ----------------------------
(***************************************************************************)
(* The stage that fuzzes one entry of the corpus (fuzz_one in              *)
(* SGF/main/src/sgf-fuzz-one.c): a tree of mutations, each run on the      *)
(* target and, if it is new and runs, added to the corpus; and the shared  *)
(* memory through which a run reports the events that may come next        *)
(* (sgf-fuzz-run.c).  A graph is an opaque value.  What the mutator can    *)
(* make of it is the relation Adds (an event is added) and Rewires (a      *)
(* reads-from edge or the outcome of a CAS changes).  Scores are left out: *)
(* a candidate that nothing forces in may be kept or dropped.              *)
(***************************************************************************)
EXTENDS Naturals, Sequences

CONSTANTS Graphs, Events,
          Adds,             \* <<g, e, h>>: adding e to g gives h
          Rewires,          \* <<g, h>>
          Unrealisable,     \* the graphs that the target rejects (codes 11, 12, 21)
          SeedGraphs,       \* the graphs of the initial corpus
          EnableFeedback,
          HighestStep,      \* skeleton_graph_stage_max, 3 unless configured
          NoGraph, NoEvent, NoFeedback

ASSUME StageAssumption ==
  /\ Adds \subseteq Graphs \X Events \X Graphs
  /\ Rewires \subseteq Graphs \X Graphs
  /\ Unrealisable \subseteq Graphs
  /\ SeedGraphs \in Seq(Graphs) /\ SeedGraphs # <<>>
  /\ EnableFeedback \in BOOLEAN
  /\ HighestStep \in Nat \ {0}
  /\ NoGraph \notin Graphs /\ NoEvent \notin Events /\ NoFeedback \notin Graphs \cup {NoGraph}

VARIABLES
  pc,           \* "select", "simulate", "mutate", "chain", "score" or "aborted"
  corpus,       \* the graph of each entry
  feedback,     \* per entry: the graph whose next events it holds; NoGraph is none, from a cleared segment
  simulated,    \* per entry: already_simulated
  forbidden,    \* per entry: the events that forbidden_mutations holds
  children,     \* per entry: whether children_enqueued > 0
  seen,         \* skel_hash_table
  shm,          \* the graph whose run last wrote the segment, NoGraph when cleared
  cur,          \* queue_cur
  step, instance, prev, curr,      \* prev_step_entries and curr_step_entries
  stageCur,
  working, added, chain,   \* the candidate, the event its last mutation added, chain_step
  result        \* what the candidate's run left in simulator_feedback

entryVars == <<corpus, feedback, simulated, forbidden, children>>
treeVars == <<cur, step, instance, prev, curr, stageCur>>
candidateVars == <<working, added, chain, result>>
vars == <<pc, entryVars, seen, shm, treeVars, candidateVars>>

Entries == 1..Len(corpus)

Init ==
  /\ pc = "select"
  /\ corpus = SeedGraphs
  /\ feedback = [i \in Entries |-> NoFeedback]
  /\ simulated = [i \in Entries |-> FALSE]
  /\ forbidden = [i \in Entries |-> {}]
  /\ children = [i \in Entries |-> FALSE]
  /\ seen = {} /\ shm = NoGraph
  /\ cur = 1 /\ step = 1 /\ instance = 0 /\ prev = <<>> /\ curr = <<>> /\ stageCur = 0
  /\ working = NoGraph /\ added = NoEvent /\ chain = 0 /\ result = NoFeedback
-----------------------------------------------------------------------------
(* One run of the target.  A run that ends with code 20 has published its  *)
(* next events.  Any other run may have: a thread that publishes can lose  *)
(* the race for the exit code, or be killed by the timeout afterwards.     *)

Written(g) == {shm, g}

\* Mutant: the segment is read only when this run has published.
ReadFeedbackIfReady(g) ==
  IF EnableFeedback
  THEN \/ result' = g /\ shm' = NoGraph
       \/ result' = NoFeedback /\ shm' = shm
  ELSE result' = NoFeedback /\ shm' \in Written(g)

\* A normal run: the segment, whatever it holds, becomes the feedback and is cleared.
ReadFeedback(g) ==
  IF EnableFeedback THEN result' \in Written(g) /\ shm' = NoGraph
                    ELSE result' = NoFeedback /\ shm' \in Written(g)
-----------------------------------------------------------------------------
StageMax == 2^HighestStep - 1

\* The first mutation of the stage for queue_cur.
BeginStage ==
  /\ step' = 1 /\ instance' = 0 /\ stageCur' = 0
  /\ prev' = <<cur'>> /\ curr' = <<>>

\* Start the stage, or leave the program: no feedback even after running.
BeginOrAbort(f) ==
  IF EnableFeedback /\ f = NoFeedback
  THEN pc' = "aborted" /\ UNCHANGED <<step, instance, stageCur, prev, curr>>
  ELSE pc' = "mutate" /\ BeginStage

\* fuzz_one on entry i: a seed is run first, to get its feedback.
Select(i) ==
  /\ pc = "select"
  /\ cur' = i
  /\ IF EnableFeedback /\ ~simulated[i]
     THEN pc' = "simulate" /\ UNCHANGED <<step, instance, stageCur, prev, curr>>
     ELSE BeginOrAbort(feedback[i])
  /\ UNCHANGED <<entryVars, seen, shm, candidateVars>>

SimulateOk ==
  /\ pc = "simulate" /\ corpus[cur] \notin Unrealisable
  /\ ReadFeedback(corpus[cur])
  /\ feedback' = [feedback EXCEPT ![cur] = result']
  /\ simulated' = [simulated EXCEPT ![cur] = TRUE]
  /\ UNCHANGED cur
  /\ BeginOrAbort(result')
  /\ UNCHANGED <<corpus, forbidden, children, seen, working, added, chain>>

\* The run is rejected, crashes or times out: no feedback, and the program exits.
SimulateFails ==
  /\ pc = "simulate"
  /\ pc' = "aborted"
  /\ shm' \in Written(corpus[cur])
  /\ UNCHANGED <<entryVars, seen, treeVars, candidateVars>>
-----------------------------------------------------------------------------
\* The entry that an instance mutates: one of the last step's, in turn.
Parent == IF prev = <<>> THEN cur ELSE prev[(instance % Len(prev)) + 1]

\* A mutation of g: an event that is not forbidden is added, an edge or an
\* outcome changes, or the mutator fails and returns a copy of g.
Mutated(g, adds) ==
  \/ /\ adds
     /\ \E e \in Events \ forbidden[Parent], h \in Graphs :
          /\ <<g, e, h>> \in Adds
          /\ working' = h /\ added' = e
  \/ \E h \in Graphs : <<g, h>> \in Rewires /\ working' = h /\ added' = NoEvent
  \/ working' = g /\ added' = NoEvent

Mutate ==
  /\ pc = "mutate" /\ pc' = "chain"
  /\ Mutated(corpus[Parent], TRUE)
  /\ chain' = 0
  /\ UNCHANGED <<entryVars, seen, shm, treeVars, result>>

\* Mutant: the chain keeps what the first mutation added.
ChainKeepingInfo ==
  /\ pc = "chain" /\ working \in seen /\ chain < 3
  /\ \E h \in Graphs : <<working, h>> \in Rewires /\ working' = h
  /\ chain' = chain + 1
  /\ UNCHANGED <<pc, entryVars, seen, shm, treeVars, result, added>>

\* Up to three more mutations of a graph that was seen; with feedback, which the
\* chain has not, none of them adds an event.
Chain ==
  /\ pc = "chain" /\ working \in seen /\ chain < 3
  /\ Mutated(working, ~EnableFeedback)
  /\ chain' = chain + 1
  /\ UNCHANGED <<pc, entryVars, seen, shm, treeVars, result>>

\* The next instance of the tree, the next step or the end of the stage;
\* kids and made are this step's children and the stage's count so far.
Advance(kids, made) ==
  /\ stageCur' = made
  /\ IF instance + 1 < 2^(step - 1) /\ made < StageMax
     THEN /\ pc' = "mutate" /\ instance' = instance + 1 /\ curr' = kids
          /\ UNCHANGED <<step, prev>>
     ELSE /\ instance' = 0 /\ prev' = kids /\ curr' = <<>>
          /\ step' = step + 1
          /\ pc' = IF step < HighestStep /\ made < StageMax THEN "mutate" ELSE "select"
  /\ UNCHANGED cur
  /\ working' = NoGraph /\ added' = NoEvent /\ chain' = 0 /\ result' = NoFeedback

\* Still seen after the chain: the candidate is dropped without a run.
SkipDuplicate ==
  /\ pc = "chain" /\ working \in seen /\ chain = 3
  /\ Advance(curr, stageCur)
  /\ UNCHANGED <<entryVars, seen, shm>>

\* The target rejects the graph: the event it added is forbidden on the parent.
Reject ==
  /\ pc = "chain" /\ working \in Unrealisable \ seen
  /\ forbidden' = [forbidden EXCEPT ![Parent] = @ \cup ({added} \ {NoEvent})]
  /\ shm' \in Written(working)
  /\ Advance(curr, stageCur)
  /\ UNCHANGED <<corpus, feedback, simulated, children, seen>>

\* A crash or a timeout: the candidate is dropped.
Fault ==
  /\ pc = "chain" /\ working \notin seen
  /\ shm' \in Written(working)
  /\ Advance(curr, stageCur)
  /\ UNCHANGED <<entryVars, seen>>

RunOk ==
  /\ pc = "chain" /\ working \notin seen \cup Unrealisable
  /\ pc' = "score"
  /\ ReadFeedback(working)
  /\ UNCHANGED <<entryVars, seen, treeVars, working, added, chain>>

\* Mutant: the graph is added to the corpus and not to the seen set.
EnqueueUnseen ==
  /\ pc = "score"
  /\ corpus' = Append(corpus, working)
  /\ feedback' = Append(feedback, result)
  /\ simulated' = Append(simulated, TRUE)
  /\ forbidden' = Append(forbidden, {})
  /\ children' = Append([children EXCEPT ![Parent] = TRUE], FALSE)
  /\ Advance(Append(curr, Len(corpus) + 1), stageCur + 1)
  /\ UNCHANGED <<seen, shm>>

\* Add the candidate to the corpus and to the seen set.
Enqueue ==
  /\ pc = "score"
  /\ seen' = seen \cup {working}
  /\ corpus' = Append(corpus, working)
  /\ feedback' = Append(feedback, result)
  /\ simulated' = Append(simulated, TRUE)
  /\ forbidden' = Append(forbidden, {})
  /\ children' = Append([children EXCEPT ![Parent] = TRUE], FALSE)
  /\ Advance(Append(curr, Len(corpus) + 1), stageCur + 1)
  /\ UNCHANGED shm

\* The score is below the cutoff; the first child of an entry is never dropped.
Discard ==
  /\ pc = "score" /\ children[Parent]
  /\ Advance(curr, stageCur)
  /\ UNCHANGED <<entryVars, seen, shm>>

Next ==
  \/ \E i \in Entries : Select(i)
  \/ SimulateOk \/ SimulateFails
  \/ Mutate \/ Chain \/ SkipDuplicate
  \/ Reject \/ Fault \/ RunOk \/ Enqueue \/ Discard

Spec == Init /\ [][Next]_vars
-----------------------------------------------------------------------------
MaybeFeedback == Graphs \cup {NoGraph, NoFeedback}

\* What the corpus knows of its entries grows together with it, and the state
\* of a stage holds graphs, events and entries.
TypeOK ==
  /\ pc \in {"select", "simulate", "mutate", "chain", "score", "aborted"}
  /\ corpus \in Seq(Graphs)
  /\ feedback \in Seq(MaybeFeedback) /\ Len(feedback) = Len(corpus)
  /\ simulated \in Seq(BOOLEAN) /\ Len(simulated) = Len(corpus)
  /\ forbidden \in Seq(SUBSET Events) /\ Len(forbidden) = Len(corpus)
  /\ children \in Seq(BOOLEAN) /\ Len(children) = Len(corpus)
  /\ seen \subseteq Graphs /\ shm \in Graphs \cup {NoGraph}
  /\ cur \in Nat /\ step \in Nat \ {0} /\ instance \in Nat /\ stageCur \in Nat
  /\ prev \in Seq(Nat) /\ curr \in Seq(Nat)
  /\ working \in Graphs \cup {NoGraph} /\ added \in Events \cup {NoEvent}
  /\ chain \in 0..3 /\ result \in MaybeFeedback

IsSeed(i) == i <= Len(SeedGraphs)

\* No graph is added to the corpus twice, however the chain of mutations got
\* to it; the seen set never forgets one.
AddedOnce ==
  \A i, j \in Entries : ~IsSeed(i) /\ ~IsSeed(j) /\ corpus[i] = corpus[j] => i = j

\* With feedback on, an entry that was added always has some: the program exits
\* for lack of it only in the run of a seed.
AddedHasFeedback ==
  /\ EnableFeedback => \A i \in Entries : ~IsSeed(i) => feedback[i] # NoFeedback
  /\ pc = "aborted" => IsSeed(cur)

\* With feedback on, an event is forbidden on an entry only when adding it to
\* that entry's graph gives a graph that the target rejects.
ForbiddenIsDoomed ==
  EnableFeedback =>
    \A i \in Entries : \A e \in forbidden[i] :
      \E h \in Unrealisable : <<corpus[i], e, h>> \in Adds

\* Nothing in the corpus is a duplicate of anything else in it.
CorpusWithoutDuplicates == \A i, j \in Entries : corpus[i] = corpus[j] => i = j

\* The feedback of an entry comes from the run of its own graph.
FeedbackIsOwn == \A i \in Entries : feedback[i] \in {corpus[i], NoGraph, NoFeedback}
=============================================================================
