---------------------------- MODULE NoveltyIndex ----------------------------
(***************************************************************************)
(* The nearest-neighbour index of potential_nn.cpp and the novelty that    *)
(* calculate_potential_score takes from it.  The index finds an entry's    *)
(* neighbours through the writes its potential shares with theirs, tries   *)
(* only the rarest of them, and falls back on a sample; entries come and   *)
(* go with the corpus, and scores are cached for Interval new entries.     *)
(*                                                                         *)
(* A potential keeps a set of writes for each place, a reading thread and  *)
(* a location, so that the same write may be in it several times.  It is   *)
(* modelled as a set of occurrences, each a place with a write, without    *)
(* those that get_interesting_locations filters out.                       *)
(***************************************************************************)
EXTENDS Integers, FiniteSets, FiniteSetsExt, TLC

CONSTANTS Seeds, Children,   \* the entries there can be
          Places,            \* pairs of a reading thread and a location
          Writes,            \* WriteKeys of potentials
          Rarest,            \* kRarestKeyCount
          Sample,            \* entries the fallback looks at
          Interval,          \* potential_nn_recalc_interval
          MaxEpoch           \* bound: entries ever added

ASSUME IndexAssumption ==
  Rarest \in Nat \ {0} /\ Sample \in Nat \ {0} /\ Interval \in Nat /\ Seeds # {}
  /\ Seeds \cap Children = {} /\ IsFiniteSet(Places) /\ IsFiniteSet(Writes)

Entries == Seeds \cup Children
Occurrences == Places \X Writes
None == {<<>>}               \* no potential: not a set of occurrences

VARIABLES
  corpus,     \* entries in memory
  disabled,   \* seeds that the dry run has disabled
  potential,  \* skeleton_potential of each entry
  index,      \* g_entries: the potential with which each indexed entry was posted
  epoch,      \* potential_nn_epoch
  scoredAt,   \* potential_score_epoch of each entry whose score is ready, or -1
  last        \* history: the last search: for whom, its neighbour and its result

indexVars == <<corpus, disabled, potential, index, epoch, scoredAt, last>>

NoSearch == [for |-> "none", neighbour |-> "none", novelty |-> 100]

IndexInit ==
  /\ corpus = Seeds /\ disabled \in SUBSET Seeds /\ disabled # Seeds
  /\ potential = [e \in Entries |-> None]
  /\ index = [e \in {} |-> None]
  /\ epoch = Cardinality(Seeds)
  /\ scoredAt = [e \in Entries |-> -1]
  /\ last = NoSearch

Indexed == DOMAIN index

-----------------------------------------------------------------------------
\* compare_skeletons: the Jaccard distance of the occurrences, in whole percent.
Distance(p, q) ==
  LET union == p \cup q IN
  IF union = {} THEN 0
  ELSE (100 * Cardinality(union \ (p \cap q))) \div Cardinality(union)

\* The posting list of a write holds an entry once for each place that has the write.
Postings(w) == {x \in Indexed \X Places : <<x[2], w>> \in index[x[1]]}

\* Mutant: the limit is exclusive, one key too few is tried.
RarestKeysButOne(p) ==
  LET ranked == {k \in p : Postings(k[2]) # {}}
      rank(k) == Cardinality(Postings(k[2]))
      limit == IF Cardinality(ranked) < Rarest THEN Cardinality(ranked) ELSE Rarest - 1
  IN  {c \in kSubset(limit, ranked) : \A k \in c, l \in ranked \ c : rank(k) <= rank(l)}

\* The choices of rarest keys, with a slot for each occurrence: which of two equally rare
\* ones comes first is up to the sort, and several slots may hold the same write.
RarestKeys(p) ==
  LET ranked == {k \in p : Postings(k[2]) # {}}
      rank(k) == Cardinality(Postings(k[2]))
      limit == IF Cardinality(ranked) < Rarest THEN Cardinality(ranked) ELSE Rarest
  IN  {c \in kSubset(limit, ranked) : \A k \in c, l \in ranked \ c : rank(k) <= rank(l)}

\* The entries that have one of the writes of these slots, in whatever place.
Candidates(c) == {x[1] : x \in UNION {Postings(k[2]) : k \in c}}

\* What the fallback may look at: as many entries as the sample has, in hash order.
Samples ==
  kSubset(IF Cardinality(Indexed) < Sample THEN Cardinality(Indexed) ELSE Sample, Indexed)

\* nn_is_active_entry.
Considered(s) == s \ disabled

\* The nearest of the entries that are considered: any one at the least distance.
Best(p, s) ==
  {e \in Considered(s) : \A f \in Considered(s) : Distance(p, index[e]) <= Distance(p, index[f])}

\* potential_nn_find_diff, asked with the address of the graph data, of which no
\* indexed entry is the owner.
FindDiff(e, p) ==
  LET search(s) ==
        IF Best(p, s) = {} THEN {[NoSearch EXCEPT !.for = e]}
        ELSE {[for |-> e, neighbour |-> n, novelty |-> Distance(p, index[n])] :
                n \in Best(p, s)}
      sets == IF Candidates(p) = {} THEN Samples ELSE {Candidates(c) : c \in RarestKeys(p)}
  IN  UNION {search(s) : s \in sets}

-----------------------------------------------------------------------------
\* mutate_run_enqueue_graph: the child is scored, and if it is kept, added to the
\* corpus and indexed.
AddChild(e, p) ==
  /\ e \in Children \ corpus /\ epoch < MaxEpoch
  /\ last' \in FindDiff(e, p)
  /\ corpus' = corpus \cup {e}
  /\ potential' = [potential EXCEPT ![e] = p]
  /\ scoredAt' = [scoredAt EXCEPT ![e] = epoch]
  /\ epoch' = epoch + 1
  /\ index' = [f \in Indexed \cup {e} |-> IF f = e THEN p ELSE index[f]]
  /\ UNCHANGED disabled

\* The score is cached.
Ready(e) == scoredAt[e] # -1 /\ (Interval = 0 \/ epoch - scoredAt[e] < Interval)

\* calculate_potential_score for an entry whose perf_score has decayed, while the
\* alias table is made, or for a seed when it is fuzzed first.
Rescore(e) ==
  /\ e \in corpus \ disabled /\ ~Ready(e)
  /\ \E p \in IF potential[e] = None THEN SUBSET Occurrences ELSE {potential[e]} :
       potential' = [potential EXCEPT ![e] = p] /\ last' \in FindDiff(e, p)
  /\ scoredAt' = [scoredAt EXCEPT ![e] = epoch]
  /\ UNCHANGED <<corpus, disabled, index, epoch>>

\* Mutant: the index is left alone.
ReindexNothing(kept) == index

\* potential_nn_index_reset, and the survivors posted again.
Reindex(kept) == [e \in {f \in kept : potential[f] # None} |-> potential[e]]

\* clear_and_compact_queue_after_phases; an entry that is freed may come again at the same address.
Compact(kept) ==
  /\ kept # {} /\ kept \subseteq corpus /\ kept \cap Seeds # {}
  /\ corpus' = kept
  /\ index' = Reindex(kept)
  /\ potential' = [e \in Entries |-> IF e \in kept THEN potential[e] ELSE None]
  /\ scoredAt' = [e \in Entries |-> IF e \in kept THEN scoredAt[e] ELSE -1]
  /\ last' = NoSearch
  /\ UNCHANGED <<disabled, epoch>>

IndexNext ==
  \/ \E e \in Children, p \in SUBSET Occurrences : AddChild(e, p)
  \/ \E e \in Entries : Rescore(e)
  \/ \E kept \in SUBSET corpus : Compact(kept)

IndexSpec == IndexInit /\ [][IndexNext]_indexVars

-----------------------------------------------------------------------------
\* The index names entries of the corpus only, each under the potential it still has,
\* and misses no child: a search never reads what a compaction has freed.
IndexLive ==
  /\ Indexed \subseteq corpus /\ corpus \cap Children \subseteq Indexed
  /\ \A e \in Indexed : index[e] = potential[e] /\ index[e] # None

\* What an exhaustive search would find.
TrueNovelty(p, s) ==
  IF s = {} THEN 100 ELSE Min({Distance(p, index[e]) : e \in s})

\* The novelty of a new graph is its distance from the nearest active entry, although
\* only entries that share a write with it are compared: as long as its potential has
\* at most Rarest occurrences, and is not empty.
NoveltyExact ==
  [][\A e \in corpus' \ corpus :
       Cardinality(potential'[e]) \in 1..Rarest =>
         last'.novelty = TrueNovelty(potential'[e], Indexed \ disabled)]_indexVars

\* The same, however many occurrences there are.
NoveltyExactAlways ==
  [][\A e \in corpus' \ corpus :
       potential'[e] # {} =>
         last'.novelty = TrueNovelty(potential'[e], Indexed \ disabled)]_indexVars

\* An entry is not its own neighbour.
NeighbourIsAnother == last.neighbour # "none" => last.neighbour # last.for

\* Entries added, places and writes are interchangeable.
Symmetric == Permutations(Children) \cup Permutations(Places) \cup Permutations(Writes)
=============================================================================
