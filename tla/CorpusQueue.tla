---------------------------- MODULE CorpusQueue -----------------------------
(***************************************************************************)
(* The corpus, its compaction and the choice of the next entry to fuzz:    *)
(* queue_buf (add_to_queue, SGF/main/src/sgf-fuzz-queue.c), the bounded    *)
(* queue of candidates beside it, the alias table's bookkeeping            *)
(* (sgf-fuzz.c), and clear_and_compact_queue_after_phases                  *)
(* (skeleton_queue_pruning.cpp).  An entry is its id; its graph is the set *)
(* of its MO and RF edges.  When a compaction is due is PhaseControl's     *)
(* subject: here it may come at the top of any iteration of the loop.      *)
(***************************************************************************)
EXTENDS Naturals, Sequences, FiniteSets, SequencesExt

CONSTANTS Edges,        \* MO and RF edges
          KeepPerEdge,  \* keep_entries_per_edge
          GrowthReq,    \* queue_growth_threshold
          ClearAfterPhases,
          Seeds,        \* entries of the initial corpus
          MaxIds,       \* bound: entries ever added
          MaxKids,      \* most entries one fuzz_one adds
          NoEntry

ASSUME CorpusAssumption ==
  /\ KeepPerEdge \in Nat \ {0} /\ GrowthReq \in Nat \ {0} /\ ClearAfterPhases \in BOOLEAN
  /\ Seeds \in 1..MaxIds /\ MaxIds \in Nat /\ MaxKids \in Nat
  /\ NoEntry \notin Nat

VARIABLES
  pc,            \* "top" of the loop, "fuzz" in fuzz_one, or "lost": an entry was used
                 \* after it was freed
  buf,           \* queue_buf: the ids of the entries
  graph,         \* per id: the edges of its graph
  mother,        \* per id: NoEntry or an id
  maxId,         \* max_queued_id
  fuzzed,        \* the entries with was_fuzzed
  pending,       \* pending_not_fuzzed
  bounded,       \* the ids in the bounded queue
  cur, currentEntry,               \* queue_cur and current_entry
  table,         \* how many entries the alias table was made for
  prevItems,     \* prev_queued_items
  reinit,        \* reinit_table
  disabled,      \* the seeds that perform_dry_run disabled: duplicates, timeouts, crashes
  favored,       \* the favored entries that are not fuzzed yet, while smallest_favored >= 0
  compacted      \* history: a compaction has happened

corpusVars == <<pc, buf, graph, mother, maxId, fuzzed, pending, bounded, cur, currentEntry, table,
          prevItems, reinit, disabled, favored, compacted>>

Ids == 0..(MaxIds - 1)
InCorpus == ToSet(buf)

\* The seeds are loaded, at least one of them is not disabled, and those are put
\* into the bounded queue.  Only seeds are calibrated, so only seeds are ever
\* favored or disabled, and favored only until the first of them is fuzzed.
CorpusInit ==
  /\ pc = "top"
  /\ buf = [i \in 1..Seeds |-> i - 1]
  /\ graph \in [Ids -> SUBSET Edges] /\ \A i \in Ids : i >= Seeds => graph[i] = {}
  /\ mother = [i \in Ids |-> NoEntry]
  /\ maxId = Seeds
  /\ disabled \in (SUBSET (0..(Seeds - 1))) \ {0..(Seeds - 1)}
  /\ fuzzed = disabled /\ pending = Seeds - Cardinality(disabled)
  /\ bounded = 0..(Seeds - 1) \ disabled
  /\ cur = NoEntry /\ currentEntry = 0
  /\ table = 0 /\ prevItems = 0 /\ reinit = FALSE
  /\ favored \in SUBSET (0..(Seeds - 1) \ disabled)
  /\ compacted = FALSE
-----------------------------------------------------------------------------
(* Selection.  The stock choice is made first: the first favored entry, or *)
(* a draw from the alias table.                                            *)

\* Mutant: the table is made anew only on request.
MakeTableOnRequest ==
  /\ IF reinit
     THEN table' = Len(buf) /\ prevItems' = Len(buf)
     ELSE UNCHANGED <<table, prevItems>>
  /\ reinit' = FALSE

\* The table is made anew for a corpus that has grown, or on request.
MakeTable ==
  /\ IF prevItems < Len(buf) \/ reinit
     THEN table' = Len(buf) /\ prevItems' = Len(buf)
     ELSE UNCHANGED <<table, prevItems>>
  /\ reinit' = FALSE

\* queue_buf[i - 1] is the stock choice.  The table never yields a disabled entry
\* (AliasTable!DisabledNeverDrawn); a draw beyond the corpus is repeated.  When
\* no enabled entry has an edge, a compaction may keep disabled ones only; the table then
\* has no weight to draw by and yields them, which is not followed: the model stops.
StockChoice(i) ==
  IF favored # {}
  THEN i = Min(favored) + 1 /\ UNCHANGED <<table, prevItems, reinit>>
  ELSE MakeTable /\ i <= table' /\ buf[i] \notin disabled

\* Mutant: the candidate is only peeked at.
DequeuedPeek(b) == SUBSET bounded

\* What sgf_queue_dequeue may leave of the bounded queue when it hands out b: its
\* tiers may lose entries (CandidateQueue!CQDequeue).
Dequeued(b) == SUBSET (bounded \ {b})

\* The candidate overrides the stock choice of queue_buf[i - 1].
TakeBounded(b, i) == cur' = b /\ currentEntry' = b

\* The bounded queue hands out a candidate, if it has one.  One that was freed
\* may hold anything: the program's behaviour is undefined from there on.
Select ==
  /\ pc = "top"
  /\ \E i \in 1..Len(buf) :
       /\ StockChoice(i)
       /\ IF bounded = {}
          THEN /\ cur' = buf[i] /\ currentEntry' = i - 1 /\ pc' = "fuzz"
               /\ UNCHANGED bounded
          ELSE \E b \in bounded :
                 /\ bounded' \in Dequeued(b)
                 /\ IF b \in InCorpus
                    THEN TakeBounded(b, i) /\ pc' = "fuzz"
                    ELSE pc' = "lost" /\ UNCHANGED <<cur, currentEntry>>
  /\ UNCHANGED <<buf, graph, mother, maxId, fuzzed, pending, favored, disabled, compacted>>
-----------------------------------------------------------------------------

\* abandon_entry: the first time an entry is fuzzed it is no longer pending.
MarkFuzzed(added) ==
  /\ fuzzed' = fuzzed \cup {cur}
  /\ pending' = pending + added - (IF cur \in fuzzed THEN 0 ELSE 1)
  /\ reinit' = (reinit \/ cur \notin fuzzed)
  /\ favored' = IF cur \in favored THEN {} ELSE favored

\* fuzz_one on queue_cur: the stage adds an entry for each graph of kids, in
\* order; then the entry is marked as fuzzed.  Its early returns are not taken: they are
\* for entries without a graph, which every entry has, and for those that calibrate_case
\* found non_instantiable, which are seeds, for which the dry run ends the fuzzer.
FuzzOne(kids) ==
  LET new == [k \in 1..Len(kids) |-> maxId + k - 1]
  IN  /\ pc = "fuzz" /\ pc' = "top"
      /\ maxId + Len(kids) <= MaxIds
      /\ maxId' = maxId + Len(kids)
      /\ buf' = buf \o new
      /\ graph' = [i \in Ids |-> IF i \in ToSet(new) THEN kids[i - maxId + 1] ELSE graph[i]]
      /\ mother' = [i \in Ids |-> IF i \in ToSet(new) THEN cur ELSE mother[i]]
      /\ bounded' = bounded \cup ToSet(new)
      /\ MarkFuzzed(Len(kids))
      /\ UNCHANGED <<cur, currentEntry, table, prevItems, disabled, compacted>>
-----------------------------------------------------------------------------
(* Compaction.                                                             *)

Holders(e) == {q \in InCorpus : e \in graph[q]}

\* Mutant: one entry fewer is kept for an edge.
BestHoldersShort(e, rank) ==
  {q \in Holders(e) : Cardinality({p \in Holders(e) : rank[p] < rank[q]}) < KeepPerEdge - 1}

\* The entries kept for an edge: those that rank first.
BestHolders(e, rank) ==
  {q \in Holders(e) : Cardinality({p \in Holders(e) : rank[p] < rank[q]}) < KeepPerEdge}

\* The seed with id 0 and the first entry are kept whatever they hold.
Survivors(rank) ==
  ({0} \cap InCorpus) \cup {buf[1]} \cup UNION {BestHolders(e, rank) : e \in Edges}

\* Mutant: the mothers of the survivors are left alone.
MothersKept(kept) == mother

\* A survivor whose mother is freed has none.
MothersAmong(kept) ==
  [i \in Ids |-> IF i \in kept /\ mother[i] \notin kept THEN NoEntry ELSE mother[i]]

\* The survivors move to the front of queue_buf and keep their order: the i-th of
\* them was at at[i].
CompactBuf(kept) ==
  \E at \in [1..Cardinality(kept) -> 1..Len(buf)] :
    /\ \A i, j \in DOMAIN at : i < j => at[i] < at[j]
    /\ {buf[at[i]] : i \in DOMAIN at} = kept
    /\ buf' = [i \in 1..Cardinality(kept) |-> buf[at[i]]]

\* Mutant: was_fuzzed is left alone.
CompactFuzzed(kept) ==
  /\ CompactBuf(kept)
  /\ mother' = MothersAmong(kept)
  /\ pending' = Cardinality(kept)
  /\ fuzzed' = fuzzed
  /\ cur' = buf'[1] /\ currentEntry' = 0
  /\ table' = Len(buf') /\ reinit' = FALSE
  /\ favored' = {}

Compact(kept) ==
  /\ CompactBuf(kept)
  /\ mother' = MothersAmong(kept)
  /\ pending' = Cardinality(kept)
  /\ fuzzed' = fuzzed \ kept
  /\ cur' = buf'[1] /\ currentEntry' = 0
  /\ table' = Len(buf') /\ reinit' = FALSE
  /\ favored' = {}

\* The order of the entries, by perf_score and then by age.  perf_score decays and is
\* recomputed in ways not modelled, so that any order may be found.
Rankings == Injection(InCorpus, 1..Len(buf))

ClearAndCompact ==
  /\ ClearAfterPhases /\ pc = "top" /\ Len(buf) >= GrowthReq /\ Len(buf) > 1
  /\ \E kept \in {Survivors(rank) : rank \in Rankings} : Compact(kept)
  /\ compacted' = TRUE
  /\ UNCHANGED <<pc, graph, maxId, bounded, prevItems, disabled>>

CorpusNext ==
  \/ Select
  \/ \E n \in 0..MaxKids : \E kids \in [1..n -> SUBSET Edges] : FuzzOne(kids)
  \/ ClearAndCompact

CorpusSpec == CorpusInit /\ [][CorpusNext]_corpusVars
-----------------------------------------------------------------------------
\* The seed with id 0 stays the first entry, and the entries stay in the order of
\* their ids.
SeedFirst == buf[1] = 0 /\ \A i, j \in 1..Len(buf) : i < j => buf[i] < buf[j]

\* No entry of the corpus names a freed mother.
MothersLive == \A i \in InCorpus : mother[i] \in InCorpus \cup {NoEntry}

\* pending_not_fuzzed is the number of entries that were not fuzzed.
PendingExact == pending = Cardinality(InCorpus \ fuzzed)

\* pending_not_fuzzed is the number of entries that are still to be fuzzed: a
\* disabled entry never is.
PendingDrainsAlways == pending = Cardinality(InCorpus \ (fuzzed \cup disabled))

\* Until the first compaction pending_not_fuzzed counts what is still to be fuzzed,
\* however often abandon_entry sees the same entry.
PendingDrains == ~compacted => PendingDrainsAlways

\* An edge that some entry has is not lost from the corpus: a compaction keeps
\* an entry for it.
EdgesKept ==
  [][\A e \in Edges : Holders(e) # {} => Holders(e)' # {}]_corpusVars

\* The entry that is handed to fuzz_one is still in memory.
SelectedIsLive == pc # "lost"

\* Until the first compaction the bounded queue holds only entries that are still in
\* memory and were not fuzzed, and hands none out twice.
CandidatesFresh ==
  ~compacted =>
    /\ SelectedIsLive
    /\ bounded \subseteq InCorpus \ fuzzed
    /\ pc = "fuzz" => cur \notin bounded

\* current_entry is the index of queue_cur.
EntryIndexExactAlways ==
  pc = "fuzz" => currentEntry < Len(buf) /\ buf[currentEntry + 1] = cur

\* Until the first compaction current_entry is the index of queue_cur, also when
\* the bounded queue overrides the stock choice.
EntryIndexExact == ~compacted => EntryIndexExactAlways

\* Selections, additions and compactions in any order leave the first seed first, the
\* entries in order, every mother alive and, before a compaction, current_entry right.
QueueSound == SeedFirst /\ MothersLive /\ EntryIndexExact

\* pending_not_fuzzed agrees with the flags of the entries, also of those that a
\* compaction keeps, and before one with the work that is left.
PendingCounts == PendingExact /\ PendingDrains

\* The stock choice is drawn from a table made for the whole corpus.
TableCoversCorpus ==
  [][pc # "fuzz" /\ pc' # pc /\ favored = {} => table' = Len(buf)]_corpusVars
=============================================================================
