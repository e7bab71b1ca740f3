------------------------------- MODULE Pruning -------------------------------
(***************************************************************************)
(* construction/our_pruning.cpp: the candidate lists in cand.idx and       *)
(* cand.ids are pruned to at most R neighbours per node.  The rows of      *)
(* cand.idx are read in batches of meta_batch_rows; within such a batch,   *)
(* as many nodes as the memory budget admits are pruned together from one  *)
(* read of cand.ids.                                                       *)
(*                                                                         *)
(* Memory is counted in words of 4 bytes, the size of an id.  The nodes of *)
(* a batch are pruned by an OpenMP loop whose threads share nothing they   *)
(* write, so that a batch is one step.  Failing system calls end the       *)
(* program and are left out.                                               *)
(***************************************************************************)
EXTENDS Integers, Sequences, FiniteSets, FiniteSetsExt, SequencesExt

CONSTANTS Files,         \* [lists, code]: the candidates of every node of 0 .. N-1, and
                         \* its PQ code
          PruneOptions,  \* [R, T, avail, chunk_bytes]: flags (chunk_bytes = 0 when absent)
                         \* and the memory left after PQ tables and safety
          MetaMin, MetaMax, BatchMax,  \* 10000, 10000000, PRUNE_BATCH_MAX_BYTES
          Wrap           \* 2^64 bytes, in words

RowWords == 4       \* sizeof(CandIdxRow)
HeaderWords == 6    \* sizeof(GraphHdr)

VARIABLES idx, ids, code, R, T, avail, chunk_bytes,   \* inputs
          pc,             \* "start", "meta", "batch", "finish", "done" or "die"
          meta_batch_rows, effective_batch_budget,
          u_global,       \* first node of the rows in memory
          rows_to_read,   \* number of rows in memory
          u_local,        \* next row to prune
          batch,          \* history: [first, k, rows] of the batch pruned last; rows were left
          out,            \* the adjacency lists in the output, in order
          out_off,        \* length of the output
          max_observed_deg,
          header          \* [isz, maxObs] of the output

inputs == <<idx, ids, code, R, T, avail, chunk_bytes>>
budgets == <<meta_batch_rows, effective_batch_budget>>
vars == <<idx, ids, code, R, T, avail, chunk_bytes, pc, meta_batch_rows, effective_batch_budget,
          u_global, rows_to_read, u_local, batch, out, out_off, max_observed_deg, header>>

N == Cardinality(DOMAIN code)
NoBatch == [first |-> 0, k |-> 0, rows |-> 0]
Smaller(a, b) == IF a < b THEN a ELSE b
Larger(a, b) == IF a > b THEN a ELSE b

\* Lines 182-204: the rows of cand.idx and the ids of cand.ids, which hold the
\* lists one after another, as compaction and reverse_edge_logic.cpp write them.
RowsOf(lists) ==
    LET off[v \in 0 .. Cardinality(DOMAIN lists)] ==
          IF v = 0 THEN 0 ELSE off[v - 1] + Len(lists[v - 1])
    IN  [v \in DOMAIN lists |-> [off |-> off[v], cnt |-> Len(lists[v])]]
IdsOf(lists) == FlattenSeq([i \in 1 .. Cardinality(DOMAIN lists) |-> lists[i - 1]])

-----------------------------------------------------------------------------
Given(f, o) ==
    /\ idx = RowsOf(f.lists) /\ ids = IdsOf(f.lists) /\ code = f.code
    /\ R = o.R /\ T = o.T /\ avail = o.avail /\ chunk_bytes = o.chunk_bytes
    /\ pc = "start"
    /\ meta_batch_rows = 0 /\ effective_batch_budget = 0
    /\ u_global = 0 /\ rows_to_read = 0 /\ u_local = 0
    /\ batch = NoBatch
    /\ out = <<>> /\ out_off = 0 /\ max_observed_deg = 0
    /\ header = <<>>

Init == \E f \in Files, o \in PruneOptions : Given(f, o)

\* Lines 501-504: a tenth of the memory, but at least MetaMin rows.
MetaRows == Smaller(Larger(avail \div (10 * RowWords), MetaMin), MetaMax)

\* Line 507: the subtraction is unsigned and is not checked.
MemAvailForBatch == (avail - MetaRows * RowWords + Wrap) % Wrap

\* Lines 508-511.
BatchBudget ==
    LET filled == MemAvailForBatch \div 2
        chunked == IF chunk_bytes > 0 THEN Smaller(filled, chunk_bytes) ELSE filled
    IN  Smaller(chunked, BatchMax)

\* Lines 447-513 and 566-573: budgets, and the empty output with a first header.
Start ==
    /\ pc = "start"
    /\ meta_batch_rows' = MetaRows
    /\ effective_batch_budget' = BatchBudget
    /\ pc' = IF avail = 0 \/ BatchBudget = 0 THEN "die" ELSE IF N > 0 THEN "meta" ELSE "finish"
    /\ u_global' = 0 /\ rows_to_read' = 0 /\ u_local' = 0
    /\ batch' = NoBatch
    /\ out' = <<>> /\ out_off' = HeaderWords /\ max_observed_deg' = 0
    /\ header' = [isz |-> 0, maxObs |-> R]
    /\ UNCHANGED inputs

\* Lines 576-589.
ReadMeta ==
    /\ pc = "meta"
    /\ rows_to_read' = Smaller(N - u_global, meta_batch_rows)
    /\ u_local' = 0
    /\ pc' = "batch"
    /\ UNCHANGED <<inputs, budgets, u_global, batch, out, out_off, max_observed_deg, header>>

-----------------------------------------------------------------------------
\* Lines 539-551 and 600-608: the part of cand.ids that k rows from v on refer to.
OffMin(v, k) == Min({idx[w].off : w \in v .. v + k - 1})
OffMax(v, k) == Max({idx[w].off + idx[w].cnt : w \in v .. v + k - 1})
Span(v, k) == OffMax(v, k) - OffMin(v, k)

\* Lines 552-554.
NeedOnce(v, k) == Span(v, k) + k * (R + 1)
Need(v, k) == Span(v, k) + 2 * k * (R + 1)

\* Lines 529-564: binary search for the number of nodes, 1 if not even one fits.
PickBatchK(v, n_in_buf) ==
    LET search[r \in [lo : 1 .. n_in_buf + 1, hi : 0 .. n_in_buf, best : 1 .. n_in_buf]] ==
          LET k == (r.lo + r.hi) \div 2
          IN  IF r.lo > r.hi THEN r.best
              ELSE IF Need(v, k) <= effective_batch_budget
                   THEN search[[r EXCEPT !.best = k, !.lo = k + 1]]
              ELSE search[[r EXCEPT !.hi = k - 1]]
    IN  search[[lo |-> 1, hi |-> n_in_buf, best |-> 1]]

\* Lines 305-315: the distance of two codes.
Dist(a, b) == IF code[a] < code[b] THEN code[b] - code[a] ELSE code[a] - code[b]

\* Lines 647-652: v's candidates in the chunk.
ChunkIds(v, k) == SubSeq(ids, OffMin(v, k) + 1, OffMax(v, k))
CandOf(v, first, k) ==
    LET rel == idx[v].off - OffMin(first, k)
    IN  SubSeq(ChunkIds(first, k), rel + 1, rel + idx[v].cnt)

\* Lines 654-668: without v itself and ids that are no nodes, sorted by distance
\* and id.
Nearer(v, a, b) == Dist(v, a) < Dist(v, b) \/ (Dist(v, a) = Dist(v, b) /\ a < b)
Sorted(v, pool, w) ==
    IF w < N /\ w # v
    THEN InsertAt(pool, Cardinality({i \in DOMAIN pool : Nearer(v, pool[i], w)}) + 1, w)
    ELSE pool
Pool(v, cand) == FoldLeft(LAMBDA pool, w : Sorted(v, pool, w), <<>>, cand)

\* Lines 670-689: a candidate is kept unless T of those kept before are at least
\* as near to it as v is.
Occluders(v, kept, w) == {i \in DOMAIN kept : Dist(kept[i], w) <= Dist(v, w)}
KeptOrNot(v, kept, w) ==
    IF Len(kept) < R /\ Cardinality(Occluders(v, kept, w)) < T THEN Append(kept, w) ELSE kept
KeepUnoccluded(v, pool) == FoldLeft(LAMBDA kept, w : KeptOrNot(v, kept, w), <<>>, pool)

\* Lines 690-700: free places go to the nearest candidates left.
FillWithDuplicates(kept, pool) ==
    FoldLeft(LAMBDA s, w : IF Len(s) < R THEN Append(s, w) ELSE s, kept, pool)
FilledOrNot(s, w) == IF Len(s) < R /\ w \notin ToSet(s) THEN Append(s, w) ELSE s
FillUp(kept, pool) == FoldLeft(FilledOrNot, kept, pool)

\* Lines 642-701.
Pruned(v, cand) == LET pool == Pool(v, cand) IN FillUp(KeepUnoccluded(v, pool), pool)

PrunedLists(first, k) == [i \in 1 .. k |-> Pruned(first + i - 1, CandOf(first + i - 1, first, k))]

\* Lines 716-752: a list is written with its length.
OutputSize(before, lists) == FoldLeft(LAMBDA n, l : n + 1 + Len(l), before, lists)
LargestDegree(before, lists) == FoldLeft(LAMBDA n, l : Larger(n, Len(l)), before, lists)

\* Lines 591-761: one batch, read, pruned and appended to the output.
PruneBatch ==
    /\ pc = "batch" /\ u_local < rows_to_read
    /\ LET first == u_global + u_local
           k == PickBatchK(first, rows_to_read - u_local)
           lists == PrunedLists(first, k)
       IN  /\ batch' = [first |-> first, k |-> k, rows |-> rows_to_read - u_local]
           /\ out' = out \o lists
           /\ out_off' = OutputSize(out_off, lists)
           /\ max_observed_deg' = LargestDegree(max_observed_deg, lists)
           /\ u_local' = u_local + k
    /\ UNCHANGED <<inputs, pc, budgets, u_global, rows_to_read, header>>

\* Lines 762-763.
EndMeta ==
    /\ pc = "batch" /\ u_local = rows_to_read
    /\ u_global' = u_global + rows_to_read
    /\ pc' = IF u_global' < N THEN "meta" ELSE "finish"
    /\ UNCHANGED <<inputs, budgets, rows_to_read, u_local, batch, out, out_off,
                   max_observed_deg, header>>

\* Lines 765-776.
WriteHeader ==
    /\ pc = "finish"
    /\ header' = [isz |-> out_off, maxObs |-> max_observed_deg]
    /\ pc' = "done"
    /\ UNCHANGED <<inputs, budgets, u_global, rows_to_read, u_local, batch, out, out_off,
                   max_observed_deg>>

Next == Start \/ ReadMeta \/ PruneBatch \/ EndMeta \/ WriteHeader

Spec == Init /\ [][Next]_vars
-----------------------------------------------------------------------------
ValidOf(v, cand, nodes) == (ToSet(cand) \cap nodes) \ {v}
Candidates(v) == ValidOf(v, SubSeq(ids, idx[v].off + 1, idx[v].off + idx[v].cnt), DOMAIN code)

\* What T = 1 pruning of the candidate set C of v means, without the order of
\* the computation: the first n neighbours are the unoccluded ones, the others
\* the nearest of the occluded.
WellPruned(v, C, l) ==
    \E n \in 0 .. Len(l) :
       LET kept == {l[i] : i \in 1 .. n}
           rest == {l[i] : i \in n + 1 .. Len(l)}
           Occluded(w) == \E s \in kept : Nearer(v, s, w) /\ Dist(s, w) <= Dist(v, w)
       IN  /\ \A i, j \in 1 .. Len(l) : i < j /\ (j <= n \/ i > n) => Nearer(v, l[i], l[j])
           /\ \A w \in kept : ~Occluded(w)
           /\ \A w \in C \ kept : \/ Occluded(w)
                                  \/ n = R /\ \A s \in kept : Nearer(v, s, w)
           /\ \A w \in rest, x \in (C \ kept) \ rest : Nearer(v, w, x)
           /\ kept \cap rest = {}

\* The streamed result does not depend on the cut into metadata and id batches:
\* the output has one list per node, in the order of the nodes, pruned from the
\* node's own candidates alone, as full as R and the candidates allow, and the
\* header rewritten at the end describes it.  (With T > 1 a candidate that is
\* listed twice may be kept twice, so that these lists are not constrained.)
PrunedGraphExact ==
    pc = "done" =>
        /\ Len(out) = N
        /\ \A v \in 0 .. N - 1 :
             LET l == out[v + 1]
             IN  /\ ToSet(l) \subseteq Candidates(v)
                 /\ T = 1 => /\ WellPruned(v, Candidates(v), l)
                             /\ Len(l) = Smaller(R, Cardinality(Candidates(v)))
        /\ header.isz = OutputSize(HeaderWords, out)
        /\ \A i \in DOMAIN out : Len(out[i]) <= header.maxObs
        /\ header.maxObs # 0 => \E i \in DOMAIN out : Len(out[i]) = header.maxObs

\* Ids read, lists and serialised lists of the nodes first .. first + k - 1.
Footprint(first, k) ==
    (idx[first + k - 1].off + idx[first + k - 1].cnt - idx[first].off) + 2 * k * (R + 1)

\* If there is room for the metadata buffer, a batch of several nodes takes at
\* most half of what the buffer leaves (PRUNE_BATCH_PAYLOAD_FILL), --chunk-bytes
\* and PRUNE_BATCH_MAX_BYTES; and no batch could have taken more of the rows in
\* memory, so that ids are read in as few and as large pieces as allowed.
BatchesFitAndAreMaximal ==
    (pc # "start" /\ batch.k > 0 /\ avail >= meta_batch_rows * RowWords) =>
        /\ batch.k > 1 =>
             /\ 2 * Footprint(batch.first, batch.k) <= avail - meta_batch_rows * RowWords
             /\ chunk_bytes > 0 => Footprint(batch.first, batch.k) <= chunk_bytes
             /\ Footprint(batch.first, batch.k) <= BatchMax
        /\ \A k \in batch.k + 1 .. batch.rows :
             Footprint(batch.first, k) > effective_batch_budget

\* our_pruning.cpp:12 "Ensures strictly limited memory usage for high-dimensional
\* or large datasets": metadata and batch buffers keep to the memory left for them.
WithinAvailableMemory ==
    (pc # "start" /\ batch.k > 0) =>
        Footprint(batch.first, batch.k) + meta_batch_rows * RowWords <= avail
=============================================================================
