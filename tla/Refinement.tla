----------------------------- MODULE Refinement -----------------------------
(***************************************************************************)
(* The second half of a query (search/ours_search.cpp,                     *)
(* cached_beam_search_explicit, lines 528-668): the candidates of the      *)
(* traversal, in ascending order of approximate (PQ) distance, get their   *)
(* exact distances in batches of B vectors read from disk.  In early-exit  *)
(* mode the loop stops when the top-k ids have not changed for             *)
(* early_exit_streak consecutive batches; the answer is then taken from    *)
(* exact and approximate distances mixed.                                  *)
(***************************************************************************)
EXTENDS Integers, FiniteSets, Sequences, FiniteSetsExt, SequencesExt

CONSTANTS MaxCandidates,  \* largest list a traversal leaves
          Dists,          \* distances, approximate and exact
          KSearches,      \* values of k_search
          BatchSizes,     \* values of B (BATCH_REFINE_SIZE)
          Streaks,        \* values of early_exit_streak
          Modes           \* refinement options; see Mode

ASSUME DistsAssumption == Dists \subseteq Nat
ASSUME SizesAssumption ==
    /\ MaxCandidates \in Nat
    /\ KSearches \subseteq Nat \ {0} /\ BatchSizes \subseteq Nat \ {0}
    /\ Streaks \subseteq Nat

\* refine_total, fixed_refine_count and fixed_refine_ratio exclude each other
\* (ours_search_main.cpp:156-175); with none of them the mode is early exit.
\* The ratio is given in tenths.
Mode == [kind : {"total", "early"}] \cup [kind : {"count", "ratio"}, value : Nat \ {0}]
ASSUME ModesAssumption == Modes \subseteq Mode

VARIABLES exact,       \* exact distance of every candidate, unknown until read
          candidates,  \* candidates[i].distance, i in 1..Len
          k_search, B, early_exit_streak, mode,   \* fixed per query
          M,           \* number of candidates selected for refinement
          start,       \* start of the next batch
          prev,        \* prev_topk_ids
          streak_cnt,  \* streak_cnt
          refine_pc,   \* "setup", "batch", "output" or "finished"
          answer,      \* indices[0..Kout-1], in order
          tops         \* history: top-k ids before the first and after each batch

refine_inputs == <<exact, k_search, B, early_exit_streak, mode>>
refine_vars == <<exact, candidates, k_search, B, early_exit_streak, mode, M, start, prev,
                 streak_cnt, refine_pc, answer, tops>>

Smaller(a, b) == IF a < b THEN a ELSE b
Larger(a, b) == IF a > b THEN a ELSE b
CeilTenths(n, r) == (n * r + 9) \div 10

-----------------------------------------------------------------------------
\* Lines 530-535: the list arrives sorted by approximate distance.  A candidate
\* is named by its position in it.
RefineInit ==
    /\ \E n \in 0 .. MaxCandidates :
         /\ exact \in [1 .. n -> Dists]
         /\ candidates \in {c \in [1 .. n -> Dists] : \A i \in 2 .. n : c[i - 1] <= c[i]}
    /\ k_search \in KSearches /\ B \in BatchSizes /\ early_exit_streak \in Streaks
    /\ mode \in Modes
    /\ M = 0 /\ start = 0 /\ prev = {} /\ streak_cnt = 0
    /\ refine_pc = "setup"
    /\ answer = <<>>
    /\ tops = <<>>

\* Lines 538-546: how many candidates are refined.
RefineRatioOnly ==
    LET n == Len(candidates)
    IN  CASE mode.kind = "count" -> Smaller(n, mode.value)
          [] mode.kind = "ratio" -> Smaller(n, CeilTenths(n, mode.value))
          [] OTHER -> n
RefineNum ==
    LET n == Len(candidates)
    IN  CASE mode.kind = "count" -> Smaller(n, mode.value)
          [] mode.kind = "ratio" -> Smaller(n, Larger(k_search, CeilTenths(n, mode.value)))
          [] OTHER -> n

\* Line 617.
UseDynamicEarlyExit == mode.kind = "early"

\* Lines 591-611: the ids compute_topk_ids may return for the distances d: the k
\* nearest of the first m; which of several equally distant ids stay on the heap
\* is left open.
TopKIds(d, m) ==
    {S \in kSubset(Smaller(k_search, m), 1 .. m) :
        \A i \in S, j \in (1 .. m) \ S : d[i] <= d[j]}

\* Lines 617-620: the ids before the first batch.
Setup ==
    /\ refine_pc = "setup"
    /\ M' = RefineNum
    /\ IF UseDynamicEarlyExit
       THEN \E S \in TopKIds(candidates, RefineNum) : prev' = S /\ tops' = <<S>>
       ELSE UNCHANGED <<prev, tops>>
    /\ refine_pc' = IF 0 < RefineNum THEN "batch" ELSE "output"
    /\ UNCHANGED <<refine_inputs, candidates, start, streak_cnt, answer>>

\* Lines 622-643: the candidates of the next batch get their exact distances.
Batch == start + 1 .. start + Smaller(B, M - start)
RefinedByBatch == [i \in DOMAIN candidates |-> IF i \in Batch THEN exact[i] ELSE candidates[i]]

\* Lines 578-580 (the driver refuses 0, the search itself reads it as 1).
StreakNeeded == Larger(1, early_exit_streak)

\* Lines 649-656: the streak of batches that left the top-k ids alone.
StreakNotReset(same) == IF same THEN streak_cnt + 1 ELSE streak_cnt
StreakAfter(same) == IF same THEN streak_cnt + 1 ELSE 0

FullBatchesOnly == IF start + 2 * B <= M THEN "batch" ELSE "output"
NextOrOutput == IF start + B < M THEN "batch" ELSE "output"

\* Lines 621-659 without the early-exit test.
RefineBatch ==
    /\ refine_pc = "batch" /\ ~UseDynamicEarlyExit
    /\ candidates' = RefinedByBatch
    /\ start' = start + B
    /\ refine_pc' = NextOrOutput
    /\ UNCHANGED <<refine_inputs, M, prev, streak_cnt, answer, tops>>

\* Lines 621-659 in early-exit mode; the break leaves start alone.
RefineBatchAndTest ==
    /\ refine_pc = "batch" /\ UseDynamicEarlyExit
    /\ candidates' = RefinedByBatch
    /\ \E S \in TopKIds(RefinedByBatch, M) :
         /\ tops' = Append(tops, S)
         /\ streak_cnt' = StreakAfter(S = prev)
         /\ \/ /\ S = prev /\ streak_cnt' >= StreakNeeded
               /\ refine_pc' = "output"
               /\ UNCHANGED <<start, prev>>
            \/ /\ ~(S = prev /\ streak_cnt' >= StreakNeeded)
               /\ prev' = S
               /\ start' = start + B
               /\ refine_pc' = NextOrOutput
    /\ UNCHANGED <<refine_inputs, M, answer>>

\* Lines 662-668: the best Kout = min(k_search, M) by (distance, id), in order.
\* The id order of equally distant candidates is left open.
Output ==
    /\ refine_pc = "output"
    /\ \E s \in [1 .. Smaller(k_search, M) -> 1 .. M] :
         /\ IsInjective(s)
         /\ \A i \in 2 .. Len(s) : candidates[s[i - 1]] <= candidates[s[i]]
         /\ \A i \in DOMAIN s, j \in (1 .. M) \ {s[x] : x \in DOMAIN s} :
               candidates[s[i]] <= candidates[j]
         /\ answer' = s
    /\ refine_pc' = "finished"
    /\ UNCHANGED <<refine_inputs, candidates, M, start, prev, streak_cnt, tops>>

RefineNext == Setup \/ RefineBatch \/ RefineBatchAndTest \/ Output

RefineSpec == RefineInit /\ [][RefineNext]_refine_vars

-----------------------------------------------------------------------------
ReturnedIds == {answer[i] : i \in DOMAIN answer}

\* Without early exit the answer is the exact top-k of the candidates selected
\* for refinement (the help text of --refine_total, ours_search_main.cpp:612:
\* "Refine every candidate selected for refinement without early termination.").
FullRefinementIsExact ==
    (refine_pc = "finished" /\ ~UseDynamicEarlyExit) =>
        \A i \in ReturnedIds, j \in (1 .. M) \ ReturnedIds : exact[i] <= exact[j]

\* A query returns k ids whenever the traversal left k candidates, unless the
\* user capped the number of refined candidates: the ratio option never costs
\* an answer.
ReturnsKWhenItCan ==
    (refine_pc = "finished" /\ mode.kind # "count") =>
        Len(answer) = Smaller(k_search, Len(candidates))

\* The early exit is the one the help text describes (ours_search_main.cpp:615):
\* a query that stops with batches left has seen the same top-k ids in
\* early_exit_streak consecutive batches, the first of them compared with the
\* ids before it; and it returns the ids it has settled on, up to ties.
EarlyExitAfterStreak ==
    (refine_pc \in {"output", "finished"} /\ UseDynamicEarlyExit) =>
        /\ start + B < M =>
             /\ Len(tops) > Larger(1, early_exit_streak)
             /\ \A i \in Len(tops) - Larger(1, early_exit_streak) .. Len(tops) : tops[i] = Last(tops)
        /\ refine_pc = "finished" =>
             \A i \in ReturnedIds \ Last(tops), j \in Last(tops) \ ReturnedIds :
                 candidates[i] = candidates[j]
=============================================================================
