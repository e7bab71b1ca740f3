----------------------------- MODULE GraphStages -----------------------------
(***************************************************************************)
(* The last three steps of the construction together                       *)
(* (construction/run_sigma_pipeline.py:470-534): the candidates are        *)
(* pruned, the pruned graph gets its reverse edges as new candidates, and  *)
(* these are pruned again with the same flags and PQ codes.  The steps are *)
(* those of Pruning and ReverseEdges; they meet in files only.             *)
(*                                                                         *)
(* reverse_edge_logic may also be given a graph of another origin, with    *)
(* repeated neighbours, self-loops or ids that are no nodes.               *)
(***************************************************************************)
EXTENDS ReverseEdges

CONSTANTS Files, PruneOptions, MetaMin, MetaMax, BatchMax, Wrap

ASSUME FilesAssumption ==
    \A f \in Files :
        /\ IsFiniteSet(DOMAIN f.lists)
        /\ DOMAIN f.lists = 0 .. Cardinality(DOMAIN f.lists) - 1 /\ DOMAIN f.code = DOMAIN f.lists
        /\ \A v \in DOMAIN f.lists : f.lists[v] \in Seq(Nat) /\ f.code[v] \in Nat
ASSUME PruneOptionsAssumption ==
    PruneOptions \subseteq
        [R : Nat \ {0}, T : Nat \ {0}, avail : 0 .. Wrap - 1, chunk_bytes : Nat]
ASSUME PruneSizesAssumption ==
    /\ MetaMin \in Nat \ {0} /\ MetaMax \in Nat /\ MetaMin <= MetaMax
    /\ BatchMax \in Nat /\ Wrap \in Nat /\ MetaMax * 4 < Wrap

VARIABLES phase,      \* "first", "reverse", "final" or "ended"
          offered,    \* history: the candidates of every node in the first step
          idx, cand_ids, code, R, T, avail, chunk_bytes,
          prune_pc, meta_batch_rows, effective_batch_budget, u_global, rows_to_read,
          u_local, batch, out, out_off, max_observed_deg, header

Prune == INSTANCE Pruning WITH ids <- cand_ids, pc <- prune_pc

pruning == <<idx, cand_ids, code, R, T, avail, chunk_bytes, prune_pc, meta_batch_rows,
             effective_batch_budget, u_global, rows_to_read, u_local, batch, out, out_off,
             max_observed_deg, header>>
stages == <<phase, offered, vars, pruning>>

-----------------------------------------------------------------------------
NoCandidates == {f \in Files : \A v \in DOMAIN f.lists : f.lists[v] = <<>>}

StagesInit ==
    \E f \in Files, o \in PruneOptions, s \in StripeOptions :
       \/ /\ phase = "first"
          /\ offered = [v \in DOMAIN f.lists |-> Prune!ValidOf(v, f.lists[v], DOMAIN f.lists)]
          /\ Prune!Given(f, o) /\ Given(<<>>, s)
       \/ /\ phase = "reverse" /\ f \in NoCandidates
          /\ offered = [v \in DOMAIN f.lists |-> {}]
          /\ \E g \in Graphs : DOMAIN g = DOMAIN f.lists /\ Given(g, s)
          /\ Prune!Given(f, o)

PruneStep ==
    /\ phase \in {"first", "final"}
    /\ Prune!Next
    /\ UNCHANGED <<phase, offered, vars>>

\* run_sigma_pipeline.py:487-507: --graph is what the first pruning wrote.
GiveGraph ==
    /\ phase = "first" /\ prune_pc = "done"
    /\ phase' = "reverse"
    /\ graph' = [v \in DOMAIN code |-> out[v + 1]]
    /\ pc' = "start"
    /\ UNCHANGED <<offered, budget, max_mib, u, cnt, off_elems, ids, lo, hi, buf, cur, pruning>>

ReverseStep ==
    /\ phase = "reverse"
    /\ Next
    /\ UNCHANGED <<phase, offered, pruning>>

\* --cand-prefix of the first pruning.
GiveFirstCandidates ==
    /\ phase = "reverse" /\ pc = "done"
    /\ phase' = "final"
    /\ prune_pc' = "start"
    /\ UNCHANGED <<offered, vars, idx, cand_ids, code, R, T, avail, chunk_bytes, meta_batch_rows,
                   effective_batch_budget, u_global, rows_to_read, u_local, batch, out, out_off,
                   max_observed_deg, header>>

\* run_sigma_pipeline.py:517-534: --cand-prefix is what reverse_edge_logic wrote.
GiveCandidates ==
    /\ phase = "reverse" /\ pc = "done"
    /\ phase' = "final"
    /\ idx' = [v \in DOMAIN graph |-> [off |-> off_elems[v], cnt |-> cnt[v]]]
    /\ cand_ids' = [x \in 1 .. off_elems[N] |-> ids[x - 1]]
    /\ prune_pc' = "start"
    /\ UNCHANGED <<offered, vars, code, R, T, avail, chunk_bytes, meta_batch_rows,
                   effective_batch_budget, u_global, rows_to_read, u_local, batch, out, out_off,
                   max_observed_deg, header>>

\* run_step() ends the pipeline when a step fails (run_sigma_pipeline.py:122-124).
Failures == {"empty graph", "id out of range", "too little memory", "cursor overflow",
             "stripe fill mismatch"}
EndPipeline ==
    /\ \/ phase = "final" /\ prune_pc = "done"
       \/ phase \in {"first", "final"} /\ prune_pc = "die"
       \/ phase = "reverse" /\ pc \in Failures
    /\ phase' = "ended"
    /\ UNCHANGED <<offered, vars, pruning>>

StagesNext == PruneStep \/ GiveGraph \/ ReverseStep \/ GiveCandidates \/ EndPipeline

StagesSpec == StagesInit /\ [][StagesNext]_stages

-----------------------------------------------------------------------------
\* Each pruning writes, for any cut into metadata and id batches, exactly the
\* lists that the candidates determine (our_pruning.cpp:591-776).
PrunedGraphExact == phase \in {"first", "final"} => Prune!PrunedGraphExact

\* Batches of several nodes keep to the budget and are as large as it allows
\* (our_pruning.cpp:529-564).
BatchesFitAndAreMaximal == phase \in {"first", "final"} => Prune!BatchesFitAndAreMaximal

\* our_pruning.cpp:12 "Ensures strictly limited memory usage for high-dimensional
\* or large datasets".
WithinAvailableMemory == phase \in {"first", "final"} => Prune!WithinAvailableMemory

Neighbours(v) == {w \in DOMAIN graph \ {v} : w \in ToSet(graph[v]) \/ v \in ToSet(graph[w])}

\* What the three steps are for, seen from the end: with T = 1 a node of the final
\* graph has as many neighbours as R and the edges of the first graph in
\* either direction allow, and no others; the first of them is at least as near
\* as every candidate the construction had found for the node.  In particular no
\* node that has an edge, in or out, after the first pruning is left without one.
FinalGraphSound ==
    (phase = "ended" /\ prune_pc = "done" /\ pc = "done" /\ T = 1) =>
        \A v \in DOMAIN code :
            /\ ToSet(out[v + 1]) \subseteq Neighbours(v)
            /\ Len(out[v + 1]) = Cardinality(ToSet(out[v + 1]))
            /\ Len(out[v + 1]) = Prune!Smaller(R, Cardinality(Neighbours(v)))
            /\ \A w \in offered[v] \cup Neighbours(v) :
                  Prune!Dist(v, out[v + 1][1]) <= Prune!Dist(v, w)
=============================================================================
