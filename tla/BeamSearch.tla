----------------------------- MODULE BeamSearch -----------------------------
(***************************************************************************)
(* The graph traversal of one query (search/ours_search.cpp,               *)
(* cached_beam_search_explicit, lines 365-526).  A round takes up to       *)
(* beam_width unexpanded candidates, best first.  A candidate in the       *)
(* neighbour cache is expanded on the spot, which may change what the next *)
(* candidate of the same round is; the others form the frontier, which is  *)
(* read from disk in one batch and expanded when the batch is complete.    *)
(*                                                                         *)
(* The candidate list is used through its promise (TopLSet), which         *)
(* NeighborPriorityQueue implements: kept ids and the marked ones among    *)
(* them.  A node is named by its rank in the order of Neighbor::operator<  *)
(* for this query, so m < n says that m is the better candidate.           *)
(***************************************************************************)
EXTENDS Integers, FiniteSets, Sequences, FiniteSetsExt

CONSTANTS Nodes,      \* nodes of the graph, by rank
          Graphs,     \* graphs the index may hold: [Nodes -> SUBSET Nodes]
          Caches,     \* sets of nodes load_cache_list may have cached
          Lists,      \* values of l_search
          Beams,      \* values of beam_width
          IoLimits    \* values of io_limit

ASSUME NodesAssumption == Nodes \subseteq Nat /\ IsFiniteSet(Nodes)
ASSUME GraphsAssumption == Graphs \subseteq [Nodes -> SUBSET Nodes]
ASSUME ParametersAssumption ==
    /\ Caches \subseteq SUBSET Nodes
    /\ Lists \subseteq Nat \ {0} /\ Beams \subseteq Nat \ {0} /\ IoLimits \subseteq Nat

VARIABLES graph, cached, l_search, beam_width, io_limit,  \* fixed per query
          kept, done,    \* retset: its ids, and the ones marked expanded
          visited,       \* visited
          frontier,      \* frontier, in the order of collection
          num_seen,      \* num_seen
          num_ios,       \* num_ios
          pc,            \* "round", "collect", "parse" or "finished"
          expansions     \* history: how often a node's neighbours were used

inputs == <<graph, cached, l_search, beam_width, io_limit>>
vars == <<graph, cached, l_search, beam_width, io_limit, kept, done, visited,
          frontier, num_seen, num_ios, pc, expansions>>

\* The l_search best of S: what bounded insertion leaves of S, in any order.
BestOneLess(S) == {n \in S : Cardinality({m \in S : m < n}) < l_search - 1}
Best(S) == {n \in S : Cardinality({m \in S : m < n}) < l_search}

\* retset.has_unexpanded_node() and the id closest_unexpanded() returns.
HasUnexpanded == kept # done
Closest == Min(kept \ done)

-----------------------------------------------------------------------------
\* Lines 369-385: one entry point is put on the empty list (the medoid nearest
\* to the query when there are several).
Init ==
    /\ graph \in Graphs /\ cached \in Caches
    /\ l_search \in Lists /\ beam_width \in Beams /\ io_limit \in IoLimits
    /\ \E best_medoid \in Nodes : kept = {best_medoid} /\ visited = {best_medoid}
    /\ done = {}
    /\ frontier = <<>>
    /\ num_seen = 0
    /\ num_ios = 0
    /\ pc = "round"
    /\ expansions = [n \in Nodes |-> 0]

\* Lines 399-404: another round, or the end of the traversal.
MoreRounds == HasUnexpanded /\ num_ios < io_limit

BeginRound ==
    /\ pc = "round" /\ MoreRounds
    /\ pc' = "collect"
    /\ num_seen' = 0
    /\ UNCHANGED <<inputs, kept, done, visited, frontier, num_ios, expansions>>

EndTraversal ==
    /\ pc = "round" /\ ~MoreRounds
    /\ pc' = "finished"
    /\ UNCHANGED <<inputs, kept, done, visited, frontier, num_seen, num_ios, expansions>>

\* Lines 442-446 and 512-517: visited.insert(v).second filters the neighbours of
\* n, and those that are new are inserted, unmarked; the worst ones drop out.
AllNeighbors(n) == graph[n]
NewNeighbors(n) == graph[n] \ visited

Expand(n, marked) ==
    /\ visited' = visited \cup graph[n]
    /\ kept' = Best(kept \cup NewNeighbors(n))
    /\ done' = (marked \ NewNeighbors(n)) \cap kept'
    /\ expansions' = [expansions EXCEPT ![n] = @ + 1]

\* Line 406: the bounds of the collection loop.
MayCollect == /\ HasUnexpanded
              /\ Len(frontier) < beam_width
              /\ num_seen < beam_width

\* Lines 407-448: the candidate is in the cache and is expanded at once.
CollectCached ==
    /\ pc = "collect" /\ MayCollect
    /\ Closest \in cached
    /\ Expand(Closest, done \cup {Closest})
    /\ num_seen' = num_seen + 1
    /\ UNCHANGED <<inputs, frontier, num_ios, pc>>

\* Lines 407-453: the candidate must be read.
CollectForRead ==
    /\ pc = "collect" /\ MayCollect
    /\ Closest \notin cached
    /\ frontier' = Append(frontier, Closest)
    /\ done' = done \cup {Closest}
    /\ num_seen' = num_seen + 1
    /\ UNCHANGED <<inputs, kept, visited, num_ios, pc, expansions>>

\* Lines 457-496: the whole frontier is read in one batch; an empty one is not
\* (line 521).
CountReads == num_ios + Len(frontier)

\* An empty batch is waited for.
ReadEvenIfEmpty ==
    /\ pc = "collect" /\ ~MayCollect /\ frontier # <<>>
    /\ num_ios' = CountReads
    /\ pc' = "parse"
    /\ UNCHANGED <<inputs, kept, done, visited, frontier, num_seen, expansions>>

ReadFrontier ==
    /\ pc = "collect" /\ ~MayCollect
    /\ num_ios' = CountReads
    /\ pc' = IF frontier = <<>> THEN "round" ELSE "parse"
    /\ UNCHANGED <<inputs, kept, done, visited, frontier, num_seen, expansions>>

\* A read batch that stops after its first node.
ParseFirstOnly ==
    /\ pc = "parse"
    /\ Expand(Head(frontier), done)
    /\ frontier' = <<>>
    /\ pc' = "round"
    /\ UNCHANGED <<inputs, num_seen, num_ios>>

\* Lines 499-520: the next node of the batch is parsed and expanded.  After the
\* last one the round is over and frontier.clear() starts the next.
ParseNode ==
    /\ pc = "parse"
    /\ Expand(Head(frontier), done)
    /\ frontier' = Tail(frontier)
    /\ pc' = IF Len(frontier) = 1 THEN "round" ELSE "parse"
    /\ UNCHANGED <<inputs, num_seen, num_ios>>

Next == \/ BeginRound \/ EndTraversal
        \/ CollectCached \/ CollectForRead
        \/ ReadFrontier \/ ParseNode

\* The traversal runs on one thread and is not interrupted.
Spec == Init /\ [][Next]_vars /\ WF_vars(Next)

-----------------------------------------------------------------------------
\* No node is read or expanded twice in one query, although nodes leave the
\* list while they wait in the frontier and the graph leads back to them.
ExpandedAtMostOnce == \A n \in Nodes : expansions[n] <= 1

\* The list is the l_search best of everything the query has seen.
KeepsBestOfVisited ==
    \A n \in Nodes : n \in kept <=> /\ n \in visited
                                  /\ Cardinality({m \in visited : m < n}) < l_search

\* The stop of an unlimited traversal is a local optimum: every neighbour of a
\* listed node is listed, or the list is full of better ones.
StopsAtLocalOptimum ==
    (pc = "finished" /\ num_ios < io_limit) =>
        \A n \in kept : \A m \in graph[n] :
            m \in kept \/ (Cardinality(kept) = l_search /\ \A k \in kept : k < m)

\* Every query ends.
Terminates == <>(pc = "finished")
=============================================================================
