------------------------------ MODULE TopLSet ------------------------------
(***************************************************************************)
(* What a bounded candidate list promises to the searches that use it      *)
(* (include/neighbor.h, NeighborPriorityQueue; search/ours_search.cpp,     *)
(* retset): it keeps the `capacity` best ids of those offered since the    *)
(* query began, each id once, and hands out the best one that has not been *)
(* expanded yet.  No array, no order of storage, no cursor.                *)
(***************************************************************************)
EXTENDS Integers, FiniteSets

CONSTANTS Ids,        \* node ids (uint32_t)
          Dists,      \* distances of a node to the query
          Capacities  \* list lengths L a query may ask for

VARIABLES capacity,   \* L of the running query
          dist,       \* distance of every node to the running query
          kept,       \* ids in the list
          done        \* ids in the list that have been expanded

vars == <<capacity, dist, kept, done>>

\* The order of Neighbor::operator<: by distance, ties by id.
Better(m, n) == \/ dist[m] < dist[n]
                \/ dist[m] = dist[n] /\ m < n

Init == /\ capacity \in Capacities
        /\ dist \in [Ids -> Dists]
        /\ kept = {}
        /\ done = {}

\* A new query: the list is emptied, the distances are the new query's.
NewQuery == /\ capacity' \in Capacities
            /\ dist' \in [Ids -> Dists]
            /\ kept' = {}
            /\ done' = {}

\* An id that is new to the list and fits, or is better than the worst one,
\* which then leaves the list.
Insert(n) ==
    /\ n \notin kept
    /\ \/ /\ Cardinality(kept) < capacity
          /\ kept' = kept \cup {n}
          /\ done' = done
       \/ /\ Cardinality(kept) = capacity
          /\ \E w \in kept : /\ \A k \in kept \ {w} : Better(k, w)
                             /\ Better(n, w)
                             /\ kept' = (kept \ {w}) \cup {n}
                             /\ done' = done \ {w}
    /\ UNCHANGED <<capacity, dist>>

\* The best id that has not been expanded is handed out.
Expand == /\ \E n \in kept \ done :
                /\ \A k \in kept \ done : k = n \/ Better(n, k)
                /\ done' = done \cup {n}
          /\ UNCHANGED <<capacity, dist, kept>>

Next == NewQuery \/ Expand \/ \E n \in Ids : Insert(n)

Spec == Init /\ [][Next]_vars
=============================================================================
