----------------------------- MODULE IndexLayout -----------------------------
(***************************************************************************)
(* How the in-memory index (src/index.cpp) moves points between locations. *)
(* Locations below MaxPoints hold the data points, the num_frozen_pts      *)
(* locations from MaxPoints on the frozen points the search starts from.   *)
(* A layout is a record: the adjacency list and the vector of every        *)
(* location.  Adjacency lists hold no id twice and are kept as sets, as    *)
(* their order carries no meaning here.                                    *)
(*                                                                         *)
(* compact_data() and reposition_points() work in place, list after list,  *)
(* with swaps; they are given as folds over their loops.                   *)
(***************************************************************************)
EXTENDS Integers, FiniteSets

CONSTANTS MaxPoints,   \* _max_points
          MaxFrozen,   \* largest _num_frozen_pts
          Zero         \* what a cleared vector holds

ASSUME MaxPointsAssumption == MaxPoints \in Nat \ {0} /\ MaxFrozen \in Nat

DataLocs == 0 .. MaxPoints - 1
Locs == 0 .. MaxPoints + MaxFrozen - 1
FrozenLocs(f) == MaxPoints .. MaxPoints + f - 1

\* InMemGraphStore::swap_neighbours.
Swap(g, a, b) == [g EXCEPT ![a] = g[b], ![b] = g[a]]

\* InMemDataStore::move_vectors: a memmove, then what is left of the old range
\* is zeroed.
MoveVectors(v, old, new, num) ==
    [l \in Locs |-> IF l \in new .. new + num - 1 THEN v[l - (new - old)]
                    ELSE IF l \in old .. old + num - 1 THEN Zero ELSE v[l]]

\* Lines 2696-2775.  The lists are swapped in the order that does not touch a
\* list which still has to be moved.
SwapOffsetReversed(k, old, new, num) == IF new < old THEN num - k ELSE k - 1
SwapOffset(k, old, new, num) == IF new < old THEN k - 1 ELSE num - k

Renamed(g, old, new, num) ==
    [i \in Locs |-> {IF l \in old .. old + num - 1 THEN l + new - old ELSE l : l \in g[i]}]

SwapLists(g, old, new, num) ==
    LET swapped[k \in 0 .. num] ==
            IF k = 0 THEN g
            ELSE LET o == SwapOffset(k, old, new, num)
                 IN  Swap(swapped[k - 1], new + o, old + o)
    IN  swapped

RepositionPoints(s, old, new, num) ==
    IF num = 0 \/ old = new THEN s
    ELSE [graph |-> SwapLists(Renamed(s.graph, old, new, num), old, new, num)[num],
          vec   |-> MoveVectors(s.vec, old, new, num)]

\* Lines 2525-2543: a tagged location moves down over the untagged ones below
\* it; a frozen point stays.
NewLocation(l, tagged) ==
    IF l < MaxPoints THEN Cardinality({m \in tagged : m < l}) ELSE l

\* Lines 2545-2596, one round of the loop over the old locations: edges to
\* untagged locations are dropped, the others renamed, and the list and the
\* vector are moved to the new location.
CompactOne(s, l, tagged) ==
    LET to == NewLocation(l, tagged)
        g  == [s.graph EXCEPT ![l] = {NewLocation(n, tagged) : n \in @ \ (DataLocs \ tagged)}]
    IN  [graph |-> IF to = l THEN g ELSE Swap(g, to, l),
         vec   |-> [s.vec EXCEPT ![to] = s.vec[l]]]

CompactRounds(s, tagged, f) ==
    LET done[k \in 0 .. MaxPoints + f] ==
            IF k = 0 THEN s
            ELSE IF k - 1 \in tagged \cup FrozenLocs(f) THEN CompactOne(done[k - 1], k - 1, tagged)
            ELSE [done[k - 1] EXCEPT !.graph[k - 1] = {}]
    IN  done
CompactAll(s, tagged, f) == CompactRounds(s, tagged, f)[MaxPoints + f]

\* Lines 2598-2620: what is left above the last point is cleared.
Compact(s, tagged, f) ==
    LET c == CompactAll(s, tagged, f)
    IN  [c EXCEPT !.graph = [l \in Locs |-> IF l \in Cardinality(tagged) .. MaxPoints - 1
                                             THEN {} ELSE c.graph[l]]]
=============================================================================
