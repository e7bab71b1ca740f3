----------------------- MODULE NeighborPriorityQueue -----------------------
(***************************************************************************)
(* The candidate list of every graph search in the repository              *)
(* (include/neighbor.h): a sorted array with a cursor to the first entry   *)
(* that has not been expanded.  insert() is modelled loop iteration by     *)
(* loop iteration, so that the binary search has states to reason about;   *)
(* the other operations are one step each.                                 *)
(*                                                                         *)
(* One list serves many queries: SSDQueryScratch::reset() calls clear(),   *)
(* which keeps the old entries in the array, and the search then calls     *)
(* reserve(), which may grow the array but never shrinks it.  A distance   *)
(* belongs to a node and the running query, which is how every caller      *)
(* computes the distances it inserts.                                      *)
(***************************************************************************)
EXTENDS Integers, FiniteSets

CONSTANTS Ids,        \* node ids (uint32_t)
          Dists,      \* distances of a node to the query
          Capacities  \* values of reserve(): the L of a search, at least 1

ASSUME IdsAssumption == Ids \subseteq Nat /\ 0 \in Ids
ASSUME DistsAssumption == Dists \subseteq Int /\ 0 \in Dists
ASSUME CapacitiesAssumption == Capacities \subseteq Nat \ {0}

VARIABLES data,       \* _data, a function on 0.._data.size()-1
          size,       \* _size
          capacity,   \* _capacity
          cur,        \* _cur
          pc,         \* "idle", or "search" inside insert()
          nbr,        \* the argument of insert()
          lo, hi,     \* the interval of the binary search
          dist,       \* the distances of the running query
          offered     \* history: the ids inserted since clear()

queue == <<data, size, capacity, cur>>
search == <<pc, nbr, lo, hi>>
vars == <<data, size, capacity, cur, pc, nbr, lo, hi, dist, offered>>

Neighbor == [id : Ids, distance : Dists, expanded : BOOLEAN]

\* The value-initialised Neighbor with which resize() fills new slots.
Blank == [id |-> 0, distance |-> 0, expanded |-> FALSE]

\* Neighbor(id, distance).
New(n) == [id |-> n, distance |-> dist[n], expanded |-> FALSE]

\* Neighbor::operator<.
Less(a, b) == \/ a.distance < b.distance
              \/ a.distance = b.distance /\ a.id < b.id

Slots == DOMAIN data
Held == 0 .. size - 1

-----------------------------------------------------------------------------
\* reserve(c): the array keeps its entries and grows when c + 1 slots are
\* more than it has.
ReserveShort(c) == [i \in Slots \cup (0 .. c - 1) |-> IF i \in Slots THEN data[i] ELSE Blank]
Reserve(c) == [i \in Slots \cup (0 .. c) |-> IF i \in Slots THEN data[i] ELSE Blank]

\* SSDQueryScratch::reset() and retset.reserve(l_search): a new query begins.
Clear == size' = 0 /\ cur' = 0

NewQuery(c) ==
    /\ pc = "idle"
    /\ Clear
    /\ data' = Reserve(c)
    /\ capacity' = c
    /\ dist' \in [Ids -> Dists]
    /\ offered' = {}
    /\ UNCHANGED search

-----------------------------------------------------------------------------
\* insert(), lines 57-60: a full list drops what is worse than its last entry.
DroppedAtOnce(n) == size = capacity /\ Less(data[size - 1], New(n))

InsertDrop(n) ==
    /\ pc = "idle"
    /\ DroppedAtOnce(n)
    /\ offered' = offered \cup {n}
    /\ UNCHANGED <<queue, search, dist>>

\* insert(), line 62: the binary search begins.
InsertBegin(n) ==
    /\ pc = "idle"
    /\ ~DroppedAtOnce(n)
    /\ pc' = "search"
    /\ nbr' = New(n)
    /\ lo' = 0
    /\ hi' = size
    /\ UNCHANGED <<queue, dist, offered>>

Mid == (lo + hi) \div 2

\* insert() returns: its locals are gone.
Return == /\ pc' = "idle"
          /\ nbr' = Blank /\ lo' = 0 /\ hi' = 0
          /\ offered' = offered \cup {nbr.id}

\* insert(), lines 66-70: continue in the lower half.
SearchLeft ==
    /\ pc = "search" /\ lo < hi
    /\ Less(nbr, data[Mid])
    /\ hi' = Mid
    /\ UNCHANGED <<queue, pc, nbr, lo, dist, offered>>

\* insert(), lines 71-74: the id is in the list already.
NeverSame == FALSE
SameIdAtMid == data[Mid].id = nbr.id

SearchFound ==
    /\ pc = "search" /\ lo < hi
    /\ ~Less(nbr, data[Mid])
    /\ SameIdAtMid
    /\ Return
    /\ UNCHANGED <<queue, dist>>

\* insert(), lines 75-78: continue in the upper half.
UpperHalfFromMid == Mid
UpperHalf == Mid + 1

SearchRight ==
    /\ pc = "search" /\ lo < hi
    /\ ~Less(nbr, data[Mid])
    /\ ~SameIdAtMid
    /\ lo' = UpperHalf
    /\ UNCHANGED <<queue, pc, nbr, hi, dist, offered>>

\* insert(), lines 81-85: shift the tail one slot up (memmove reads the old
\* array) and store the new entry; in a full list the last entry lands in the
\* spare slot, where nothing reads it.
OverwriteAt(p) == [data EXCEPT ![p] = nbr]
InsertedAt(p) ==
    [i \in Slots |-> IF i = p THEN nbr
                     ELSE IF p < i /\ i <= size THEN data[i - 1]
                     ELSE data[i]]

\* insert(), lines 86-89: the length stops at the capacity.
SizeAfterInsert == IF size < capacity THEN size + 1 ELSE size

\* insert(), lines 90-93: the cursor moves back to an entry placed before it.
CursorUnmoved(p) == cur
CursorAfterInsert(p) == IF p < cur THEN p ELSE cur

InsertPlace ==
    /\ pc = "search" /\ ~(lo < hi)
    /\ data' = InsertedAt(lo)
    /\ size' = SizeAfterInsert
    /\ cur' = CursorAfterInsert(lo)
    /\ Return
    /\ UNCHANGED <<capacity, dist>>

-----------------------------------------------------------------------------
\* closest_unexpanded(), lines 98-103: mark the entry at the cursor and walk on
\* to the next entry that is not expanded, or to the end of the list.  Every
\* caller asks has_unexpanded_node() first.
StopsAt(c) == /\ c = size \/ ~data[c].expanded
              /\ \A j \in cur + 1 .. c - 1 : data[j].expanded

ClosestUnexpanded ==
    /\ pc = "idle"
    /\ cur < size
    /\ data' = [data EXCEPT ![cur].expanded = TRUE]
    /\ \E c \in cur + 1 .. size : StopsAt(c) /\ cur' = c
    /\ UNCHANGED <<size, capacity, search, dist, offered>>

-----------------------------------------------------------------------------
Init ==
    /\ capacity \in Capacities
    /\ data = [i \in 0 .. capacity |-> Blank]
    /\ size = 0
    /\ cur = 0
    /\ pc = "idle"
    /\ dist \in [Ids -> Dists]
    /\ nbr = Blank
    /\ lo = 0
    /\ hi = 0
    /\ offered = {}

Insert == \/ \E n \in Ids : InsertDrop(n) \/ InsertBegin(n)
          \/ SearchLeft \/ SearchFound \/ SearchRight \/ InsertPlace

Next == \/ \E c \in Capacities : NewQuery(c)
        \/ Insert
        \/ ClosestUnexpanded

\* An insert() that has begun runs to its end: a call on the caller's thread.
InsertSteps == SearchLeft \/ SearchFound \/ SearchRight \/ InsertPlace

Spec == Init /\ [][Next]_vars
FairSpec == Spec /\ WF_vars(InsertSteps)

-----------------------------------------------------------------------------
\* Type and index bounds: every slot the operations touch, the spare one that
\* memmove fills included, lies inside the vector.
TypeOK ==
    /\ capacity \in Capacities
    /\ size \in 0 .. capacity
    /\ cur \in 0 .. size
    /\ \E m \in Capacities : capacity <= m /\ data \in [0 .. m -> Neighbor]
    /\ pc \in {"idle", "search"}
    /\ nbr \in Neighbor
    /\ dist \in [Ids -> Dists]
    /\ offered \subseteq Ids
    /\ lo \in Nat /\ hi \in Nat
    /\ pc = "search" => lo <= hi /\ hi <= size

\* The entries are in strictly ascending order of (distance, id), so no id is
\* held twice: the comment on insert() promises both, and the binary search
\* sees only the entries it happens to probe.
Sorted == \A i, j \in Held : i < j => Less(data[i], data[j])

\* The class comment (neighbor.h:37-38): after every insert and
\* closest_unexpanded, _cur points to the first unexpanded entry, or past the
\* end when there is none.
CursorAtFirstUnexpanded ==
    /\ \A i \in Held : i < cur => data[i].expanded
    /\ cur < size => ~data[cur].expanded

\* The list holds the best ids offered since the query began: nothing else, and
\* an id that was offered and is not held is worse than everything that is, and
\* was displaced only because the list is full.
RetainsBest ==
    /\ \A i \in Held : data[i].id \in offered
    /\ \A n \in offered :
         \/ \E i \in Held : data[i].id = n
         \/ size = capacity /\ \A i \in Held : Less(data[i], New(n))

\* The binary search of insert() brackets the place of the new entry: what lies
\* below lo is better, what lies from hi on is worse, and a full list is only
\* searched for an entry that belongs in it.  Entries of earlier queries, which
\* clear() leaves in the array, are never among the ones compared.
SearchBrackets ==
    /\ \A i \in Held : data[i].distance = dist[data[i].id]
    /\ pc = "search" =>
         /\ nbr = New(nbr.id)
         /\ \A i \in Held : i < lo => Less(data[i], nbr)
         /\ \A i \in Held : i >= hi => Less(nbr, data[i])
         /\ size = capacity => ~Less(data[size - 1], nbr)

\* Every insert() returns: the binary search interval shrinks.
InsertReturns == pc = "search" ~> pc = "idle"

\* The list implements its abstract promise.
TopL == INSTANCE TopLSet WITH
            kept <- {data[i].id : i \in Held},
            done <- {data[i].id : i \in {k \in Held : data[k].expanded}}

ImplementsTopL == TopL!Spec
=============================================================================
