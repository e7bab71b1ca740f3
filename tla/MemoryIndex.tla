----------------------------- MODULE MemoryIndex -----------------------------
(***************************************************************************)
(* The in-memory index (src/index.cpp, class Index): the parallel build    *)
(* build() / link(), and the operations of a dynamic index, called by      *)
(* several threads: insert_point, lazy_delete, consolidate_deletes,        *)
(* search_with_tags, save and load.                                        *)
(*                                                                         *)
(* Distances are left out: prune_neighbors may keep any of the candidates, *)
(* and a search may expand its candidates in any order and stop before it  *)
(* has expanded all of them.  A vector is the tag it was inserted under.   *)
(* A step is one stretch of code under a node's lock or under _tag_lock.   *)
(* _update_lock is held shared by the threads inside insert_point and      *)
(* search_with_tags, and exclusively by save, load and, unless             *)
(* _conc_consolidate is set, consolidate_deletes.                          *)
(***************************************************************************)
EXTENDS IndexLayout, Sequences, SequencesExt

CONSTANTS Threads,
          Tags,          \* tags, 1 .. n
          R,             \* _indexingRange
          SlackTenths,   \* 10 * GRAPH_SLACK_FACTOR
          Modes,         \* constructor arguments, and a bound on the number of
                         \* operations: [dynamic, conc, frozen, max_ops]
          NoTag, NoLoc, FrozenVector, NoFile

ASSUME TagsAssumption == /\ 1 .. MaxPoints \subseteq Tags /\ Tags \subseteq Nat \ {0}
                         /\ NoTag \notin Tags /\ NoLoc \notin DataLocs
ASSUME DegreeAssumption == R \in Nat \ {0} /\ SlackTenths \in Nat /\ SlackTenths >= 10
ASSUME ModesAssumption == \A m \in Modes : /\ m.dynamic \in BOOLEAN /\ m.conc \in BOOLEAN
                                           /\ m.frozen \in 0 .. MaxFrozen /\ m.max_ops \in Nat
                                           /\ m.dynamic => m.frozen > 0

VARIABLES
    mode,             \* _dynamic_index, _conc_consolidate, _num_frozen_pts
    phase,            \* "new", "link", "cleanup", "ready"
    node_ctr,         \* iteration of the loops of link()
    graph, vec,       \* _graph_store, _data_store
    location_to_tag, tag_to_location,
    empty_slots,      \* _empty_slots, a stack
    delete_set, old_delete_set,
    nd, start, data_compacted,
    pc, loc,          \* where a thread is, and the location it works on
    tag,              \* tag a thread inserts
    seen, expanded,   \* nodes its search has met and expanded
    pruned,           \* pruned_list, or what is left of it in inter_insert
    des, copied,      \* the node inter_insert prunes, and the copy of its list
    next_loc,         \* iteration of the loops of consolidate_deletes
    files,            \* what save() wrote last
    stale_slots,      \* build() left the slots it filled in _empty_slots
    damaged,          \* save() left the frozen points in a wrong place
    ops

layout == [graph |-> graph, vec |-> vec]
points == <<location_to_tag, tag_to_location, empty_slots, delete_set, old_delete_set, nd,
            start, data_compacted>>
thread == <<pc, loc, tag, seen, expanded, pruned, des, copied, next_loc>>
build  == <<phase, node_ctr>>
disk   == <<files, stale_slots, damaged>>
vars   == <<mode, build, graph, vec, points, thread, disk, ops>>

SlackRange == (SlackTenths * R) \div 10
Empty == ToSet(empty_slots)
Tagged == {l \in DataLocs : location_to_tag[l] # NoTag}
Frozen == FrozenLocs(mode.frozen)
Goto(t, l) == pc' = [pc EXCEPT ![t] = l]
Count(from) == [i \in 1 .. MaxPoints - from |-> from + i - 1]   \* from .. MaxPoints - 1, in order

\* prune_neighbors and occlude_list, lines 1072-1213: the closest candidate is
\* always kept; which others are depends on the distances.
Prune(pool) == IF pool = {} THEN {{}}
               ELSE {s \in SUBSET pool : s # {} /\ Cardinality(s) <= R}

\* get_init_ids, lines 740-756.
InitIds == {start} \cup Frozen

-----------------------------------------------------------------------------
\* A constructed index without points.  A dynamic one enables deletions: every
\* slot is on the stack of empty slots, the last one on top.
Init ==
    /\ mode \in Modes
    /\ phase = "new" /\ node_ctr = 0
    /\ graph = [l \in Locs |-> {}]
    /\ vec = [l \in Locs |-> Zero]
    /\ location_to_tag = [l \in DataLocs |-> NoTag]
    /\ tag_to_location = [x \in Tags |-> NoLoc]
    /\ empty_slots = IF mode.dynamic THEN Count(0) ELSE <<>>
    /\ delete_set = {} /\ old_delete_set = {}
    /\ nd = 0 /\ start = MaxPoints /\ data_compacted = TRUE
    /\ pc = [t \in Threads |-> "idle"] /\ loc = [t \in Threads |-> NoLoc]
    /\ tag = [t \in Threads |-> NoTag]
    /\ seen = [t \in Threads |-> {}] /\ expanded = [t \in Threads |-> {}]
    /\ pruned = [t \in Threads |-> {}]
    /\ des = [t \in Threads |-> NoLoc] /\ copied = [t \in Threads |-> {}]
    /\ next_loc = 0
    /\ files = NoFile /\ stale_slots = FALSE /\ damaged = FALSE
    /\ ops = 0

Operation == ops < mode.max_ops /\ ops' = ops + 1
Idle == \A t \in Threads : pc[t] = "idle"

\* Who holds _update_lock and _consolidate_lock.
InsertsOrSearches(t) == pc[t] \in {"vector", "search", "links", "inter_insert", "prune", "query"}
Consolidates(t) == pc[t] \in {"consolidate", "rewrite"}
Consolidating == \E t \in Threads : Consolidates(t)
UpdateShared == mode.conc \/ ~Consolidating
NoWait == TRUE
UpdateFree == UpdateShared /\ \A t \in Threads : ~InsertsOrSearches(t)

\* Operations are only called on an index that has been built.
MayOperate(t) == phase = "ready" /\ ~damaged /\ pc[t] = "idle"

-----------------------------------------------------------------------------
(* build() *)

\* set_start_points, lines 1456-1474: a dynamic index may start empty.
SetStartPoints ==
    /\ phase = "new" /\ mode.dynamic
    /\ phase' = "ready"
    /\ vec' = [l \in Locs |-> IF l \in Frozen THEN FrozenVector ELSE vec[l]]
    /\ UNCHANGED <<mode, node_ctr, graph, points, thread, disk, ops>>

\* Lines 1595-1620 and 1524-1556, generate_frozen_point, and link() up to its
\* loop: the points 0 .. n - 1 are stored and tagged.  A static index is as large as
\* its data.  _empty_slots is left as it is.
Build(n) ==
    /\ phase = "new" /\ mode.frozen <= 1
    /\ mode.dynamic \/ n = MaxPoints
    /\ phase' = "link"
    /\ nd' = n
    /\ location_to_tag' = [l \in DataLocs |-> IF l < n THEN l + 1 ELSE NoTag]
    /\ tag_to_location' = [x \in Tags |-> IF x <= n THEN x - 1 ELSE NoLoc]
    /\ \E entry \in DataLocs :
         /\ start' = IF mode.frozen > 0 THEN MaxPoints ELSE entry
         /\ vec' = [l \in Locs |-> IF l < n THEN l + 1
                                   ELSE IF l \in Frozen /\ entry < n THEN entry + 1 ELSE vec[l]]
    /\ stale_slots' = mode.dynamic
    /\ UNCHANGED <<mode, node_ctr, graph, empty_slots, delete_set, old_delete_set,
                   data_compacted, thread, files, damaged, ops>>

\* visit_order: the points, then the frozen points.
VisitOrder(i) == IF i < nd THEN i ELSE MaxPoints + i - nd
NumVisits == nd + mode.frozen

\* Lines 1316-1331: a thread takes the next node.
LinkNode(t) ==
    /\ phase = "link" /\ pc[t] = "idle" /\ node_ctr < NumVisits
    /\ loc' = [loc EXCEPT ![t] = VisitOrder(node_ctr)]
    /\ node_ctr' = node_ctr + 1
    /\ seen' = [seen EXCEPT ![t] = {<<l, Zero>> : l \in InitIds}]
    /\ Goto(t, "search")
    /\ UNCHANGED <<mode, phase, graph, vec, points, tag, expanded, pruned, des, copied, next_loc,
                   disk, ops>>

\* The barrier at the end of the first loop.
LinkDone ==
    /\ phase = "link" /\ Idle /\ node_ctr = NumVisits
    /\ phase' = "cleanup" /\ node_ctr' = 0
    /\ UNCHANGED <<mode, graph, vec, points, thread, disk, ops>>

\* Lines 1351-1380: each list is read and written by the thread that has its node.
NeedsCleanup(l) == Cardinality(graph[l]) > R

CleanupNode ==
    /\ phase = "cleanup" /\ node_ctr < NumVisits
    /\ node_ctr' = node_ctr + 1
    /\ LET l == VisitOrder(node_ctr)
       IN  IF NeedsCleanup(l)
           THEN \E s \in Prune(graph[l]) : graph' = [graph EXCEPT ![l] = s]
           ELSE UNCHANGED graph
    /\ UNCHANGED <<mode, phase, vec, points, thread, disk, ops>>

BuildDone ==
    /\ phase = "cleanup" /\ node_ctr = NumVisits
    /\ phase' = "ready" /\ node_ctr' = 0
    /\ UNCHANGED <<mode, graph, vec, points, thread, disk, ops>>

-----------------------------------------------------------------------------
(* iterate_to_fixed_point, and what insert_point and link() do with its result *)

\* Lines 898-985, one round of the loop: the node is expanded, and the distances
\* of the neighbours met for the first time are computed.
Met(t) == {p[1] : p \in seen[t]}
DistanceTo(t, l) == IF pc[t] = "query" THEN vec[l] ELSE Zero

Expand(t) ==
    /\ pc[t] \in {"search", "query"}
    /\ \E n \in Met(t) \ expanded[t] :
         /\ expanded' = [expanded EXCEPT ![t] = @ \cup {n}]
         /\ seen' = [seen EXCEPT ![t] = @ \cup {<<l, DistanceTo(t, l)>> : l \in graph[n] \ Met(t)}]
    /\ UNCHANGED <<mode, build, graph, vec, points, pc, loc, tag, pruned, des, copied, next_loc,
                   disk, ops>>

\* search_for_point_and_prune, lines 994-1069: the expanded nodes but the point
\* itself are pruned.
EndSearch(t) ==
    /\ pc[t] = "search" /\ expanded[t] # {}
    /\ \E s \in Prune(expanded[t] \ {loc[t]}) : pruned' = [pruned EXCEPT ![t] = s]
    /\ seen' = [seen EXCEPT ![t] = {}] /\ expanded' = [expanded EXCEPT ![t] = {}]
    /\ Goto(t, "links")
    /\ UNCHANGED <<mode, build, graph, vec, points, loc, tag, des, copied, next_loc, disk, ops>>

\* Lines 2997-3018 and 1335-1340: the point's own list.  With concurrent
\* consolidation the nodes without a tag are left out.
KeptLinks(links) == IF mode.conc /\ phase = "ready" THEN links \cap Tagged ELSE links

SetLinks(t) ==
    /\ pc[t] = "links"
    /\ graph' = [graph EXCEPT ![loc[t]] = KeptLinks(pruned[t])]
    /\ Goto(t, "inter_insert")
    /\ UNCHANGED <<mode, build, vec, points, loc, tag, seen, expanded, pruned, des, copied, next_loc,
                   disk, ops>>

\* inter_insert, lines 1223-1250, under the lock of a neighbour d: the point is
\* added to its list, or the list is copied to be pruned.
HasRoomOffByOne(d) == Cardinality(graph[d]) <= SlackRange
HasRoom(d) == Cardinality(graph[d]) < SlackRange

InterInsert(t) ==
    /\ pc[t] = "inter_insert"
    /\ \E d \in pruned[t] :
         /\ pruned' = [pruned EXCEPT ![t] = @ \ {d}]
         /\ \/ /\ loc[t] \in graph[d]
               /\ UNCHANGED <<graph, pc, des, copied>>
            \/ /\ loc[t] \notin graph[d] /\ HasRoom(d)
               /\ graph' = [graph EXCEPT ![d] = @ \cup {loc[t]}]
               /\ UNCHANGED <<pc, des, copied>>
            \/ /\ loc[t] \notin graph[d] /\ ~HasRoom(d)
               /\ copied' = [copied EXCEPT ![t] = graph[d] \cup {loc[t]}]
               /\ des' = [des EXCEPT ![t] = d]
               /\ Goto(t, "prune")
               /\ UNCHANGED graph
    /\ UNCHANGED <<mode, build, vec, points, loc, tag, seen, expanded, next_loc, disk, ops>>

\* Lines 1252-1281: the copy is pruned and replaces the list, whatever has
\* become of the list since.
PruneNeighbour(t) ==
    /\ pc[t] = "prune"
    /\ \E s \in Prune(copied[t] \ {des[t]}) : graph' = [graph EXCEPT ![des[t]] = s]
    /\ copied' = [copied EXCEPT ![t] = {}] /\ des' = [des EXCEPT ![t] = NoLoc]
    /\ Goto(t, "inter_insert")
    /\ UNCHANGED <<mode, build, vec, points, loc, tag, seen, expanded, pruned, next_loc, disk, ops>>

PointDone(t) ==
    /\ pc[t] = "inter_insert" /\ pruned[t] = {}
    /\ Goto(t, "idle")
    /\ loc' = [loc EXCEPT ![t] = NoLoc] /\ tag' = [tag EXCEPT ![t] = NoTag]
    /\ UNCHANGED <<mode, build, graph, vec, points, seen, expanded, pruned, des, copied, next_loc,
                   disk, ops>>

-----------------------------------------------------------------------------
(* insert_point and lazy_delete *)

\* reserve_location, lines 2637-2662.
TakesNext == data_compacted /\ empty_slots = <<>>
ReservedSlot == IF TakesNext THEN nd ELSE Last(empty_slots)
SlotsAfterPeek == empty_slots
SlotsAfterReserve == IF TakesNext THEN empty_slots ELSE Front(empty_slots)

\* Lines 2876-2978, under _tag_lock: a slot is reserved and the tag published.
\* A full index and a tag in use make the call return -1; in the latter case the
\* slot is released again.
BeginInsert(t, x) ==
    /\ MayOperate(t) /\ mode.dynamic /\ UpdateShared
    /\ Operation
    /\ \/ /\ nd >= MaxPoints
          /\ UNCHANGED <<points, thread>>
       \/ /\ nd < MaxPoints /\ tag_to_location[x] # NoLoc
          /\ empty_slots' = Append(SlotsAfterReserve, ReservedSlot)
          /\ delete_set' = delete_set \ {ReservedSlot}
          /\ UNCHANGED <<location_to_tag, tag_to_location, old_delete_set, nd, start,
                         data_compacted, thread>>
       \/ /\ nd < MaxPoints /\ tag_to_location[x] = NoLoc
          /\ empty_slots' = SlotsAfterReserve
          /\ delete_set' = delete_set \ {ReservedSlot}
          /\ nd' = nd + 1
          /\ tag_to_location' = [tag_to_location EXCEPT ![x] = ReservedSlot]
          /\ location_to_tag' = [location_to_tag EXCEPT ![ReservedSlot] = x]
          /\ loc' = [loc EXCEPT ![t] = ReservedSlot] /\ tag' = [tag EXCEPT ![t] = x]
          /\ Goto(t, "vector")
          /\ UNCHANGED <<old_delete_set, start, data_compacted, seen, expanded, pruned, des,
                         copied, next_loc>>
    /\ UNCHANGED <<mode, build, graph, vec, disk>>

\* Lines 2980-2994: the vector is stored, and the search for it starts.
SetVector(t) ==
    /\ pc[t] = "vector"
    /\ vec' = [vec EXCEPT ![loc[t]] = tag[t]]
    /\ seen' = [seen EXCEPT ![t] = {<<l, Zero>> : l \in InitIds}]
    /\ Goto(t, "search")
    /\ UNCHANGED <<mode, build, graph, points, loc, tag, expanded, pruned, des, copied, next_loc,
                   disk, ops>>

\* Lines 3054-3076 (and 3078-3101 for one tag of several).
LazyDelete(x) ==
    /\ phase = "ready" /\ ~damaged /\ mode.dynamic /\ UpdateShared
    /\ Operation
    /\ data_compacted' = FALSE
    /\ \/ /\ tag_to_location[x] = NoLoc
          /\ UNCHANGED <<delete_set, location_to_tag, tag_to_location>>
       \/ /\ tag_to_location[x] # NoLoc
          /\ delete_set' = delete_set \cup {tag_to_location[x]}
          /\ location_to_tag' = [location_to_tag EXCEPT ![tag_to_location[x]] = NoTag]
          /\ tag_to_location' = [tag_to_location EXCEPT ![x] = NoLoc]
    /\ UNCHANGED <<mode, build, graph, vec, empty_slots, old_delete_set, nd, start, thread, disk>>

-----------------------------------------------------------------------------
(* search_with_tags, lines 2160-2234 *)

BeginQuery(t) ==
    /\ MayOperate(t) /\ mode.dynamic /\ UpdateShared
    /\ Operation
    /\ seen' = [seen EXCEPT ![t] = {<<l, vec[l]>> : l \in InitIds}]
    /\ Goto(t, "query")
    /\ UNCHANGED <<mode, build, graph, vec, points, loc, tag, expanded, pruned, des, copied, next_loc,
                   disk>>

EndQuery(t) ==
    /\ pc[t] = "query" /\ expanded[t] # {}
    /\ seen' = [seen EXCEPT ![t] = {}] /\ expanded' = [expanded EXCEPT ![t] = {}]
    /\ Goto(t, "idle")
    /\ UNCHANGED <<mode, build, graph, vec, points, loc, tag, pruned, des, copied, next_loc, disk, ops>>

\* What the query may answer if it reads the tags now: the tag of a node and the
\* vector its distance was computed from.
Answers(t) == {<<location_to_tag[p[1]], p[2]>> : p \in {q \in seen[t] : q[1] \in Tagged}}

-----------------------------------------------------------------------------
(* consolidate_deletes, lines 2382-2482 *)

\* Lines 2386-2416: the sizes are compared, under shared locks.
SizesAgree == /\ Len(empty_slots) + nd = MaxPoints
              /\ Cardinality(Tagged) + Cardinality(delete_set) = nd

CheckSizes(t) ==
    /\ MayOperate(t) /\ mode.dynamic /\ UpdateShared
    /\ Operation
    /\ IF SizesAgree THEN Goto(t, "checked") ELSE UNCHANGED pc
    /\ UNCHANGED <<mode, build, graph, vec, points, loc, tag, seen, expanded, pruned, des, copied,
                   next_loc, disk>>

\* Lines 2418-2443: the update lock is waited for, the consolidation lock only tried.
LockFails(t) ==
    /\ pc[t] = "checked" /\ mode.conc /\ Consolidating
    /\ Goto(t, "idle")
    /\ UNCHANGED <<mode, build, graph, vec, points, loc, tag, seen, expanded, pruned, des, copied,
                   next_loc, disk, ops>>

SwapDeleteSets(t) ==
    /\ pc[t] = "checked" /\ ~Consolidating
    /\ mode.conc \/ UpdateFree
    /\ old_delete_set' = delete_set /\ delete_set' = {}
    /\ next_loc' = 0
    /\ Goto(t, "consolidate")
    /\ UNCHANGED <<mode, build, graph, vec, location_to_tag, tag_to_location, empty_slots, nd,
                   start, data_compacted, loc, tag, seen, expanded, pruned, des, copied, disk, ops>>

\* process_delete, lines 2314-2351: the list of a node that is in use is read; its
\* deleted neighbours are replaced by their own neighbours.  Frozen points come last.
ExpansionKeepsDead(l, dead) == (graph[l] \ dead) \cup UNION {graph[d] \ {l} : d \in graph[l] \cap dead}
Expansion(l, dead) == (graph[l] \ dead) \cup
                      UNION {graph[d] \ (dead \cup {l}) : d \in graph[l] \cap dead}
NeedsRewrite(l) == /\ l \notin old_delete_set \cup Empty
                   /\ graph[l] \cap old_delete_set # {}

ReadList(t) ==
    /\ pc[t] = "consolidate" /\ next_loc < MaxPoints + mode.frozen
    /\ next_loc' = next_loc + 1
    /\ \/ /\ ~NeedsRewrite(next_loc)
          /\ UNCHANGED <<pc, des, copied>>
       \/ /\ NeedsRewrite(next_loc)
          /\ copied' = [copied EXCEPT ![t] = Expansion(next_loc, old_delete_set)]
          /\ des' = [des EXCEPT ![t] = next_loc]
          /\ Goto(t, "rewrite")
    /\ UNCHANGED <<mode, build, graph, vec, points, loc, tag, seen, expanded, pruned, disk, ops>>

\* Lines 2353-2378: the list is written, pruned if it has become too long.
RewriteList(t) ==
    /\ pc[t] = "rewrite"
    /\ \E s \in IF Cardinality(copied[t]) <= R THEN {copied[t]} ELSE Prune(copied[t]) :
         graph' = [graph EXCEPT ![des[t]] = s]
    /\ copied' = [copied EXCEPT ![t] = {}] /\ des' = [des EXCEPT ![t] = NoLoc]
    /\ Goto(t, "consolidate")
    /\ UNCHANGED <<mode, build, vec, points, loc, tag, seen, expanded, pruned, next_loc, disk, ops>>

\* Lines 2462-2481 and release_locations, lines 2676-2693: the slots are free again,
\* in the order in which the set is traversed.
Release(t) ==
    /\ pc[t] = "consolidate" /\ next_loc = MaxPoints + mode.frozen
    /\ \E s \in SetToSeqs(old_delete_set) : empty_slots' = empty_slots \o s
    /\ nd' = nd - Cardinality(old_delete_set)
    /\ old_delete_set' = {} /\ next_loc' = 0
    /\ Goto(t, "idle")
    /\ UNCHANGED <<mode, build, graph, vec, location_to_tag, tag_to_location, delete_set, start,
                   data_compacted, loc, tag, seen, expanded, pruned, des, copied, disk, ops>>

-----------------------------------------------------------------------------
(* save and load *)

\* save() may go on: lines 268-290 and the checks of compact_data, 2505-2525.
SaveRefused(compact) ==
    IF compact THEN ~mode.dynamic \/ (~data_compacted /\ delete_set # {}) ELSE ~data_compacted

\* compact_data: tags, slots and layout.
CompactedTags == [l \in DataLocs |-> IF \E m \in Tagged : NewLocation(m, Tagged) = l
                                     THEN location_to_tag[CHOOSE m \in Tagged : NewLocation(m, Tagged) = l]
                                     ELSE NoTag]
DoCompact(compact) == compact /\ ~data_compacted

\* compact_frozen_point, lines 2484-2502, and reposition_frozen_point_to_end,
\* lines 2777-2801: the frozen points sit at nd while the files are written.
MovesFrozen == nd < MaxPoints /\ mode.frozen > 0
ToEnd(s) == IF MovesFrozen THEN RepositionPoints(s, nd, MaxPoints, mode.frozen) ELSE s
ToNd(s) == IF MovesFrozen THEN RepositionPoints(s, MaxPoints, nd, mode.frozen) ELSE s

LayoutToWrite(compact) ==
    LET c == IF DoCompact(compact) THEN Compact(layout, Tagged, mode.frozen) ELSE layout
    IN  IF compact THEN ToNd(c) ELSE c
TagsToWrite(compact) == IF DoCompact(compact) THEN CompactedTags ELSE location_to_tag

\* The points really are where the files expect them: in the first nd locations,
\* and the frozen points next to them.
Compacted == Tagged = 0 .. nd - 1
Sound(compact) == DoCompact(compact) \/ (Compacted /\ (compact \/ ~MovesFrozen))

\* save_graph, save_data and save_tags, lines 196-250: nd + num_frozen_pts rows.
Written(compact) ==
    LET rows == 0 .. nd + mode.frozen - 1
        s == LayoutToWrite(compact)
    IN  [nd |-> nd, start |-> IF compact /\ MovesFrozen THEN nd ELSE start,
         graph |-> [l \in rows |-> s.graph[l]], vec |-> [l \in rows |-> s.vec[l]],
         tags |-> [l \in 0 .. nd - 1 |-> TagsToWrite(compact)[l]],
         sound |-> Sound(compact)]

\* A point lies where the frozen points are moved to, or they are not moved there.
Overwrites(compact) ==
    MovesFrozen /\ \/ ~compact
                   \/ ~DoCompact(compact) /\ (nd .. nd + mode.frozen - 1) \cap Tagged # {}

\* Everything save() changes but the files and the layout.
CompactPoints(compact) ==
    IF DoCompact(compact)
    THEN /\ location_to_tag' = CompactedTags
         /\ tag_to_location' = [x \in Tags |-> IF tag_to_location[x] = NoLoc THEN NoLoc
                                               ELSE NewLocation(tag_to_location[x], Tagged)]
         /\ empty_slots' = Count(nd)
         /\ data_compacted' = TRUE
    ELSE UNCHANGED <<location_to_tag, tag_to_location, empty_slots, data_compacted>>

MaySave == phase = "ready" /\ ~damaged /\ UpdateFree /\ ~Consolidating /\ Operation

SaveThrows(compact) ==
    /\ MaySave /\ SaveRefused(compact)
    /\ UNCHANGED <<mode, build, graph, vec, points, thread, disk>>

\* Without compact_before_save the frozen points are not moved to nd; what is at nd
\* is moved over them at the end all the same.  With it nothing is compacted as long
\* as _data_compacted says so, wherever the points are.
Save(compact) ==
    /\ MaySave /\ ~SaveRefused(compact)
    /\ files' = Written(compact)
    /\ graph' = ToEnd(LayoutToWrite(compact)).graph
    /\ vec' = ToEnd(LayoutToWrite(compact)).vec
    /\ start' = IF mode.frozen > 0 THEN MaxPoints ELSE start
    /\ CompactPoints(compact)
    /\ damaged' = Overwrites(compact)
    /\ stale_slots' = (stale_slots /\ ~DoCompact(compact))
    /\ UNCHANGED <<mode, build, delete_set, old_delete_set, nd, thread>>

\* A file cannot be written: the exception leaves the frozen points at nd, and the
\* files on the disk are no longer those of one save.
SaveFails(compact) ==
    /\ MaySave /\ ~SaveRefused(compact)
    /\ files' = NoFile
    /\ graph' = LayoutToWrite(compact).graph
    /\ vec' = LayoutToWrite(compact).vec
    /\ start' = IF compact /\ MovesFrozen THEN nd ELSE start
    /\ CompactPoints(compact)
    /\ damaged' = (compact /\ MovesFrozen)
    /\ stale_slots' = (stale_slots /\ ~DoCompact(compact))
    /\ UNCHANGED <<mode, build, delete_set, old_delete_set, nd, thread>>

\* The process ends, whatever its threads were doing, and another one constructs an
\* index and calls load(), lines 532-660.
LoadedTags == [l \in DataLocs |-> IF l < files.nd THEN files.tags[l] ELSE NoTag]
LoadedLayout ==
    LET rows == DOMAIN files.graph
        s == [graph |-> [l \in Locs |-> IF l \in rows THEN files.graph[l] ELSE {}],
              vec   |-> [l \in Locs |-> IF l \in rows THEN files.vec[l] ELSE Zero]]
    IN  IF files.nd < MaxPoints /\ mode.frozen > 0
        THEN RepositionPoints(s, files.nd, MaxPoints, mode.frozen) ELSE s

Restart ==
    /\ files # NoFile /\ Operation
    /\ files.sound
    /\ graph' = LoadedLayout.graph /\ vec' = LoadedLayout.vec
    /\ location_to_tag' = LoadedTags
    /\ tag_to_location' = [x \in Tags |-> IF \E l \in DataLocs : LoadedTags[l] = x
                                          THEN CHOOSE l \in DataLocs : LoadedTags[l] = x ELSE NoLoc]
    /\ empty_slots' = IF files.nd < MaxPoints THEN Count(files.nd) ELSE <<>>
    /\ delete_set' = {} /\ old_delete_set' = {}
    /\ nd' = files.nd /\ data_compacted' = TRUE
    /\ start' = IF files.nd < MaxPoints /\ mode.frozen > 0 THEN MaxPoints ELSE files.start
    /\ phase' = "ready" /\ node_ctr' = 0
    /\ pc' = [t \in Threads |-> "idle"] /\ loc' = [t \in Threads |-> NoLoc]
    /\ tag' = [t \in Threads |-> NoTag]
    /\ seen' = [t \in Threads |-> {}] /\ expanded' = [t \in Threads |-> {}]
    /\ pruned' = [t \in Threads |-> {}]
    /\ des' = [t \in Threads |-> NoLoc] /\ copied' = [t \in Threads |-> {}]
    /\ next_loc' = 0
    /\ stale_slots' = FALSE
    /\ damaged' = FALSE
    /\ UNCHANGED <<mode, files>>

-----------------------------------------------------------------------------
Step(t) ==
    \/ LinkNode(t) \/ Expand(t) \/ EndSearch(t) \/ SetLinks(t) \/ InterInsert(t)
    \/ PruneNeighbour(t) \/ PointDone(t) \/ SetVector(t) \/ EndQuery(t)
    \/ LockFails(t) \/ SwapDeleteSets(t) \/ ReadList(t) \/ RewriteList(t) \/ Release(t)

Call(t) == BeginQuery(t) \/ CheckSizes(t) \/ \E x \in Tags : BeginInsert(t, x)

\* The callers stop.
Stop == Idle /\ phase = "ready" /\ (ops = mode.max_ops \/ damaged) /\ UNCHANGED vars

Next ==
    \/ SetStartPoints \/ \E n \in 1 .. MaxPoints : Build(n)
    \/ LinkDone \/ CleanupNode \/ BuildDone
    \/ \E t \in Threads : Step(t) \/ Call(t)
    \/ \E x \in Tags : LazyDelete(x)
    \/ \E compact \in BOOLEAN : SaveThrows(compact) \/ Save(compact) \/ SaveFails(compact)
    \/ Restart \/ Stop

Spec == Init /\ [][Next]_vars

-----------------------------------------------------------------------------
\* In a sound index every data slot is empty, tagged, or deleted and waiting for
\* a consolidation, nd counts those that are not empty, and the two tag maps are
\* inverse: what reserve_location, consolidate_deletes and release_locations
\* check and the threads never see all at once.
SlotsAccounted ==
    damaged \/ stale_slots \/ ~mode.dynamic \/ phase # "ready" \/
        /\ IsInjective(empty_slots)
        /\ Empty \cup Tagged \cup delete_set \cup old_delete_set = DataLocs
        /\ Empty \cap Tagged = {} /\ (Empty \cup Tagged) \cap (delete_set \cup old_delete_set) = {}
        /\ delete_set \cap old_delete_set = {}
        /\ nd = MaxPoints - Len(empty_slots)
        /\ \A x \in Tags : tag_to_location[x] # NoLoc => location_to_tag[tag_to_location[x]] = x
        /\ \A l \in Tagged : tag_to_location[location_to_tag[l]] = l

\* Without concurrent consolidation no node that is linked in has an edge to an empty
\* slot, so that nobody reaches a slot while it is filled again: neither the stale
\* copies of inter_insert nor the rewriting of the lists, nor the list a slot keeps
\* from the point before, brings back a released point.
Filling == {loc[t] : t \in {u \in Threads : pc[u] \in {"vector", "search", "links"}}}
NoDanglingEdges ==
    damaged \/ stale_slots \/ mode.conc \/ phase # "ready" \/
        \A l \in (DataLocs \ (Empty \cup Filling)) \cup Frozen :
            graph[l] \cap (Empty \cup Filling) = {}

\* Without concurrent consolidation an answer of search_with_tags gives the
\* distance of the vector that was inserted under the tag it names, although the
\* tag is published before the vector is stored and slots are used again.
AnswersMatchTags ==
    damaged \/ stale_slots \/ mode.conc \/
        \A t \in Threads : pc[t] = "query" => \A a \in Answers(t) : a[1] = a[2]

\* The points as a user sees them: tags, vectors and who is a neighbour of whom.
Name(l, tags) == IF l < MaxPoints THEN <<"tag", tags[l]>> ELSE <<"frozen", l - MaxPoints>>
View(s, tags) ==
    LET named == {l \in DataLocs : tags[l] # NoTag} \cup Frozen
    IN  {<<Name(l, tags), s.vec[l], {Name(n, tags) : n \in s.graph[l] \cap named}>> : l \in named}
IndexView == View(layout, location_to_tag)
FileView == View(LoadedLayout, LoadedTags)

\* When _data_compacted tells the truth, a save keeps every tag, vector and edge,
\* of the frozen points too, and a load of the files brings all of them back,
\* although all locations change and the lists are moved in place.
RoundTrip ==
    [][files' # files /\ files' # NoFile => (files'.sound => FileView' = IndexView
                                                             /\ IndexView' = IndexView)]_vars

\* Lists never outgrow the slack, the build ends with lists within the range, and
\* no node is its own neighbour: however the threads interleave the test of a
\* list's length with its growth.
DegreesBounded ==
    damaged \/
        /\ \A l \in Locs : Cardinality(graph[l]) <= SlackRange /\ l \notin graph[l]
        /\ phase = "cleanup" => \A i \in 0 .. node_ctr - 1 : Cardinality(graph[VisitOrder(i)]) <= R

\* "_data_compacted = true; // true if data has been compacted" (include/index.h:442):
\* the points occupy the first nd locations.
DataCompactedIsTrue ==
    data_compacted => Tagged \cup delete_set \cup old_delete_set = 0 .. nd - 1
=============================================================================
