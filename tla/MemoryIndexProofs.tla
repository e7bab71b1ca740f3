--------------------------- MODULE MemoryIndexProofs ---------------------------
(***************************************************************************)
(* For every number of slots, tags, threads and operations, through        *)
(* insertions, deletions, consolidations, compactions, saves and loads:    *)
(*                                                                         *)
(* - no slot of a dynamic index is lost or given out twice, and the two    *)
(*   tag maps stay inverse (SlotsAccounted, from Inv);                     *)
(* - lists stay short, and no node is its own neighbour (DegreesBounded);  *)
(* - without concurrent consolidation, no edge leads to an empty slot or   *)
(*   to one that is being filled (NoDanglingEdges), and an answer has the  *)
(*   distance of the vector its tag names (AnswersMatchTags).              *)
(*                                                                         *)
(* The last three follow from GraphInv.  What the loops of compact_data()  *)
(* and reposition_points() do to the lists is shown first, round after     *)
(* round: a set of rounds with a first one that fails is refuted.          *)
(***************************************************************************)
EXTENDS MemoryIndex, FiniteSetTheorems, FunctionTheorems, TLAPS

Labels == {"idle", "vector", "search", "links", "inter_insert", "prune", "query", "checked",
           "consolidate", "rewrite"}

TypeOK ==
    /\ mode \in Modes
    /\ phase \in {"new", "link", "cleanup", "ready"}
    /\ location_to_tag \in [DataLocs -> Tags \cup {NoTag}]
    /\ tag_to_location \in [Tags -> DataLocs \cup {NoLoc}]
    /\ empty_slots \in Seq(DataLocs)
    /\ delete_set \subseteq DataLocs /\ old_delete_set \subseteq DataLocs
    /\ nd \in 0 .. MaxPoints
    /\ data_compacted \in BOOLEAN /\ stale_slots \in BOOLEAN
    /\ pc \in [Threads -> Labels]

\* The two tag maps are inverse.
TagMaps ==
    /\ \A x \in Tags : tag_to_location[x] # NoLoc => location_to_tag[tag_to_location[x]] = x
    /\ \A l \in Tagged : tag_to_location[location_to_tag[l]] = l

\* A slot is empty, tagged or deleted, and nothing of it twice.
Partition ==
    /\ IsInjective(empty_slots)
    /\ Empty \cup Tagged \cup delete_set \cup old_delete_set = DataLocs
    /\ Empty \cap Tagged = {} /\ (Empty \cup Tagged) \cap (delete_set \cup old_delete_set) = {}
    /\ delete_set \cap old_delete_set = {}
    /\ nd = MaxPoints - Len(empty_slots)

\* After build() the stack still holds the slots that were filled, its lowest
\* ones: the filled slots are those and the ones above the stack.  Insertions stop
\* at the limit before they reach the slots of the built points.
Built == nd + Len(empty_slots) - MaxPoints
StackAboveBuilt ==
    /\ \A x \in 1 .. Len(empty_slots) : empty_slots[x] = x - 1
    /\ Built >= 1
    /\ Tagged \cup delete_set = {l \in DataLocs : l < Built \/ l >= Len(empty_slots)}
    /\ Tagged \cap delete_set = {} /\ old_delete_set = {}

Slots ==
    mode.dynamic =>
        /\ ~stale_slots => phase \in {"new", "ready"} /\ Partition
        /\ stale_slots => phase # "new" /\ StackAboveBuilt
        /\ phase = "new" => Len(empty_slots) = MaxPoints /\ delete_set = {} /\ old_delete_set = {}
                            /\ \A x \in 1 .. MaxPoints : empty_slots[x] = x - 1

\* Only a thread that consolidates has taken a delete set, and none does while the
\* sizes cannot agree.
InConsolidation == {"checked", "consolidate", "rewrite"}
DeleteSets ==
    /\ ~Consolidating => old_delete_set = {}
    /\ stale_slots \/ ~mode.dynamic \/ phase # "ready" =>
           \A t \in Threads : pc[t] \notin InConsolidation

\* The tags in the files of a sound save belong to the first nd points, one each.
Files ==
    files # NoFile =>
        /\ files.nd \in 0 .. MaxPoints
        /\ files.tags \in [0 .. files.nd - 1 -> Tags \cup {NoTag}]
        /\ phase = "ready"
        /\ files.sound =>
               /\ files.tags \in [0 .. files.nd - 1 -> Tags]
               /\ \A l, m \in 0 .. files.nd - 1 : files.tags[l] = files.tags[m] => l = m

Inv == TypeOK /\ TagMaps /\ Slots /\ DeleteSets /\ Files

-----------------------------------------------------------------------------
(* Slots and their numbers *)

LEMMA Slots0 == /\ MaxPoints \in Nat /\ MaxPoints >= 1
                /\ \A l : l \in DataLocs <=> l \in Nat /\ l < MaxPoints
                /\ IsFiniteSet(DataLocs) /\ Cardinality(DataLocs) = MaxPoints
  <1>1. MaxPoints \in Nat /\ MaxPoints >= 1
    BY MaxPointsAssumption
  <1>2. IsFiniteSet(DataLocs) /\ Cardinality(DataLocs) = MaxPoints
    <2>1. MaxPoints - 1 \in Int /\ 0 \in Int /\ ~(0 > MaxPoints - 1) /\ MaxPoints - 1 - 0 + 1 = MaxPoints
      BY <1>1
    <2> QED
      BY <2>1, FS_Interval DEF DataLocs
  <1> QED
    BY <1>1, <1>2 DEF DataLocs

\* The stack of the slots from a on.
LEMMA CountedSlots ==
    ASSUME NEW a \in 0 .. MaxPoints
    PROVE  /\ Count(a) \in Seq(DataLocs) /\ Len(Count(a)) = MaxPoints - a
           /\ \A x \in 1 .. MaxPoints - a : Count(a)[x] = a + x - 1
           /\ IsInjective(Count(a))
           /\ ToSet(Count(a)) = {l \in DataLocs : l >= a}
  <1>1. MaxPoints \in Nat /\ a \in Nat /\ a <= MaxPoints /\ MaxPoints - a \in Nat
    BY Slots0
  <1> DEFINE c == Count(a)
  <1>2. /\ DOMAIN c = 1 .. MaxPoints - a
        /\ \A x \in 1 .. MaxPoints - a : c[x] = a + x - 1
    BY DEF Count
  <1>3. \A x \in 1 .. MaxPoints - a : a + x - 1 \in DataLocs
    BY <1>1, Slots0
  <1>4. c \in [1 .. MaxPoints - a -> DataLocs]
    BY <1>2, <1>3 DEF Count
  <1>5. c \in Seq(DataLocs) /\ Len(c) = MaxPoints - a
    BY <1>1, <1>4
  <1>6. IsInjective(c)
    BY <1>1, <1>2 DEF IsInjective
  <1>7. ASSUME NEW l \in DataLocs, l >= a PROVE \E x \in DOMAIN c : c[x] = l
    <2>1. l - a + 1 \in 1 .. MaxPoints - a /\ a + (l - a + 1) - 1 = l
      BY <1>1, <1>7, Slots0
    <2> QED
      BY <2>1, <1>2
  <1>8. ASSUME NEW x \in DOMAIN c PROVE c[x] \in DataLocs /\ c[x] >= a
    <2>1. x \in 1 .. MaxPoints - a /\ c[x] = a + x - 1
      BY <1>2
    <2>2. a + x - 1 \in DataLocs /\ a + x - 1 >= a
      BY <2>1, <1>1, <1>3
    <2> QED
      BY <2>1, <2>2
  <1> HIDE DEF c
  <1>9. ToSet(c) = {l \in DataLocs : l >= a}
    BY <1>7, <1>8 DEF ToSet
  <1> QED
    BY <1>2, <1>5, <1>6, <1>9 DEF c

\* A sequence without repetitions has as many elements as it is long.
LEMMA InjectiveLength ==
    ASSUME NEW S, NEW s \in Seq(S), IsInjective(s)
    PROVE  IsFiniteSet(ToSet(s)) /\ Cardinality(ToSet(s)) = Len(s)
  <1>1. Len(s) \in Nat /\ DOMAIN s = 1 .. Len(s)
    OBVIOUS
  <1>2. s \in [1 .. Len(s) -> ToSet(s)] /\ \A z \in ToSet(s) : \E x \in 1 .. Len(s) : s[x] = z
    BY <1>1 DEF ToSet
  <1>3. s \in Bijection(1 .. Len(s), ToSet(s))
    BY <1>2 DEF Bijection, Injection, Surjection
  <1>4. ExistsBijection(1 .. Len(s), ToSet(s))
    BY <1>3 DEF ExistsBijection
  <1>5. IsFiniteSet(1 .. Len(s)) /\ Cardinality(1 .. Len(s)) = Len(s)
    <2>1. 1 \in Int /\ Len(s) \in Int /\ (1 > Len(s) => Len(s) = 0) /\ Len(s) - 1 + 1 = Len(s)
      BY <1>1
    <2> QED
      BY <2>1, FS_Interval
  <1> QED
    BY <1>4, <1>5, FS_Bijection

\* compact_data() numbers the tagged slots from 0 on, in their order.
LEMMA NewLocations ==
    ASSUME NEW T, T \subseteq DataLocs
    PROVE  /\ IsFiniteSet(T) /\ Cardinality(T) \in 0 .. MaxPoints
           /\ \A l \in T : NewLocation(l, T) \in 0 .. Cardinality(T) - 1
           /\ \A l, m \in T : NewLocation(l, T) = NewLocation(m, T) => l = m
           /\ \A k \in 0 .. Cardinality(T) - 1 : \E l \in T : NewLocation(l, T) = k
  <1> DEFINE Below(l) == {m \in T : m < l}
             c == Cardinality(T)
  <1>1. IsFiniteSet(T) /\ c \in Nat /\ c <= MaxPoints
    BY Slots0, FS_Subset, FS_CardinalityType
  <1>2. \A l \in T : l \in Nat /\ l < MaxPoints
    BY Slots0
  <1>3. \A l \in T : NewLocation(l, T) = Cardinality(Below(l))
    BY <1>2 DEF NewLocation
  <1>4. ASSUME NEW l \in T
        PROVE  IsFiniteSet(Below(l)) /\ Cardinality(Below(l)) \in Nat /\ Cardinality(Below(l)) < c
    <2>1. Below(l) \in SUBSET T /\ l \notin Below(l)
      BY <1>2
    <2>2. IsFiniteSet(Below(l)) /\ Cardinality(Below(l)) <= c /\ (c = Cardinality(Below(l)) => T = Below(l))
      BY <2>1, <1>1, FS_Subset
    <2>3. Cardinality(Below(l)) \in Nat
      BY <2>2, FS_CardinalityType
    <2> QED
      BY <2>1, <2>2, <2>3, <1>1
  <1>5. ASSUME NEW l \in T, NEW m \in T, l < m PROVE Cardinality(Below(l)) < Cardinality(Below(m))
    <2>1. Below(l) \in SUBSET Below(m) /\ l \in Below(m) /\ l \notin Below(l)
      BY <1>5, <1>2
    <2>2. Cardinality(Below(l)) <= Cardinality(Below(m))
          /\ (Cardinality(Below(m)) = Cardinality(Below(l)) => Below(m) = Below(l))
      BY <2>1, <1>4, FS_Subset
    <2>3. Cardinality(Below(l)) \in Nat /\ Cardinality(Below(m)) \in Nat
      BY <1>4
    <2> QED
      BY <2>1, <2>2, <2>3
  <1> HIDE DEF Below, c
  <1>6. ASSUME NEW l \in T, NEW m \in T, NewLocation(l, T) = NewLocation(m, T) PROVE l = m
    <2>1. ~(l < m) /\ ~(m < l)
      BY <1>3, <1>4, <1>5, <1>6
    <2> QED
      BY <2>1, <1>2
  <1>7. \A l \in T : NewLocation(l, T) \in 0 .. c - 1
    BY <1>1, <1>3, <1>4
  <1> DEFINE f == [l \in T |-> NewLocation(l, T)]
  <1>8. f \in Injection(T, 0 .. c - 1)
    <2>1. f \in [T -> 0 .. c - 1]
      BY <1>7
    <2>2. IsInjective(f)
      BY <1>6 DEF IsInjective
    <2> QED
      BY <2>1, <2>2 DEF Injection
  <1>9. IsFiniteSet(0 .. c - 1) /\ Cardinality(0 .. c - 1) = c
    <2>1. 0 \in Int /\ c - 1 \in Int /\ (0 > c - 1 => c = 0) /\ c - 1 - 0 + 1 = c
      BY <1>1
    <2> QED
      BY <2>1, FS_Interval
  <1>10. f \in Surjection(T, 0 .. c - 1)
    BY <1>8, <1>9, FS_Injection DEF c
  <1>11. \A k \in 0 .. c - 1 : \E l \in T : NewLocation(l, T) = k
    BY <1>10 DEF Surjection
  <1> QED
    BY <1>1, <1>6, <1>7, <1>11 DEF c

-----------------------------------------------------------------------------
(* Steps that leave the slots alone *)

\* The phases of the build go on while the slots stay as they are.
LEMMA SlotsUntouched ==
    ASSUME Inv, UNCHANGED <<mode, points, stale_slots, files>>, pc' \in [Threads -> Labels],
           \A t \in Threads : pc'[t] \in InConsolidation => pc[t] \in InConsolidation,
           \A t \in Threads : pc[t] \in {"consolidate", "rewrite"} => pc'[t] \in {"consolidate", "rewrite"},
           phase' = phase \/ (phase # "ready" /\ phase' = "ready")
                          \/ (phase = "link" /\ phase' = "cleanup")
    PROVE  Inv'
  <1> USE DEF Inv
  <1>1. UNCHANGED <<location_to_tag, tag_to_location, empty_slots, delete_set, old_delete_set, nd,
                    data_compacted>>
    BY DEF points
  <1>2. TypeOK'
    BY <1>1 DEF TypeOK
  <1>3. TagMaps'
    BY <1>1 DEF TagMaps, Tagged
  <1>4. Slots'
    <2>1. Partition' = Partition /\ StackAboveBuilt' = StackAboveBuilt
      BY <1>1 DEF Partition, StackAboveBuilt, Built, Empty, Tagged
    <2> QED
      BY <2>1, <1>1 DEF Slots
  <1>5. DeleteSets'
    <2>1. Consolidating => Consolidating'
      BY DEF Consolidating, Consolidates
    <2> QED
      BY <2>1, <1>1 DEF DeleteSets, TypeOK
  <1>6. Files'
    BY DEF Files
  <1> QED
    BY <1>2, <1>3, <1>4, <1>5, <1>6

\* A thread goes from one place to another outside the consolidation, or inside.
LEMMA Moves ==
    ASSUME TypeOK, NEW t \in Threads, NEW l \in Labels, Goto(t, l)
    PROVE  /\ pc' \in [Threads -> Labels] /\ pc'[t] = l
           /\ \A u \in Threads : u # t => pc'[u] = pc[u]
  BY DEF Goto, TypeOK

\* The steps of the build, of insertions and of queries.
LEMMA BuildStepsInv ==
    ASSUME Inv, SetStartPoints \/ LinkDone \/ CleanupNode \/ BuildDone PROVE Inv'
  <1>1. /\ UNCHANGED <<mode, points, stale_slots, files>> /\ pc' = pc
        /\ phase' = phase \/ (phase # "ready" /\ phase' = "ready") \/ (phase = "link" /\ phase' = "cleanup")
    BY DEF SetStartPoints, LinkDone, CleanupNode, BuildDone, disk, thread
  <1> QED
    BY <1>1, SlotsUntouched DEF Inv, TypeOK

LEMMA ThreadStepsInv ==
    ASSUME Inv, NEW t \in Threads,
           \/ LinkNode(t) \/ Expand(t) \/ EndSearch(t) \/ SetLinks(t) \/ InterInsert(t)
           \/ PruneNeighbour(t) \/ PointDone(t) \/ SetVector(t) \/ EndQuery(t) \/ BeginQuery(t)
    PROVE  Inv'
  <1> DEFINE Away == Labels \ InConsolidation
  <1>1. /\ UNCHANGED <<mode, points, stale_slots, files>> /\ phase' = phase
    BY DEF LinkNode, Expand, EndSearch, SetLinks, InterInsert, PruneNeighbour, PointDone, SetVector,
           EndQuery, BeginQuery, disk, build
  <1>2. pc' = pc \/ (pc[t] \in Away /\ \E l \in Away : Goto(t, l))
    <2>1. CASE Expand(t)
      BY <2>1 DEF Expand
    <2>2. CASE InterInsert(t)
      <3>1. pc[t] = "inter_insert" /\ (pc' = pc \/ Goto(t, "prune"))
        BY <2>2 DEF InterInsert
      <3> QED
        BY <3>1 DEF Labels, InConsolidation
    <2>3. CASE LinkNode(t) \/ SetVector(t)
      <3>1. pc[t] \in {"idle", "vector"} /\ Goto(t, "search")
        BY <2>3 DEF LinkNode, SetVector
      <3> QED
        BY <3>1 DEF Labels, InConsolidation
    <2>4. CASE EndSearch(t)
      BY <2>4 DEF EndSearch, Labels, InConsolidation
    <2>5. CASE SetLinks(t) \/ PruneNeighbour(t)
      <3>1. pc[t] \in {"links", "prune"} /\ Goto(t, "inter_insert")
        BY <2>5 DEF SetLinks, PruneNeighbour
      <3> QED
        BY <3>1 DEF Labels, InConsolidation
    <2>6. CASE PointDone(t) \/ EndQuery(t)
      <3>1. pc[t] \in {"inter_insert", "query"} /\ Goto(t, "idle")
        BY <2>6 DEF PointDone, EndQuery
      <3> QED
        BY <3>1 DEF Labels, InConsolidation
    <2>7. CASE BeginQuery(t)
      BY <2>7 DEF BeginQuery, MayOperate, Labels, InConsolidation
    <2> QED
      BY <2>1, <2>2, <2>3, <2>4, <2>5, <2>6, <2>7
  <1>3. CASE pc' = pc
    BY <1>1, <1>3, SlotsUntouched DEF Inv, TypeOK
  <1>4. CASE pc[t] \in Away /\ \E l \in Away : Goto(t, l)
    <2>1. PICK l \in Away : Goto(t, l)
      BY <1>4
    <2>2. /\ pc' \in [Threads -> Labels] /\ pc'[t] = l
          /\ \A u \in Threads : u # t => pc'[u] = pc[u]
      BY <2>1, Moves DEF Inv
    <2>3. \A u \in Threads : pc'[u] \in InConsolidation => pc[u] \in InConsolidation
      BY <2>2, <2>1
    <2>4. \A u \in Threads : pc[u] \in {"consolidate", "rewrite"} => pc'[u] \in {"consolidate", "rewrite"}
      BY <2>2, <1>4 DEF InConsolidation
    <2> QED
      BY <1>1, <2>2, <2>3, <2>4, SlotsUntouched
  <1> QED
    BY <1>2, <1>3, <1>4

\* The steps of a consolidation but the first and the last.
LEMMA ConsolidationStepsInv ==
    ASSUME Inv, NEW t \in Threads, LockFails(t) \/ ReadList(t) \/ RewriteList(t) PROVE Inv'
  <1>1. UNCHANGED <<mode, points, stale_slots, files>> /\ phase' = phase
    BY DEF LockFails, ReadList, RewriteList, disk, build
  <1>2. \/ pc' = pc
        \/ pc[t] = "checked" /\ Goto(t, "idle")
        \/ pc[t] = "consolidate" /\ Goto(t, "rewrite")
        \/ pc[t] = "rewrite" /\ Goto(t, "consolidate")
    BY DEF LockFails, ReadList, RewriteList
  <1>3. CASE pc' = pc
    BY <1>1, <1>3, SlotsUntouched DEF Inv, TypeOK
  <1>4. CASE pc[t] = "checked" /\ Goto(t, "idle")
    <2>1. pc' \in [Threads -> Labels] /\ pc'[t] = "idle" /\ \A u \in Threads : u # t => pc'[u] = pc[u]
      BY <1>4, Moves DEF Inv, Labels
    <2> QED
      BY <1>1, <1>4, <2>1, SlotsUntouched DEF InConsolidation
  <1>5. CASE pc[t] = "consolidate" /\ Goto(t, "rewrite")
    <2>1. pc' \in [Threads -> Labels] /\ pc'[t] = "rewrite" /\ \A u \in Threads : u # t => pc'[u] = pc[u]
      BY <1>5, Moves DEF Inv, Labels
    <2> QED
      BY <1>1, <1>5, <2>1, SlotsUntouched DEF InConsolidation
  <1>6. CASE pc[t] = "rewrite" /\ Goto(t, "consolidate")
    <2>1. pc' \in [Threads -> Labels] /\ pc'[t] = "consolidate" /\ \A u \in Threads : u # t => pc'[u] = pc[u]
      BY <1>6, Moves DEF Inv, Labels
    <2> QED
      BY <1>1, <1>6, <2>1, SlotsUntouched DEF InConsolidation
  <1> QED
    BY <1>2, <1>3, <1>4, <1>5, <1>6

\* consolidate_deletes() goes on only where the sizes agree; after build() they do not.
LEMMA CheckSizesInv == ASSUME Inv, NEW t \in Threads, CheckSizes(t) PROVE Inv'
  <1> USE DEF Inv
  <1>1. /\ UNCHANGED <<mode, points, stale_slots, files>> /\ phase' = phase
        /\ phase = "ready" /\ pc[t] = "idle" /\ mode.dynamic
        /\ pc' = pc \/ (SizesAgree /\ Goto(t, "checked"))
    BY DEF CheckSizes, MayOperate, disk, build
  <1>2. CASE pc' = pc
    BY <1>1, <1>2, SlotsUntouched DEF TypeOK
  <1>3. CASE SizesAgree /\ Goto(t, "checked")
    <2>1. UNCHANGED <<location_to_tag, tag_to_location, empty_slots, delete_set, old_delete_set, nd,
                      data_compacted>>
      BY <1>1 DEF points
    <2>2. pc' \in [Threads -> Labels] /\ pc'[t] = "checked" /\ \A u \in Threads : u # t => pc'[u] = pc[u]
      BY <1>3, Moves DEF Labels
    <2>3. ~stale_slots
      <3>1. Len(empty_slots) \in Nat /\ nd \in Nat /\ MaxPoints \in Nat
        BY Slots0 DEF TypeOK
      <3>2. ~(Built >= 1)
        BY <3>1, <1>3 DEF Built, SizesAgree
      <3> QED
        BY <3>2, <1>1 DEF Slots, StackAboveBuilt
    <2>4. TypeOK' /\ TagMaps' /\ Files'
      BY <1>1, <2>1, <2>2 DEF TypeOK, TagMaps, Tagged, Files
    <2>5. Slots'
      BY <1>1, <2>1 DEF Slots, Partition, StackAboveBuilt, Built, Empty, Tagged
    <2>6. DeleteSets'
      <3>1. Consolidating => Consolidating'
        BY <2>2, <1>1 DEF Consolidating, Consolidates
      <3> QED
        BY <3>1, <2>1, <2>3, <1>1 DEF DeleteSets
    <2> QED
      BY <2>4, <2>5, <2>6
  <1> QED
    BY <1>1, <1>2, <1>3

-----------------------------------------------------------------------------
(* The first states and build() *)

LEMMA InitInv == ASSUME Init PROVE Inv
  <1>1. /\ mode \in Modes /\ phase = "new" /\ location_to_tag = [l \in DataLocs |-> NoTag]
        /\ tag_to_location = [x \in Tags |-> NoLoc]
        /\ empty_slots = IF mode.dynamic THEN Count(0) ELSE <<>>
        /\ delete_set = {} /\ old_delete_set = {} /\ nd = 0 /\ data_compacted = TRUE
        /\ pc = [t \in Threads |-> "idle"] /\ files = NoFile /\ stale_slots = FALSE
    BY DEF Init
  <1>2. 0 \in 0 .. MaxPoints /\ MaxPoints - 0 = MaxPoints /\ MaxPoints \in Nat
    BY Slots0
  <1>3. /\ Count(0) \in Seq(DataLocs) /\ Len(Count(0)) = MaxPoints /\ IsInjective(Count(0))
        /\ \A x \in 1 .. MaxPoints : Count(0)[x] = x - 1
        /\ ToSet(Count(0)) = DataLocs
    <2>1. /\ Count(0) \in Seq(DataLocs) /\ Len(Count(0)) = MaxPoints - 0
          /\ \A x \in 1 .. MaxPoints - 0 : Count(0)[x] = 0 + x - 1
          /\ IsInjective(Count(0))
          /\ ToSet(Count(0)) = {l \in DataLocs : l >= 0}
      BY <1>2, CountedSlots
    <2>2. \A l \in DataLocs : l >= 0
      BY Slots0
    <2>3. \A x \in 1 .. MaxPoints : 0 + x - 1 = x - 1
      OBVIOUS
    <2> QED
      BY <2>1, <2>2, <2>3, <1>2
  <1>4. TypeOK
    <2>1. empty_slots \in Seq(DataLocs)
      BY <1>1, <1>3
    <2>2. location_to_tag \in [DataLocs -> Tags \cup {NoTag}] /\ tag_to_location \in [Tags -> DataLocs \cup {NoLoc}]
      BY <1>1
    <2>3. pc \in [Threads -> Labels]
      BY <1>1 DEF Labels
    <2> QED
      BY <1>1, <1>2, <2>1, <2>2, <2>3 DEF TypeOK
  <1>5. Tagged = {}
    BY <1>1 DEF Tagged
  <1>6. TagMaps
    BY <1>1, <1>5 DEF TagMaps
  <1>7. Slots
    <2>1. SUFFICES ASSUME mode.dynamic PROVE Slots
      BY DEF Slots
    <2>2. empty_slots = Count(0) /\ Empty = DataLocs
      BY <2>1, <1>1, <1>3 DEF Empty
    <2>3. Partition
      BY <1>1, <1>2, <1>3, <1>5, <2>2 DEF Partition
    <2> QED
      BY <1>1, <1>3, <2>2, <2>3 DEF Slots
  <1>8. DeleteSets
    BY <1>1 DEF DeleteSets, InConsolidation
  <1>9. Files
    BY <1>1 DEF Files
  <1> QED
    BY <1>4, <1>6, <1>7, <1>8, <1>9 DEF Inv

\* The points of build() have the tags 1 .. n and the slots 0 .. n - 1.
LEMMA BuildInv == ASSUME Inv, NEW n \in 1 .. MaxPoints, Build(n) PROVE Inv'
  <1> USE DEF Inv
  <1>1. /\ phase = "new" /\ (mode.dynamic \/ n = MaxPoints) /\ phase' = "link" /\ nd' = n
        /\ location_to_tag' = [l \in DataLocs |-> IF l < n THEN l + 1 ELSE NoTag]
        /\ tag_to_location' = [x \in Tags |-> IF x <= n THEN x - 1 ELSE NoLoc]
        /\ stale_slots' = mode.dynamic
        /\ UNCHANGED <<mode, empty_slots, delete_set, old_delete_set, data_compacted, pc, files>>
    BY DEF Build, thread
  <1>2. MaxPoints \in Nat /\ n \in Nat /\ n >= 1 /\ n <= MaxPoints /\ 1 .. MaxPoints \subseteq Tags
        /\ Tags \subseteq Nat \ {0} /\ NoTag \notin Tags /\ NoLoc \notin DataLocs
    BY Slots0, TagsAssumption
  <1>3. \A l \in DataLocs : l < n => l + 1 \in Tags /\ l + 1 <= n /\ l + 1 - 1 = l
    BY <1>2, Slots0
  <1>4. \A x \in Tags : x <= n => x - 1 \in DataLocs /\ x - 1 < n /\ x - 1 + 1 = x
    BY <1>2, Slots0
  <1>5. /\ location_to_tag' \in [DataLocs -> Tags \cup {NoTag}]
        /\ \A l \in DataLocs : location_to_tag'[l] = IF l < n THEN l + 1 ELSE NoTag
    BY <1>1, <1>3
  <1>6. /\ tag_to_location' \in [Tags -> DataLocs \cup {NoLoc}]
        /\ \A x \in Tags : tag_to_location'[x] = IF x <= n THEN x - 1 ELSE NoLoc
    BY <1>1, <1>4
  <1>7. Tagged' = {l \in DataLocs : l < n}
    BY <1>5, <1>3, <1>2 DEF Tagged
  <1>8. TypeOK'
    BY <1>1, <1>2, <1>5, <1>6, ModesAssumption DEF TypeOK
  <1>9. TagMaps'
    <2>1. \A x \in Tags : tag_to_location'[x] # NoLoc => location_to_tag'[tag_to_location'[x]] = x
      BY <1>4, <1>5, <1>6
    <2>2. \A l \in Tagged' : tag_to_location'[location_to_tag'[l]] = l
      <3>1. SUFFICES ASSUME NEW l \in DataLocs, l < n
                     PROVE  tag_to_location'[location_to_tag'[l]] = l
        BY <1>7
      <3>2. location_to_tag'[l] = l + 1 /\ l + 1 \in Tags /\ l + 1 <= n /\ l + 1 - 1 = l
        BY <3>1, <1>3, <1>5
      <3>3. \A x \in Tags : x <= n => tag_to_location'[x] = x - 1
        BY <1>6
      <3>4. PICK x \in Tags : x = l + 1
        BY <3>2
      <3>5. tag_to_location'[x] = x - 1 /\ x - 1 = l
        BY <3>2, <3>3, <3>4, Slots0
      <3> QED
        BY <3>2, <3>4, <3>5
    <2> QED
      BY <2>1, <2>2 DEF TagMaps
  <1>10. Slots'
    <2>1. SUFFICES ASSUME mode.dynamic PROVE Slots'
      BY <1>1 DEF Slots
    <2>2. /\ Len(empty_slots) = MaxPoints /\ delete_set = {} /\ old_delete_set = {}
          /\ \A x \in 1 .. MaxPoints : empty_slots[x] = x - 1
      BY <2>1, <1>1 DEF Slots
    <2>3. Built' = n /\ Len(empty_slots)' = MaxPoints
      <3>1. Built' = n + MaxPoints - MaxPoints
        BY <1>1, <2>2 DEF Built
      <3> QED
        BY <3>1, <1>1, <1>2, <2>2
    <2>4. \A l \in DataLocs : ~(l >= MaxPoints)
      BY Slots0
    <2>5. (Tagged \cup delete_set)' = {l \in DataLocs : l < Built' \/ l >= Len(empty_slots)'}
      BY <1>1, <1>7, <2>2, <2>3, <2>4
    <2>6. StackAboveBuilt'
      BY <1>1, <1>2, <2>2, <2>3, <2>5 DEF StackAboveBuilt
    <2> QED
      BY <2>1, <2>6, <1>1 DEF Slots
  <1>11. DeleteSets'
    <2>1. \A t \in Threads : pc[t] \notin InConsolidation
      BY <1>1 DEF DeleteSets
    <2>2. old_delete_set = {}
      BY <2>1 DEF DeleteSets, Consolidating, Consolidates, InConsolidation
    <2> QED
      BY <2>1, <2>2, <1>1 DEF DeleteSets
  <1>12. Files'
    BY <1>1 DEF Files
  <1> QED
    BY <1>8, <1>9, <1>10, <1>11, <1>12

-----------------------------------------------------------------------------
(* insert_point and lazy_delete *)

\* What the top of a stack is, and what is below it.
LEMMA Popped ==
    ASSUME NEW S, NEW q \in Seq(S), q # <<>>
    PROVE  /\ Len(q) \in Nat /\ Len(q) >= 1 /\ Last(q) = q[Len(q)]
           /\ Last(q) \in S /\ Last(q) \in ToSet(q)
           /\ Front(q) \in Seq(S) /\ Len(Front(q)) = Len(q) - 1
           /\ \A i \in 1 .. Len(q) - 1 : Front(q)[i] = q[i]
           /\ Append(Front(q), Last(q)) = q
           /\ IsInjective(q) => IsInjective(Front(q)) /\ ToSet(Front(q)) = ToSet(q) \ {Last(q)}
  <1>1. Len(q) \in Nat /\ Len(q) >= 1 /\ DOMAIN q = 1 .. Len(q) /\ \A i \in 1 .. Len(q) : q[i] \in S
    OBVIOUS
  <1>2. Last(q) = q[Len(q)]
    BY DEF Last
  <1>3. Last(q) \in S /\ Last(q) \in ToSet(q)
    BY <1>1, <1>2 DEF ToSet
  <1>4. Front(q) \in Seq(S) /\ Len(Front(q)) = Len(q) - 1
        /\ DOMAIN Front(q) = 1 .. Len(q) - 1 /\ \A i \in 1 .. Len(q) - 1 : Front(q)[i] = q[i]
    BY <1>1 DEF Front
  <1>5. Append(Front(q), Last(q)) = q
    <2>1. Append(Front(q), Last(q)) \in Seq(S) /\ Len(Append(Front(q), Last(q))) = Len(q)
      <3>1. Append(Front(q), Last(q)) \in Seq(S) /\ Len(Append(Front(q), Last(q))) = Len(Front(q)) + 1
        BY <1>3, <1>4
      <3>2. \A m \in Nat : m - 1 + 1 = m
        OBVIOUS
      <3> QED
        BY <3>1, <3>2, <1>1, <1>4
    <2>2. \A i \in 1 .. Len(q) : Append(Front(q), Last(q))[i] = q[i]
      BY <1>1, <1>2, <1>3, <1>4
    <2> QED
      BY <2>1, <2>2
  <1>6. ASSUME IsInjective(q) PROVE IsInjective(Front(q)) /\ ToSet(Front(q)) = ToSet(q) \ {Last(q)}
    <2>1. \A i, j \in 1 .. Len(q) : q[i] = q[j] => i = j
      BY <1>6, <1>1 DEF IsInjective
    <2>2. IsInjective(Front(q))
      BY <2>1, <1>1, <1>4 DEF IsInjective
    <2>3. ASSUME NEW i \in 1 .. Len(q) - 1 PROVE q[i] \in ToSet(q) /\ q[i] # Last(q)
      <3>1. i \in 1 .. Len(q) /\ i # Len(q) /\ Len(q) \in 1 .. Len(q)
        <4>1. \A m \in Nat : m >= 1 /\ i \in 1 .. m - 1 => i \in 1 .. m /\ i # m /\ m \in 1 .. m
          OBVIOUS
        <4> QED
          BY <4>1, <1>1
      <3> QED
        BY <3>1, <2>1, <1>1, <1>2 DEF ToSet
    <2>4. ASSUME NEW i \in 1 .. Len(q), q[i] # Last(q) PROVE i \in 1 .. Len(q) - 1
      BY <2>4, <1>1, <1>2
    <2>5. ToSet(Front(q)) = {q[i] : i \in 1 .. Len(q) - 1}
      BY <1>4 DEF ToSet
    <2>6. ToSet(q) = {q[i] : i \in 1 .. Len(q)}
      BY <1>1 DEF ToSet
    <2> QED
      BY <2>2, <2>3, <2>4, <2>5, <2>6
  <1> QED
    BY <1>1, <1>2, <1>3, <1>4, <1>5, <1>6

\* Below the limit reserve_location() always finds an empty slot on the stack.
LEMMA Reserved ==
    ASSUME TypeOK, Slots, mode.dynamic, nd < MaxPoints
    PROVE  /\ empty_slots # <<>> /\ ReservedSlot = Last(empty_slots)
           /\ SlotsAfterReserve = Front(empty_slots)
           /\ ReservedSlot \in DataLocs
           /\ ReservedSlot \notin Tagged \cup delete_set \cup old_delete_set
  <1>1. Len(empty_slots) \in Nat /\ nd \in Nat /\ MaxPoints \in Nat /\ empty_slots \in Seq(DataLocs)
    BY Slots0 DEF TypeOK
  <1>2. empty_slots # <<>>
    <2>1. CASE stale_slots
      <3>1. Built >= 1
        BY <2>1 DEF Slots, StackAboveBuilt
      <3>2. Len(empty_slots) # 0
        BY <3>1, <1>1 DEF Built
      <3> QED
        BY <3>2
    <2>2. CASE ~stale_slots
      <3>1. nd = MaxPoints - Len(empty_slots)
        BY <2>2 DEF Slots, Partition
      <3>2. Len(empty_slots) # 0
        BY <3>1, <1>1
      <3> QED
        BY <3>2
    <2> QED
      BY <2>1, <2>2
  <1>3. ReservedSlot = Last(empty_slots) /\ SlotsAfterReserve = Front(empty_slots)
    BY <1>2 DEF ReservedSlot, SlotsAfterReserve, TakesNext
  <1>4. /\ Len(empty_slots) >= 1 /\ Last(empty_slots) = empty_slots[Len(empty_slots)]
        /\ Last(empty_slots) \in DataLocs /\ Last(empty_slots) \in Empty
    BY <1>1, <1>2, Popped DEF Empty
  <1>5. Last(empty_slots) \notin Tagged \cup delete_set \cup old_delete_set
    <2>1. CASE stale_slots
      <3>1. StackAboveBuilt
        BY <2>1 DEF Slots
      <3>2. Len(empty_slots) \in 1 .. Len(empty_slots)
        BY <1>1, <1>4
      <3>3. Last(empty_slots) = Len(empty_slots) - 1
        BY <3>1, <3>2, <1>4 DEF StackAboveBuilt
      <3>4. ~(Last(empty_slots) < Built) /\ ~(Last(empty_slots) >= Len(empty_slots))
        BY <3>3, <1>1 DEF Built
      <3> QED
        BY <3>1, <3>4 DEF StackAboveBuilt
    <2>2. CASE ~stale_slots
      BY <2>2, <1>4 DEF Slots, Partition
    <2> QED
      BY <2>1, <2>2
  <1> QED
    BY <1>2, <1>3, <1>4, <1>5

\* A slot is taken from the stack and gets the tag that was free.
LEMMA InsertedInv ==
    ASSUME Inv, NEW t \in Threads, NEW x \in Tags, mode.dynamic, phase = "ready", pc[t] = "idle",
           nd < MaxPoints, tag_to_location[x] = NoLoc,
           empty_slots' = SlotsAfterReserve, delete_set' = delete_set \ {ReservedSlot}, nd' = nd + 1,
           tag_to_location' = [tag_to_location EXCEPT ![x] = ReservedSlot],
           location_to_tag' = [location_to_tag EXCEPT ![ReservedSlot] = x],
           Goto(t, "vector"),
           UNCHANGED <<mode, phase, old_delete_set, data_compacted, stale_slots, files>>
    PROVE  Inv'
  <1> USE DEF Inv
  <1> DEFINE s == ReservedSlot
             q == empty_slots
  <1>1. /\ q # <<>> /\ s = Last(q) /\ SlotsAfterReserve = Front(q) /\ s \in DataLocs
        /\ s \notin Tagged \cup delete_set \cup old_delete_set
    BY Reserved
  <1>2. /\ Len(q) \in Nat /\ Len(q) >= 1 /\ s = q[Len(q)] /\ s \in Empty
        /\ Front(q) \in Seq(DataLocs) /\ Len(Front(q)) = Len(q) - 1
        /\ \A i \in 1 .. Len(q) - 1 : Front(q)[i] = q[i]
        /\ IsInjective(q) => IsInjective(Front(q)) /\ ToSet(Front(q)) = Empty \ {s}
    BY <1>1, Popped DEF TypeOK, Empty
  <1>3. /\ empty_slots' = Front(q) /\ delete_set' = delete_set /\ nd' = nd + 1
        /\ tag_to_location' = [tag_to_location EXCEPT ![x] = s]
        /\ location_to_tag' = [location_to_tag EXCEPT ![s] = x]
        /\ UNCHANGED <<mode, phase, old_delete_set, data_compacted, stale_slots, files>>
    BY <1>1
  <1>4. /\ pc' \in [Threads -> Labels] /\ pc'[t] = "vector"
        /\ \A u \in Threads : u # t => pc'[u] = pc[u]
    BY Moves DEF Labels
  <1>5. /\ NoTag \notin Tags /\ NoLoc \notin DataLocs /\ MaxPoints \in Nat /\ nd \in Nat
        /\ location_to_tag \in [DataLocs -> Tags \cup {NoTag}]
        /\ tag_to_location \in [Tags -> DataLocs \cup {NoLoc}]
    BY TagsAssumption, Slots0 DEF TypeOK
  <1>6. location_to_tag[s] = NoTag
    BY <1>1 DEF Tagged
  <1> HIDE DEF s, q
  <1>7. /\ location_to_tag' \in [DataLocs -> Tags \cup {NoTag}] /\ location_to_tag'[s] = x
        /\ \A l \in DataLocs : l # s => location_to_tag'[l] = location_to_tag[l]
        /\ tag_to_location' \in [Tags -> DataLocs \cup {NoLoc}] /\ tag_to_location'[x] = s
        /\ \A y \in Tags : y # x => tag_to_location'[y] = tag_to_location[y]
    BY <1>1, <1>3, <1>5
  <1>8. Tagged' = Tagged \cup {s}
    BY <1>1, <1>5, <1>7 DEF Tagged
  <1>9. nd' \in 0 .. MaxPoints
    BY <1>3, <1>5
  <1>10. TypeOK'
    BY <1>2, <1>3, <1>4, <1>7, <1>9 DEF TypeOK
  <1>11. TagMaps'
    <2>1. ASSUME NEW y \in Tags, tag_to_location'[y] # NoLoc
          PROVE  location_to_tag'[tag_to_location'[y]] = y
      <3>1. CASE y = x
        BY <3>1, <1>7
      <3>2. CASE y # x
        <4>1. tag_to_location'[y] = tag_to_location[y] /\ tag_to_location[y] \in DataLocs
              /\ location_to_tag[tag_to_location[y]] = y
          BY <2>1, <3>2, <1>5, <1>7 DEF TagMaps
        <4>2. tag_to_location[y] # s
          BY <4>1, <1>5, <1>6
        <4> QED
          BY <4>1, <4>2, <1>7
      <3> QED
        BY <3>1, <3>2
    <2>2. ASSUME NEW l \in Tagged' PROVE tag_to_location'[location_to_tag'[l]] = l
      <3>1. CASE l = s
        BY <3>1, <1>7
      <3>2. CASE l # s
        <4>1. l \in Tagged /\ l \in DataLocs /\ location_to_tag'[l] = location_to_tag[l]
              /\ tag_to_location[location_to_tag[l]] = l /\ location_to_tag[l] \in Tags
          BY <2>2, <3>2, <1>5, <1>7, <1>8 DEF TagMaps, Tagged
        <4>2. location_to_tag[l] # x
          BY <4>1, <1>5
        <4> QED
          BY <4>1, <4>2, <1>7
      <3> QED
        BY <3>1, <3>2
    <2> QED
      BY <2>1, <2>2 DEF TagMaps
  <1>12. Slots'
    <2>1. CASE ~stale_slots
      <3>1. Partition
        BY <2>1 DEF Slots
      <3>2. IsInjective(Front(q)) /\ Empty' = Empty \ {s}
        BY <3>1, <1>2, <1>3 DEF Partition, Empty, q
      <3>3. nd' = MaxPoints - Len(empty_slots')
        <4>1. \A m \in Nat : nd = MaxPoints - m => nd + 1 = MaxPoints - (m - 1)
          BY <1>5
        <4> QED
          BY <4>1, <3>1, <1>2, <1>3 DEF Partition, q
      <3>4. Partition'
        BY <3>1, <3>2, <3>3, <1>1, <1>2, <1>3, <1>8 DEF Partition
      <3> QED
        BY <3>4, <2>1, <1>3 DEF Slots
    <2>2. CASE stale_slots
      <3>1. StackAboveBuilt
        BY <2>2 DEF Slots
      <3>2. Len(q) \in 1 .. Len(q)
        BY <1>2
      <3>3. s = Len(q) - 1 /\ \A i \in 1 .. Len(q) : q[i] = i - 1
        BY <3>1, <3>2, <1>2 DEF StackAboveBuilt, q
      <3>4. Built' = Built
        <4>1. \A m \in Nat : nd + 1 + (m - 1) - MaxPoints = nd + m - MaxPoints
          BY <1>5
        <4> QED
          BY <4>1, <1>2, <1>3 DEF Built, q
      <3>5. \A i \in 1 .. Len(empty_slots') : empty_slots'[i] = i - 1
        <4>1. \A m \in Nat : \A i \in 1 .. m - 1 : i \in 1 .. m
          OBVIOUS
        <4> QED
          BY <4>1, <3>3, <1>2, <1>3
      <3>6. Tagged' \cup delete_set' = {l \in DataLocs : l < Built' \/ l >= Len(empty_slots')}
        <4>1. \A l \in DataLocs : l >= Len(q) - 1 <=> l = s \/ l >= Len(q)
          BY <3>3, <1>2, Slots0
        <4>2. Tagged \cup delete_set = {l \in DataLocs : l < Built \/ l >= Len(q)}
          BY <3>1 DEF StackAboveBuilt, q
        <4>3. Len(empty_slots') = Len(q) - 1
          BY <1>2, <1>3
        <4> QED
          BY <4>1, <4>2, <4>3, <3>4, <1>1, <1>3, <1>8
      <3>7. StackAboveBuilt'
        BY <3>1, <3>4, <3>5, <3>6, <1>1, <1>3, <1>8 DEF StackAboveBuilt
      <3> QED
        BY <3>7, <2>2, <1>3 DEF Slots
    <2> QED
      BY <2>1, <2>2 DEF TypeOK
  <1>13. DeleteSets'
    <2>1. Consolidating => Consolidating'
      BY <1>4 DEF Consolidating, Consolidates
    <2>2. \A u \in Threads : pc'[u] \in InConsolidation => pc[u] \in InConsolidation
      BY <1>4 DEF InConsolidation
    <2> QED
      BY <2>1, <2>2, <1>3 DEF DeleteSets
  <1>14. Files'
    BY <1>3 DEF Files
  <1> QED
    BY <1>10, <1>11, <1>12, <1>13, <1>14

LEMMA BeginInsertInv == ASSUME Inv, NEW t \in Threads, NEW x \in Tags, BeginInsert(t, x) PROVE Inv'
  <1> USE DEF Inv
  <1>1. /\ UNCHANGED <<mode, phase, stale_slots, files>> /\ phase = "ready" /\ pc[t] = "idle"
        /\ mode.dynamic
    BY DEF BeginInsert, MayOperate, disk, build
  <1>2. CASE UNCHANGED <<points, thread>>
    <2>1. pc' = pc /\ UNCHANGED points
      BY <1>2 DEF thread
    <2> QED
      BY <1>1, <2>1, SlotsUntouched DEF TypeOK
  <1>3. CASE /\ nd < MaxPoints
             /\ empty_slots' = Append(SlotsAfterReserve, ReservedSlot)
             /\ delete_set' = delete_set \ {ReservedSlot}
             /\ UNCHANGED <<location_to_tag, tag_to_location, old_delete_set, nd, start,
                            data_compacted, thread>>
    <2>1. /\ empty_slots # <<>> /\ ReservedSlot = Last(empty_slots)
          /\ SlotsAfterReserve = Front(empty_slots) /\ ReservedSlot \notin delete_set
      BY <1>1, <1>3, Reserved
    <2>2. Append(Front(empty_slots), Last(empty_slots)) = empty_slots
      BY <2>1, Popped DEF TypeOK
    <2>3. empty_slots' = empty_slots /\ delete_set' = delete_set
      BY <1>3, <2>1, <2>2
    <2>4. UNCHANGED points /\ pc' = pc
      BY <1>3, <2>3 DEF points, thread
    <2> QED
      BY <1>1, <2>4, SlotsUntouched DEF TypeOK
  <1>4. CASE /\ nd < MaxPoints /\ tag_to_location[x] = NoLoc
             /\ empty_slots' = SlotsAfterReserve
             /\ delete_set' = delete_set \ {ReservedSlot}
             /\ nd' = nd + 1
             /\ tag_to_location' = [tag_to_location EXCEPT ![x] = ReservedSlot]
             /\ location_to_tag' = [location_to_tag EXCEPT ![ReservedSlot] = x]
             /\ Goto(t, "vector")
             /\ UNCHANGED <<old_delete_set, start, data_compacted>>
    BY <1>1, <1>4, InsertedInv
  <1> QED
    BY <1>2, <1>3, <1>4 DEF BeginInsert

\* A tagged slot moves to the delete set.
LEMMA LazyDeleteInv == ASSUME Inv, NEW x \in Tags, LazyDelete(x) PROVE Inv'
  <1> USE DEF Inv
  <1>1. /\ UNCHANGED <<mode, phase, stale_slots, files, empty_slots, old_delete_set, nd, pc>>
        /\ phase = "ready" /\ mode.dynamic /\ data_compacted' = FALSE
    BY DEF LazyDelete, disk, build, thread
  <1>2. /\ NoTag \notin Tags /\ NoLoc \notin DataLocs
        /\ location_to_tag \in [DataLocs -> Tags \cup {NoTag}]
        /\ tag_to_location \in [Tags -> DataLocs \cup {NoLoc}]
    BY TagsAssumption DEF TypeOK
  <1>3. DeleteSets'
    BY <1>1 DEF DeleteSets, Consolidating, Consolidates
  <1>4. Files'
    BY <1>1 DEF Files
  <1>5. Empty' = Empty /\ Built' = Built
    BY <1>1 DEF Empty, Built
  <1>6. CASE UNCHANGED <<delete_set, location_to_tag, tag_to_location>>
    <2>1. TypeOK' /\ TagMaps'
      BY <1>1, <1>6 DEF TypeOK, TagMaps, Tagged
    <2>2. Slots'
      BY <1>1, <1>6 DEF Slots, Partition, StackAboveBuilt, Built, Empty, Tagged
    <2> QED
      BY <2>1, <2>2, <1>3, <1>4
  <1>7. CASE /\ tag_to_location[x] # NoLoc
             /\ delete_set' = delete_set \cup {tag_to_location[x]}
             /\ location_to_tag' = [location_to_tag EXCEPT ![tag_to_location[x]] = NoTag]
             /\ tag_to_location' = [tag_to_location EXCEPT ![x] = NoLoc]
    <2>1. PICK l \in DataLocs : l = tag_to_location[x]
      BY <1>2, <1>7
    <2>2. location_to_tag[l] = x /\ l \in Tagged
      BY <2>1, <1>2, <1>7 DEF TagMaps, Tagged
    <2>3. /\ location_to_tag' \in [DataLocs -> Tags \cup {NoTag}] /\ location_to_tag'[l] = NoTag
          /\ \A m \in DataLocs : m # l => location_to_tag'[m] = location_to_tag[m]
          /\ tag_to_location' \in [Tags -> DataLocs \cup {NoLoc}] /\ tag_to_location'[x] = NoLoc
          /\ \A y \in Tags : y # x => tag_to_location'[y] = tag_to_location[y]
      BY <2>1, <1>2, <1>7
    <2>4. Tagged' = Tagged \ {l} /\ delete_set' = delete_set \cup {l}
      BY <2>1, <2>3, <1>2, <1>7 DEF Tagged
    <2>5. TypeOK'
      BY <1>1, <2>1, <2>3, <2>4 DEF TypeOK
    <2>6. TagMaps'
      <3>1. ASSUME NEW y \in Tags, tag_to_location'[y] # NoLoc
            PROVE  location_to_tag'[tag_to_location'[y]] = y
        <4>1. y # x /\ tag_to_location'[y] = tag_to_location[y]
          BY <3>1, <2>3
        <4>2. tag_to_location[y] \in DataLocs /\ location_to_tag[tag_to_location[y]] = y
          BY <3>1, <4>1, <1>2 DEF TagMaps
        <4> QED
          BY <4>1, <4>2, <2>2, <2>3
      <3>2. ASSUME NEW m \in Tagged' PROVE tag_to_location'[location_to_tag'[m]] = m
        <4>1. m \in Tagged /\ m # l /\ m \in DataLocs /\ location_to_tag'[m] = location_to_tag[m]
          BY <3>2, <2>3, <2>4 DEF Tagged
        <4>2. tag_to_location[location_to_tag[m]] = m /\ location_to_tag[m] \in Tags
          BY <4>1, <1>2 DEF TagMaps, Tagged
        <4> QED
          BY <4>1, <4>2, <2>1, <2>3
      <3> QED
        BY <3>1, <3>2 DEF TagMaps
    <2>7. Slots'
      <3>1. CASE ~stale_slots
        <4>1. Partition
          BY <3>1, <1>1 DEF Slots
        <4>2. Partition'
          BY <4>1, <1>1, <1>5, <2>2, <2>4 DEF Partition
        <4> QED
          BY <4>2, <3>1, <1>1 DEF Slots
      <3>2. CASE stale_slots
        <4>1. StackAboveBuilt
          BY <3>2, <1>1 DEF Slots
        <4>2. StackAboveBuilt'
          BY <4>1, <1>1, <1>5, <2>2, <2>4 DEF StackAboveBuilt
        <4> QED
          BY <4>2, <3>2, <1>1 DEF Slots
      <3> QED
        BY <3>1, <3>2 DEF TypeOK
    <2> QED
      BY <2>5, <2>6, <2>7, <1>3, <1>4
  <1> QED
    BY <1>6, <1>7 DEF LazyDelete

-----------------------------------------------------------------------------
(* The first and the last step of a consolidation *)

LEMMA SwapDeleteSetsInv == ASSUME Inv, NEW t \in Threads, SwapDeleteSets(t) PROVE Inv'
  <1> USE DEF Inv
  <1>1. /\ UNCHANGED <<mode, phase, stale_slots, files, empty_slots, nd, location_to_tag,
                       tag_to_location, data_compacted>>
        /\ pc[t] = "checked" /\ ~Consolidating /\ old_delete_set' = delete_set /\ delete_set' = {}
        /\ Goto(t, "consolidate")
    BY DEF SwapDeleteSets, disk, build
  <1>2. pc[t] \in InConsolidation
    BY <1>1 DEF InConsolidation
  <1>3. ~stale_slots /\ mode.dynamic /\ phase = "ready" /\ old_delete_set = {}
    BY <1>1, <1>2 DEF DeleteSets
  <1>4. /\ pc' \in [Threads -> Labels] /\ pc'[t] = "consolidate"
        /\ \A u \in Threads : u # t => pc'[u] = pc[u]
    BY <1>1, Moves DEF Labels
  <1>5. TypeOK' /\ TagMaps' /\ Files'
    BY <1>1, <1>4 DEF TypeOK, TagMaps, Tagged, Files
  <1>6. Partition
    BY <1>3 DEF Slots
  <1>7. Empty' = Empty /\ Tagged' = Tagged
    BY <1>1 DEF Empty, Tagged
  <1>8. Partition'
    BY <1>1, <1>3, <1>6, <1>7 DEF Partition
  <1>9. Slots'
    BY <1>1, <1>3, <1>8 DEF Slots
  <1>10. DeleteSets'
    BY <1>1, <1>3, <1>4 DEF DeleteSets, Consolidating, Consolidates
  <1> QED
    BY <1>5, <1>9, <1>10

\* A set listed in some order: a sequence without repetitions, as long as the set is large.
LEMMA Listed ==
    ASSUME NEW S, IsFiniteSet(S), NEW s \in SetToSeqs(S)
    PROVE  s \in Seq(S) /\ Len(s) = Cardinality(S) /\ IsInjective(s) /\ ToSet(s) = S
  <1>1. Cardinality(S) \in Nat
    BY FS_CardinalityType
  <1>2. s \in [1 .. Cardinality(S) -> S] /\ IsInjective(s)
    BY DEF SetToSeqs, IsInjective
  <1>3. s \in Seq(S) /\ Len(s) = Cardinality(S)
    BY <1>1, <1>2
  <1>4. IsFiniteSet(ToSet(s)) /\ Cardinality(ToSet(s)) = Cardinality(S)
    BY <1>2, <1>3, InjectiveLength
  <1>5. ToSet(s) \in SUBSET S
    BY <1>2 DEF ToSet
  <1>6. ToSet(s) = S
    BY <1>4, <1>5, FS_Subset
  <1> QED
    BY <1>2, <1>3, <1>6

LEMMA Concatenated ==
    ASSUME NEW S, NEW q \in Seq(S), NEW s \in Seq(S), IsInjective(q), IsInjective(s),
           ToSet(q) \cap ToSet(s) = {}
    PROVE  /\ q \o s \in Seq(S) /\ Len(q \o s) = Len(q) + Len(s)
           /\ IsInjective(q \o s) /\ ToSet(q \o s) = ToSet(q) \cup ToSet(s)
  <1>1. PICK a \in Nat, b \in Nat : a = Len(q) /\ b = Len(s)
    OBVIOUS
  <1>2. PICK w : w = q \o s
    OBVIOUS
  <1>3. DOMAIN q = 1 .. a /\ DOMAIN s = 1 .. b
    BY <1>1
  <1>4. w \in Seq(S) /\ Len(w) = a + b /\ DOMAIN w = 1 .. a + b
    BY <1>1, <1>2
  <1>5. /\ \A i \in 1 .. a : w[i] = q[i]
        /\ \A i \in 1 .. a + b : i > a => w[i] = s[i - a]
    BY <1>1, <1>2
  <1>6. \A i \in 1 .. a : i \in 1 .. a + b /\ w[i] = q[i] /\ q[i] \in ToSet(q)
    <2>1. \A i \in 1 .. a : i \in 1 .. a + b
      OBVIOUS
    <2> QED
      BY <2>1, <1>3, <1>5 DEF ToSet
  <1>7. \A i \in 1 .. b : \E k \in 1 .. a + b : k = a + i /\ w[k] = s[i] /\ s[i] \in ToSet(s)
    <2>1. ASSUME NEW i \in 1 .. b PROVE a + i \in 1 .. a + b /\ a + i > a /\ a + i - a = i
      OBVIOUS
    <2>2. ASSUME NEW i \in 1 .. b PROVE w[a + i] = s[i] /\ s[i] \in ToSet(s)
      <3>1. PICK k \in 1 .. a + b : k = a + i /\ k > a /\ k - a = i
        BY <2>1
      <3>2. w[k] = s[k - a]
        BY <3>1, <1>5
      <3>3. s[i] \in ToSet(s)
        BY <1>3 DEF ToSet
      <3> QED
        BY <3>1, <3>2, <3>3
    <2> QED
      BY <2>1, <2>2
  <1>8. \A i \in 1 .. a + b : i \in 1 .. a \/ \E k \in 1 .. b : i = a + k
    <2>1. ASSUME NEW i \in 1 .. a + b, i \notin 1 .. a PROVE i - a \in 1 .. b /\ i = a + (i - a)
      BY <2>1
    <2> QED
      BY <2>1
  <1>9. IsInjective(w)
    <2>1. SUFFICES ASSUME NEW i \in 1 .. a + b, NEW j \in 1 .. a + b, w[i] = w[j]
                   PROVE  i = j
      BY <1>4 DEF IsInjective
    <2>2. CASE i \in 1 .. a /\ j \in 1 .. a
      BY <2>1, <2>2, <1>3, <1>5 DEF IsInjective
    <2>3. CASE i \notin 1 .. a /\ j \notin 1 .. a
      <3>1. PICK k \in 1 .. b, m \in 1 .. b : i = a + k /\ j = a + m
        BY <2>3, <1>8
      <3>2. s[k] = s[m]
        BY <3>1, <2>1, <1>7
      <3>3. k = m
        BY <3>2, <1>3 DEF IsInjective
      <3> QED
        BY <3>1, <3>3
    <2>4. CASE ~(i \in 1 .. a <=> j \in 1 .. a)
      <3>1. \A k \in 1 .. a + b : k \in 1 .. a => w[k] \in ToSet(q)
        BY <1>6
      <3>2. \A k \in 1 .. a + b : k \notin 1 .. a => w[k] \in ToSet(s)
        BY <1>7, <1>8
      <3> QED
        BY <2>1, <2>4, <3>1, <3>2
    <2> QED
      BY <2>2, <2>3, <2>4
  <1>10. ToSet(w) = ToSet(q) \cup ToSet(s)
    <2>1. ASSUME NEW z \in ToSet(w) PROVE z \in ToSet(q) \cup ToSet(s)
      <3>1. PICK i \in 1 .. a + b : z = w[i]
        BY <1>4 DEF ToSet
      <3> QED
        BY <3>1, <1>6, <1>7, <1>8
    <2>2. ASSUME NEW z \in ToSet(q) PROVE z \in ToSet(w)
      <3>1. PICK i \in 1 .. a : z = q[i]
        BY <1>3 DEF ToSet
      <3> QED
        BY <3>1, <1>4, <1>6 DEF ToSet
    <2>3. ASSUME NEW z \in ToSet(s) PROVE z \in ToSet(w)
      <3>1. PICK i \in 1 .. b : z = s[i]
        BY <1>3 DEF ToSet
      <3> QED
        BY <3>1, <1>4, <1>7 DEF ToSet
    <2> QED
      BY <2>1, <2>2, <2>3
  <1> QED
    BY <1>1, <1>2, <1>4, <1>9, <1>10

\* The old delete set is appended to the stack.
LEMMA ReleaseInv == ASSUME Inv, NEW t \in Threads, Release(t) PROVE Inv'
  <1> USE DEF Inv
  <1>1. /\ UNCHANGED <<mode, phase, stale_slots, files, location_to_tag, tag_to_location, delete_set,
                       data_compacted>>
        /\ pc[t] = "consolidate" /\ old_delete_set' = {}
        /\ nd' = nd - Cardinality(old_delete_set)
        /\ Goto(t, "idle")
    BY DEF Release, disk, build
  <1>2. PICK s \in SetToSeqs(old_delete_set) : empty_slots' = empty_slots \o s
    BY DEF Release
  <1>3. pc[t] \in InConsolidation
    BY <1>1 DEF InConsolidation
  <1>4. ~stale_slots /\ mode.dynamic /\ phase = "ready"
    BY <1>3 DEF DeleteSets
  <1>5. /\ pc' \in [Threads -> Labels] /\ pc'[t] = "idle"
        /\ \A u \in Threads : u # t => pc'[u] = pc[u]
    BY <1>1, Moves DEF Labels
  <1>6. Partition
    BY <1>4 DEF Slots
  <1>7. IsFiniteSet(old_delete_set) /\ old_delete_set \subseteq DataLocs
    BY Slots0, FS_Subset DEF TypeOK
  <1>8. s \in Seq(old_delete_set) /\ Len(s) = Cardinality(old_delete_set) /\ IsInjective(s)
        /\ ToSet(s) = old_delete_set
    BY <1>2, <1>7, Listed
  <1>9. s \in Seq(DataLocs)
    BY <1>7, <1>8
  <1>10. ToSet(empty_slots) \cap ToSet(s) = {} /\ IsInjective(empty_slots) /\ empty_slots \in Seq(DataLocs)
    BY <1>6, <1>8 DEF Partition, Empty, TypeOK
  <1>11. /\ empty_slots' \in Seq(DataLocs) /\ Len(empty_slots') = Len(empty_slots) + Len(s)
         /\ IsInjective(empty_slots') /\ Empty' = Empty \cup old_delete_set
    <2>1. /\ empty_slots \o s \in Seq(DataLocs) /\ Len(empty_slots \o s) = Len(empty_slots) + Len(s)
          /\ IsInjective(empty_slots \o s)
          /\ ToSet(empty_slots \o s) = ToSet(empty_slots) \cup ToSet(s)
      BY <1>8, <1>9, <1>10, Concatenated
    <2> QED
      BY <2>1, <1>2, <1>8 DEF Empty
  <1>12. Tagged' = Tagged
    BY <1>1 DEF Tagged
  <1>13. nd' = MaxPoints - Len(empty_slots') /\ nd' \in 0 .. MaxPoints
    <2>1. IsFiniteSet(Empty') /\ Cardinality(Empty') = Len(empty_slots')
      <3>1. \A q \in Seq(DataLocs) : IsInjective(q) => IsFiniteSet(ToSet(q)) /\ Cardinality(ToSet(q)) = Len(q)
        BY InjectiveLength
      <3> QED
        BY <3>1, <1>11 DEF Empty
    <2>2. Empty' \in SUBSET DataLocs
      BY <1>11, <1>6, <1>7 DEF Partition
    <2>3. Cardinality(Empty') <= MaxPoints
      BY <2>2, Slots0, FS_Subset
    <2>4. Len(empty_slots) \in Nat /\ Len(s) \in Nat /\ MaxPoints \in Nat
      BY <1>9, <1>10, Slots0
    <2>5. nd = MaxPoints - Len(empty_slots)
      BY <1>6 DEF Partition
    <2>6. nd' = MaxPoints - Len(empty_slots) - Len(s)
      BY <1>1, <1>8, <2>5
    <2>7. \A a, b \in Nat : a + b <= MaxPoints =>
              MaxPoints - a - b = MaxPoints - (a + b) /\ MaxPoints - a - b \in 0 .. MaxPoints
      BY <2>4
    <2>8. Len(empty_slots) + Len(s) <= MaxPoints
      BY <1>11, <2>1, <2>3
    <2> QED
      BY <1>11, <2>4, <2>6, <2>7, <2>8
  <1>14. TypeOK'
    BY <1>1, <1>5, <1>11, <1>13 DEF TypeOK
  <1>15. TagMaps' /\ Files'
    BY <1>1, <1>12 DEF TagMaps, Files
  <1>16. Partition'
    BY <1>1, <1>6, <1>11, <1>12, <1>13 DEF Partition
  <1>17. Slots'
    BY <1>1, <1>4, <1>16 DEF Slots
  <1>18. DeleteSets'
    BY <1>1, <1>4 DEF DeleteSets
  <1> QED
    BY <1>14, <1>15, <1>17, <1>18

-----------------------------------------------------------------------------
(* save and load *)

\* Without deleted points, nd is the number of tagged slots, in either shape of the stack.
LEMMA TaggedCount ==
    ASSUME TypeOK, Slots, mode.dynamic, delete_set = {}, old_delete_set = {}
    PROVE  Cardinality(Tagged) = nd
  <1>1. Tagged \subseteq DataLocs /\ IsFiniteSet(DataLocs) /\ Cardinality(DataLocs) = MaxPoints
    BY Slots0 DEF Tagged
  <1>2. Len(empty_slots) \in Nat /\ nd \in Nat /\ nd <= MaxPoints /\ MaxPoints \in Nat
    BY Slots0 DEF TypeOK
  <1>3. ASSUME NEW E, E \subseteq DataLocs, Tagged = DataLocs \ E
        PROVE  Cardinality(Tagged) = MaxPoints - Cardinality(E)
    <2>1. DataLocs \cap E = E
      BY <1>3
    <2> QED
      BY <1>1, <1>3, <2>1, FS_Difference
  <1>4. CASE ~stale_slots
    <2>1. Partition
      BY <1>4 DEF Slots
    <2>2. Empty \subseteq DataLocs /\ Tagged = DataLocs \ Empty
      BY <2>1 DEF Partition
    <2>3. Cardinality(Empty) = Len(empty_slots)
      BY <2>1, InjectiveLength DEF TypeOK, Partition, Empty
    <2>4. Cardinality(Tagged) = MaxPoints - Len(empty_slots)
      BY <1>3, <2>2, <2>3
    <2> QED
      BY <2>1, <2>4 DEF Partition
  <1>5. CASE stale_slots
    <2>1. StackAboveBuilt
      BY <1>5 DEF Slots
    <2>2. PICK b \in Int : b = Built
      BY <1>2 DEF Built
    <2>3. PICK n \in Nat : n = Len(empty_slots)
      BY <1>2
    <2>4. b = nd + n - MaxPoints /\ b >= 1 /\ b <= n
      BY <1>2, <2>1, <2>2, <2>3 DEF Built, StackAboveBuilt
    <2>5. Tagged = {l \in DataLocs : l < b \/ l >= n}
      BY <2>1, <2>2, <2>3 DEF StackAboveBuilt
    <2>6. \A l \in DataLocs : ~(l < b \/ l >= n) <=> l \in b .. n - 1
      BY <2>4, Slots0
    <2>7. Tagged = DataLocs \ (DataLocs \cap (b .. n - 1))
      BY <2>5, <2>6
    <2>8. n <= MaxPoints
      <3>1. CASE n = 0
        BY <3>1, <1>2
      <3>2. CASE n # 0
        <4>1. n \in 1 .. n
          BY <3>2
        <4>2. empty_slots[n] = n - 1 /\ empty_slots[n] \in DataLocs
          BY <4>1, <2>1, <2>3 DEF StackAboveBuilt, TypeOK
        <4> QED
          BY <4>2, <1>2, Slots0
      <3> QED
        BY <3>1, <3>2
    <2>9. DataLocs \cap (b .. n - 1) = b .. n - 1
      BY <2>4, <2>8, <1>2 DEF DataLocs
    <2>10. Cardinality(b .. n - 1) = n - b
      <3>1. b \in Int /\ n - 1 \in Int /\ (b > n - 1 => 0 = n - b) /\ n - 1 - b + 1 = n - b
        BY <2>4
      <3> QED
        BY <3>1, FS_Interval
    <2>11. Cardinality(Tagged) = MaxPoints - (n - b)
      BY <1>3, <2>7, <2>9, <2>10
    <2> QED
      BY <2>11, <2>4, <1>2
  <1> QED
    BY <1>4, <1>5 DEF TypeOK

\* The tags of a compacted index: one for each of the first nd slots.
LEMMA CompactedMaps ==
    ASSUME TypeOK, Slots, mode.dynamic, delete_set = {}, old_delete_set = {}
    PROVE  /\ Cardinality(Tagged) = nd
           /\ CompactedTags \in [DataLocs -> Tags \cup {NoTag}]
           /\ \A l \in Tagged : /\ NewLocation(l, Tagged) \in 0 .. nd - 1
                                /\ NewLocation(l, Tagged) \in DataLocs
                                /\ CompactedTags[NewLocation(l, Tagged)] = location_to_tag[l]
           /\ \A k \in 0 .. nd - 1 : \E l \in Tagged : NewLocation(l, Tagged) = k
           /\ \A k \in DataLocs : k >= nd => CompactedTags[k] = NoTag
  <1>1. Cardinality(Tagged) = nd
    BY TaggedCount
  <1>2. Tagged \subseteq DataLocs /\ location_to_tag \in [DataLocs -> Tags \cup {NoTag}]
    BY DEF Tagged, TypeOK
  <1>3. /\ \A l \in Tagged : NewLocation(l, Tagged) \in 0 .. nd - 1
        /\ \A l, m \in Tagged : NewLocation(l, Tagged) = NewLocation(m, Tagged) => l = m
        /\ \A k \in 0 .. nd - 1 : \E l \in Tagged : NewLocation(l, Tagged) = k
    BY <1>1, <1>2, NewLocations
  <1>4. nd \in Nat /\ nd <= MaxPoints /\ MaxPoints \in Nat
    BY Slots0 DEF TypeOK
  <1>5. \A k \in 0 .. nd - 1 : k \in DataLocs
    BY <1>4, Slots0
  <1>6. \A k \in DataLocs : k >= nd => k \notin 0 .. nd - 1
    BY <1>4, Slots0
  <1> DEFINE At(k) == CHOOSE m \in Tagged : NewLocation(m, Tagged) = k
  <1>7. \A l \in Tagged : At(NewLocation(l, Tagged)) = l
    BY <1>3
  <1>8. \A k \in DataLocs : CompactedTags[k] = IF \E m \in Tagged : NewLocation(m, Tagged) = k
                                               THEN location_to_tag[At(k)] ELSE NoTag
    BY DEF CompactedTags
  <1>9. DOMAIN CompactedTags = DataLocs
    BY DEF CompactedTags
  <1>10. CompactedTags = [k \in DataLocs |-> CompactedTags[k]]
    BY DEF CompactedTags
  <1> HIDE DEF At
  <1>11. ASSUME NEW l \in Tagged
         PROVE  CompactedTags[NewLocation(l, Tagged)] = location_to_tag[l]
    <2>1. NewLocation(l, Tagged) \in DataLocs /\ At(NewLocation(l, Tagged)) = l
      BY <1>3, <1>5, <1>7
    <2> QED
      BY <2>1, <1>8
  <1>12. \A k \in DataLocs : k >= nd => CompactedTags[k] = NoTag
    BY <1>3, <1>6, <1>8
  <1>13. ASSUME NEW k \in DataLocs PROVE CompactedTags[k] \in Tags \cup {NoTag}
    <2>1. CASE \E m \in Tagged : NewLocation(m, Tagged) = k
      BY <2>1, <1>2, <1>11
    <2>2. CASE ~\E m \in Tagged : NewLocation(m, Tagged) = k
      BY <2>2, <1>8
    <2> QED
      BY <2>1, <2>2
  <1>14. CompactedTags \in [DataLocs -> Tags \cup {NoTag}]
    BY <1>10, <1>13
  <1> QED
    BY <1>1, <1>3, <1>5, <1>11, <1>12, <1>14

\* What save() does to the slots: nothing, or it compacts them.
LEMMA CompactPointsInv ==
    ASSUME Inv, NEW compact \in BOOLEAN, MaySave, ~SaveRefused(compact), CompactPoints(compact),
           stale_slots' = (stale_slots /\ ~DoCompact(compact)),
           UNCHANGED <<mode, phase, delete_set, old_delete_set, nd, pc>>
    PROVE  TypeOK' /\ TagMaps' /\ Slots' /\ DeleteSets'
  <1> USE DEF Inv
  <1>1. phase = "ready" /\ ~Consolidating /\ old_delete_set = {}
    BY DEF MaySave, DeleteSets
  <1>2. DeleteSets'
    <2>1. stale_slots' => stale_slots
      OBVIOUS
    <2> QED
      BY <2>1, <1>1 DEF DeleteSets, TypeOK
  <1>3. CASE ~DoCompact(compact)
    <2>1. UNCHANGED <<location_to_tag, tag_to_location, empty_slots, data_compacted>> /\ stale_slots' = stale_slots
      BY <1>3 DEF CompactPoints, TypeOK
    <2>2. TypeOK' /\ TagMaps'
      BY <2>1 DEF TypeOK, TagMaps, Tagged
    <2>3. Slots'
      BY <2>1 DEF Slots, Partition, StackAboveBuilt, Built, Empty, Tagged
    <2> QED
      BY <2>2, <2>3, <1>2
  <1>4. CASE DoCompact(compact)
    <2>1. mode.dynamic /\ delete_set = {}
      BY <1>4 DEF DoCompact, SaveRefused
    <2>2. /\ location_to_tag' = CompactedTags
          /\ tag_to_location' = [x \in Tags |-> IF tag_to_location[x] = NoLoc THEN NoLoc
                                                ELSE NewLocation(tag_to_location[x], Tagged)]
          /\ empty_slots' = Count(nd) /\ data_compacted' = TRUE /\ stale_slots' = FALSE
      BY <1>4 DEF CompactPoints
    <2>3. /\ Cardinality(Tagged) = nd
          /\ CompactedTags \in [DataLocs -> Tags \cup {NoTag}]
          /\ \A l \in Tagged : /\ NewLocation(l, Tagged) \in 0 .. nd - 1
                               /\ NewLocation(l, Tagged) \in DataLocs
                               /\ CompactedTags[NewLocation(l, Tagged)] = location_to_tag[l]
          /\ \A k \in 0 .. nd - 1 : \E l \in Tagged : NewLocation(l, Tagged) = k
          /\ \A k \in DataLocs : k >= nd => CompactedTags[k] = NoTag
      BY <2>1, <1>1, CompactedMaps
    <2>4. /\ NoTag \notin Tags /\ NoLoc \notin DataLocs /\ Tagged \subseteq DataLocs
          /\ location_to_tag \in [DataLocs -> Tags \cup {NoTag}]
          /\ tag_to_location \in [Tags -> DataLocs \cup {NoLoc}]
          /\ nd \in 0 .. MaxPoints /\ nd \in Nat /\ nd <= MaxPoints /\ MaxPoints \in Nat
      BY TagsAssumption, Slots0 DEF TypeOK, Tagged
    <2>5. \A x \in Tags : tag_to_location[x] # NoLoc =>
              tag_to_location[x] \in Tagged /\ location_to_tag[tag_to_location[x]] = x
      BY <2>4 DEF TagMaps, Tagged
    <2>6. \A l \in Tagged : location_to_tag[l] \in Tags /\ tag_to_location[location_to_tag[l]] = l
      BY <2>4 DEF TagMaps, Tagged
    <2>7. /\ tag_to_location' \in [Tags -> DataLocs \cup {NoLoc}]
          /\ \A x \in Tags : tag_to_location'[x] = IF tag_to_location[x] = NoLoc THEN NoLoc
                                                   ELSE NewLocation(tag_to_location[x], Tagged)
      BY <2>2, <2>3, <2>5
    <2>8. /\ Count(nd) \in Seq(DataLocs) /\ Len(Count(nd)) = MaxPoints - nd
          /\ IsInjective(Count(nd)) /\ ToSet(Count(nd)) = {l \in DataLocs : l >= nd}
      BY <2>4, CountedSlots
    <2>9. \A k \in DataLocs : k \in 0 .. nd - 1 <=> ~(k >= nd)
      BY <2>4, Slots0
    <2>10. ASSUME NEW k \in DataLocs PROVE location_to_tag'[k] # NoTag <=> ~(k >= nd)
      <3>1. CASE k >= nd
        BY <3>1, <2>2, <2>3
      <3>2. CASE ~(k >= nd)
        <4>1. PICK l \in Tagged : NewLocation(l, Tagged) = k
          BY <3>2, <2>3, <2>9
        <4> QED
          BY <3>2, <4>1, <2>2, <2>3, <2>4, <2>6
      <3> QED
        BY <3>1, <3>2
    <2>11. Tagged' = {k \in DataLocs : ~(k >= nd)}
      BY <2>10 DEF Tagged
    <2>12. TypeOK'
      BY <2>2, <2>3, <2>7, <2>8 DEF TypeOK
    <2>13. TagMaps'
      <3>1. ASSUME NEW x \in Tags, tag_to_location'[x] # NoLoc
            PROVE  location_to_tag'[tag_to_location'[x]] = x
        <4>1. tag_to_location[x] # NoLoc
          BY <3>1, <2>7
        <4>2. tag_to_location'[x] = NewLocation(tag_to_location[x], Tagged)
          BY <4>1, <2>7
        <4> QED
          BY <4>1, <4>2, <2>2, <2>3, <2>5
      <3>2. ASSUME NEW k \in Tagged' PROVE tag_to_location'[location_to_tag'[k]] = k
        <4>1. k \in DataLocs /\ k \in 0 .. nd - 1
          BY <3>2, <2>9, <2>11
        <4>2. PICK l \in Tagged : NewLocation(l, Tagged) = k
          BY <4>1, <2>3
        <4>3. location_to_tag'[k] = location_to_tag[l]
          BY <4>2, <2>2, <2>3
        <4>4. location_to_tag[l] \in Tags /\ tag_to_location[location_to_tag[l]] = l /\ l # NoLoc
          BY <4>2, <2>4, <2>6
        <4> QED
          BY <4>2, <4>3, <4>4, <2>7
      <3> QED
        BY <3>1, <3>2 DEF TagMaps
    <2>14. Partition'
      <3>1. Empty' = {l \in DataLocs : l >= nd}
        BY <2>2, <2>8 DEF Empty
      <3>2. nd' = MaxPoints - Len(empty_slots')
        BY <2>2, <2>4, <2>8
      <3>3. IsInjective(empty_slots')
        BY <2>2, <2>8
      <3> QED
        BY <3>1, <3>2, <3>3, <2>1, <2>11, <1>1 DEF Partition
    <2>15. Slots'
      BY <2>2, <2>14, <1>1 DEF Slots
    <2> QED
      BY <2>12, <2>13, <2>15, <1>2
  <1> QED
    BY <1>3, <1>4

\* The files of a sound save hold one tag for each of the first nd slots.
LEMMA WrittenFiles ==
    ASSUME Inv, NEW compact \in BOOLEAN, MaySave, ~SaveRefused(compact),
           files' = Written(compact), phase' = phase
    PROVE  Files'
  <1> USE DEF Inv
  <1>1. phase = "ready" /\ ~Consolidating /\ old_delete_set = {}
    BY DEF MaySave, DeleteSets
  <1>2. /\ files'.nd = nd /\ files'.tags = [l \in 0 .. nd - 1 |-> TagsToWrite(compact)[l]]
        /\ files'.sound = Sound(compact)
    BY DEF Written
  <1>3. /\ nd \in 0 .. MaxPoints /\ nd \in Nat /\ nd <= MaxPoints /\ MaxPoints \in Nat
        /\ NoTag \notin Tags /\ location_to_tag \in [DataLocs -> Tags \cup {NoTag}]
    BY TagsAssumption, Slots0 DEF TypeOK
  <1>4. \A l \in 0 .. nd - 1 : l \in DataLocs
    BY <1>3, Slots0
  <1> DEFINE tags == TagsToWrite(compact)
  <1>5. /\ tags \in [DataLocs -> Tags \cup {NoTag}]
        /\ Sound(compact) => /\ \A l \in 0 .. nd - 1 : tags[l] \in Tags
                             /\ \A l, m \in 0 .. nd - 1 : tags[l] = tags[m] => l = m
    <2>1. \A l, m \in Tagged : location_to_tag[l] = location_to_tag[m] => l = m
      BY DEF TagMaps
    <2>2. \A l \in Tagged : location_to_tag[l] \in Tags
      BY <1>3 DEF Tagged
    <2>3. CASE ~DoCompact(compact)
      <3>1. tags = location_to_tag
        BY <2>3 DEF TagsToWrite
      <3>2. Sound(compact) => Tagged = 0 .. nd - 1
        BY <2>3 DEF Sound, Compacted
      <3> QED
        BY <3>1, <3>2, <2>1, <2>2, <1>3
    <2>4. CASE DoCompact(compact)
      <3>1. tags = CompactedTags
        BY <2>4 DEF TagsToWrite
      <3>2. mode.dynamic /\ delete_set = {}
        BY <2>4 DEF DoCompact, SaveRefused
      <3>3. /\ CompactedTags \in [DataLocs -> Tags \cup {NoTag}]
            /\ \A l \in Tagged : CompactedTags[NewLocation(l, Tagged)] = location_to_tag[l]
            /\ \A k \in 0 .. nd - 1 : \E l \in Tagged : NewLocation(l, Tagged) = k
        BY <3>2, <1>1, CompactedMaps
      <3>4. \A k \in 0 .. nd - 1 : \E l \in Tagged : NewLocation(l, Tagged) = k /\ tags[k] = location_to_tag[l]
        BY <3>1, <3>3
      <3> HIDE DEF tags
      <3>5. \A k \in 0 .. nd - 1 : tags[k] \in Tags
        BY <3>4, <2>2
      <3>6. \A k, m \in 0 .. nd - 1 : tags[k] = tags[m] => k = m
        BY <3>4, <2>1
      <3> QED
        BY <3>1, <3>3, <3>5, <3>6
    <2> QED
      BY <2>3, <2>4
  <1> HIDE DEF tags
  <1>6. /\ files'.tags \in [0 .. nd - 1 -> Tags \cup {NoTag}]
        /\ \A l \in 0 .. nd - 1 : files'.tags[l] = tags[l]
    BY <1>2, <1>4, <1>5 DEF tags
  <1>7. Sound(compact) => files'.tags \in [0 .. nd - 1 -> Tags]
    BY <1>5, <1>6
  <1> QED
    BY <1>1, <1>2, <1>3, <1>5, <1>6, <1>7 DEF Files

LEMMA SaveInv ==
    ASSUME Inv, NEW compact \in BOOLEAN, SaveThrows(compact) \/ Save(compact) \/ SaveFails(compact)
    PROVE  Inv'
  <1> USE DEF Inv
  <1>1. CASE SaveThrows(compact)
    <2>1. UNCHANGED <<mode, points, stale_slots, files>> /\ pc' = pc /\ phase' = phase
      BY <1>1 DEF SaveThrows, disk, build, thread
    <2> QED
      BY <2>1, SlotsUntouched DEF TypeOK
  <1>2. CASE Save(compact) \/ SaveFails(compact)
    <2>1. /\ MaySave /\ ~SaveRefused(compact) /\ CompactPoints(compact)
          /\ stale_slots' = (stale_slots /\ ~DoCompact(compact))
          /\ UNCHANGED <<mode, phase, delete_set, old_delete_set, nd, pc>>
          /\ files' = Written(compact) \/ files' = NoFile
      BY <1>2 DEF Save, SaveFails, build, thread
    <2>2. TypeOK' /\ TagMaps' /\ Slots' /\ DeleteSets'
      BY <2>1, CompactPointsInv
    <2>3. Files'
      <3>1. CASE files' = NoFile
        BY <3>1 DEF Files
      <3>2. CASE files' = Written(compact)
        BY <3>2, <2>1, WrittenFiles
      <3> QED
        BY <3>1, <3>2, <2>1
    <2> QED
      BY <2>2, <2>3
  <1> QED
    BY <1>1, <1>2

\* load() gives each tag of the files its slot, and puts the others on the stack.
LEMMA RestartInv == ASSUME Inv, Restart PROVE Inv'
  <1> USE DEF Inv
  <1>1. /\ files # NoFile /\ files.sound
        /\ location_to_tag' = LoadedTags
        /\ tag_to_location' = [x \in Tags |-> IF \E l \in DataLocs : LoadedTags[l] = x
                                              THEN CHOOSE l \in DataLocs : LoadedTags[l] = x ELSE NoLoc]
        /\ empty_slots' = IF files.nd < MaxPoints THEN Count(files.nd) ELSE <<>>
        /\ delete_set' = {} /\ old_delete_set' = {} /\ nd' = files.nd /\ data_compacted' = TRUE
        /\ phase' = "ready" /\ pc' = [t \in Threads |-> "idle"] /\ stale_slots' = FALSE
        /\ UNCHANGED <<mode, files>>
    BY DEF Restart
  <1>2. PICK n \in 0 .. MaxPoints : n = files.nd
    BY <1>1 DEF Files
  <1>3. /\ files.tags \in [0 .. n - 1 -> Tags]
        /\ \A l, m \in 0 .. n - 1 : files.tags[l] = files.tags[m] => l = m
    BY <1>1, <1>2 DEF Files
  <1>4. n \in Nat /\ n <= MaxPoints /\ MaxPoints \in Nat /\ NoTag \notin Tags /\ NoLoc \notin DataLocs
    BY TagsAssumption, Slots0
  <1>5. \A l \in DataLocs : l < n <=> l \in 0 .. n - 1
    BY <1>4, Slots0
  <1>6. /\ LoadedTags \in [DataLocs -> Tags \cup {NoTag}]
        /\ \A l \in DataLocs : LoadedTags[l] = IF l < n THEN files.tags[l] ELSE NoTag
    BY <1>2, <1>3, <1>5 DEF LoadedTags
  <1>7. \A l \in DataLocs : l < n => LoadedTags[l] \in Tags
    BY <1>3, <1>5, <1>6
  <1>8. \A l, m \in DataLocs : l < n /\ LoadedTags[l] = LoadedTags[m] => l = m
    BY <1>3, <1>4, <1>5, <1>6, <1>7
  <1>9. Tagged' = {l \in DataLocs : l < n}
    BY <1>1, <1>4, <1>6, <1>7 DEF Tagged
  <1>10. /\ Count(n) \in Seq(DataLocs) /\ Len(Count(n)) = MaxPoints - n
         /\ IsInjective(Count(n)) /\ ToSet(Count(n)) = {l \in DataLocs : l >= n}
    BY CountedSlots
  <1>11. empty_slots' = Count(n)
    <2>1. CASE n < MaxPoints
      BY <2>1, <1>1, <1>2
    <2>2. CASE ~(n < MaxPoints)
      <3>1. Len(Count(n)) = 0
        BY <2>2, <1>4, <1>10
      <3>2. Count(n) = <<>>
        BY <3>1, <1>10
      <3> QED
        BY <2>2, <3>2, <1>1, <1>2
    <2> QED
      BY <2>1, <2>2
  <1> DEFINE At(x) == CHOOSE l \in DataLocs : LoadedTags[l] = x
  <1>12. \A x \in Tags : (\E l \in DataLocs : LoadedTags[l] = x) => At(x) \in DataLocs /\ LoadedTags[At(x)] = x
    OBVIOUS
  <1>13. \A x \in Tags : tag_to_location'[x] = IF \E l \in DataLocs : LoadedTags[l] = x THEN At(x) ELSE NoLoc
    BY <1>1
  <1>14. tag_to_location' = [x \in Tags |-> tag_to_location'[x]]
    BY <1>1
  <1> HIDE DEF At
  <1>15. tag_to_location' \in [Tags -> DataLocs \cup {NoLoc}]
    <2>1. \A x \in Tags : tag_to_location'[x] \in DataLocs \cup {NoLoc}
      BY <1>12, <1>13
    <2> QED
      BY <2>1, <1>14
  <1>16. TypeOK'
    <2>1. pc' \in [Threads -> Labels]
      BY <1>1 DEF Labels
    <2> QED
      BY <2>1, <1>1, <1>2, <1>6, <1>10, <1>11, <1>15 DEF TypeOK
  <1>17. TagMaps'
    <2>1. ASSUME NEW x \in Tags, tag_to_location'[x] # NoLoc
          PROVE  location_to_tag'[tag_to_location'[x]] = x
      BY <2>1, <1>1, <1>12, <1>13
    <2>2. ASSUME NEW l \in Tagged' PROVE tag_to_location'[location_to_tag'[l]] = l
      <3>1. l \in DataLocs /\ l < n /\ LoadedTags[l] \in Tags
        BY <2>2, <1>7, <1>9
      <3>2. PICK x \in Tags : x = LoadedTags[l]
        BY <3>1
      <3>3. tag_to_location'[x] = At(x) /\ At(x) \in DataLocs /\ LoadedTags[At(x)] = x
        BY <3>1, <3>2, <1>12, <1>13
      <3>4. At(x) = l
        BY <3>1, <3>2, <3>3, <1>8
      <3> QED
        BY <3>2, <3>3, <3>4, <1>1
    <2> QED
      BY <2>1, <2>2 DEF TagMaps
  <1>18. Partition'
    <2>1. Empty' = {l \in DataLocs : l >= n}
      BY <1>10, <1>11 DEF Empty
    <2>2. \A l \in DataLocs : l < n <=> ~(l >= n)
      BY <1>4, Slots0
    <2>3. nd' = MaxPoints - Len(empty_slots')
      BY <1>1, <1>2, <1>4, <1>10, <1>11
    <2>4. IsInjective(empty_slots')
      BY <1>10, <1>11
    <2> QED
      BY <2>1, <2>2, <2>3, <2>4, <1>1, <1>9 DEF Partition
  <1>19. Slots'
    BY <1>1, <1>18 DEF Slots
  <1>20. DeleteSets'
    BY <1>1 DEF DeleteSets, InConsolidation
  <1>21. Files'
    BY <1>1 DEF Files
  <1> QED
    BY <1>16, <1>17, <1>19, <1>20, <1>21

-----------------------------------------------------------------------------
(* The invariant *)

LEMMA NextInv == ASSUME Inv, [Next]_vars PROVE Inv'
  <1>1. CASE SetStartPoints \/ LinkDone \/ CleanupNode \/ BuildDone
    BY <1>1, BuildStepsInv
  <1>2. CASE \E n \in 1 .. MaxPoints : Build(n)
    BY <1>2, BuildInv
  <1>3. ASSUME NEW t \in Threads, Step(t) PROVE Inv'
    <2>1. CASE \/ LinkNode(t) \/ Expand(t) \/ EndSearch(t) \/ SetLinks(t) \/ InterInsert(t)
               \/ PruneNeighbour(t) \/ PointDone(t) \/ SetVector(t) \/ EndQuery(t)
      BY <2>1, ThreadStepsInv
    <2>2. CASE LockFails(t) \/ ReadList(t) \/ RewriteList(t)
      BY <2>2, ConsolidationStepsInv
    <2>3. CASE SwapDeleteSets(t)
      BY <2>3, SwapDeleteSetsInv
    <2>4. CASE Release(t)
      BY <2>4, ReleaseInv
    <2> QED
      BY <1>3, <2>1, <2>2, <2>3, <2>4 DEF Step
  <1>4. ASSUME NEW t \in Threads, Call(t) PROVE Inv'
    <2>1. CASE BeginQuery(t)
      BY <2>1, ThreadStepsInv
    <2>2. CASE CheckSizes(t)
      BY <2>2, CheckSizesInv
    <2>3. CASE \E x \in Tags : BeginInsert(t, x)
      BY <2>3, BeginInsertInv
    <2> QED
      BY <1>4, <2>1, <2>2, <2>3 DEF Call
  <1>5. CASE \E x \in Tags : LazyDelete(x)
    BY <1>5, LazyDeleteInv
  <1>6. CASE \E compact \in BOOLEAN : SaveThrows(compact) \/ Save(compact) \/ SaveFails(compact)
    BY <1>6, SaveInv
  <1>7. CASE Restart
    BY <1>7, RestartInv
  <1>8. CASE UNCHANGED vars
    <2>1. UNCHANGED <<mode, points, stale_slots, files>> /\ pc' = pc /\ phase' = phase
      BY <1>8 DEF vars, disk, build, thread
    <2> QED
      BY <2>1, SlotsUntouched DEF Inv, TypeOK
  <1> QED
    BY <1>1, <1>2, <1>3, <1>4, <1>5, <1>6, <1>7, <1>8 DEF Next, Stop

\* Inv holds in every state, of a damaged index too: save() and load() keep the slots
\* and the tags right even where they lose the frozen points.
THEOREM InvHolds == Spec => []Inv
  <1>1. Init => Inv
    BY InitInv
  <1>2. Inv /\ [Next]_vars => Inv'
    BY NextInv
  <1> QED
    BY <1>1, <1>2, PTL DEF Spec

\* No slot of a dynamic index is lost or given out twice, nd counts the slots in use
\* and the tag maps are inverse, whatever insertions, deletions, consolidations, saves
\* and loads the threads interleave.
THEOREM NoSlotLost == Spec => []SlotsAccounted
  <1>1. Inv => SlotsAccounted
    BY DEF Inv, Slots, Partition, TagMaps, SlotsAccounted
  <1> QED
    BY <1>1, InvHolds, PTL

\* What reserve_location() gives an insertion below the limit is a slot nobody uses,
\* and never the slot at nd: not even after build(), which leaves its own slots on
\* the stack.
THEOREM ReservedSlotIsFree ==
    Spec => [](mode.dynamic /\ nd < MaxPoints =>
                   /\ ~TakesNext /\ ReservedSlot \in DataLocs
                   /\ ReservedSlot \notin Tagged \cup delete_set \cup old_delete_set)
  <1>1. ASSUME Inv, mode.dynamic, nd < MaxPoints
        PROVE  /\ ~TakesNext /\ ReservedSlot \in DataLocs
               /\ ReservedSlot \notin Tagged \cup delete_set \cup old_delete_set
    BY <1>1, Reserved DEF Inv, TakesNext
  <1> QED
    BY <1>1, InvHolds, PTL

-----------------------------------------------------------------------------
(* Loops *)

\* A set of naturals has a least element.
LEMMA LeastNatural == ASSUME NEW S, S \subseteq Nat, S # {}
                      PROVE  \E x \in S : \A y \in S : x <= y
  <1> DEFINE less == OpToRel(<, Nat)
  <1>1. IsWellFoundedOn(less, Nat)
    BY NatLessThanWellFounded
  <1>2. PICK x \in S : \A y \in S : ~(<<y, x>> \in less)
    BY <1>1, WFMin
  <1>3. \A y \in S : ~(y < x)
    BY <1>2 DEF OpToRel
  <1> QED
    BY <1>3

\* What holds before a loop and is kept by its rounds holds after each of them.
LEMMA Rounds ==
    ASSUME NEW n \in Nat, NEW S, 0 \in S, \A k \in 1 .. n : k - 1 \in S => k \in S
    PROVE  \A k \in 0 .. n : k \in S
  <1> DEFINE Bad == {k \in 0 .. n : k \notin S}
  <1>1. SUFFICES ASSUME Bad # {} PROVE FALSE
    OBVIOUS
  <1>2. PICK m \in Bad : \A k \in Bad : m <= k
    <2>1. Bad \subseteq Nat
      OBVIOUS
    <2> HIDE DEF Bad
    <2> QED
      BY <1>1, <2>1, LeastNatural
  <1>3. m \in 1 .. n /\ m - 1 \in 0 .. n /\ ~(m <= m - 1)
    OBVIOUS
  <1> QED
    BY <1>2, <1>3

\* A loop whose rounds are given by a function: there is the sequence of its states.
IsLoop(d, x, n, F) == d[0] = x /\ \A k \in 1 .. n : d[k] = F[<<d[k - 1], k>>]

LEMMA LoopStates ==
    ASSUME NEW X, NEW x \in X, NEW n \in Nat, NEW F \in [X \X (1 .. n) -> X]
    PROVE  \E d \in [0 .. n -> X] : IsLoop(d, x, n, F)
  <1> DEFINE Until(d, m) == d[0] = x /\ \A k \in 1 .. m : d[k] = F[<<d[k - 1], k>>]
             S == {m \in 0 .. n : \E d \in [0 .. m -> X] : Until(d, m)}
  <1>1. 0 \in S
    <2> DEFINE d == [k \in 0 .. 0 |-> x]
    <2>1. d \in [0 .. 0 -> X] /\ Until(d, 0)
      OBVIOUS
    <2>2. 0 \in 0 .. n
      OBVIOUS
    <2> HIDE DEF d, Until
    <2> QED
      BY <2>1, <2>2
  <1>2. ASSUME NEW m \in 1 .. n, m - 1 \in S PROVE m \in S
    <2>1. PICK d \in [0 .. m - 1 -> X] : Until(d, m - 1)
      BY <1>2
    <2> DEFINE e == [k \in 0 .. m |-> IF k = m THEN F[<<d[m - 1], m>>] ELSE d[k]]
    <2>2. m - 1 \in 0 .. m - 1 /\ m \in 1 .. n /\ m - 1 \in 0 .. m /\ m \in 0 .. m /\ m - 1 # m
      OBVIOUS
    <2>3. d[m - 1] \in X /\ F[<<d[m - 1], m>>] \in X
      BY <2>2
    <2>4. e \in [0 .. m -> X]
      BY <2>3
    <2>5. e[0] = x
      BY <2>1, <2>2
    <2>6. ASSUME NEW k \in 1 .. m PROVE e[k] = F[<<e[k - 1], k>>]
      <3>1. CASE k = m
        BY <3>1, <2>2
      <3>2. CASE k # m
        <4>1. k \in 1 .. m - 1 /\ k \in 0 .. m /\ k - 1 \in 0 .. m /\ k - 1 # m
          BY <3>2
        <4>2. e[k] = d[k] /\ e[k - 1] = d[k - 1]
          BY <4>1
        <4> QED
          BY <4>1, <4>2, <2>1
      <3> QED
        BY <3>1, <3>2
    <2> HIDE DEF e
    <2>7. Until(e, m)
      BY <2>5, <2>6
    <2> HIDE DEF Until
    <2> QED
      BY <2>4, <2>7
  <1> HIDE DEF S
  <1>3. n \in S
    BY <1>1, <1>2, Rounds
  <1> QED
    BY <1>3 DEF S, IsLoop

-----------------------------------------------------------------------------
(* reposition_points() *)

\* The ranges lie inside the index.
InRange(old, new, num) == \A o \in 0 .. num - 1 : old + o \in Locs /\ new + o \in Locs

\* d is the sequence of the states of the loop that swaps the lists.
Swapping(d, g, old, new, num) ==
    /\ d[0] = g
    /\ \A k \in 1 .. num : d[k] = Swap(d[k - 1], new + SwapOffset(k, old, new, num),
                                                  old + SwapOffset(k, old, new, num))

LEMMA SwapRounds ==
    ASSUME NEW V, NEW g \in [Locs -> V], NEW old \in Nat, NEW new \in Nat, NEW num \in Nat,
           InRange(old, new, num)
    PROVE  /\ SwapLists(g, old, new, num) \in [0 .. num -> [Locs -> V]]
           /\ Swapping(SwapLists(g, old, new, num), g, old, new, num)
  <1> DEFINE X == [Locs -> V]
             F == [p \in X \X (1 .. num) |->
                     Swap(p[1], new + SwapOffset(p[2], old, new, num), old + SwapOffset(p[2], old, new, num))]
             Is(d) == d = [k \in 0 .. num |->
                             IF k = 0 THEN g
                             ELSE Swap(d[k - 1], new + SwapOffset(k, old, new, num),
                                                 old + SwapOffset(k, old, new, num))]
  <1>1. \A k \in 1 .. num : SwapOffset(k, old, new, num) \in 0 .. num - 1
    BY DEF SwapOffset
  <1>2. F \in [X \X (1 .. num) -> X]
    <2>1. SUFFICES ASSUME NEW h \in X, NEW k \in 1 .. num
                   PROVE  Swap(h, new + SwapOffset(k, old, new, num), old + SwapOffset(k, old, new, num)) \in X
      OBVIOUS
    <2>2. PICK o \in 0 .. num - 1 : o = SwapOffset(k, old, new, num)
      BY <1>1
    <2>3. old + o \in Locs /\ new + o \in Locs
      BY DEF InRange
    <2>4. Swap(h, new + o, old + o) \in X
      BY <2>3 DEF Swap
    <2> QED
      BY <2>2, <2>4
  <1>3. \A h \in X, k \in 1 .. num :
           F[<<h, k>>] = Swap(h, new + SwapOffset(k, old, new, num), old + SwapOffset(k, old, new, num))
    OBVIOUS
  <1> HIDE DEF F, X
  <1>4. PICK d \in [0 .. num -> X] : d[0] = g /\ \A k \in 1 .. num : d[k] = F[<<d[k - 1], k>>]
    <2>1. g \in X
      BY DEF X
    <2>2. \E d \in [0 .. num -> X] : IsLoop(d, g, num, F)
      BY <1>2, <2>1, LoopStates
    <2> QED
      BY <2>2 DEF IsLoop
  <1>5. ASSUME NEW k \in 1 .. num
        PROVE  d[k] = Swap(d[k - 1], new + SwapOffset(k, old, new, num), old + SwapOffset(k, old, new, num))
    <2>1. k - 1 \in 0 .. num
      OBVIOUS
    <2>2. d[k - 1] \in X
      BY <2>1
    <2> QED
      BY <2>2, <1>3, <1>4
  <1>6. Is(d)
    <2>1. \A k \in 0 .. num : k = 0 \/ k \in 1 .. num
      OBVIOUS
    <2> QED
      BY <2>1, <1>4, <1>5
  <1>7. SwapLists(g, old, new, num) = CHOOSE e : Is(e)
    BY DEF SwapLists
  <1> HIDE DEF Is
  <1>8. Is(SwapLists(g, old, new, num))
    BY <1>6, <1>7
  <1>9. PICK e : e = SwapLists(g, old, new, num) /\ Is(e)
    BY <1>8
  <1>10. /\ e = [k \in 0 .. num |-> e[k]] /\ e[0] = g
         /\ \A k \in 1 .. num : e[k] = Swap(e[k - 1], new + SwapOffset(k, old, new, num),
                                                       old + SwapOffset(k, old, new, num))
    <2>1. e = [k \in 0 .. num |-> IF k = 0 THEN g
                                   ELSE Swap(e[k - 1], new + SwapOffset(k, old, new, num),
                                                       old + SwapOffset(k, old, new, num))]
      BY <1>9 DEF Is
    <2>2. 0 \in 0 .. num /\ \A k \in 1 .. num : k \in 0 .. num /\ k # 0
      OBVIOUS
    <2> QED
      BY <2>1, <2>2
  <1>11. ASSUME NEW k \in 1 .. num, e[k - 1] \in X PROVE e[k] \in X
    <2>1. F[<<e[k - 1], k>>] \in X
      BY <1>2, <1>11
    <2> QED
      BY <2>1, <1>3, <1>10, <1>11
  <1> DEFINE S == {k \in 0 .. num : e[k] \in X}
  <1>12. \A k \in 0 .. num : k \in S
    <2>1. 0 \in S
      BY <1>10 DEF X
    <2>2. ASSUME NEW k \in 1 .. num, k - 1 \in S PROVE k \in S
      BY <2>2, <1>11
    <2> HIDE DEF S
    <2> QED
      BY <2>1, <2>2, Rounds
  <1>13. e \in [0 .. num -> X]
    BY <1>10, <1>12
  <1> QED
    BY <1>9, <1>10, <1>13 DEF X, Swapping

\* The rest of the new range is not in use; after the swaps the lists of the old range are in
\* the new one, and what was in the rest of the new range fills the rest of the old one.
Unused(g, old, new, num, none) ==
    \A l \in new .. new + num - 1 : l \notin old .. old + num - 1 => g[l] = none
Moved(G, g, old, new, num, none) ==
    /\ \A o \in 0 .. num - 1 : G[new + o] = g[old + o]
    /\ \A l \in Locs : l \notin old .. old + num - 1 /\ l \notin new .. new + num - 1 => G[l] = g[l]
    /\ \A l \in old .. old + num - 1 : l \notin new .. new + num - 1 => G[l] = none

LEMMA SwappedLists ==
    ASSUME NEW V, NEW g \in [Locs -> V], NEW old \in Nat, NEW new \in Nat, NEW num \in Nat,
           InRange(old, new, num), old # new, NEW none \in V, Unused(g, old, new, num, none)
    PROVE  /\ SwapLists(g, old, new, num)[num] \in [Locs -> V]
           /\ Moved(SwapLists(g, old, new, num)[num], g, old, new, num, none)
  <1> DEFINE d == SwapLists(g, old, new, num)
             Done(o, k) == IF new < old THEN o < k ELSE o >= num - k
             A(k) == \A o \in 0 .. num - 1 : IF Done(o, k) THEN d[k][new + o] = g[old + o]
                                             ELSE d[k][old + o] = g[old + o]
             B(k) == \A l \in Locs : l \notin old .. old + num - 1 /\ l \notin new .. new + num - 1
                                        => d[k][l] = g[l]
             C(k) == \A l \in Locs :
                        /\ l \in old .. old + num - 1 \/ l \in new .. new + num - 1
                        /\ \A o \in 0 .. num - 1 : l = new + o => ~Done(o, k)
                        /\ \A o \in 0 .. num - 1 : l = old + o => Done(o, k)
                        => d[k][l] = none
             S == {k \in 0 .. num : A(k) /\ B(k) /\ C(k)}
  <1>1. /\ d \in [0 .. num -> [Locs -> V]] /\ d[0] = g
        /\ \A k \in 1 .. num : d[k] = Swap(d[k - 1], new + SwapOffset(k, old, new, num),
                                                      old + SwapOffset(k, old, new, num))
    <2>1. PICK e : e = SwapLists(g, old, new, num)
      OBVIOUS
    <2>2. e \in [0 .. num -> [Locs -> V]]
      BY <2>1, SwapRounds
    <2>3. Swapping(e, g, old, new, num)
      BY <2>1, SwapRounds
    <2> QED
      BY <2>1, <2>2, <2>3 DEF Swapping
  <1> HIDE DEF d
  <1>2. 0 \in S
    <2>1. \A o \in 0 .. num - 1 : ~Done(o, 0)
      OBVIOUS
    <2>2. A(0) /\ B(0)
      BY <2>1, <1>1
    <2>3. ASSUME NEW l \in Locs, l \in old .. old + num - 1 \/ l \in new .. new + num - 1,
                 \A o \in 0 .. num - 1 : l = old + o => Done(o, 0)
          PROVE  d[0][l] = none
      <3>1. l \notin old .. old + num - 1
        <4>1. SUFFICES ASSUME l \in old .. old + num - 1 PROVE FALSE
          OBVIOUS
        <4>2. l - old \in 0 .. num - 1 /\ l = old + (l - old)
          BY <4>1
        <4> HIDE DEF Done
        <4> QED
          BY <4>2, <2>1, <2>3
      <3> QED
        BY <3>1, <2>3, <1>1 DEF Unused
    <2> QED
      BY <2>2, <2>3
  <1>3. ASSUME NEW k \in 1 .. num, k - 1 \in S PROVE k \in S
    <2> DEFINE h == d[k - 1]
    <2>1. PICK o \in 0 .. num - 1 : o = SwapOffset(k, old, new, num)
      BY DEF SwapOffset
    <2>2. old + o \in Locs /\ new + o \in Locs /\ old + o # new + o
      BY DEF InRange
    <2>3. k - 1 \in 0 .. num /\ h \in [Locs -> V]
      BY <1>1
    <2>4. d[k] = [h EXCEPT ![new + o] = h[old + o], ![old + o] = h[new + o]]
      BY <1>1, <2>1 DEF Swap
    <2>5. /\ d[k][new + o] = h[old + o] /\ d[k][old + o] = h[new + o]
          /\ \A l \in Locs : l # new + o /\ l # old + o => d[k][l] = h[l]
      BY <2>2, <2>3, <2>4
    <2>6. A(k - 1) /\ B(k - 1) /\ C(k - 1)
      BY <1>3
    <2>7. /\ ~Done(o, k - 1) /\ Done(o, k)
          /\ \A p \in 0 .. num - 1 : p # o => (Done(p, k) <=> Done(p, k - 1))
      BY <2>1 DEF SwapOffset
    <2>8. /\ \A p \in 0 .. num - 1 : Done(p, k - 1) => new + p # old + o
          /\ \A p \in 0 .. num - 1 : ~Done(p, k) => old + p # new + o
          /\ \A p \in 0 .. num - 1 : new + o = old + p => Done(p, k - 1)
      BY <2>1 DEF SwapOffset
    <2>9. \A p \in 0 .. num - 1 : new + p \in Locs /\ old + p \in Locs
                                   /\ (new + p = new + o => p = o) /\ (old + p = old + o => p = o)
      BY DEF InRange
    <2> HIDE DEF Done, h
    <2>10. A(k)
      <3>1. SUFFICES ASSUME NEW p \in 0 .. num - 1
                     PROVE  IF Done(p, k) THEN d[k][new + p] = g[old + p] ELSE d[k][old + p] = g[old + p]
        OBVIOUS
      <3>2. CASE p = o
        BY <3>2, <2>5, <2>6, <2>7 DEF h
      <3>3. CASE p # o /\ Done(p, k)
        <4>1. d[k][new + p] = h[new + p]
          BY <3>3, <2>5, <2>7, <2>8, <2>9
        <4> QED
          BY <4>1, <3>3, <2>6, <2>7 DEF h
      <3>4. CASE p # o /\ ~Done(p, k)
        <4>1. d[k][old + p] = h[old + p]
          BY <3>4, <2>5, <2>8, <2>9
        <4> QED
          BY <4>1, <3>4, <2>6, <2>7 DEF h
      <3> QED
        BY <3>2, <3>3, <3>4
    <2>11. new + o \in new .. new + num - 1 /\ old + o \in old .. old + num - 1
      OBVIOUS
    <2>12. B(k)
      BY <2>5, <2>6, <2>11 DEF h
    <2>13. h[new + o] = none
      <3>1. \A p \in 0 .. num - 1 : new + o = new + p => ~Done(p, k - 1)
        BY <2>7
      <3> QED
        BY <3>1, <2>2, <2>6, <2>8, <2>11 DEF h
    <2>14. ASSUME NEW l \in Locs, l \in old .. old + num - 1 \/ l \in new .. new + num - 1,
                  \A p \in 0 .. num - 1 : l = new + p => ~Done(p, k),
                  \A p \in 0 .. num - 1 : l = old + p => Done(p, k)
           PROVE  d[k][l] = none
      <3>1. l # new + o
        BY <2>7, <2>14
      <3>2. CASE l = old + o
        BY <3>2, <2>5, <2>13
      <3>3. CASE l # old + o
        <4>1. d[k][l] = h[l]
          BY <3>1, <3>3, <2>5
        <4>2. /\ \A p \in 0 .. num - 1 : l = new + p => ~Done(p, k - 1)
              /\ \A p \in 0 .. num - 1 : l = old + p => Done(p, k - 1)
          BY <3>1, <3>3, <2>7, <2>14
        <4> QED
          BY <4>1, <4>2, <2>6, <2>14 DEF h
      <3> QED
        BY <3>2, <3>3
    <2>15. C(k)
      BY <2>14
    <2> QED
      BY <2>10, <2>12, <2>15
  <1>4. num \in S
    <2> HIDE DEF S
    <2> QED
      BY <1>2, <1>3, Rounds
  <1>5. A(num) /\ B(num) /\ C(num) /\ \A o \in 0 .. num - 1 : Done(o, num)
    BY <1>4
  <1>6. ASSUME NEW l \in old .. old + num - 1, l \notin new .. new + num - 1 PROVE d[num][l] = none
    <2>1. l \in Locs
      <3>1. l - old \in 0 .. num - 1 /\ l = old + (l - old)
        OBVIOUS
      <3> QED
        BY <3>1 DEF InRange
    <2>2. \A o \in 0 .. num - 1 : l # new + o
      BY <1>6
    <2> HIDE DEF Done
    <2> QED
      BY <2>1, <2>2, <1>5
  <1>7. \A o \in 0 .. num - 1 : d[num][new + o] = g[old + o]
    <2> HIDE DEF Done
    <2> QED
      BY <1>5
  <1> QED
    BY <1>1, <1>5, <1>6, <1>7 DEF d, Moved

\* An id of the old range becomes one of the new range.
Ren(l, old, new, num) == IF l \in old .. old + num - 1 THEN l + new - old ELSE l
RenList(list, old, new, num) == {Ren(l, old, new, num) : l \in list}

\* RepositionPoints, seen from outside: lists are renamed and moved.
IsRepositioned(s, g, v, old, new, num) ==
    /\ s = [graph |-> s.graph, vec |-> s.vec] /\ s.graph = [l \in Locs |-> s.graph[l]]
    /\ \A o \in 0 .. num - 1 : s.graph[new + o] = RenList(g[old + o], old, new, num)
    /\ \A l \in Locs : l \notin old .. old + num - 1 /\ l \notin new .. new + num - 1
                         => s.graph[l] = RenList(g[l], old, new, num) /\ s.vec[l] = v[l]
    /\ \A l \in old .. old + num - 1 : l \notin new .. new + num - 1 => s.graph[l] = {}
    /\ s.vec = [l \in Locs |-> s.vec[l]]

LEMMA Repositioned ==
    ASSUME NEW g, NEW v, g = [l \in Locs |-> g[l]], NEW old \in Nat, NEW new \in Nat, NEW num \in Nat \ {0},
           InRange(old, new, num), old # new, Unused(g, old, new, num, {})
    PROVE  IsRepositioned(RepositionPoints([graph |-> g, vec |-> v], old, new, num), g, v, old, new, num)
  <1> DEFINE h == Renamed(g, old, new, num)
             V == {h[l] : l \in Locs} \cup {{}}
             G == SwapLists(h, old, new, num)[num]
             W == MoveVectors(v, old, new, num)
  <1>1. h \in [Locs -> V] /\ {} \in V /\ \A l \in Locs : h[l] = RenList(g[l], old, new, num)
    BY DEF Renamed, RenList, Ren
  <1>2. Unused(h, old, new, num, {})
    <2>1. ASSUME NEW l \in new .. new + num - 1, l \notin old .. old + num - 1 PROVE h[l] = {}
      <3>1. l \in Locs
        <4>1. l - new \in 0 .. num - 1 /\ l = new + (l - new)
          OBVIOUS
        <4> QED
          BY <4>1 DEF InRange
      <3>2. h[l] = RenList({}, old, new, num)
        BY <3>1, <1>1, <2>1 DEF Unused
      <3> QED
        BY <3>2 DEF RenList
    <2> QED
      BY <2>1 DEF Unused
  <1> HIDE DEF h, V
  <1>3. /\ G \in [Locs -> V]
        /\ \A o \in 0 .. num - 1 : G[new + o] = h[old + o]
        /\ \A l \in Locs : l \notin old .. old + num - 1 /\ l \notin new .. new + num - 1 => G[l] = h[l]
        /\ \A l \in old .. old + num - 1 : l \notin new .. new + num - 1 => G[l] = {}
    <2>1. num \in Nat
      OBVIOUS
    <2>2. G \in [Locs -> V] /\ Moved(G, h, old, new, num, {})
      BY <2>1, <1>1, <1>2, SwappedLists
    <2> QED
      BY <2>2 DEF Moved
  <1>4. RepositionPoints([graph |-> g, vec |-> v], old, new, num) = [graph |-> G, vec |-> W]
    BY DEF RepositionPoints, h
  <1>5. W = [l \in Locs |-> W[l]]
        /\ \A l \in Locs : l \notin old .. old + num - 1 /\ l \notin new .. new + num - 1 => W[l] = v[l]
    BY DEF MoveVectors
  <1> HIDE DEF G, W
  <1>6. \A o \in 0 .. num - 1 : old + o \in Locs
    BY DEF InRange
  <1>7. PICK s : s = RepositionPoints([graph |-> g, vec |-> v], old, new, num)
    OBVIOUS
  <1>8. s.graph = G /\ s.vec = W /\ s = [graph |-> s.graph, vec |-> s.vec]
    BY <1>4, <1>7
  <1>9. \A o \in 0 .. num - 1 : s.graph[new + o] = RenList(g[old + o], old, new, num)
    BY <1>1, <1>3, <1>6, <1>8
  <1>10. \A l \in Locs : l \notin old .. old + num - 1 /\ l \notin new .. new + num - 1
                     => s.graph[l] = RenList(g[l], old, new, num)
    BY <1>1, <1>3, <1>8
  <1> QED
    BY <1>3, <1>5, <1>7, <1>8, <1>9, <1>10 DEF IsRepositioned

\* What save() does to the layout: f frozen points go down to n and come back, and the lists
\* are as before.  No list names a slot they are moved to, and those slots have no lists.
LEMMA ThereAndBack ==
    ASSUME NEW g, NEW v, g = [l \in Locs |-> g[l]], NEW n \in 0 .. MaxPoints - 1, NEW f \in 1 .. MaxFrozen,
           \A l \in Locs : \A x \in g[l] : x \in Nat /\ x < MaxPoints + f
                                           /\ (x < MaxPoints => x \notin n .. n + f - 1),
           \A l \in n .. n + f - 1 : l < MaxPoints => g[l] = {},
           NEW s, s = RepositionPoints([graph |-> g, vec |-> v], MaxPoints, n, f),
           NEW r, r = RepositionPoints(s, n, MaxPoints, f)
    PROVE  /\ IsRepositioned(s, g, v, MaxPoints, n, f)
           /\ r.graph = g /\ r.vec = [l \in Locs |-> r.vec[l]]
           /\ \A l \in DataLocs : l \notin n .. n + f - 1 => s.vec[l] = v[l] /\ r.vec[l] = v[l]
  <1>1. /\ MaxPoints \in Nat \ {0} /\ MaxFrozen \in Nat /\ n \in Nat /\ f \in Nat \ {0} /\ f \in Nat
        /\ n < MaxPoints /\ f <= MaxFrozen /\ n # MaxPoints
    BY MaxPointsAssumption
  <1>2. InRange(MaxPoints, n, f) /\ InRange(n, MaxPoints, f)
    BY <1>1 DEF InRange, Locs
  <1>3. Unused(g, MaxPoints, n, f, {})
    BY <1>1 DEF Unused
  <1>4. IsRepositioned(s, g, v, MaxPoints, n, f)
    BY <1>1, <1>2, <1>3, Repositioned
  <1>5. Unused(s.graph, n, MaxPoints, f, {})
    BY <1>4 DEF Unused, IsRepositioned
  <1>6. IsRepositioned(r, s.graph, s.vec, n, MaxPoints, f)
    <2>1. s = [graph |-> s.graph, vec |-> s.vec] /\ s.graph = [l \in Locs |-> s.graph[l]]
      BY <1>4 DEF IsRepositioned
    <2>2. r = RepositionPoints([graph |-> s.graph, vec |-> s.vec], n, MaxPoints, f)
      BY <2>1
    <2> HIDE DEF Unused
    <2>3. PICK a, b : a = s.graph /\ b = s.vec
      OBVIOUS
    <2>4. a = [l \in Locs |-> a[l]] /\ Unused(a, n, MaxPoints, f, {}) /\ MaxPoints \in Nat
      BY <2>1, <2>3, <1>1, <1>5
    <2>5. IsRepositioned(RepositionPoints([graph |-> a, vec |-> b], n, MaxPoints, f), a, b, n, MaxPoints, f)
      BY <2>4, <1>1, <1>2, Repositioned
    <2> QED
      BY <2>2, <2>3, <2>5
  <1>7. ASSUME NEW l \in Locs PROVE RenList(RenList(g[l], MaxPoints, n, f), n, MaxPoints, f) = g[l]
    <2>1. \A x \in g[l] : Ren(Ren(x, MaxPoints, n, f), n, MaxPoints, f) = x
      BY <1>1 DEF Ren
    <2> QED
      BY <2>1 DEF RenList
  <1>8. ASSUME NEW l \in Locs PROVE r.graph[l] = g[l]
    <2>1. CASE l \in MaxPoints .. MaxPoints + f - 1
      <3>1. l - MaxPoints \in 0 .. f - 1 /\ MaxPoints + (l - MaxPoints) = l
        BY <2>1, <1>1
      <3>2. PICK o \in 0 .. f - 1 : l = MaxPoints + o
        BY <3>1
      <3>3. s.graph[n + o] = RenList(g[l], MaxPoints, n, f)
        BY <3>2, <1>4 DEF IsRepositioned
      <3>4. r.graph[l] = RenList(s.graph[n + o], n, MaxPoints, f)
        BY <3>2, <1>6 DEF IsRepositioned
      <3> QED
        BY <3>3, <3>4, <1>7
    <2>2. CASE l \notin MaxPoints .. MaxPoints + f - 1 /\ l \in n .. n + f - 1
      <3>1. r.graph[l] = {}
        BY <2>2, <1>6 DEF IsRepositioned
      <3>2. l < MaxPoints
        BY <2>2, <1>1
      <3> QED
        BY <2>2, <3>1, <3>2
    <2>3. CASE l \notin MaxPoints .. MaxPoints + f - 1 /\ l \notin n .. n + f - 1
      <3>1. s.graph[l] = RenList(g[l], MaxPoints, n, f)
        BY <2>3, <1>4 DEF IsRepositioned
      <3>2. r.graph[l] = RenList(s.graph[l], n, MaxPoints, f)
        BY <2>3, <1>6 DEF IsRepositioned
      <3> QED
        BY <3>1, <3>2, <1>7
    <2> QED
      BY <2>1, <2>2, <2>3
  <1>9. ASSUME NEW l \in DataLocs, l \notin n .. n + f - 1 PROVE s.vec[l] = v[l] /\ r.vec[l] = v[l]
    <2>1. l \in Locs /\ l \notin MaxPoints .. MaxPoints + f - 1
      BY <1>1 DEF DataLocs, Locs
    <2> QED
      BY <2>1, <1>4, <1>6, <1>9 DEF IsRepositioned
  <1>10. r.graph = g
    <2>1. r.graph = [l \in Locs |-> r.graph[l]] /\ g = [l \in Locs |-> g[l]]
      BY <1>6 DEF IsRepositioned
    <2> QED
      BY <2>1, <1>8
  <1> QED
    BY <1>4, <1>6, <1>9, <1>10 DEF IsRepositioned

LEMMA RenamedIsNoLonger ==
    ASSUME NEW list, IsFiniteSet(list), NEW old, NEW new, NEW num
    PROVE  Cardinality(RenList(list, old, new, num)) <= Cardinality(list)
  <1> DEFINE f == [l \in list |-> Ren(l, old, new, num)]
  <1>1. RenList(list, old, new, num) = {f[l] : l \in list}
    BY DEF RenList
  <1>2. f \in [list -> {f[l] : l \in list}] /\ f \in Surjection(list, {f[l] : l \in list})
    BY DEF Surjection
  <1> HIDE DEF f
  <1> QED
    BY <1>1, <1>2, FS_Surjection

\* A list of an index with n points and f frozen points, or of its files.
RowsOf(n, f) == 0 .. n + f - 1
InUse(n, f) == (0 .. n - 1) \cup FrozenLocs(f)
GoodList(list, l, S, B) == list \subseteq S /\ l \notin list /\ Cardinality(list) <= B

LEMMA IntervalsFinite == \A n, f \in Nat : IsFiniteSet(RowsOf(n, f)) /\ IsFiniteSet(InUse(n, f))
  <1>1. ASSUME NEW n \in Nat, NEW f \in Nat PROVE IsFiniteSet(RowsOf(n, f)) /\ IsFiniteSet(InUse(n, f))
    <2>1. MaxPoints \in Int /\ MaxPoints + f - 1 \in Int /\ n - 1 \in Int /\ n + f - 1 \in Int /\ 0 \in Int
      BY MaxPointsAssumption
    <2>2. IsFiniteSet(0 .. n - 1) /\ IsFiniteSet(MaxPoints .. MaxPoints + f - 1) /\ IsFiniteSet(0 .. n + f - 1)
      BY <2>1, FS_Interval
    <2> QED
      BY <2>2, FS_Union DEF RowsOf, InUse, FrozenLocs
  <1> QED
    BY <1>1

\* The rows of the files, with the frozen points next to the others.
LEMMA SavedRows ==
    ASSUME NEW g, NEW v, NEW n \in 0 .. MaxPoints - 1, NEW f \in 1 .. MaxFrozen, NEW B \in Nat,
           NEW s, IsRepositioned(s, g, v, MaxPoints, n, f),
           \A l \in InUse(n, f) : GoodList(g[l], l, InUse(n, f), B)
    PROVE  \A l \in RowsOf(n, f) : GoodList(s.graph[l], l, RowsOf(n, f), B)
  <1>1. /\ MaxPoints \in Nat /\ MaxFrozen \in Nat /\ n \in Nat /\ f \in Nat /\ f >= 1
        /\ n < MaxPoints /\ f <= MaxFrozen
    BY MaxPointsAssumption
  <1>2. IsFiniteSet(InUse(n, f))
    BY <1>1, IntervalsFinite
  <1>3. ASSUME NEW m \in InUse(n, f), NEW list, GoodList(list, m, InUse(n, f), B),
               NEW l, l = Ren(m, MaxPoints, n, f)
        PROVE  GoodList(RenList(list, MaxPoints, n, f), l, RowsOf(n, f), B)
    <2>1. \A x \in InUse(n, f) : Ren(x, MaxPoints, n, f) \in RowsOf(n, f)
                                  /\ (Ren(x, MaxPoints, n, f) = l => x = m)
      BY <1>1, <1>3 DEF InUse, FrozenLocs, RowsOf, Ren
    <2>2. list \subseteq InUse(n, f) /\ m \notin list /\ Cardinality(list) <= B
      BY <1>3 DEF GoodList
    <2>3. RenList(list, MaxPoints, n, f) \subseteq RowsOf(n, f) /\ l \notin RenList(list, MaxPoints, n, f)
      BY <2>1, <2>2 DEF RenList
    <2>4. IsFiniteSet(list)
      BY <2>2, <1>2, FS_Subset
    <2>5. IsFiniteSet(RenList(list, MaxPoints, n, f))
      BY <2>3, <1>1, IntervalsFinite, FS_Subset
    <2>6. Cardinality(RenList(list, MaxPoints, n, f)) <= Cardinality(list)
      BY <2>4, RenamedIsNoLonger
    <2>7. Cardinality(list) \in Nat /\ Cardinality(RenList(list, MaxPoints, n, f)) \in Nat
      BY <2>4, <2>5, FS_CardinalityType
    <2> QED
      BY <2>2, <2>3, <2>6, <2>7 DEF GoodList
  <1>4. ASSUME NEW l \in RowsOf(n, f) PROVE GoodList(s.graph[l], l, RowsOf(n, f), B)
    <2>1. CASE l < n
      <3>1. l \in Locs /\ l \in InUse(n, f) /\ l \notin MaxPoints .. MaxPoints + f - 1
            /\ l \notin n .. n + f - 1 /\ l = Ren(l, MaxPoints, n, f)
        BY <2>1, <1>1 DEF RowsOf, InUse, Locs, Ren
      <3>2. s.graph[l] = RenList(g[l], MaxPoints, n, f)
        BY <3>1 DEF IsRepositioned
      <3> QED
        BY <3>1, <3>2, <1>3
    <2>2. CASE ~(l < n)
      <3>1. l - n \in 0 .. f - 1 /\ l = n + (l - n)
        BY <2>2, <1>1 DEF RowsOf
      <3>2. PICK o \in 0 .. f - 1 : l = n + o
        BY <3>1
      <3>3. MaxPoints + o \in InUse(n, f) /\ l = Ren(MaxPoints + o, MaxPoints, n, f)
        BY <3>2, <1>1 DEF InUse, FrozenLocs, Ren
      <3>4. s.graph[l] = RenList(g[MaxPoints + o], MaxPoints, n, f)
        BY <3>2 DEF IsRepositioned
      <3> QED
        BY <3>3, <3>4, <1>3
    <2> QED
      BY <2>1, <2>2
  <1> QED
    BY <1>4

\* What load() makes of them: the frozen points are at the end again, and everything between
\* the points and them is empty.
IsLoaded(r, v, n, f, B) ==
    /\ r.graph = [l \in Locs |-> r.graph[l]] /\ r.vec = [l \in Locs |-> r.vec[l]]
    /\ \A l \in InUse(n, f) : GoodList(r.graph[l], l, InUse(n, f), B)
    /\ \A l \in Locs : l \notin InUse(n, f) => r.graph[l] = {}
    /\ \A l \in 0 .. n - 1 : r.vec[l] = v[l]

LEMMA LoadedLists ==
    ASSUME NEW g, NEW v, g = [l \in Locs |-> g[l]], NEW n \in 0 .. MaxPoints - 1, NEW f \in 1 .. MaxFrozen,
           NEW B \in Nat, \A l \in RowsOf(n, f) : GoodList(g[l], l, RowsOf(n, f), B),
           \A l \in Locs : l \notin RowsOf(n, f) => g[l] = {},
           NEW r, r = RepositionPoints([graph |-> g, vec |-> v], n, MaxPoints, f)
    PROVE  IsLoaded(r, v, n, f, B)
  <1>1. /\ MaxPoints \in Nat /\ MaxFrozen \in Nat /\ n \in Nat /\ f \in Nat \ {0} /\ f >= 1
        /\ n < MaxPoints /\ f <= MaxFrozen /\ n # MaxPoints
    BY MaxPointsAssumption
  <1>2. InRange(n, MaxPoints, f)
    BY <1>1 DEF InRange, Locs
  <1>3. Unused(g, n, MaxPoints, f, {})
    <2>1. \A l \in MaxPoints .. MaxPoints + f - 1 : l \in Locs /\ (l \notin n .. n + f - 1 => l \notin RowsOf(n, f))
      BY <1>1 DEF Locs, RowsOf
    <2> QED
      BY <2>1 DEF Unused
  <1>4. IsRepositioned(r, g, v, n, MaxPoints, f)
    BY <1>1, <1>2, <1>3, Repositioned
  <1>5. ASSUME NEW m \in RowsOf(n, f), NEW list, GoodList(list, m, RowsOf(n, f), B),
               NEW l, l = Ren(m, n, MaxPoints, f)
        PROVE  GoodList(RenList(list, n, MaxPoints, f), l, InUse(n, f), B)
    <2>1. \A x \in RowsOf(n, f) : Ren(x, n, MaxPoints, f) \in InUse(n, f)
                                   /\ (Ren(x, n, MaxPoints, f) = l => x = m)
      BY <1>1, <1>5 DEF InUse, FrozenLocs, RowsOf, Ren
    <2>2. list \subseteq RowsOf(n, f) /\ m \notin list /\ Cardinality(list) <= B
      BY <1>5 DEF GoodList
    <2>3. RenList(list, n, MaxPoints, f) \subseteq InUse(n, f) /\ l \notin RenList(list, n, MaxPoints, f)
      BY <2>1, <2>2 DEF RenList
    <2>4. IsFiniteSet(list)
      BY <2>2, <1>1, IntervalsFinite, FS_Subset
    <2>5. IsFiniteSet(RenList(list, n, MaxPoints, f))
      BY <2>3, <1>1, IntervalsFinite, FS_Subset
    <2>6. Cardinality(RenList(list, n, MaxPoints, f)) <= Cardinality(list)
      BY <2>4, RenamedIsNoLonger
    <2>7. Cardinality(list) \in Nat /\ Cardinality(RenList(list, n, MaxPoints, f)) \in Nat
      BY <2>4, <2>5, FS_CardinalityType
    <2> QED
      BY <2>2, <2>3, <2>6, <2>7 DEF GoodList
  <1>6. ASSUME NEW l \in 0 .. n - 1 PROVE GoodList(r.graph[l], l, InUse(n, f), B) /\ r.vec[l] = v[l]
    <2>1. l \in Locs /\ l \in RowsOf(n, f) /\ l \notin MaxPoints .. MaxPoints + f - 1
          /\ l \notin n .. n + f - 1 /\ l = Ren(l, n, MaxPoints, f)
      BY <1>1 DEF RowsOf, Locs, Ren
    <2>2. r.graph[l] = RenList(g[l], n, MaxPoints, f) /\ r.vec[l] = v[l]
      BY <2>1, <1>4 DEF IsRepositioned
    <2> QED
      BY <2>1, <2>2, <1>5
  <1>7. ASSUME NEW l \in FrozenLocs(f) PROVE GoodList(r.graph[l], l, InUse(n, f), B)
    <2>1. l - MaxPoints \in 0 .. f - 1 /\ l = MaxPoints + (l - MaxPoints)
      BY <1>1 DEF FrozenLocs
    <2>2. PICK o \in 0 .. f - 1 : l = MaxPoints + o
      BY <2>1
    <2>3. n + o \in RowsOf(n, f) /\ l = Ren(n + o, n, MaxPoints, f)
      BY <2>2, <1>1 DEF RowsOf, Ren
    <2>4. r.graph[l] = RenList(g[n + o], n, MaxPoints, f)
      BY <2>2, <1>4 DEF IsRepositioned
    <2> QED
      BY <2>3, <2>4, <1>5
  <1>8. ASSUME NEW l \in Locs, l \notin InUse(n, f) PROVE r.graph[l] = {}
    <2>1. CASE l \in n .. n + f - 1
      <3>1. l \notin MaxPoints .. MaxPoints + f - 1
        BY <1>8 DEF InUse, FrozenLocs
      <3> QED
        BY <2>1, <3>1, <1>4 DEF IsRepositioned
    <2>2. CASE l \notin n .. n + f - 1
      <3>1. l \notin MaxPoints .. MaxPoints + f - 1 /\ l \notin RowsOf(n, f)
        BY <1>1, <1>8, <2>2 DEF InUse, FrozenLocs, RowsOf, Locs
      <3>2. r.graph[l] = RenList({}, n, MaxPoints, f)
        BY <3>1, <2>2, <1>4 DEF IsRepositioned
      <3> QED
        BY <3>2 DEF RenList
    <2> QED
      BY <2>1, <2>2
  <1> QED
    BY <1>4, <1>6, <1>7, <1>8 DEF IsLoaded, IsRepositioned, InUse

-----------------------------------------------------------------------------
(* compact_data() *)

\* The new location of a point is below the old one, and that of a frozen point the same.
LEMMA NewIsBelow ==
    ASSUME NEW T, T \subseteq DataLocs, NEW f \in 0 .. MaxFrozen
    PROVE  /\ \A l \in Nat : NewLocation(l, T) \in Nat
           /\ \A l \in T \cup FrozenLocs(f) : l \in Locs /\ NewLocation(l, T) \in Locs /\ NewLocation(l, T) <= l
           /\ \A l, m \in T \cup FrozenLocs(f) : NewLocation(l, T) = NewLocation(m, T) => l = m
           /\ \A l \in T : NewLocation(l, T) < Cardinality(T)
           /\ \A l \in FrozenLocs(f) : NewLocation(l, T) = l
           /\ Cardinality(T) \in 0 .. MaxPoints
  <1>1. /\ IsFiniteSet(T) /\ Cardinality(T) \in 0 .. MaxPoints
        /\ \A l \in T : NewLocation(l, T) \in 0 .. Cardinality(T) - 1
        /\ \A l, m \in T : NewLocation(l, T) = NewLocation(m, T) => l = m
    BY NewLocations
  <1>2. MaxPoints \in Nat /\ MaxPoints >= 1 /\ MaxFrozen \in Nat /\ f \in Nat /\ f <= MaxFrozen
    BY MaxPointsAssumption
  <1>3. \A l \in FrozenLocs(f) : l \in Locs /\ l >= MaxPoints /\ NewLocation(l, T) = l
    BY <1>2 DEF FrozenLocs, Locs, NewLocation
  <1>4. \A l \in T : l \in Locs /\ l \in Nat /\ l < MaxPoints
    BY <1>2 DEF DataLocs, Locs
  <1>5. ASSUME NEW l \in Nat
        PROVE  /\ IsFiniteSet({m \in T : m < l}) /\ Cardinality({m \in T : m < l}) \in Nat
               /\ Cardinality({m \in T : m < l}) <= l
    <2>1. {m \in T : m < l} \subseteq 0 .. l - 1
      BY <1>4
    <2>2. 0 \in Int /\ l - 1 \in Int /\ (0 > l - 1 => l = 0) /\ l - 1 - 0 + 1 = l
      OBVIOUS
    <2>3. IsFiniteSet(0 .. l - 1) /\ Cardinality(0 .. l - 1) = l
      BY <2>2, FS_Interval
    <2> QED
      BY <2>1, <2>3, FS_Subset, FS_CardinalityType
  <1>6. \A l \in Nat : NewLocation(l, T) \in Nat /\ NewLocation(l, T) <= l
    BY <1>5, <1>2 DEF NewLocation
  <1>7. \A l \in T : NewLocation(l, T) \in Locs /\ NewLocation(l, T) < MaxPoints
    BY <1>1, <1>2 DEF Locs
  <1>8. \A l, m \in T \cup FrozenLocs(f) : NewLocation(l, T) = NewLocation(m, T) => l = m
    BY <1>1, <1>2, <1>3, <1>6, <1>7 DEF Locs
  <1> QED
    BY <1>1, <1>3, <1>4, <1>6, <1>7, <1>8 DEF Locs

CompactRound(s, l, T, f) ==
    IF l \in T \cup FrozenLocs(f) THEN CompactOne(s, l, T) ELSE [s EXCEPT !.graph[l] = {}]
Layouts(V) == [graph : [Locs -> SUBSET Nat], vec : [Locs -> V]]
Compacting(d, s, T, f) ==
    d[0] = s /\ \A k \in 1 .. MaxPoints + f : d[k] = CompactRound(d[k - 1], k - 1, T, f)
NewList(list, T) == {NewLocation(n, T) : n \in list \ (DataLocs \ T)}

\* One round, component by component.
RoundDone(r, s, l, T, f) ==
    /\ l \in T \cup FrozenLocs(f) => /\ r.graph[NewLocation(l, T)] = NewList(s.graph[l], T)
                                     /\ r.vec[NewLocation(l, T)] = s.vec[l]
    /\ \A m \in Locs : m # l /\ (l \in T \cup FrozenLocs(f) => m # NewLocation(l, T)) =>
          r.graph[m] = s.graph[m] /\ r.vec[m] = s.vec[m]

LEMMA OneRound ==
    ASSUME NEW T, T \subseteq DataLocs, NEW f \in 0 .. MaxFrozen, NEW V, NEW s \in Layouts(V), NEW l \in Locs
    PROVE  CompactRound(s, l, T, f) \in Layouts(V) /\ RoundDone(CompactRound(s, l, T, f), s, l, T, f)
  <1>1. s.graph \in [Locs -> SUBSET Nat] /\ s.vec \in [Locs -> V] /\ s = [graph |-> s.graph, vec |-> s.vec]
    BY DEF Layouts
  <1>2. CASE l \notin T \cup FrozenLocs(f)
    <2>1. CompactRound(s, l, T, f) = [graph |-> [s.graph EXCEPT ![l] = {}], vec |-> s.vec]
      BY <1>1, <1>2 DEF CompactRound
    <2> QED
      BY <2>1, <1>1, <1>2 DEF Layouts, RoundDone
  <1>3. CASE l \in T \cup FrozenLocs(f)
    <2>1. PICK to \in Locs : to = NewLocation(l, T)
      BY <1>3, NewIsBelow
    <2>2. NewList(s.graph[l], T) \in SUBSET Nat
      <3>1. s.graph[l] \subseteq Nat
        BY <1>1
      <3> QED
        BY <3>1, NewIsBelow DEF NewList
    <2>3. PICK h : h = [s.graph EXCEPT ![l] = NewList(s.graph[l], T)]
      OBVIOUS
    <2>4. h \in [Locs -> SUBSET Nat] /\ h[l] = NewList(s.graph[l], T) /\ \A m \in Locs : m # l => h[m] = s.graph[m]
      BY <2>2, <2>3, <1>1
    <2>5. CompactRound(s, l, T, f) = [graph |-> IF to = l THEN h ELSE [h EXCEPT ![to] = h[l], ![l] = h[to]],
                                      vec |-> [s.vec EXCEPT ![to] = s.vec[l]]]
      BY <2>1, <2>3, <1>1, <1>3 DEF CompactRound, CompactOne, Swap, NewList
    <2> QED
      BY <2>1, <2>4, <2>5, <1>1, <1>3 DEF Layouts, RoundDone
  <1> QED
    BY <1>2, <1>3

\* The loop of compact_data() goes through its rounds.
LEMMA CompactSteps ==
    ASSUME NEW T, T \subseteq DataLocs, NEW f \in 0 .. MaxFrozen, NEW V, NEW s \in Layouts(V)
    PROVE  /\ CompactRounds(s, T, f) \in [0 .. MaxPoints + f -> Layouts(V)]
           /\ Compacting(CompactRounds(s, T, f), s, T, f)
  <1> DEFINE X == Layouts(V)
             n == MaxPoints + f
             F == [p \in X \X (1 .. n) |-> CompactRound(p[1], p[2] - 1, T, f)]
             Is(d) == d = [k \in 0 .. n |-> IF k = 0 THEN s ELSE CompactRound(d[k - 1], k - 1, T, f)]
  <1>1. n \in Nat /\ \A k \in 1 .. n : k - 1 \in Locs
    BY MaxPointsAssumption DEF Locs
  <1>2. \A h \in X, k \in 1 .. n : CompactRound(h, k - 1, T, f) \in X
    BY <1>1, OneRound
  <1>3. F \in [X \X (1 .. n) -> X] /\ \A h \in X, k \in 1 .. n : F[<<h, k>>] = CompactRound(h, k - 1, T, f)
    BY <1>2
  <1>4. CompactRounds(s, T, f) = CHOOSE e : Is(e)
    BY DEF CompactRounds, CompactRound
  <1> HIDE DEF F, X, n
  <1>5. PICK d \in [0 .. n -> X] : d[0] = s /\ \A k \in 1 .. n : d[k] = F[<<d[k - 1], k>>]
    <2>1. s \in X
      BY DEF X
    <2>2. \E d \in [0 .. n -> X] : IsLoop(d, s, n, F)
      BY <1>1, <1>3, <2>1, LoopStates
    <2> QED
      BY <2>2 DEF IsLoop
  <1>6. Is(d)
    <2>1. \A k \in 0 .. n : k = 0 \/ k \in 1 .. n
      BY <1>1
    <2>2. ASSUME NEW k \in 1 .. n PROVE d[k] = CompactRound(d[k - 1], k - 1, T, f)
      <3>1. k - 1 \in 0 .. n
        BY <1>1
      <3> QED
        BY <3>1, <1>3, <1>5
    <2> QED
      BY <2>1, <2>2, <1>5
  <1> HIDE DEF Is
  <1>7. PICK e : e = CompactRounds(s, T, f) /\ Is(e)
    BY <1>4, <1>6
  <1>8. /\ e = [k \in 0 .. n |-> e[k]] /\ e[0] = s
        /\ \A k \in 1 .. n : e[k] = CompactRound(e[k - 1], k - 1, T, f)
    <2>1. 0 \in 0 .. n /\ \A k \in 1 .. n : k \in 0 .. n /\ k # 0
      BY <1>1
    <2> QED
      BY <2>1, <1>7 DEF Is
  <1> DEFINE S == {k \in 0 .. n : e[k] \in X}
  <1>9. \A k \in 0 .. n : k \in S
    <2>1. 0 \in S
      BY <1>1, <1>8 DEF X
    <2>2. ASSUME NEW k \in 1 .. n, k - 1 \in S PROVE k \in S
      <3>1. e[k - 1] \in X /\ k \in 0 .. n
        BY <2>2, <1>1
      <3>2. CompactRound(e[k - 1], k - 1, T, f) \in X
        BY <3>1, <1>2
      <3> QED
        BY <3>1, <3>2, <1>8
    <2> HIDE DEF S
    <2> QED
      BY <2>1, <2>2, <1>1, Rounds
  <1>10. e \in [0 .. n -> X]
    BY <1>8, <1>9
  <1> QED
    BY <1>7, <1>8, <1>10 DEF X, n, Compacting

\* After compact_data() the list and the vector of a point are at its new location, its
\* neighbours renamed; what is left above the points is empty.
IsCompacted(c, s, T, f) ==
    /\ c = [graph |-> c.graph, vec |-> c.vec]
    /\ c.graph = [l \in Locs |-> c.graph[l]] /\ c.vec = [l \in Locs |-> c.vec[l]]
    /\ \A l \in T \cup FrozenLocs(f) : /\ c.graph[NewLocation(l, T)] = NewList(s.graph[l], T)
                                       /\ c.vec[NewLocation(l, T)] = s.vec[l]
    /\ \A l \in Cardinality(T) .. MaxPoints - 1 : c.graph[l] = {}
    /\ \A l \in Locs : l >= MaxPoints + f => c.graph[l] = s.graph[l]

LEMMA CompactedLists ==
    ASSUME NEW T, T \subseteq DataLocs, NEW f \in 0 .. MaxFrozen, NEW V, NEW s \in Layouts(V)
    PROVE  IsCompacted(Compact(s, T, f), s, T, f)
  <1>1. PICK d \in [0 .. MaxPoints + f -> Layouts(V)] : d = CompactRounds(s, T, f) /\ Compacting(d, s, T, f)
    BY CompactSteps
  <1>2. MaxPoints \in Nat /\ MaxFrozen \in Nat /\ f \in Nat /\ f <= MaxFrozen /\ MaxPoints + f \in Nat
    BY MaxPointsAssumption
  <1> DEFINE A == T \cup FrozenLocs(f)
             New(l) == NewLocation(l, T)
             P(k) == /\ \A l \in A : l < k => /\ d[k].graph[New(l)] = NewList(s.graph[l], T)
                                              /\ d[k].vec[New(l)] = s.vec[l]
                     /\ \A l \in Locs : l >= k => d[k].graph[l] = s.graph[l] /\ d[k].vec[l] = s.vec[l]
             S == {k \in 0 .. MaxPoints + f : P(k)}
  <1>3. /\ \A l \in A : l \in Locs /\ New(l) \in Locs /\ New(l) <= l /\ l \in Nat /\ New(l) \in Nat
        /\ \A l, m \in A : New(l) = New(m) => l = m
    <2>1. /\ \A l \in A : l \in Locs /\ New(l) \in Locs /\ New(l) <= l
          /\ \A l, m \in A : New(l) = New(m) => l = m
      BY NewIsBelow
    <2>2. \A l \in Locs : l \in Nat
      BY <1>2 DEF Locs
    <2> HIDE DEF A, New
    <2> QED
      BY <2>1, <2>2
  <1>4. 0 \in S
    <2>1. d[0] = s
      BY <1>1 DEF Compacting
    <2> QED
      BY <2>1, <1>2, <1>3
  <1>5. ASSUME NEW k \in 1 .. MaxPoints + f, k - 1 \in S PROVE k \in S
    <2>1. PICK j \in 0 .. MaxPoints + f : j = k - 1 /\ j \in Nat /\ k = j + 1 /\ j \in Locs
      BY <1>2 DEF Locs
    <2>2. P(j) /\ d[j] \in Layouts(V) /\ d[k] = CompactRound(d[j], j, T, f)
      BY <2>1, <1>1, <1>5 DEF Compacting
    <2> HIDE DEF A, New
    <2>3. /\ j \in A => /\ d[k].graph[New(j)] = NewList(d[j].graph[j], T) /\ d[k].vec[New(j)] = d[j].vec[j]
          /\ \A m \in Locs : m # j /\ (j \in A => m # New(j)) =>
                d[k].graph[m] = d[j].graph[m] /\ d[k].vec[m] = d[j].vec[m]
      <3>1. PICK a \in Layouts(V) : a = d[j]
        BY <2>2
      <3>2. PICK b : b = CompactRound(a, j, T, f)
        OBVIOUS
      <3>3. RoundDone(b, a, j, T, f)
        BY <3>2, <2>1, OneRound
      <3> QED
        BY <3>1, <3>2, <3>3, <2>2 DEF A, New, RoundDone
    <2>4. d[j].graph[j] = s.graph[j] /\ d[j].vec[j] = s.vec[j]
      BY <2>1, <2>2
    <2>5. ASSUME NEW l \in A, l < k PROVE d[k].graph[New(l)] = NewList(s.graph[l], T) /\ d[k].vec[New(l)] = s.vec[l]
      <3>1. CASE l = j
        BY <3>1, <2>3, <2>4
      <3>2. CASE l # j
        <4>1. l < j /\ New(l) # j /\ New(l) \in Locs /\ (j \in A => New(l) # New(j))
          BY <3>2, <2>1, <2>5, <1>3
        <4> QED
          BY <4>1, <2>2, <2>3
      <3> QED
        BY <3>1, <3>2
    <2>6. ASSUME NEW l \in Locs, l >= k PROVE d[k].graph[l] = s.graph[l] /\ d[k].vec[l] = s.vec[l]
      <3>1. l # j /\ l >= j /\ (j \in A => l # New(j))
        BY <2>1, <2>6, <1>3 DEF Locs
      <3> QED
        BY <3>1, <2>2, <2>3
    <2> QED
      BY <2>5, <2>6
  <1>6. MaxPoints + f \in S
    <2>1. 0 \in 0 .. MaxPoints + f /\ MaxPoints + f \in 0 .. MaxPoints + f
      BY <1>2
    <2> HIDE DEF S
    <2> QED
      BY <2>1, <1>2, <1>4, <1>5, Rounds
  <1>7. PICK e \in Layouts(V) : e = d[MaxPoints + f] /\ e = CompactAll(s, T, f)
    BY <1>1, <1>2 DEF CompactAll
  <1>8. /\ \A l \in A : e.graph[New(l)] = NewList(s.graph[l], T) /\ e.vec[New(l)] = s.vec[l]
        /\ \A l \in Locs : l >= MaxPoints + f => e.graph[l] = s.graph[l]
    <2>1. \A l \in A : l < MaxPoints + f
      BY <1>2 DEF FrozenLocs, DataLocs
    <2> HIDE DEF A, New
    <2> QED
      BY <2>1, <1>6, <1>7
  <1>9. e.graph \in [Locs -> SUBSET Nat] /\ e.vec \in [Locs -> V] /\ e = [graph |-> e.graph, vec |-> e.vec]
    BY DEF Layouts
  <1>10. PICK c : c = Compact(s, T, f)
    OBVIOUS
  <1>11. c = [graph |-> [l \in Locs |-> IF l \in Cardinality(T) .. MaxPoints - 1 THEN {} ELSE e.graph[l]],
              vec |-> e.vec]
    <2>1. PICK q, w : q = e.graph /\ w = e.vec /\ e = [graph |-> q, vec |-> w]
      BY <1>9
    <2>2. c = [e EXCEPT !.graph = [l \in Locs |-> IF l \in Cardinality(T) .. MaxPoints - 1 THEN {} ELSE e.graph[l]]]
      BY <1>7, <1>10 DEF Compact
    <2> QED
      BY <2>1, <2>2
  <1>12. \A l \in A : New(l) \notin Cardinality(T) .. MaxPoints - 1
    <2>1. /\ \A l \in T : New(l) \in Nat /\ New(l) < Cardinality(T)
          /\ \A l \in FrozenLocs(f) : New(l) = l
          /\ Cardinality(T) \in 0 .. MaxPoints
      BY <1>3, NewIsBelow
    <2> QED
      BY <2>1, <1>2 DEF FrozenLocs
  <1>13. Cardinality(T) \in Nat /\ \A l \in Cardinality(T) .. MaxPoints - 1 : l \in Locs
    BY <1>2, NewIsBelow DEF Locs
  <1>14. \A l \in Locs : l >= MaxPoints + f => l \notin Cardinality(T) .. MaxPoints - 1
    BY <1>2 DEF Locs
  <1> HIDE DEF A, New
  <1>15. \A l \in A : /\ c.graph[New(l)] = NewList(s.graph[l], T) /\ c.vec[New(l)] = s.vec[l]
    BY <1>3, <1>8, <1>11, <1>12
  <1>16. \A l \in Cardinality(T) .. MaxPoints - 1 : c.graph[l] = {}
    BY <1>11, <1>13
  <1>17. \A l \in Locs : l >= MaxPoints + f => c.graph[l] = s.graph[l]
    BY <1>8, <1>11, <1>14
  <1> QED
    <2>1. c = [graph |-> c.graph, vec |-> c.vec] /\ c.graph = [l \in Locs |-> c.graph[l]] /\ c.vec = e.vec
      BY <1>11
    <2>2. c.vec = [l \in Locs |-> c.vec[l]]
      BY <2>1, <1>9
    <2>3. IsCompacted(c, s, T, f)
      BY <2>1, <2>2, <1>15, <1>16, <1>17 DEF IsCompacted, A, New
    <2> QED
      BY <2>3, <1>10

-----------------------------------------------------------------------------
(***************************************************************************)
(* The graph.  A slot is free when no point is in it, and a node is linked *)
(* when a search may reach it: all but the free slots and those that are   *)
(* being filled.  In the build every point is linked from the start.       *)
(***************************************************************************)
Nodes == DataLocs \cup Frozen
Free == DataLocs \ (Tagged \cup delete_set \cup old_delete_set)
BeingFilled == IF phase = "ready" THEN Filling ELSE {}
Linked == Nodes \ (Free \cup BeingFilled)
Inserting(t) == pc[t] \in {"vector", "search", "links", "inter_insert", "prune"}

\* A damaged index has left no files that may be loaded.
Loadable == files # NoFile /\ files.sound

Domains ==
    /\ DOMAIN loc = Threads /\ DOMAIN tag = Threads /\ DOMAIN seen = Threads
    /\ DOMAIN expanded = Threads /\ DOMAIN pruned = Threads /\ DOMAIN des = Threads
    /\ DOMAIN copied = Threads
    /\ vec = [l \in Locs |-> vec[l]]
    /\ next_loc \in 0 .. MaxPoints + mode.frozen

\* What the phases say about the points and the threads: before the build there is nothing,
\* in it the points are the first nd slots, and a static index is always full.
Phases ==
    /\ phase = "new" => node_ctr = 0 /\ Tagged = {} /\ ~Loadable /\ \A l \in Locs : graph[l] = {}
    /\ phase \in {"link", "cleanup"} => node_ctr \in 0 .. nd + mode.frozen /\ Tagged = 0 .. nd - 1
    /\ phase # "new" => mode.dynamic \/ nd = MaxPoints
    /\ ~mode.dynamic => delete_set = {} /\ old_delete_set = {} /\ (phase # "new" => Tagged = DataLocs)
    /\ phase # "ready" => data_compacted /\ node_ctr \in Nat
    /\ phase \in {"new", "cleanup"} => Idle

\* Searches start at the frozen points, or at a point of a static index.  As long as the
\* data counts as compacted nothing has been deleted, and the free slots are unused.
Entry ==
    /\ IF mode.frozen > 0 THEN start = MaxPoints ELSE phase # "new" => start \in DataLocs
    /\ data_compacted => /\ delete_set = {} /\ old_delete_set = {}
                         /\ \A l \in Free : graph[l] = {}
                         /\ \A t \in Threads : pc[t] # "rewrite"

\* What a thread has in hand.
ThreadOK(t) ==
    /\ expanded[t] \subseteq Nodes /\ pruned[t] \subseteq Nodes /\ copied[t] \subseteq Nodes
    /\ pc[t] \in {"search", "query"} => Met(t) \subseteq Nodes
    /\ pc[t] \notin {"search", "query"} => expanded[t] = {}
    /\ Inserting(t) => loc[t] \in Nodes
    /\ pc[t] = "vector" => phase = "ready"
    /\ pc[t] = "query" => phase = "ready"
    /\ Inserting(t) /\ phase = "ready" => mode.dynamic /\ loc[t] \in DataLocs
    /\ pc[t] \in {"links", "inter_insert", "prune"} =>
           loc[t] \notin pruned[t] /\ Cardinality(pruned[t]) <= R
    /\ pc[t] \in {"prune", "rewrite"} => des[t] \in Nodes
    /\ pc[t] = "rewrite" => des[t] \notin copied[t]
Locals == \A t \in Threads : ThreadOK(t)

\* Lists stay short and no node is its own neighbour.
Degrees ==
    /\ graph = [l \in Locs |-> graph[l]]
    /\ \A l \in Nodes : GoodList(graph[l], l, Nodes, SlackRange)
    /\ \A l \in Locs \ Nodes : graph[l] = {}
    /\ phase = "cleanup" => \A i \in 0 .. node_ctr - 1 : Cardinality(graph[VisitOrder(i)]) <= R

\* Where slots are not used again while somebody may hold them: without concurrent
\* consolidation, or as long as nothing has been deleted.
Calm == ~mode.conc \/ data_compacted

\* Linked nodes lead to linked nodes, and threads have only linked nodes in hand.
HandLinked(t) ==
    /\ pc[t] \in {"search", "query"} => Met(t) \subseteq Linked /\ expanded[t] \subseteq Linked
    /\ pc[t] \in {"links", "inter_insert", "prune"} => pruned[t] \subseteq Linked
    /\ pc[t] = "prune" => copied[t] \subseteq Linked /\ des[t] \in Linked
    /\ Inserting(t) => loc[t] \notin Free
    /\ pc[t] \in {"inter_insert", "prune"} => loc[t] \in Linked
OneEach == phase = "ready" =>
             \A t, u \in Threads : Inserting(t) /\ Inserting(u) /\ loc[t] = loc[u] => t = u
Closed ==
    Calm => /\ \A l \in Linked : graph[l] \subseteq Linked
            /\ \A t \in Threads : HandLinked(t)
            /\ OneEach

\* Without concurrent consolidation it runs alone, and the lists before next_loc are
\* free of the points it removes.
Removes(t) ==
    /\ \A u \in Threads : ~InsertsOrSearches(u) /\ (Consolidates(u) => u = t)
    /\ \A l \in 0 .. next_loc - 1 : l \in Linked \ old_delete_set /\ (pc[t] = "rewrite" => l # des[t])
                                      => graph[l] \cap old_delete_set = {}
    /\ pc[t] = "rewrite" => /\ des[t] \in 0 .. next_loc - 1 /\ des[t] \in Linked
                            /\ copied[t] \subseteq Linked \ old_delete_set
Removed == ~mode.conc => \A t \in Threads : Consolidates(t) => Removes(t)

\* Without concurrent consolidation a tagged slot holds the vector of its tag once it is
\* linked, and a query has met the vectors of the tags that are still there.
Filled(l) == vec[l] = location_to_tag[l] \/ \E t \in Threads : pc[t] = "vector" /\ loc[t] = l
HasMet(t) == /\ pc[t] = "vector" => location_to_tag[loc[t]] \in {tag[t], NoTag}
             /\ pc[t] = "query" => \A p \in seen[t] : p[1] \in Tagged => p[2] = location_to_tag[p[1]]
Vectors == ~mode.conc => (\A l \in Tagged : Filled(l)) /\ (\A t \in Threads : HasMet(t))

\* What load() will find in the files of a sound save.
FilesGraph ==
    Loadable =>
        /\ ~mode.dynamic => files.nd = MaxPoints
        /\ DOMAIN files.graph = RowsOf(files.nd, mode.frozen)
        /\ \A l \in RowsOf(files.nd, mode.frozen) :
               GoodList(files.graph[l], l, RowsOf(files.nd, mode.frozen), SlackRange)
        /\ ~mode.conc => \A l \in 0 .. files.nd - 1 : files.vec[l] = files.tags[l]
        /\ files.nd = MaxPoints =>
               IF mode.frozen > 0 THEN files.start = MaxPoints ELSE files.start \in DataLocs

Sane == Domains /\ Phases /\ Entry /\ Locals /\ Degrees /\ Closed /\ Removed /\ Vectors /\ FilesGraph
GraphInv == IF damaged THEN ~Loadable ELSE Sane

-----------------------------------------------------------------------------
(* Facts about nodes and lists *)

LEMMA Numbers == /\ MaxPoints \in Nat /\ MaxPoints >= 1 /\ MaxFrozen \in Nat
                 /\ R \in Nat /\ SlackRange \in Nat /\ R <= SlackRange
  <1>1. R \in Nat /\ SlackTenths \in Nat /\ SlackTenths >= 10
    BY DegreeAssumption
  <1>2. SlackTenths * R >= 10 * R
    BY <1>1
  <1>3. \A x \in Nat : x >= 10 * R => x \div 10 \in Nat /\ x \div 10 >= R
    BY <1>1
  <1>4. SlackTenths * R \in Nat
    BY <1>1
  <1> QED
    BY <1>1, <1>2, <1>3, <1>4, MaxPointsAssumption DEF SlackRange

LEMMA ModeFacts ==
    ASSUME TypeOK
    PROVE  /\ mode.frozen \in Nat /\ mode.frozen \in 0 .. MaxFrozen /\ (mode.dynamic => mode.frozen > 0)
           /\ nd \in Nat /\ nd <= MaxPoints
           /\ Nodes = 0 .. MaxPoints + mode.frozen - 1 /\ Nodes = InUse(MaxPoints, mode.frozen)
           /\ Nodes = RowsOf(MaxPoints, mode.frozen)
           /\ Nodes \subseteq Locs /\ DataLocs \subseteq Nodes /\ Frozen \subseteq Nodes
           /\ Tagged \subseteq DataLocs /\ Frozen \cap DataLocs = {}
  <1>1. mode.frozen \in 0 .. MaxFrozen /\ (mode.dynamic => mode.frozen > 0)
    BY ModesAssumption DEF TypeOK
  <1>2. nd \in Nat /\ nd <= MaxPoints
    BY Numbers DEF TypeOK
  <1> QED
    BY <1>1, <1>2, Numbers DEF Nodes, InUse, RowsOf, Locs, DataLocs, Frozen, FrozenLocs, Tagged

\* Lists are finite, and pruning keeps at most R of them.
LEMMA Lists ==
    ASSUME TypeOK
    PROVE  /\ IsFiniteSet(Nodes)
           /\ \A s \in SUBSET Nodes : IsFiniteSet(s) /\ Cardinality(s) \in Nat
           /\ \A pool \in SUBSET Nodes : \A s \in Prune(pool) :
                 s \subseteq pool /\ Cardinality(s) <= R /\ Cardinality(s) \in Nat
  <1>1. IsFiniteSet(Nodes)
    BY ModeFacts, Numbers, IntervalsFinite
  <1>2. \A s \in SUBSET Nodes : IsFiniteSet(s) /\ Cardinality(s) \in Nat
    BY <1>1, FS_Subset, FS_CardinalityType
  <1>3. ASSUME NEW pool \in SUBSET Nodes, NEW s \in Prune(pool)
        PROVE  s \subseteq pool /\ Cardinality(s) <= R
    <2>1. CASE pool = {}
      <3>1. s = {}
        BY <2>1 DEF Prune
      <3> QED
        BY <3>1, FS_EmptySet, Numbers
    <2>2. CASE pool # {}
      BY <2>2 DEF Prune
    <2> QED
      BY <2>1, <2>2
  <1> QED
    BY <1>1, <1>2, <1>3

\* Of a thread nothing changes.
Same(u) == /\ pc'[u] = pc[u] /\ loc'[u] = loc[u] /\ tag'[u] = tag[u] /\ seen'[u] = seen[u]
           /\ expanded'[u] = expanded[u] /\ pruned'[u] = pruned[u] /\ des'[u] = des[u]
           /\ copied'[u] = copied[u]

LEMMA OthersKeep ==
    ASSUME NEW u, Same(u), UNCHANGED <<mode, phase>>
    PROVE  /\ ThreadOK(u) => ThreadOK(u)'
           /\ Linked \subseteq Linked' /\ Free' \subseteq Free /\ HandLinked(u) => HandLinked(u)'
           /\ UNCHANGED location_to_tag /\ HasMet(u) => HasMet(u)'
           /\ Inserting(u)' <=> Inserting(u)
           /\ InsertsOrSearches(u)' <=> InsertsOrSearches(u)
           /\ Consolidates(u)' <=> Consolidates(u)
  <1>1. Met(u)' = Met(u) /\ Nodes' = Nodes /\ (Inserting(u)' <=> Inserting(u))
    BY DEF Same, Met, Nodes, Frozen, Inserting
  <1>2. ThreadOK(u) => ThreadOK(u)'
    BY <1>1 DEF ThreadOK, Same
  <1>3. Linked \subseteq Linked' /\ Free' \subseteq Free /\ HandLinked(u) => HandLinked(u)'
    BY <1>1 DEF HandLinked, Same
  <1>4. UNCHANGED location_to_tag /\ HasMet(u) => HasMet(u)'
    BY DEF HasMet, Same, Tagged
  <1> QED
    BY <1>1, <1>2, <1>3, <1>4 DEF Same, InsertsOrSearches, Consolidates

-----------------------------------------------------------------------------
(* Steps of one thread that leave the points alone *)

\* What is left to show for such a step: the thread's own state and the lists it writes.
PointsAlone == UNCHANGED <<mode, points, phase, files>> /\ phase \in {"link", "ready"}
               /\ (phase = "link" => node_ctr' \in 0 .. nd + mode.frozen)
NoConsolidation == ~mode.conc => \A u \in Threads : ~Consolidates(u)
Aside(t) == /\ {pc[t], pc'[t]} \subseteq {"idle", "checked", "query"} /\ UNCHANGED <<graph, next_loc>>
            /\ (pc'[t] = "query" => pc[t] = "query")
ListsStayLinked == Linked \subseteq Linked' /\ \A l \in Linked' : graph'[l] \subseteq Linked'

LEMMA StepKeeps ==
    ASSUME Inv, Sane, NEW t \in Threads, \A u \in Threads : u # t => Same(u), PointsAlone,
           Domains', ThreadOK(t)', Degrees', Calm => ListsStayLinked /\ HandLinked(t)',
           Inserting(t)' /\ phase = "ready" => Inserting(t) /\ loc'[t] = loc[t],
           NoConsolidation \/ Aside(t), pc'[t] \notin {"consolidate", "rewrite"},
           data_compacted => \A l \in Free : graph'[l] = {},
           ~mode.conc => (\A l \in Tagged : Filled(l)') /\ HasMet(t)'
    PROVE  Sane'
  <1>1. /\ UNCHANGED <<location_to_tag, tag_to_location, empty_slots, delete_set, old_delete_set, nd, start,
                       data_compacted, mode, phase, files>>
        /\ phase \in {"link", "ready"}
    BY DEF PointsAlone, points
  <1>2. /\ Tagged' = Tagged /\ Free' = Free /\ Nodes' = Nodes /\ (Loadable' <=> Loadable) /\ (Calm' <=> Calm)
    BY <1>1 DEF Tagged, Free, Nodes, Frozen, Loadable, Calm
  <1>3. Phases'
    BY <1>1, <1>2 DEF Sane, Phases, PointsAlone
  <1>4. Entry'
    <2>1. \A u \in Threads : data_compacted => pc'[u] # "rewrite"
      BY DEF Sane, Entry, Same
    <2> QED
      BY <2>1, <1>1, <1>2 DEF Sane, Entry
  <1>5. Locals'
    BY <1>1, OthersKeep DEF Sane, Locals
  <1>6. Closed'
    <2>1. SUFFICES ASSUME Calm PROVE ListsStayLinked /\ (\A u \in Threads : HandLinked(u)') /\ OneEach'
      BY <1>2 DEF Closed, ListsStayLinked
    <2>2. \A u \in Threads : HandLinked(u)'
      BY <2>1, <1>1, <1>2, OthersKeep DEF Sane, Closed, ListsStayLinked
    <2>3. ASSUME phase = "ready", NEW u \in Threads, NEW w \in Threads, Inserting(u)', Inserting(w)', loc'[u] = loc'[w]
          PROVE  u = w
      <3>1. \A x \in Threads : Inserting(x)' => Inserting(x) /\ loc'[x] = loc[x]
        BY <2>3, <1>1, OthersKeep DEF Same
      <3>2. Inserting(u) /\ Inserting(w) /\ loc[u] = loc[w]
        BY <3>1, <2>3
      <3> QED
        BY <3>2, <2>1, <2>3 DEF Sane, Closed, OneEach
    <2> QED
      BY <2>1, <2>2, <2>3, <1>1 DEF OneEach
  <1>7. Removed'
    <2>1. SUFFICES ASSUME ~mode.conc, NEW u \in Threads, Consolidates(u)' PROVE Removes(u)'
      BY <1>1 DEF Removed
    <2>2. u # t /\ Consolidates(u) /\ Same(u)
      <3>1. u # t
        BY <2>1 DEF Consolidates
      <3> QED
        BY <3>1, <2>1, <1>1, OthersKeep
    <2>3. Aside(t)
      BY <2>1, <2>2 DEF NoConsolidation
    <2>4. Removes(u) /\ Same(u)
      BY <2>1, <2>2 DEF Sane, Removed
    <2>5. \A x \in Threads : ~InsertsOrSearches(x)' /\ (Consolidates(x)' => x = u)
      <3>1. ASSUME NEW x \in Threads, x # t PROVE ~InsertsOrSearches(x)' /\ (Consolidates(x)' => x = u)
        BY <3>1, <2>4, <1>1, OthersKeep DEF Removes
      <3>2. pc[t] # "query"
        BY <2>4 DEF Removes, InsertsOrSearches
      <3>3. ~InsertsOrSearches(t)' /\ ~Consolidates(t)'
        BY <3>2, <2>3 DEF Aside, InsertsOrSearches, Consolidates
      <3> QED
        BY <3>1, <3>3
    <2>6. Filling' = Filling
      <3>1. {x \in Threads : pc'[x] \in {"vector", "search", "links"}} = {}
        BY <2>5 DEF InsertsOrSearches
      <3>2. {x \in Threads : pc[x] \in {"vector", "search", "links"}} = {}
        BY <2>4 DEF Removes, InsertsOrSearches
      <3> QED
        BY <3>1, <3>2 DEF Filling
    <2>7. Linked' = Linked
      BY <2>6, <1>1, <1>2 DEF Linked, BeingFilled
    <2> QED
      BY <2>3, <2>4, <2>5, <2>7, <1>1 DEF Removes, Same, Aside
  <1>8. Vectors'
    <2>1. \A u \in Threads : u # t /\ HasMet(u) => HasMet(u)'
      BY <1>1, OthersKeep
    <2> QED
      BY <2>1, <1>1, <1>2 DEF Sane, Vectors
  <1>9. FilesGraph'
    BY <1>1, <1>2 DEF Sane, FilesGraph
  <1> QED
    BY <1>3, <1>4, <1>5, <1>6, <1>7, <1>8, <1>9 DEF Sane

FillingLabels == {"vector", "search", "links"}
FillsSame(t) == /\ pc'[t] \in FillingLabels <=> pc[t] \in FillingLabels
                /\ pc[t] \in FillingLabels => loc'[t] = loc[t]

LEMMA LinkedStays ==
    ASSUME NEW t \in Threads, \A u \in Threads : u # t => Same(u), PointsAlone,
           phase = "ready" => FillsSame(t)
    PROVE  Linked' = Linked /\ Free' = Free /\ Tagged' = Tagged /\ Nodes' = Nodes /\ InitIds' = InitIds
           /\ Frozen' = Frozen
  <1>1. UNCHANGED <<location_to_tag, delete_set, old_delete_set, start, mode, phase>>
    BY DEF PointsAlone, points
  <1>2. phase = "ready" => Filling' = Filling
    <2>1. ASSUME phase = "ready", NEW u \in Threads
          PROVE  /\ pc'[u] \in FillingLabels <=> pc[u] \in FillingLabels
                 /\ pc[u] \in FillingLabels => loc'[u] = loc[u]
      BY <2>1 DEF Same, FillsSame
    <2> QED
      BY <2>1 DEF Filling, FillingLabels
  <1> QED
    BY <1>1, <1>2 DEF Linked, Free, Tagged, Nodes, Frozen, BeingFilled, InitIds

\* Neither lists nor vectors change.
LEMMA QuietStep ==
    ASSUME Inv, Sane, NEW t \in Threads, \A u \in Threads : u # t => Same(u), PointsAlone,
           UNCHANGED <<graph, vec>>, Domains', ThreadOK(t)',
           phase = "ready" => FillsSame(t), Calm => HandLinked(t)',
           Inserting(t)' /\ phase = "ready" => Inserting(t) /\ loc'[t] = loc[t],
           NoConsolidation \/ Aside(t), pc'[t] \notin {"consolidate", "rewrite"},
           pc[t] # "vector", pc'[t] # "vector", ~mode.conc => HasMet(t)'
    PROVE  Sane'
  <1>1. Linked' = Linked /\ Free' = Free /\ Tagged' = Tagged /\ Nodes' = Nodes
    BY LinkedStays
  <1>2. UNCHANGED <<location_to_tag, nd, mode, phase>> /\ phase \in {"link", "ready"}
    BY DEF PointsAlone, points
  <1>3. Degrees'
    BY <1>1, <1>2 DEF Sane, Degrees
  <1>4. Calm => ListsStayLinked
    BY <1>1 DEF Sane, Closed, ListsStayLinked
  <1>5. data_compacted => \A l \in Free : graph'[l] = {}
    BY DEF Sane, Entry
  <1>6. ~mode.conc => \A l \in Tagged : Filled(l)'
    <2>1. \A u \in Threads : pc[u] = "vector" => pc'[u] = "vector" /\ loc'[u] = loc[u]
      BY DEF Same
    <2> QED
      BY <2>1, <1>2 DEF Sane, Vectors, Filled
  <1> QED
    BY <1>3, <1>4, <1>5, <1>6, StepKeeps

\* The entry points of a search are linked.
LEMMA InitIdsLinked ==
    ASSUME Inv, Sane, phase \in {"link", "ready"} PROVE InitIds \subseteq Linked /\ InitIds \subseteq Nodes
  <1>1. TypeOK
    BY DEF Inv
  <1>2. Frozen \cap Free = {} /\ Frozen \subseteq Nodes
    BY <1>1, ModeFacts DEF Free
  <1>3. ASSUME NEW l \in BeingFilled PROVE mode.dynamic /\ l \in DataLocs
    <2>1. PICK t \in Threads : phase = "ready" /\ pc[t] \in FillingLabels /\ loc[t] = l
      BY <1>3 DEF BeingFilled, Filling, FillingLabels
    <2>2. Inserting(t)
      BY <2>1 DEF Inserting, FillingLabels
    <2> QED
      BY <2>1, <2>2 DEF Sane, Locals, ThreadOK
  <1>4. Frozen \subseteq Linked
    BY <1>1, <1>2, <1>3, ModeFacts DEF Linked
  <1>5. CASE mode.frozen > 0
    <2>1. start = MaxPoints /\ MaxPoints \in Frozen
      BY <1>1, <1>5, ModeFacts, Numbers DEF Sane, Entry, Frozen, FrozenLocs
    <2> QED
      BY <2>1, <1>2, <1>4 DEF InitIds
  <1>6. CASE ~(mode.frozen > 0)
    <2>1. ~mode.dynamic /\ start \in DataLocs
      BY <1>1, <1>6, ModeFacts DEF Sane, Entry
    <2>2. Tagged = DataLocs
      BY <2>1 DEF Sane, Phases
    <2>3. start \in Linked /\ start \in Nodes
      BY <1>1, <1>3, <2>1, <2>2, ModeFacts DEF Linked, Free
    <2> QED
      BY <2>3, <1>2, <1>4 DEF InitIds
  <1> QED
    BY <1>5, <1>6

Firsts(P) == {p[1] : p \in P}
Pairs(S, D) == {<<l, D[l]>> : l \in S}
LEMMA StartSeen == ASSUME NEW S, NEW D PROVE Firsts(Pairs(S, D)) = S
  <1>1. ASSUME NEW l \in S PROVE \E p \in {<<m, D[m]>> : m \in S} : p[1] = l
    <2>1. <<l, D[l]>> \in {<<m, D[m]>> : m \in S} /\ <<l, D[l]>>[1] = l
      OBVIOUS
    <2> QED
      BY <2>1
  <1>2. \A p \in {<<m, D[m]>> : m \in S} : p[1] \in S
    OBVIOUS
  <1> QED
    BY <1>1, <1>2 DEF Firsts, Pairs

LEMMA LinkNodeSane == ASSUME Inv, Sane, NEW t \in Threads, LinkNode(t) PROVE Sane'
  <1> USE DEF Inv, Sane
  <1>1. /\ PointsAlone /\ UNCHANGED <<graph, vec>> /\ phase = "link" /\ pc[t] = "idle"
    <2>1. node_ctr \in 0 .. nd + mode.frozen /\ node_ctr < nd + mode.frozen /\ node_ctr' = node_ctr + 1
      BY DEF LinkNode, Phases, NumVisits
    <2>2. node_ctr' \in 0 .. nd + mode.frozen
      BY <2>1, ModeFacts
    <2> QED
      BY <2>2 DEF LinkNode, PointsAlone, disk
  <1>2. \A u \in Threads : u # t => Same(u)
    BY DEF LinkNode, Same, Goto, Domains, TypeOK
  <1>3. /\ pc'[t] = "search" /\ loc'[t] = VisitOrder(node_ctr) /\ expanded'[t] = expanded[t]
        /\ seen'[t] = {<<l, Zero>> : l \in InitIds} /\ pruned' = pruned /\ copied' = copied
    BY DEF LinkNode, Goto, Domains, TypeOK
  <1>4. Domains'
    BY DEF LinkNode, Domains
  <1>5. Linked' = Linked /\ Free' = Free /\ Nodes' = Nodes /\ InitIds \subseteq Linked /\ InitIds \subseteq Nodes
    BY <1>1, <1>2, LinkedStays, InitIdsLinked
  <1>6. Met(t)' = InitIds
    <2> DEFINE D == [l \in InitIds |-> Zero]
    <2>1. seen'[t] = {<<l, D[l]>> : l \in InitIds}
      BY <1>3
    <2> HIDE DEF D
    <2> QED
      BY <2>1, StartSeen DEF Met, Firsts, Pairs
  <1>7. expanded[t] = {} /\ pruned[t] \subseteq Nodes /\ copied[t] \subseteq Nodes
    BY <1>1 DEF Locals, ThreadOK
  <1>8. loc'[t] \in Nodes /\ loc'[t] \notin Free
    <2>1. Tagged = 0 .. nd - 1 /\ node_ctr \in 0 .. nd + mode.frozen /\ node_ctr < nd + mode.frozen
      BY <1>1 DEF Phases, LinkNode, NumVisits
    <2>2. CASE node_ctr < nd
      BY <2>1, <2>2, <1>3, ModeFacts DEF VisitOrder, Free
    <2>3. CASE ~(node_ctr < nd)
      <3>1. VisitOrder(node_ctr) \in Frozen
        BY <2>1, <2>3, ModeFacts, Numbers DEF VisitOrder, Frozen, FrozenLocs
      <3> QED
        BY <3>1, <1>3, ModeFacts DEF Free
    <2> QED
      BY <2>2, <2>3
  <1>9. ThreadOK(t)'
    BY <1>1, <1>3, <1>5, <1>6, <1>7, <1>8 DEF ThreadOK, Inserting, PointsAlone
  <1>10. HandLinked(t)'
    BY <1>3, <1>5, <1>6, <1>7, <1>8 DEF HandLinked, Inserting
  <1>11. NoConsolidation
    <2>1. \A u \in Threads : ~Consolidates(u)
      BY <1>1 DEF DeleteSets, InConsolidation, Consolidates
    <2> QED
      BY <2>1 DEF NoConsolidation
  <1>12. HasMet(t)'
    BY <1>3 DEF HasMet
  <1> HIDE DEF Inv, Sane
  <1> QED
    BY <1>1, <1>2, <1>3, <1>4, <1>9, <1>10, <1>11, <1>12, QuietStep

\* A thread that inserts or searches has no consolidation beside it.
LEMMA Alone == ASSUME Sane, NEW t \in Threads, InsertsOrSearches(t) PROVE NoConsolidation
  BY DEF Sane, Removed, Removes, NoConsolidation

LEMMA ExpandSane == ASSUME Inv, Sane, NEW t \in Threads, Expand(t) PROVE Sane'
  <1> USE DEF Inv, Sane
  <1>1. /\ UNCHANGED <<mode, build, graph, vec, points, pc, loc, tag, pruned, des, copied, next_loc, disk, ops>>
        /\ pc[t] \in {"search", "query"}
    BY DEF Expand
  <1>2. PICK n \in Met(t) \ expanded[t] :
          /\ expanded' = [expanded EXCEPT ![t] = @ \cup {n}]
          /\ seen' = [seen EXCEPT ![t] = @ \cup {<<l, DistanceTo(t, l)>> : l \in graph[n] \ Met(t)}]
    BY DEF Expand
  <1>3. /\ expanded'[t] = expanded[t] \cup {n}
        /\ seen'[t] = seen[t] \cup {<<l, DistanceTo(t, l)>> : l \in graph[n] \ Met(t)}
    BY <1>2 DEF Domains
  <1>4. \A u \in Threads : u # t => Same(u)
    BY <1>1, <1>2 DEF Same, Domains
  <1>5. Domains'
    BY <1>1, <1>2 DEF Domains
  <1>6. PointsAlone
    <2>1. ~Idle
      BY <1>1 DEF Idle
    <2> QED
      BY <2>1, <1>1 DEF PointsAlone, build, disk, points, Phases, TypeOK
  <1>7. Linked' = Linked /\ Free' = Free /\ Tagged' = Tagged /\ Nodes' = Nodes
    BY <1>1, <1>4, <1>6, LinkedStays DEF FillsSame
  <1>8. Met(t)' = Met(t) \cup graph[n]
    <2> DEFINE S == graph[n] \ Met(t)
               D == [l \in S |-> DistanceTo(t, l)]
    <2>1. seen'[t] = seen[t] \cup {<<l, D[l]>> : l \in S}
      BY <1>3
    <2> HIDE DEF D, S
    <2>2. Firsts(Pairs(S, D)) = S
      BY StartSeen
    <2> QED
      BY <2>1, <2>2 DEF Met, S, Firsts, Pairs
  <1>9. n \in Nodes /\ graph[n] \subseteq Nodes
    <2>1. n \in Nodes
      BY <1>1, <1>2 DEF Locals, ThreadOK
    <2> QED
      BY <2>1 DEF Degrees, GoodList
  <1>10. ThreadOK(t)'
    BY <1>1, <1>3, <1>7, <1>8, <1>9 DEF Locals, ThreadOK, Inserting, build
  <1>11. ASSUME Calm PROVE HandLinked(t)' /\ graph[n] \subseteq Linked
    <2>1. n \in Linked
      BY <1>1, <1>2, <1>11 DEF Closed, HandLinked
    <2>2. graph[n] \subseteq Linked /\ HandLinked(t)
      BY <2>1, <1>11 DEF Closed
    <2> QED
      BY <2>1, <2>2, <1>1, <1>3, <1>7, <1>8 DEF HandLinked, Inserting
  <1>12. ASSUME ~mode.conc PROVE HasMet(t)'
    <2>1. SUFFICES ASSUME pc[t] = "query", NEW p \in seen'[t], p[1] \in Tagged PROVE p[2] = location_to_tag[p[1]]
      BY <1>1, <1>7 DEF HasMet, points
    <2>2. CASE p \in seen[t]
      BY <2>1, <2>2, <1>12 DEF Vectors, HasMet
    <2>3. CASE p \notin seen[t]
      <3>1. PICK l \in graph[n] \ Met(t) : p = <<l, DistanceTo(t, l)>>
        BY <2>3, <1>3
      <3>2. p[1] = l /\ p[2] = vec[l] /\ l \in Tagged
        BY <3>1, <2>1 DEF DistanceTo
      <3>3. l \in Linked /\ phase = "ready"
        BY <3>1, <2>1, <1>11, <1>12 DEF Calm, Locals, ThreadOK
      <3>4. l \notin Filling
        BY <3>3 DEF Linked, BeingFilled
      <3>5. Filled(l)
        BY <3>2, <1>12 DEF Vectors
      <3> QED
        BY <3>2, <3>4, <3>5 DEF Filled, Filling
    <2> QED
      BY <2>2, <2>3
  <1>13. NoConsolidation
    BY <1>1, Alone DEF InsertsOrSearches
  <1> HIDE DEF Inv, Sane
  <1> QED
    BY <1>1, <1>4, <1>5, <1>6, <1>10, <1>11, <1>12, <1>13, QuietStep DEF FillsSame, Inserting

LEMMA EndSearchSane == ASSUME Inv, Sane, NEW t \in Threads, EndSearch(t) PROVE Sane'
  <1> USE DEF Inv, Sane
  <1>1. /\ UNCHANGED <<mode, build, graph, vec, points, loc, tag, des, copied, next_loc, disk, ops>>
        /\ pc[t] = "search" /\ pc' = [pc EXCEPT ![t] = "links"]
        /\ seen' = [seen EXCEPT ![t] = {}] /\ expanded' = [expanded EXCEPT ![t] = {}]
    BY DEF EndSearch, Goto
  <1>2. PICK s \in Prune(expanded[t] \ {loc[t]}) : pruned' = [pruned EXCEPT ![t] = s]
    BY DEF EndSearch
  <1>3. pc'[t] = "links" /\ expanded'[t] = {} /\ pruned'[t] = s
    BY <1>1, <1>2 DEF Domains, TypeOK
  <1>4. \A u \in Threads : u # t => Same(u)
    BY <1>1, <1>2 DEF Same, Domains, TypeOK
  <1>5. Domains'
    BY <1>1, <1>2 DEF Domains
  <1>6. PointsAlone
    <2>1. ~Idle
      BY <1>1 DEF Idle
    <2> QED
      BY <2>1, <1>1 DEF PointsAlone, build, disk, points, Phases, TypeOK
  <1>7. FillsSame(t)
    BY <1>1, <1>3 DEF FillsSame, FillingLabels
  <1>8. Linked' = Linked /\ Free' = Free /\ Nodes' = Nodes
    BY <1>4, <1>6, <1>7, LinkedStays
  <1>9. ThreadOK(t) /\ expanded[t] \ {loc[t]} \in SUBSET Nodes
    BY DEF Locals, ThreadOK
  <1>10. s \subseteq expanded[t] /\ loc[t] \notin s /\ Cardinality(s) <= R
    BY <1>9, Lists
  <1>11. ThreadOK(t)'
    BY <1>1, <1>3, <1>8, <1>9, <1>10 DEF ThreadOK, Inserting, build
  <1>12. Calm => HandLinked(t)'
    BY <1>1, <1>3, <1>8, <1>10 DEF Closed, HandLinked, Inserting
  <1>13. NoConsolidation
    BY <1>1, Alone DEF InsertsOrSearches
  <1>14. HasMet(t)'
    BY <1>3 DEF HasMet
  <1> HIDE DEF Inv, Sane
  <1> QED
    BY <1>1, <1>3, <1>4, <1>5, <1>6, <1>7, <1>11, <1>12, <1>13, <1>14, QuietStep DEF Inserting

\* A thread has finished: an insertion, a query, or the test of a consolidation.
LEMMA BackToIdle ==
    ASSUME Inv, Sane, NEW t \in Threads, PointDone(t) \/ EndQuery(t) \/ CheckSizes(t) \/ LockFails(t)
    PROVE  Sane'
  <1> USE DEF Inv, Sane
  <1>1. /\ UNCHANGED <<mode, build, graph, vec, points, pruned, des, copied, next_loc, files>>
        /\ pc[t] \in {"inter_insert", "query", "idle", "checked"}
        /\ phase = "ready" \/ pc[t] # "idle"
    BY DEF PointDone, EndQuery, CheckSizes, LockFails, disk, MayOperate
  <1>2. /\ \/ pc' = [pc EXCEPT ![t] = "idle"]
           \/ pc[t] = "idle" /\ (pc' = pc \/ pc' = [pc EXCEPT ![t] = "checked"])
        /\ loc' = loc \/ loc' = [loc EXCEPT ![t] = NoLoc]
        /\ tag' = tag \/ tag' = [tag EXCEPT ![t] = NoTag]
        /\ seen' = seen \/ seen' = [seen EXCEPT ![t] = {}]
        /\ expanded' = [expanded EXCEPT ![t] = {}] \/ (expanded' = expanded /\ pc[t] # "query")
    BY DEF PointDone, EndQuery, CheckSizes, LockFails, Goto, MayOperate
  <1>3. pc'[t] \in {"idle", "checked"} /\ expanded'[t] = {}
    <2>1. pc[t] # "query" => expanded[t] = {}
      BY <1>1 DEF Locals, ThreadOK
    <2> QED
      BY <2>1, <1>1, <1>2 DEF Domains, TypeOK
  <1>4. \A u \in Threads : u # t => Same(u)
    BY <1>1, <1>2 DEF Same, Domains, TypeOK
  <1>5. Domains'
    <2>1. DOMAIN loc' = Threads /\ DOMAIN tag' = Threads /\ DOMAIN seen' = Threads /\ DOMAIN expanded' = Threads
      BY <1>2 DEF Domains
    <2> QED
      BY <2>1, <1>1 DEF Domains
  <1>6. PointsAlone
    <2>1. pc[t] = "idle" \/ ~Idle
      BY <1>1 DEF Idle
    <2> QED
      BY <2>1, <1>1 DEF PointsAlone, build, points, Phases, TypeOK
  <1>7. FillsSame(t)
    BY <1>1, <1>3 DEF FillsSame, FillingLabels
  <1>8. Linked' = Linked /\ Free' = Free /\ Nodes' = Nodes
    BY <1>4, <1>6, <1>7, LinkedStays
  <1>9. ThreadOK(t)'
    BY <1>1, <1>3, <1>8 DEF Locals, ThreadOK, Inserting
  <1>10. HandLinked(t)'
    BY <1>3 DEF HandLinked, Inserting
  <1>11. HasMet(t)'
    BY <1>3 DEF HasMet
  <1>12. NoConsolidation \/ Aside(t)
    <2>1. CASE pc[t] = "inter_insert"
      BY <2>1, Alone DEF InsertsOrSearches
    <2>2. CASE pc[t] # "inter_insert"
      BY <2>2, <1>1, <1>3 DEF Aside
    <2> QED
      BY <2>1, <2>2
  <1> HIDE DEF Inv, Sane
  <1> QED
    BY <1>1, <1>3, <1>4, <1>5, <1>6, <1>7, <1>9, <1>10, <1>11, <1>12, QuietStep DEF Inserting

LEMMA BeginQuerySane == ASSUME Inv, Sane, NEW t \in Threads, BeginQuery(t) PROVE Sane'
  <1> USE DEF Inv, Sane
  <1>1. /\ UNCHANGED <<mode, build, graph, vec, points, loc, tag, expanded, pruned, des, copied, next_loc, files>>
        /\ phase = "ready" /\ pc[t] = "idle" /\ pc' = [pc EXCEPT ![t] = "query"] /\ UpdateShared
        /\ seen' = [seen EXCEPT ![t] = {<<l, vec[l]>> : l \in InitIds}]
    BY DEF BeginQuery, MayOperate, Goto, disk
  <1>2. pc'[t] = "query" /\ seen'[t] = {<<l, vec[l]>> : l \in InitIds}
    BY <1>1 DEF Domains, TypeOK
  <1>3. \A u \in Threads : u # t => Same(u)
    BY <1>1 DEF Same, Domains, TypeOK
  <1>4. Domains'
    BY <1>1 DEF Domains
  <1>5. PointsAlone /\ FillsSame(t)
    BY <1>1, <1>2 DEF PointsAlone, points, build, FillsSame, FillingLabels
  <1>6. Linked' = Linked /\ Nodes' = Nodes /\ Tagged' = Tagged /\ InitIds \subseteq Linked /\ InitIds \subseteq Nodes
    BY <1>1, <1>3, <1>5, LinkedStays, InitIdsLinked
  <1>7. Met(t)' = InitIds
    <2> DEFINE S == InitIds
               D == [l \in S |-> vec[l]]
    <2>1. seen'[t] = {<<l, D[l]>> : l \in S}
      BY <1>2
    <2> HIDE DEF D, S
    <2>2. Firsts(Pairs(S, D)) = S
      BY StartSeen
    <2> QED
      BY <2>1, <2>2 DEF Met, S, Firsts, Pairs
  <1>8. ThreadOK(t)'
    BY <1>1, <1>2, <1>6, <1>7 DEF Locals, ThreadOK, Inserting, build
  <1>9. HandLinked(t)'
    <2>1. expanded[t] = {}
      BY <1>1 DEF Locals, ThreadOK
    <2> QED
      BY <2>1, <1>1, <1>2, <1>6, <1>7 DEF HandLinked, Inserting
  <1>10. NoConsolidation
    BY <1>1 DEF UpdateShared, Consolidating, NoConsolidation
  <1>11. ASSUME ~mode.conc PROVE HasMet(t)'
    <2>1. SUFFICES ASSUME NEW l \in InitIds, l \in Tagged PROVE vec[l] = location_to_tag[l]
      BY <1>1, <1>2, <1>6 DEF HasMet, points
    <2>2. l \notin Filling
      BY <1>1, <1>6, <2>1 DEF Linked, BeingFilled
    <2> QED
      BY <2>1, <2>2, <1>11 DEF Vectors, Filled, Filling
  <1> HIDE DEF Inv, Sane
  <1> QED
    BY <1>1, <1>2, <1>3, <1>4, <1>5, <1>8, <1>9, <1>10, <1>11, QuietStep DEF Inserting

-----------------------------------------------------------------------------
(* Steps that write a list *)

\* One list is replaced by another good one.
LEMMA WriteList ==
    ASSUME TypeOK, Degrees, NEW n \in Nodes, NEW s, GoodList(s, n, Nodes, SlackRange),
           graph' = [graph EXCEPT ![n] = s], UNCHANGED <<mode, phase>>, phase # "cleanup"
    PROVE  /\ Degrees' /\ graph'[n] = s /\ \A l \in Locs : l # n => graph'[l] = graph[l]
  <1>1. n \in Locs /\ Nodes \subseteq Locs /\ Nodes' = Nodes
    BY ModeFacts DEF Nodes, Frozen
  <1>2. graph = [l \in Locs |-> graph[l]]
    BY DEF Degrees
  <1>3. graph' = [l \in Locs |-> graph'[l]] /\ graph'[n] = s /\ \A l \in Locs : l # n => graph'[l] = graph[l]
    BY <1>1, <1>2
  <1>4. \A l \in Nodes : GoodList(graph'[l], l, Nodes, SlackRange)
    BY <1>1, <1>3 DEF Degrees
  <1>5. \A l \in Locs \ Nodes : graph'[l] = {}
    BY <1>3 DEF Degrees
  <1> QED
    BY <1>1, <1>3, <1>4, <1>5 DEF Degrees

LEMMA EmptyIsGood == ASSUME NEW l, NEW S PROVE GoodList({}, l, S, SlackRange)
  <1>1. Cardinality({}) = 0
    BY FS_EmptySet
  <1> QED
    BY <1>1, Numbers DEF GoodList

LEMMA PrunedIsGood ==
    ASSUME TypeOK, NEW s, s \subseteq Nodes, NEW n, n \notin s, Cardinality(s) <= R
    PROVE  GoodList(s, n, Nodes, SlackRange)
  <1>1. Cardinality(s) \in Nat
    BY Lists
  <1> QED
    BY <1>1, Numbers DEF GoodList

\* A list of a linked node is replaced by a list of linked nodes; nothing is unlinked.
LEMMA ListsStay ==
    ASSUME Inv, Sane, Calm, NEW n \in Nodes, NEW s, graph' = [graph EXCEPT ![n] = s], s \subseteq Linked',
           Linked \subseteq Linked', \A l \in Linked' : l # n => l \in Linked, Linked' \subseteq Locs, n \in Linked'
    PROVE  ListsStayLinked
  <1>1. graph = [l \in Locs |-> graph[l]] /\ n \in Locs
    BY ModeFacts DEF Sane, Degrees, Inv
  <1>2. \A l \in Linked : graph[l] \subseteq Linked
    BY DEF Sane, Closed
  <1>3. ASSUME NEW l \in Linked' PROVE graph'[l] \subseteq Linked'
    <2>1. CASE l = n
      BY <2>1, <1>1
    <2>2. CASE l # n
      BY <2>2, <1>1, <1>2
    <2> QED
      BY <2>1, <2>2
  <1> QED
    BY <1>3 DEF ListsStayLinked

LEMMA SetLinksSane == ASSUME Inv, Sane, NEW t \in Threads, SetLinks(t) PROVE Sane'
  <1> USE DEF Inv, Sane
  <1>1. /\ UNCHANGED <<mode, build, vec, points, loc, tag, seen, expanded, pruned, des, copied, next_loc, files>>
        /\ pc[t] = "links" /\ pc' = [pc EXCEPT ![t] = "inter_insert"]
        /\ graph' = [graph EXCEPT ![loc[t]] = KeptLinks(pruned[t])]
    BY DEF SetLinks, Goto, disk
  <1>2. pc'[t] = "inter_insert" /\ \A u \in Threads : u # t => Same(u)
    BY <1>1 DEF Same, TypeOK
  <1>3. Domains' /\ Nodes' = Nodes
    BY <1>1 DEF Domains, Nodes, Frozen
  <1>4. PointsAlone
    <2>1. ~Idle
      BY <1>1 DEF Idle
    <2> QED
      BY <2>1, <1>1 DEF PointsAlone, build, points, Phases, TypeOK
  <1>5. ThreadOK(t) /\ loc[t] \in Nodes /\ loc[t] \notin pruned[t] /\ Cardinality(pruned[t]) <= R /\ pruned[t] \subseteq Nodes
    BY <1>1 DEF Locals, ThreadOK, Inserting
  <1>6. KeptLinks(pruned[t]) \subseteq pruned[t]
    BY DEF KeptLinks
  <1>7. Cardinality(KeptLinks(pruned[t])) <= R
    <2>1. IsFiniteSet(pruned[t]) /\ Cardinality(pruned[t]) \in Nat /\ Cardinality(KeptLinks(pruned[t])) \in Nat
      BY <1>5, <1>6, Lists
    <2>2. Cardinality(KeptLinks(pruned[t])) <= Cardinality(pruned[t])
      BY <2>1, <1>6, FS_Subset
    <2> QED
      BY <2>1, <2>2, <1>5, Numbers
  <1>8. Degrees' /\ \A l \in Locs : l # loc[t] => graph'[l] = graph[l]
    <2>1. phase # "cleanup" /\ UNCHANGED <<mode, phase>>
      BY <1>1, <1>4 DEF PointsAlone, build
    <2>2. GoodList(KeptLinks(pruned[t]), loc[t], Nodes, SlackRange)
      BY <1>5, <1>6, <1>7, PrunedIsGood
    <2> QED
      BY <2>1, <2>2, <1>1, <1>5, WriteList
  <1>9. ThreadOK(t)'
    BY <1>1, <1>2, <1>3, <1>5 DEF ThreadOK, Inserting, build
  <1>10. Free' = Free
    BY <1>1 DEF Free, Tagged, points
  <1>11. ASSUME Calm PROVE /\ HandLinked(t)' /\ ListsStayLinked /\ loc[t] \notin Free
    <2>1. HandLinked(t) /\ loc[t] \notin Free /\ pruned[t] \subseteq Linked
      BY <1>1, <1>11 DEF Closed, HandLinked, Inserting
    <2>2. ASSUME phase = "ready" PROVE Filling = Filling' \cup {loc[t]} /\ loc[t] \notin Filling'
      <3>1. \A u \in Threads : u # t => pc'[u] = pc[u] /\ loc'[u] = loc[u]
        BY <1>2 DEF Same
      <3>2. ASSUME NEW u \in Threads, pc'[u] \in FillingLabels PROVE loc[u] # loc[t] /\ pc[u] \in FillingLabels
        <4>1. u # t /\ pc[u] \in FillingLabels
          BY <3>1, <3>2, <1>2 DEF FillingLabels
        <4>2. Inserting(u) /\ Inserting(t)
          BY <4>1, <1>1 DEF Inserting, FillingLabels
        <4> QED
          BY <4>1, <4>2, <2>2, <1>11 DEF Closed, OneEach
      <3>3. pc[t] \in FillingLabels /\ pc'[t] \notin FillingLabels
        BY <1>1, <1>2 DEF FillingLabels
      <3> QED
        BY <3>1, <3>2, <3>3, <1>1 DEF Filling, FillingLabels
    <2>3. phase' = phase
      BY <1>1 DEF build
    <2>4. Linked' = Linked \cup {loc[t]}
      BY <2>1, <2>2, <2>3, <1>3, <1>5, <1>10 DEF Linked, BeingFilled
    <2>5. HandLinked(t)'
      BY <2>1, <2>4, <1>1, <1>2, <1>10 DEF HandLinked, Inserting
    <2>6. Linked' \subseteq Locs
      BY <2>4, <1>5, ModeFacts DEF Linked
    <2>7. KeptLinks(pruned[t]) \subseteq Linked'
      BY <2>1, <2>4, <1>6
    <2> HIDE DEF Inv, Sane
    <2>8. ListsStayLinked
      BY <2>4, <2>6, <2>7, <1>1, <1>5, <1>11, ListsStay
    <2> QED
      BY <2>1, <2>5, <2>8
  <1>12. data_compacted => \A l \in Free : graph'[l] = {}
    <2>1. Free \subseteq Locs
      BY ModeFacts DEF Free
    <2> QED
      BY <2>1, <1>8, <1>11 DEF Entry, Calm
  <1>13. ~mode.conc => (\A l \in Tagged : Filled(l)') /\ HasMet(t)'
    <2>1. \A u \in Threads : pc[u] = "vector" => pc'[u] = "vector" /\ loc'[u] = loc[u]
      BY <1>1, <1>2 DEF Same
    <2> QED
      BY <2>1, <1>1, <1>2 DEF Vectors, Filled, HasMet, points
  <1>14. NoConsolidation
    BY <1>1, Alone DEF InsertsOrSearches
  <1> HIDE DEF Inv, Sane
  <1> QED
    BY <1>1, <1>2, <1>3, <1>4, <1>8, <1>9, <1>11, <1>12, <1>13, <1>14, StepKeeps DEF Inserting

\* In inter_insert the set of linked nodes and the vectors stay as they are.
LEMMA InterInsertFrame ==
    ASSUME Inv, Sane, NEW t \in Threads, pc[t] \in {"inter_insert", "prune"},
           \/ pc' = pc \/ pc' = [pc EXCEPT ![t] = "prune"] \/ pc' = [pc EXCEPT ![t] = "inter_insert"],
           UNCHANGED <<mode, build, vec, points, loc, tag, seen, expanded, next_loc, files>>,
           \A u \in Threads : u # t => pruned'[u] = pruned[u] /\ des'[u] = des[u] /\ copied'[u] = copied[u]
    PROVE  /\ PointsAlone /\ (\A u \in Threads : u # t => Same(u)) /\ NoConsolidation
           /\ pc'[t] \in {"inter_insert", "prune"}
           /\ Linked' = Linked /\ Free' = Free /\ Nodes' = Nodes /\ Linked \subseteq Nodes /\ Free \subseteq Locs
           /\ ~mode.conc => (\A l \in Tagged : Filled(l)') /\ HasMet(t)'
           /\ Nodes \subseteq Locs /\ phase # "cleanup" /\ UNCHANGED <<mode, phase>>
  <1> USE DEF Inv, Sane
  <1>1. PointsAlone
    <2>1. ~Idle
      BY DEF Idle
    <2> QED
      BY <2>1 DEF PointsAlone, build, points, Phases, TypeOK
  <1>2. pc'[t] \in {"inter_insert", "prune"} /\ \A u \in Threads : u # t => Same(u)
    BY DEF Same, TypeOK
  <1>3. FillsSame(t)
    BY <1>2 DEF FillsSame, FillingLabels
  <1>4. Linked' = Linked /\ Free' = Free /\ Nodes' = Nodes
    BY <1>1, <1>2, <1>3, LinkedStays
  <1>5. ~mode.conc => (\A l \in Tagged : Filled(l)') /\ HasMet(t)'
    <2>1. \A u \in Threads : pc[u] = "vector" => pc'[u] = "vector" /\ loc'[u] = loc[u]
      BY <1>2 DEF Same
    <2> QED
      BY <2>1, <1>2 DEF Vectors, Filled, HasMet, points
  <1>6. NoConsolidation
    BY Alone DEF InsertsOrSearches
  <1> QED
    BY <1>1, <1>2, <1>4, <1>5, <1>6, ModeFacts DEF PointsAlone, Linked, Free, build

LEMMA InterInsertSane == ASSUME Inv, Sane, NEW t \in Threads, InterInsert(t) PROVE Sane'
  <1> USE DEF Inv, Sane
  <1>1. /\ UNCHANGED <<mode, build, vec, points, loc, tag, seen, expanded, next_loc, files>>
        /\ pc[t] = "inter_insert"
    BY DEF InterInsert, disk
  <1>2. PICK d \in pruned[t] :
         /\ pruned' = [pruned EXCEPT ![t] = @ \ {d}]
         /\ \/ /\ loc[t] \in graph[d]
               /\ UNCHANGED <<graph, pc, des, copied>>
            \/ /\ loc[t] \notin graph[d] /\ HasRoom(d)
               /\ graph' = [graph EXCEPT ![d] = @ \cup {loc[t]}]
               /\ UNCHANGED <<pc, des, copied>>
            \/ /\ loc[t] \notin graph[d] /\ ~HasRoom(d)
               /\ copied' = [copied EXCEPT ![t] = graph[d] \cup {loc[t]}]
               /\ des' = [des EXCEPT ![t] = d]
               /\ Goto(t, "prune")
               /\ UNCHANGED graph
    BY DEF InterInsert
  <1>3. Domains' /\ pruned'[t] = pruned[t] \ {d}
    <2>1. DOMAIN pruned' = Threads /\ DOMAIN copied' = Threads /\ DOMAIN des' = Threads /\ pruned'[t] = pruned[t] \ {d}
      BY <1>2 DEF Domains
    <2> QED
      BY <2>1, <1>1 DEF Domains
  <1>4. /\ PointsAlone /\ (\A u \in Threads : u # t => Same(u)) /\ NoConsolidation
        /\ pc'[t] \in {"inter_insert", "prune"}
        /\ Linked' = Linked /\ Free' = Free /\ Nodes' = Nodes /\ Linked \subseteq Nodes /\ Free \subseteq Locs
        /\ ~mode.conc => (\A l \in Tagged : Filled(l)') /\ HasMet(t)'
        /\ Nodes \subseteq Locs /\ phase # "cleanup" /\ UNCHANGED <<mode, phase>>
    <2>1. /\ \/ pc' = pc \/ pc' = [pc EXCEPT ![t] = "prune"] \/ pc' = [pc EXCEPT ![t] = "inter_insert"]
          /\ \A u \in Threads : u # t => pruned'[u] = pruned[u] /\ des'[u] = des[u] /\ copied'[u] = copied[u]
      BY <1>2 DEF Goto, Domains
    <2> HIDE DEF Inv, Sane
    <2> QED
      BY <2>1, <1>1, InterInsertFrame
  <1>5. /\ ThreadOK(t) /\ loc[t] \in Nodes /\ d \in Nodes /\ loc[t] # d /\ pruned[t] \subseteq Nodes
        /\ loc[t] \notin pruned[t] /\ Cardinality(pruned[t]) <= R
    BY <1>1 DEF Locals, ThreadOK, Inserting
  <1>6. GoodList(graph[d], d, Nodes, SlackRange) /\ graph[d] \subseteq Nodes
    BY <1>5 DEF Degrees, GoodList
  <1>7. Calm => loc[t] \in Linked /\ pruned[t] \subseteq Linked /\ d \in Linked /\ graph[d] \subseteq Linked
                 /\ loc[t] \notin Free /\ d \notin Free
    BY <1>1 DEF Closed, HandLinked, Inserting, Linked
  <1>8. Cardinality(pruned[t] \ {d}) <= R
    <2>1. IsFiniteSet(pruned[t]) /\ Cardinality(pruned[t]) \in Nat /\ Cardinality(pruned[t] \ {d}) \in Nat
      BY <1>5, Lists
    <2>2. Cardinality(pruned[t] \ {d}) <= Cardinality(pruned[t])
      BY <2>1, FS_Subset
    <2> QED
      BY <2>1, <2>2, <1>5, Numbers
  <1>9. /\ pc'[t] = "inter_insert" => copied'[t] = copied[t]
        /\ pc'[t] = "prune" => copied'[t] = graph[d] \cup {loc[t]} /\ des'[t] = d
    BY <1>1, <1>2 DEF Goto, Domains, TypeOK
  <1>10. ThreadOK(t)'
    BY <1>1, <1>3, <1>4, <1>5, <1>6, <1>8, <1>9 DEF ThreadOK, Inserting
  <1>11. Calm => HandLinked(t)'
    BY <1>1, <1>3, <1>4, <1>7, <1>9 DEF HandLinked, Inserting
  <1>12. \/ graph' = graph
         \/ HasRoom(d) /\ loc[t] \notin graph[d] /\ graph' = [graph EXCEPT ![d] = graph[d] \cup {loc[t]}]
    BY <1>2
  <1>13. /\ Degrees' /\ (Calm => ListsStayLinked)
         /\ \A l \in Locs : l # d => graph'[l] = graph[l]
    <2>1. CASE graph' = graph
      BY <2>1, <1>1, <1>4 DEF Degrees, Closed, ListsStayLinked, points, build
    <2>2. CASE HasRoom(d) /\ loc[t] \notin graph[d] /\ graph' = [graph EXCEPT ![d] = graph[d] \cup {loc[t]}]
      <3>1. IsFiniteSet(graph[d]) /\ Cardinality(graph[d]) \in Nat
        BY <1>6, Lists
      <3>2. Cardinality(graph[d] \cup {loc[t]}) = Cardinality(graph[d]) + 1
        BY <3>1, <2>2, FS_AddElement
      <3>3. GoodList(graph[d] \cup {loc[t]}, d, Nodes, SlackRange)
        BY <3>1, <3>2, <2>2, <1>5, <1>6, Numbers DEF GoodList, HasRoom
      <3>4. Degrees' /\ \A l \in Locs : l # d => graph'[l] = graph[l]
        BY <3>3, <2>2, <1>4, <1>5, WriteList
      <3> HIDE DEF Inv, Sane
      <3>5. ASSUME Calm PROVE ListsStayLinked
        <4>1. graph[d] \cup {loc[t]} \subseteq Linked' /\ d \in Linked' /\ Linked' \subseteq Locs
          BY <3>5, <1>4, <1>7
        <4> QED
          BY <4>1, <3>5, <2>2, <1>4, <1>5, ListsStay
      <3> QED
        BY <3>4, <3>5
    <2> QED
      BY <2>1, <2>2, <1>12
  <1>14. data_compacted => \A l \in Free : graph'[l] = {}
    BY <1>4, <1>7, <1>13 DEF Entry, Calm
  <1> HIDE DEF Inv, Sane
  <1> QED
    BY <1>1, <1>3, <1>4, <1>10, <1>11, <1>13, <1>14, StepKeeps DEF Inserting

LEMMA PruneNeighbourSane == ASSUME Inv, Sane, NEW t \in Threads, PruneNeighbour(t) PROVE Sane'
  <1> USE DEF Inv, Sane
  <1>1. /\ UNCHANGED <<mode, build, vec, points, loc, tag, seen, expanded, pruned, next_loc, files>>
        /\ pc[t] = "prune" /\ pc' = [pc EXCEPT ![t] = "inter_insert"]
        /\ copied' = [copied EXCEPT ![t] = {}] /\ des' = [des EXCEPT ![t] = NoLoc]
    BY DEF PruneNeighbour, disk, Goto
  <1>2. PICK s \in Prune(copied[t] \ {des[t]}) : graph' = [graph EXCEPT ![des[t]] = s]
    BY DEF PruneNeighbour
  <1>3. Domains' /\ pc'[t] = "inter_insert" /\ copied'[t] = {}
    BY <1>1 DEF Domains, TypeOK
  <1>4. /\ PointsAlone /\ (\A u \in Threads : u # t => Same(u)) /\ NoConsolidation
        /\ Linked' = Linked /\ Free' = Free /\ Nodes' = Nodes /\ Linked \subseteq Nodes /\ Free \subseteq Locs
        /\ ~mode.conc => (\A l \in Tagged : Filled(l)') /\ HasMet(t)'
        /\ Nodes \subseteq Locs /\ phase # "cleanup" /\ UNCHANGED <<mode, phase>>
    <2>1. \A u \in Threads : u # t => pruned'[u] = pruned[u] /\ des'[u] = des[u] /\ copied'[u] = copied[u]
      BY <1>1 DEF Domains
    <2> HIDE DEF Inv, Sane
    <2> QED
      BY <2>1, <1>1, InterInsertFrame
  <1>5. ThreadOK(t) /\ des[t] \in Nodes /\ copied[t] \subseteq Nodes
    BY <1>1 DEF Locals, ThreadOK
  <1>6. s \subseteq copied[t] \ {des[t]} /\ Cardinality(s) <= R
    <2>1. copied[t] \ {des[t]} \in SUBSET Nodes
      BY <1>5
    <2> QED
      BY <2>1, Lists
  <1>7. Calm => copied[t] \subseteq Linked /\ des[t] \in Linked /\ des[t] \notin Free
                 /\ pruned[t] \subseteq Linked /\ loc[t] \in Linked /\ loc[t] \notin Free
    BY <1>1 DEF Closed, HandLinked, Inserting, Linked
  <1>8. ThreadOK(t)'
    BY <1>1, <1>3, <1>4, <1>5 DEF ThreadOK, Inserting
  <1>9. Calm => HandLinked(t)'
    BY <1>1, <1>3, <1>4, <1>7 DEF HandLinked, Inserting
  <1>10. Degrees' /\ \A l \in Locs : l # des[t] => graph'[l] = graph[l]
    <2>1. GoodList(s, des[t], Nodes, SlackRange)
      <3>1. s \subseteq Nodes /\ des[t] \notin s
        BY <1>5, <1>6
      <3> QED
        BY <3>1, <1>6, PrunedIsGood
    <2> QED
      BY <2>1, <1>2, <1>4, <1>5, WriteList
  <1>11. data_compacted => \A l \in Free : graph'[l] = {}
    BY <1>4, <1>7, <1>10 DEF Entry, Calm
  <1> HIDE DEF Inv, Sane
  <1>12. ASSUME Calm PROVE ListsStayLinked
    <2>1. s \subseteq Linked' /\ des[t] \in Linked' /\ Linked' \subseteq Locs
      BY <1>4, <1>6, <1>7, <1>12
    <2> QED
      BY <2>1, <1>2, <1>4, <1>5, <1>12, ListsStay
  <1> QED
    BY <1>1, <1>3, <1>4, <1>8, <1>9, <1>10, <1>11, <1>12, StepKeeps DEF Inserting

LEMMA SetVectorSane == ASSUME Inv, Sane, NEW t \in Threads, SetVector(t) PROVE Sane'
  <1> USE DEF Inv, Sane
  <1>1. /\ UNCHANGED <<mode, build, graph, points, loc, tag, expanded, pruned, des, copied, next_loc, files>>
        /\ pc[t] = "vector" /\ pc' = [pc EXCEPT ![t] = "search"]
        /\ vec' = [vec EXCEPT ![loc[t]] = tag[t]]
        /\ seen' = [seen EXCEPT ![t] = {<<l, Zero>> : l \in InitIds}]
    BY DEF SetVector, Goto, disk
  <1>2. pc'[t] = "search" /\ seen'[t] = {<<l, Zero>> : l \in InitIds} /\ \A u \in Threads : u # t => Same(u)
    BY <1>1 DEF Same, Domains, TypeOK
  <1>3. Domains'
    BY <1>1 DEF Domains
  <1>4. ThreadOK(t) /\ phase = "ready" /\ loc[t] \in DataLocs /\ mode.dynamic /\ expanded[t] = {}
    BY <1>1 DEF Locals, ThreadOK, Inserting
  <1>5. PointsAlone /\ FillsSame(t)
    BY <1>1, <1>2, <1>4 DEF PointsAlone, points, build, FillsSame, FillingLabels
  <1>6. /\ Linked' = Linked /\ Nodes' = Nodes /\ Tagged' = Tagged /\ Free' = Free
        /\ InitIds \subseteq Linked /\ InitIds \subseteq Nodes
    BY <1>2, <1>4, <1>5, LinkedStays, InitIdsLinked
  <1>7. Met(t)' = InitIds
    <2> DEFINE S == InitIds
               D == [l \in S |-> Zero]
    <2>1. seen'[t] = {<<l, D[l]>> : l \in S}
      BY <1>2
    <2> HIDE DEF D, S
    <2>2. Firsts(Pairs(S, D)) = S
      BY StartSeen
    <2> QED
      BY <2>1, <2>2 DEF Met, S, Firsts, Pairs
  <1>8. ThreadOK(t)'
    BY <1>1, <1>2, <1>4, <1>6, <1>7 DEF ThreadOK, Inserting, build
  <1>9. Calm => HandLinked(t)'
    <2>1. Calm => loc[t] \notin Free
      BY <1>1 DEF Closed, HandLinked, Inserting
    <2> QED
      BY <2>1, <1>1, <1>2, <1>4, <1>6, <1>7 DEF HandLinked, Inserting
  <1>10. NoConsolidation
    BY <1>1, Alone DEF InsertsOrSearches
  <1>11. Degrees'
    BY <1>1, <1>4, <1>6 DEF Degrees, build, points
  <1>12. Calm => ListsStayLinked
    BY <1>1, <1>6 DEF Closed, ListsStayLinked
  <1>13. ASSUME ~mode.conc, NEW l \in Tagged PROVE Filled(l)'
    <2>1. Filled(l) /\ location_to_tag[loc[t]] \in {tag[t], NoTag}
      BY <1>1, <1>13 DEF Vectors, HasMet
    <2>2. loc[t] \in Locs /\ l \in Locs /\ location_to_tag[l] # NoTag /\ location_to_tag' = location_to_tag
      BY <1>1, <1>4, ModeFacts DEF Tagged, points
    <2>3. CASE l = loc[t]
      <3>1. vec'[l] = tag[t]
        BY <2>2, <2>3, <1>1 DEF Domains
      <3> QED
        BY <3>1, <2>1, <2>2, <2>3 DEF Filled
    <2>4. CASE l # loc[t]
      <3>1. vec'[l] = vec[l]
        BY <2>2, <2>4, <1>1 DEF Domains
      <3>2. ASSUME NEW u \in Threads, pc[u] = "vector", loc[u] = l PROVE pc'[u] = "vector" /\ loc'[u] = l
        BY <3>2, <2>4, <1>2 DEF Same
      <3> QED
        BY <3>1, <3>2, <2>1, <2>2 DEF Filled
    <2> QED
      BY <2>3, <2>4
  <1>14. HasMet(t)'
    BY <1>2 DEF HasMet
  <1>15. data_compacted => \A l \in Free : graph'[l] = {}
    BY <1>1 DEF Entry
  <1> HIDE DEF Inv, Sane
  <1> QED
    BY <1>1, <1>2, <1>3, <1>5, <1>8, <1>9, <1>10, <1>11, <1>12, <1>13, <1>14, <1>15, StepKeeps DEF Inserting

-----------------------------------------------------------------------------
(* The build *)

\* When no thread inserts, searches or consolidates, all that is left to show is about points and lists.
Resting == \A t \in Threads : pc[t] \in {"idle", "checked"}
LEMMA RestingSane ==
    ASSUME Resting', Domains', Phases', Entry', Locals', Degrees', FilesGraph',
           \A l \in Nodes' \ Free' : graph'[l] \subseteq Nodes' \ Free',
           ~mode'.conc => \A l \in Tagged' : vec'[l] = location_to_tag'[l]
    PROVE  Sane'
  <1>1. \A t \in Threads : pc'[t] \in {"idle", "checked"}
    BY DEF Resting
  <1>2. Filling' = {}
    BY <1>1 DEF Filling
  <1>3. \A t \in Threads : ~Inserting(t)' /\ ~Consolidates(t)'
    BY <1>1 DEF Inserting, Consolidates
  <1>4. \A t \in Threads : HandLinked(t)' /\ HasMet(t)'
    BY <1>1, <1>3 DEF HandLinked, HasMet
  <1>5. Linked' = Nodes' \ Free'
    BY <1>2 DEF Linked, BeingFilled
  <1>6. Closed'
    BY <1>3, <1>4, <1>5 DEF Closed, OneEach
  <1>7. Removed'
    BY <1>3 DEF Removed
  <1>8. Vectors'
    BY <1>4 DEF Vectors, Filled
  <1> QED
    BY <1>6, <1>7, <1>8 DEF Sane

LEMMA RestingThreadsOK ==
    ASSUME Locals, Resting, UNCHANGED <<mode, thread>> PROVE Locals' /\ Resting'
  <1>1. \A t \in Threads : pc[t] \in {"idle", "checked"} /\ pc' = pc
    BY DEF Resting, thread
  <1>2. \A t \in Threads : ThreadOK(t) => ThreadOK(t)'
    BY <1>1 DEF ThreadOK, Inserting, thread, Nodes, Frozen
  <1> QED
    BY <1>1, <1>2 DEF Locals, Resting

LEMMA InitSane == ASSUME Init PROVE Sane
  <1>1. Idle /\ TypeOK
    BY InitInv DEF Init, Idle, Inv
  <1>2. Tagged = {} /\ delete_set = {} /\ old_delete_set = {} /\ phase = "new" /\ ~Loadable /\ nd = 0 /\ data_compacted
    BY DEF Init, Tagged, Loadable
  <1>3. \A l \in Locs : graph[l] = {}
    BY DEF Init
  <1>4. Domains
    BY <1>1, ModeFacts, Numbers DEF Init, Domains
  <1>5. Phases
    BY <1>1, <1>2, <1>3 DEF Phases, Init
  <1>6. Entry
    BY <1>1, <1>2, <1>3, ModeFacts DEF Entry, Init, Free
  <1>7. Locals
    BY <1>1, <1>2 DEF Locals, ThreadOK, Init, Inserting
  <1>8. Degrees
    <2>1. \A l \in Nodes : GoodList(graph[l], l, Nodes, SlackRange)
      BY <1>1, <1>3, ModeFacts, EmptyIsGood
    <2> QED
      BY <2>1, <1>2, <1>3 DEF Degrees, Init
  <1>9. \A l \in Linked : graph[l] = {}
    BY <1>1, <1>3, ModeFacts DEF Linked
  <1>10. Closed /\ Removed /\ Vectors
    BY <1>1, <1>2, <1>9 DEF Closed, HandLinked, OneEach, Removed, Vectors, HasMet, Idle, Inserting, Consolidates
  <1>11. FilesGraph
    BY <1>2 DEF FilesGraph
  <1> QED
    BY <1>4, <1>5, <1>6, <1>7, <1>8, <1>10, <1>11 DEF Sane

\* The steps of the build that no thread takes alone: nothing happens to the points.
LEMMA BuildStepsSane ==
    ASSUME Inv, Sane, SetStartPoints \/ LinkDone \/ CleanupNode \/ BuildDone PROVE Sane'
  <1> USE DEF Inv, Sane
  <1>1. /\ UNCHANGED <<mode, location_to_tag, tag_to_location, empty_slots, delete_set, old_delete_set, nd, start,
                       data_compacted, thread, files>>
        /\ Idle /\ phase # "ready"
    <2>1. SetStartPoints \/ CleanupNode \/ BuildDone => phase \in {"new", "cleanup"}
      BY DEF SetStartPoints, CleanupNode, BuildDone
    <2> QED
      BY <2>1 DEF SetStartPoints, LinkDone, CleanupNode, BuildDone, points, disk, Phases
  <1>2. Resting /\ Locals' /\ Resting' /\ Idle'
    <2>1. Resting
      BY <1>1 DEF Resting, Idle
    <2> QED
      BY <2>1, <1>1, RestingThreadsOK DEF Idle, thread
  <1>3. /\ Tagged' = Tagged /\ Free' = Free /\ Nodes' = Nodes /\ (Loadable' <=> Loadable)
    BY <1>1 DEF Tagged, Free, Nodes, Frozen, Loadable
  <1>4. data_compacted /\ Linked = Nodes \ Free /\ \A l \in Linked : graph[l] \subseteq Linked
    <2>1. data_compacted /\ Linked = Nodes \ Free
      BY <1>1 DEF Phases, Linked, BeingFilled
    <2> QED
      BY <2>1 DEF Closed, Calm
  <1>5. Domains'
    BY <1>1 DEF Domains, thread, SetStartPoints, LinkDone, CleanupNode, BuildDone
  <1>6. FilesGraph'
    BY <1>1, <1>3 DEF FilesGraph
  <1>7. /\ \A l \in Tagged : vec'[l] = vec[l]
        /\ Tagged \subseteq Locs
    <2>1. Tagged \subseteq Locs
      BY ModeFacts
    <2>2. CASE SetStartPoints
      <3>1. Tagged = {}
        BY <2>2 DEF SetStartPoints, Phases
      <3> QED
        BY <3>1
    <2>3. CASE LinkDone \/ CleanupNode \/ BuildDone
      BY <2>3, <2>1 DEF LinkDone, CleanupNode, BuildDone
    <2> QED
      BY <2>1, <2>2, <2>3
  <1>8. ~mode.conc => \A l \in Tagged : vec'[l] = location_to_tag[l]
    <2>1. \A t \in Threads : pc[t] # "vector"
      BY <1>1 DEF Idle
    <2> QED
      BY <2>1, <1>7 DEF Vectors, Filled
  <1>9. /\ \A l \in Nodes : graph'[l] \subseteq graph[l] /\ Cardinality(graph'[l]) <= SlackRange
        /\ graph' = [l \in Locs |-> graph'[l]]
        /\ \A l \in Locs \ Nodes : graph'[l] = {}
        /\ phase' = "cleanup" => \A i \in 0 .. node_ctr' - 1 : Cardinality(graph'[VisitOrder(i)]) <= R
    <2>1. CASE ~CleanupNode
      <3>1. graph' = graph /\ (phase' = "cleanup" => node_ctr' = 0)
        BY <2>1 DEF SetStartPoints, LinkDone, BuildDone
      <3>2. phase' = "cleanup" => 0 .. node_ctr' - 1 = {}
        BY <3>1
      <3>3. \A l \in Nodes : graph[l] \subseteq graph[l] /\ Cardinality(graph[l]) <= SlackRange
        BY DEF Degrees, GoodList
      <3> QED
        BY <3>1, <3>2, <3>3 DEF Degrees
    <2>2. CASE CleanupNode
      <3>1. /\ node_ctr < nd + mode.frozen /\ node_ctr' = node_ctr + 1 /\ phase = "cleanup"
            /\ node_ctr \in 0 .. nd + mode.frozen
        BY <2>2 DEF CleanupNode, NumVisits, Phases
      <3>2. PICK l : l = VisitOrder(node_ctr) /\ l \in Nodes /\ l \in Locs
        BY <3>1, ModeFacts, Numbers DEF VisitOrder
      <3>3. graph[l] \in SUBSET Nodes /\ Cardinality(graph[l]) \in Nat
        BY <3>2, Lists DEF Degrees, GoodList
      <3>4. /\ Cardinality(graph'[l]) <= R /\ graph'[l] \subseteq graph[l] /\ \A m \in Locs : m # l => graph'[m] = graph[m]
            /\ graph' = [m \in Locs |-> graph'[m]]
        <4>1. CASE NeedsCleanup(l)
          <5>1. PICK s \in Prune(graph[l]) : graph' = [graph EXCEPT ![l] = s]
            BY <4>1, <3>2, <2>2 DEF CleanupNode
          <5>2. s \subseteq graph[l] /\ Cardinality(s) <= R
            BY <3>3, Lists
          <5> QED
            BY <5>1, <5>2, <3>2 DEF Degrees
        <4>2. CASE ~NeedsCleanup(l)
          <5>1. graph' = graph
            BY <4>2, <3>2, <2>2 DEF CleanupNode
          <5> QED
            BY <5>1, <4>2, <3>3, Numbers DEF NeedsCleanup, Degrees
        <4> QED
          BY <4>1, <4>2
      <3>5. graph'[l] \in SUBSET Nodes /\ Cardinality(graph'[l]) <= SlackRange
        <4>1. graph'[l] \in SUBSET Nodes
          BY <3>3, <3>4
        <4>2. Cardinality(graph'[l]) \in Nat
          BY <4>1, Lists
        <4> QED
          BY <4>1, <4>2, <3>4, Numbers
      <3>6. ASSUME NEW m \in Nodes PROVE graph'[m] \subseteq graph[m] /\ Cardinality(graph'[m]) <= SlackRange
        <4>1. m \in Locs
          BY ModeFacts
        <4> QED
          BY <4>1, <3>4, <3>5 DEF Degrees, GoodList
      <3>7. ASSUME NEW m \in Locs \ Nodes PROVE graph'[m] = {}
        BY <3>2, <3>4 DEF Degrees
      <3>8. ASSUME NEW i \in 0 .. node_ctr' - 1 PROVE Cardinality(graph'[VisitOrder(i)]) <= R
        <4>1. i = node_ctr \/ i \in 0 .. node_ctr - 1
          BY <3>1, ModeFacts
        <4>2. VisitOrder(i) \in Locs
          BY <4>1, <3>1, ModeFacts, Numbers DEF VisitOrder, Locs
        <4>3. CASE VisitOrder(i) = l
          BY <4>3, <3>4
        <4>4. CASE VisitOrder(i) # l
          <5>1. i \in 0 .. node_ctr - 1
            BY <4>1, <4>4, <3>2
          <5> QED
            BY <5>1, <4>2, <4>4, <3>1, <3>4 DEF Degrees
        <4> QED
          BY <4>3, <4>4
      <3> QED
        BY <3>4, <3>6, <3>7, <3>8
    <2> QED
      BY <2>1, <2>2
  <1>10. Degrees'
    <2>1. \A l \in Nodes : GoodList(graph'[l], l, Nodes, SlackRange)
      BY <1>9 DEF Degrees, GoodList
    <2>2. \A i : VisitOrder(i)' = VisitOrder(i)
      BY <1>1 DEF VisitOrder
    <2> QED
      BY <2>1, <2>2, <1>3, <1>9 DEF Degrees
  <1>11. \A l \in Nodes \ Free : graph'[l] \subseteq Nodes \ Free
    BY <1>4, <1>9 DEF Linked
  <1>12. Phases'
    <2>1. CASE SetStartPoints
      BY <2>1, <1>1, <1>3 DEF SetStartPoints, Phases
    <2>2. CASE LinkDone
      <3>1. 0 \in 0 .. nd + mode.frozen
        BY ModeFacts
      <3> QED
        BY <3>1, <2>2, <1>1, <1>2, <1>3 DEF LinkDone, Phases
    <2>3. CASE CleanupNode
      <3>1. node_ctr + 1 \in 0 .. nd + mode.frozen /\ node_ctr + 1 \in Nat /\ phase = "cleanup"
        BY <2>3, ModeFacts DEF CleanupNode, Phases, NumVisits
      <3> QED
        BY <3>1, <2>3, <1>1, <1>2, <1>3 DEF CleanupNode, Phases
    <2>4. CASE BuildDone
      BY <2>4, <1>1, <1>3 DEF BuildDone, Phases
    <2> QED
      BY <2>1, <2>2, <2>3, <2>4
  <1>13. Entry'
    <2>1. \A l \in Free : graph'[l] = {}
      <3>1. \A l \in Free : l \in Nodes /\ graph[l] = {}
        BY <1>4, ModeFacts DEF Entry, Free
      <3> QED
        BY <3>1, <1>9
    <2>2. mode.frozen > 0 \/ phase # "new"
      <3>1. phase = "new" => SetStartPoints
        BY DEF LinkDone, CleanupNode, BuildDone
      <3>2. SetStartPoints => mode.dynamic
        BY DEF SetStartPoints
      <3> QED
        BY <3>1, <3>2, ModeFacts
    <2>3. \A t \in Threads : pc'[t] # "rewrite"
      BY <1>2 DEF Idle
    <2> QED
      BY <2>1, <2>2, <2>3, <1>1, <1>3 DEF Entry
  <1> HIDE DEF Inv, Sane
  <1>14. \A l \in Nodes' \ Free' : graph'[l] \subseteq Nodes' \ Free'
    BY <1>3, <1>11
  <1>15. ~mode'.conc => \A l \in Tagged' : vec'[l] = location_to_tag'[l]
    BY <1>1, <1>3, <1>8
  <1> QED
    BY <1>2, <1>5, <1>6, <1>10, <1>12, <1>13, <1>14, <1>15, RestingSane

LEMMA BuildSane == ASSUME Inv, Sane, NEW n \in 1 .. MaxPoints, Build(n) PROVE Sane'
  <1> USE DEF Inv, Sane
  <1>1. /\ UNCHANGED <<mode, node_ctr, graph, empty_slots, delete_set, old_delete_set, data_compacted, thread, files>>
        /\ phase = "new" /\ phase' = "link" /\ nd' = n /\ (mode.dynamic \/ n = MaxPoints) /\ mode.frozen <= 1
        /\ location_to_tag' = [l \in DataLocs |-> IF l < n THEN l + 1 ELSE NoTag]
    BY DEF Build
  <1>2. PICK entry \in DataLocs :
          /\ start' = IF mode.frozen > 0 THEN MaxPoints ELSE entry
          /\ vec' = [l \in Locs |-> IF l < n THEN l + 1
                                    ELSE IF l \in Frozen /\ entry < n THEN entry + 1 ELSE vec[l]]
    BY DEF Build
  <1>3. /\ Idle /\ ~Loadable /\ (\A l \in Locs : graph[l] = {}) /\ data_compacted /\ delete_set = {} /\ old_delete_set = {}
        /\ node_ctr \in Nat
    BY <1>1 DEF Phases, Entry
  <1>4. Locals' /\ Resting' /\ Nodes' = Nodes /\ ~Loadable'
    <2>1. Resting
      BY <1>3 DEF Resting, Idle
    <2> QED
      BY <2>1, <1>1, <1>3, RestingThreadsOK DEF Nodes, Frozen, Loadable
  <1>5. n \in Nat /\ n >= 1 /\ n <= MaxPoints /\ MaxPoints \in Nat
    BY Numbers
  <1>6. Tagged' = 0 .. n - 1 /\ \A l \in 0 .. n - 1 : location_to_tag'[l] = l + 1 /\ l \in DataLocs
    <2>1. \A l \in DataLocs : l \in Nat /\ l < MaxPoints /\ l + 1 # NoTag
      <3>1. ASSUME NEW l \in DataLocs PROVE l \in Nat /\ l < MaxPoints /\ l + 1 # NoTag
        <4>1. l \in Nat /\ l < MaxPoints /\ l + 1 \in 1 .. MaxPoints
          BY <1>5 DEF DataLocs
        <4>2. PICK x : x = l + 1
          OBVIOUS
        <4>3. x \in Tags
          BY <4>1, <4>2, TagsAssumption
        <4>4. x # NoTag
          BY <4>3, TagsAssumption
        <4> QED
          BY <4>1, <4>2, <4>4
      <3> QED
        BY <3>1
    <2>2. \A l \in DataLocs : l \in Nat /\ l < MaxPoints /\ (l < n => location_to_tag'[l] = l + 1 /\ l + 1 # NoTag)
                              /\ (~(l < n) => location_to_tag'[l] = NoTag)
      BY <1>1, <2>1
    <2>3. \A l \in 0 .. n - 1 : l \in DataLocs /\ l < n
      BY <1>5 DEF DataLocs
    <2> QED
      BY <2>2, <2>3, <1>5 DEF Tagged
  <1>7. Domains'
    BY <1>1, <1>2 DEF Domains, thread
  <1>8. Phases'
    <2>1. node_ctr = 0 => node_ctr \in 0 .. n + mode.frozen
      BY <1>5, ModeFacts
    <2>2. ~mode.dynamic => 0 .. n - 1 = DataLocs
      BY <1>1, <1>5 DEF DataLocs
    <2>3. node_ctr = 0
      BY <1>1 DEF Phases
    <2> QED
      BY <2>1, <2>2, <2>3, <1>1, <1>3, <1>4, <1>6 DEF Phases
  <1>9. Entry'
    <2>1. \A l \in Free' : graph'[l] = {}
      BY <1>1, <1>3, ModeFacts DEF Free
    <2>2. \A t \in Threads : pc'[t] # "rewrite"
      BY <1>4 DEF Resting
    <2> QED
      BY <2>1, <2>2, <1>1, <1>2, <1>3 DEF Entry
  <1>10. Degrees'
    BY <1>1, <1>4 DEF Degrees
  <1>11. FilesGraph'
    BY <1>4 DEF FilesGraph
  <1>12. \A l \in Nodes' \ Free' : graph'[l] \subseteq Nodes' \ Free'
    BY <1>1, <1>3, <1>4, ModeFacts
  <1>13. \A l \in Tagged' : vec'[l] = location_to_tag'[l]
    <2>1. \A l \in 0 .. n - 1 : l \in Locs /\ l < n
      BY <1>5, Numbers DEF Locs
    <2> QED
      BY <2>1, <1>2, <1>6
  <1> HIDE DEF Inv, Sane
  <1> QED
    BY <1>4, <1>7, <1>8, <1>9, <1>10, <1>11, <1>12, <1>13, RestingSane

-----------------------------------------------------------------------------
(* Insertions and deletions *)

LEMMA NothingHappens ==
    ASSUME Sane, UNCHANGED <<mode, build, graph, vec, location_to_tag, delete_set, old_delete_set, nd, start,
                             data_compacted, thread, files>>
    PROVE  Sane'
  <1>1. /\ UNCHANGED <<phase, node_ctr, pc, loc, tag, seen, expanded, pruned, des, copied, next_loc>>
        /\ \A u \in Threads : Same(u)
    BY DEF build, thread, Same
  <1>2. /\ Tagged' = Tagged /\ Free' = Free /\ Nodes' = Nodes /\ Filling' = Filling /\ (Loadable' <=> Loadable)
        /\ (Calm' <=> Calm)
    BY <1>1 DEF Tagged, Free, Nodes, Frozen, Filling, Loadable, Calm
  <1>3. Linked' = Linked
    BY <1>1, <1>2 DEF Linked, BeingFilled
  <1>4. Domains' /\ Phases' /\ Entry' /\ Degrees' /\ FilesGraph'
    BY <1>1, <1>2 DEF Sane, Domains, Phases, Entry, Degrees, FilesGraph, Idle, VisitOrder
  <1>5. Locals'
    BY <1>1, OthersKeep DEF Sane, Locals
  <1>6. Closed'
    BY <1>1, <1>2, <1>3, OthersKeep DEF Sane, Closed, OneEach
  <1>7. Removed'
    <2>1. \A u \in Threads : (Consolidates(u)' <=> Consolidates(u)) /\ (InsertsOrSearches(u)' <=> InsertsOrSearches(u))
      BY <1>1 DEF Consolidates, InsertsOrSearches
    <2> QED
      BY <2>1, <1>1, <1>3 DEF Sane, Removed, Removes
  <1>8. Vectors'
    <2>1. \A l : Filled(l)' <=> Filled(l)
      BY <1>1 DEF Filled
    <2> QED
      BY <2>1, <1>1, <1>2, OthersKeep DEF Sane, Vectors
  <1> QED
    BY <1>4, <1>5, <1>6, <1>7, <1>8 DEF Sane

LEMMA BeginInsertSane == ASSUME Inv, Sane, NEW t \in Threads, NEW x \in Tags, BeginInsert(t, x) PROVE Sane'
  <1>1. /\ UNCHANGED <<mode, build, graph, vec, files>> /\ phase = "ready" /\ pc[t] = "idle" /\ mode.dynamic /\ UpdateShared
    BY DEF BeginInsert, MayOperate, disk
  <1>2. CASE UNCHANGED <<points, thread>>
    <2>1. UNCHANGED <<location_to_tag, delete_set, old_delete_set, nd, start, data_compacted, thread>>
      BY <1>2 DEF points
    <2> QED
      BY <2>1, <1>1, NothingHappens
  <1>3. CASE ~UNCHANGED <<points, thread>>
    <2>1. nd < MaxPoints /\ delete_set' = delete_set \ {ReservedSlot}
      BY <1>3 DEF BeginInsert
    <2>2. PICK S : S = ReservedSlot /\ S \in DataLocs /\ S \notin Tagged \cup delete_set \cup old_delete_set
      BY <2>1, <1>1, Reserved DEF Inv
    <2>3. delete_set' = delete_set /\ S \in Free
      BY <2>1, <2>2 DEF Free
    <2>4. CASE tag_to_location[x] # NoLoc
      <3>1. UNCHANGED <<location_to_tag, old_delete_set, nd, start, data_compacted, thread>>
        BY <2>4, <2>1, <1>3 DEF BeginInsert
      <3> QED
        BY <3>1, <2>3, <1>1, NothingHappens
    <2>5. CASE tag_to_location[x] = NoLoc
      <3> USE DEF Inv, Sane
      <3>1. /\ UNCHANGED <<old_delete_set, start, data_compacted, seen, expanded, pruned, des, copied, next_loc>>
            /\ nd' = nd + 1 /\ location_to_tag' = [location_to_tag EXCEPT ![S] = x]
            /\ loc' = [loc EXCEPT ![t] = S] /\ tag' = [tag EXCEPT ![t] = x] /\ pc' = [pc EXCEPT ![t] = "vector"]
        BY <2>1, <2>2, <2>5, <1>3 DEF BeginInsert, Goto
      <3>2. /\ pc'[t] = "vector" /\ loc'[t] = S /\ tag'[t] = x /\ \A u \in Threads : u # t => Same(u)
        BY <3>1 DEF Same, Domains, TypeOK
      <3>3. x # NoTag /\ location_to_tag'[S] = x /\ \A l \in DataLocs : l # S => location_to_tag'[l] = location_to_tag[l]
        BY <3>1, <2>2, TagsAssumption DEF TypeOK
      <3>4. Tagged' = Tagged \cup {S} /\ Free' = Free \ {S} /\ Nodes' = Nodes /\ phase' = "ready" /\ mode' = mode
        BY <3>1, <3>3, <2>2, <2>3, <1>1 DEF Tagged, Free, Nodes, Frozen, build
      <3>5. Filling' = Filling \cup {S}
        <4>1. \A u \in Threads : u # t => pc'[u] = pc[u] /\ loc'[u] = loc[u]
          BY <3>2 DEF Same
        <4> QED
          BY <4>1, <3>2, <1>1 DEF Filling
      <3>6. Linked' = Linked /\ S \notin Linked
        BY <3>4, <3>5, <2>3, <1>1 DEF Linked, BeingFilled
      <3>7. Domains' /\ Phases' /\ FilesGraph'
        BY <3>1, <3>4, <1>1 DEF Domains, Phases, FilesGraph, Loadable
      <3>8. Entry'
        <4>1. \A u \in Threads : data_compacted => pc'[u] # "rewrite"
          BY <3>2 DEF Entry, Same
        <4> QED
          BY <4>1, <3>1, <3>4, <2>3, <1>1 DEF Entry
      <3>9. Locals'
        <4>1. ThreadOK(t)'
          BY <3>1, <3>2, <3>4, <2>2, <1>1, ModeFacts DEF Locals, ThreadOK, Inserting
        <4> QED
          BY <4>1, <3>2, <3>4, <1>1, OthersKeep DEF Locals
      <3>10. Degrees'
        BY <3>4, <1>1 DEF Degrees
      <3>11. Closed'
        <4>1. SUFFICES ASSUME Calm PROVE (\A l \in Linked : graph[l] \subseteq Linked) /\ (\A u \in Threads : HandLinked(u)') /\ OneEach'
          BY <3>1, <3>4, <3>6, <1>1 DEF Closed, Calm
        <4>2. HandLinked(t)'
          BY <3>2, <3>4 DEF HandLinked, Inserting
        <4>3. \A u \in Threads : u # t => HandLinked(u)'
          BY <4>1, <3>2, <3>4, <3>6, <1>1, OthersKeep DEF Closed
        <4>4. \A u \in Threads : u # t /\ Inserting(u)' => Inserting(u) /\ loc'[u] = loc[u] /\ loc'[u] # S
          BY <4>1, <3>2, <3>4, <2>3, <1>1, OthersKeep DEF Closed, HandLinked, Same
        <4>5. OneEach'
          BY <4>1, <4>4, <3>2, <1>1 DEF OneEach, Closed
        <4> QED
          BY <4>1, <4>2, <4>3, <4>5 DEF Closed
      <3>12. Removed'
        <4>1. ~mode.conc => \A u \in Threads : ~Consolidates(u)
          BY <1>1 DEF UpdateShared, Consolidating
        <4>2. ~mode.conc => \A u \in Threads : ~Consolidates(u)'
          BY <4>1, <3>2 DEF Consolidates, Same
        <4> QED
          BY <4>2, <3>4 DEF Removed
      <3>13. Vectors'
        <4>1. SUFFICES ASSUME ~mode.conc PROVE (\A l \in Tagged' : Filled(l)') /\ (\A u \in Threads : HasMet(u)')
          BY <3>4 DEF Vectors
        <4>2. ASSUME NEW l \in Tagged' PROVE Filled(l)'
          <5>1. CASE l = S
            BY <5>1, <3>2 DEF Filled
          <5>2. CASE l # S
            <6>1. l \in Tagged /\ Filled(l) /\ location_to_tag'[l] = location_to_tag[l]
              BY <5>2, <4>1, <4>2, <3>3, <3>4, ModeFacts DEF Vectors
            <6>2. \A u \in Threads : pc[u] = "vector" => pc'[u] = "vector" /\ loc'[u] = loc[u]
              BY <3>2, <1>1 DEF Same
            <6> QED
              BY <6>1, <6>2, <1>1 DEF Filled
          <5> QED
            BY <5>1, <5>2
        <4>3. ASSUME NEW u \in Threads, u # t PROVE HasMet(u)'
          <5>1. HasMet(u) /\ HandLinked(u) /\ Same(u) /\ ThreadOK(u)
            BY <4>1, <4>3, <3>2 DEF Vectors, Closed, Calm, Locals
          <5>2. pc[u] = "vector" => loc[u] # S /\ loc[u] \in DataLocs
            BY <5>1, <2>3, <1>1 DEF HandLinked, Inserting, ThreadOK
          <5>3. pc[u] = "query" => \A p \in seen[u] : p[1] # S
            BY <5>1, <3>6 DEF HandLinked, Met
          <5> QED
            BY <5>1, <5>2, <5>3, <3>3, <3>4, ModeFacts DEF HasMet, Same
        <4>4. HasMet(t)'
          BY <3>2, <3>3 DEF HasMet
        <4> QED
          BY <4>2, <4>3, <4>4
      <3> QED
        BY <3>7, <3>8, <3>9, <3>10, <3>11, <3>12, <3>13
    <2> QED
      BY <2>4, <2>5
  <1> QED
    BY <1>2, <1>3

LEMMA LazyDeleteSane == ASSUME Inv, Sane, NEW x \in Tags, LazyDelete(x) PROVE Sane'
  <1> USE DEF Inv, Sane
  <1>1. /\ UNCHANGED <<mode, build, graph, vec, old_delete_set, nd, start, thread, files>> /\ data_compacted' = FALSE
        /\ phase = "ready" /\ mode.dynamic
    BY DEF LazyDelete, disk
  <1>2. UNCHANGED <<phase, node_ctr, pc, loc, tag, seen, expanded, pruned, des, copied, next_loc>> /\ \A u \in Threads : Same(u)
    BY <1>1 DEF build, thread, Same
  <1>3. /\ Tagged' \subseteq Tagged /\ Tagged' \cup delete_set' = Tagged \cup delete_set
        /\ \A l \in DataLocs : location_to_tag'[l] \in {location_to_tag[l], NoTag}
        /\ \A l \in Tagged' : location_to_tag'[l] = location_to_tag[l]
    <2>1. CASE tag_to_location[x] = NoLoc
      <3>1. UNCHANGED <<delete_set, location_to_tag>>
        BY <2>1 DEF LazyDelete
      <3> QED
        BY <3>1 DEF Tagged
    <2>2. CASE tag_to_location[x] # NoLoc
      <3>1. PICK S \in DataLocs : S = tag_to_location[x]
        BY <2>2 DEF TypeOK
      <3>2. delete_set' = delete_set \cup {S} /\ location_to_tag' = [location_to_tag EXCEPT ![S] = NoTag]
        BY <2>2, <3>1 DEF LazyDelete
      <3>3. location_to_tag[S] = x /\ x # NoTag
        BY <2>2, <3>1, TagsAssumption DEF TagMaps
      <3>4. location_to_tag'[S] = NoTag /\ \A l \in DataLocs : l # S => location_to_tag'[l] = location_to_tag[l]
        BY <3>2 DEF TypeOK
      <3> QED
        BY <3>1, <3>2, <3>3, <3>4 DEF Tagged
    <2> QED
      BY <2>1, <2>2
  <1>4. Free' = Free /\ Nodes' = Nodes /\ Filling' = Filling /\ (Loadable' <=> Loadable)
    BY <1>1, <1>2, <1>3 DEF Free, Nodes, Frozen, Filling, Loadable
  <1>5. Linked' = Linked
    BY <1>2, <1>4 DEF Linked, BeingFilled
  <1>6. Domains' /\ Phases' /\ Entry' /\ Degrees' /\ FilesGraph'
    BY <1>1, <1>2, <1>4 DEF Domains, Phases, Entry, Degrees, FilesGraph
  <1>7. Locals'
    BY <1>1, <1>2, OthersKeep DEF Locals
  <1>8. Closed'
    <2>1. Calm' => Calm
      BY <1>1 DEF Calm
    <2> QED
      BY <2>1, <1>1, <1>2, <1>4, <1>5, OthersKeep DEF Closed, OneEach
  <1>9. Removed'
    <2>1. \A u \in Threads : (Consolidates(u)' <=> Consolidates(u)) /\ (InsertsOrSearches(u)' <=> InsertsOrSearches(u))
      BY <1>2 DEF Consolidates, InsertsOrSearches
    <2> QED
      BY <2>1, <1>1, <1>2, <1>5 DEF Removed, Removes
  <1>10. Vectors'
    <2>1. \A l \in Tagged' : Filled(l) => Filled(l)'
      BY <1>1, <1>2, <1>3 DEF Filled
    <2>2. ASSUME NEW u \in Threads, HasMet(u), ThreadOK(u) PROVE HasMet(u)'
      <3>1. pc[u] = "vector" => loc[u] \in DataLocs
        BY <2>2, <1>1 DEF ThreadOK, Inserting
      <3> QED
        BY <3>1, <2>2, <1>2, <1>3 DEF HasMet
    <2> QED
      BY <2>1, <2>2, <1>1, <1>3 DEF Vectors, Locals
  <1> HIDE DEF Inv
  <1> QED
    BY <1>6, <1>7, <1>8, <1>9, <1>10

-----------------------------------------------------------------------------
(* Consolidation *)

ConsolidationLabels == {"idle", "checked", "consolidate", "rewrite"}

LEMMA ConsolidationKeeps ==
    ASSUME Inv, Sane, NEW t \in Threads, \A u \in Threads : u # t => Same(u), phase = "ready", mode.dynamic,
           UNCHANGED <<mode, phase, vec, location_to_tag, start, data_compacted, files>>,
           pc[t] \in ConsolidationLabels, pc'[t] \in ConsolidationLabels,
           Domains', ThreadOK(t)', Degrees',
           data_compacted => delete_set' = {} /\ old_delete_set' = {} /\ (\A l \in Free' : graph'[l] = {}) /\ pc'[t] # "rewrite",
           Calm => (\A l \in Linked' : graph'[l] \subseteq Linked') /\ \A u \in Threads : u # t => HandLinked(u)',
           ~mode.conc => /\ Consolidates(t)' => Removes(t)'
                         /\ \A u \in Threads : u # t => ~Consolidates(u)
    PROVE  Sane'
  <1> USE DEF Inv, Sane
  <1>1. Tagged' = Tagged /\ Nodes' = Nodes /\ (Loadable' <=> Loadable) /\ (Calm' <=> Calm)
    BY DEF Tagged, Nodes, Frozen, Loadable, Calm
  <1>2. Phases' /\ FilesGraph'
    BY <1>1 DEF Phases, FilesGraph
  <1>3. Entry'
    <2>1. \A u \in Threads : data_compacted => pc'[u] # "rewrite"
      BY DEF Entry, Same
    <2> QED
      BY <2>1 DEF Entry
  <1>4. Locals'
    BY OthersKeep DEF Locals
  <1>5. ~Inserting(t)' /\ pc'[t] \notin {"search", "query", "vector"} /\ ~Inserting(t) /\ pc[t] # "vector"
    BY DEF ConsolidationLabels, Inserting
  <1>6. Closed'
    <2>1. HandLinked(t)'
      BY <1>5 DEF HandLinked, Inserting
    <2>2. Calm => OneEach'
      <3>1. \A u \in Threads : Inserting(u)' => u # t /\ Inserting(u) /\ loc'[u] = loc[u]
        BY <1>5, OthersKeep DEF Same
      <3> QED
        BY <3>1 DEF OneEach, Closed
    <2> QED
      BY <2>1, <2>2, <1>1 DEF Closed
  <1>7. Removed'
    <2>1. ~mode.conc => \A u \in Threads : u # t => ~Consolidates(u)'
      BY DEF Consolidates, Same
    <2> QED
      BY <2>1 DEF Removed
  <1>8. Vectors'
    <2>1. HasMet(t)'
      BY <1>5 DEF HasMet
    <2>2. \A u \in Threads : u # t /\ HasMet(u) => HasMet(u)'
      BY OthersKeep
    <2>3. \A l : Filled(l) => Filled(l)'
      BY <1>5 DEF Filled, Same
    <2> QED
      BY <2>1, <2>2, <2>3, <1>1 DEF Vectors
  <1> HIDE DEF Inv
  <1> QED
    BY <1>2, <1>3, <1>4, <1>6, <1>7, <1>8

LEMMA SwapDeleteSetsSane == ASSUME Inv, Sane, NEW t \in Threads, SwapDeleteSets(t) PROVE Sane'
  <1> USE DEF Inv, Sane
  <1>1. /\ UNCHANGED <<mode, build, graph, vec, location_to_tag, nd, start, data_compacted, loc, tag, seen, expanded,
                       pruned, des, copied, files>>
        /\ pc[t] = "checked" /\ pc' = [pc EXCEPT ![t] = "consolidate"] /\ ~Consolidating /\ (mode.conc \/ UpdateFree)
        /\ old_delete_set' = delete_set /\ delete_set' = {} /\ next_loc' = 0
    BY DEF SwapDeleteSets, Goto, disk
  <1>2. pc'[t] = "consolidate" /\ (\A u \in Threads : u # t => Same(u)) /\ UNCHANGED phase
    BY <1>1 DEF Same, TypeOK, build
  <1>3. phase = "ready" /\ mode.dynamic /\ old_delete_set = {}
    BY <1>1 DEF DeleteSets, InConsolidation
  <1>4. Domains'
    BY <1>1, ModeFacts, Numbers DEF Domains
  <1>5. Free' = Free /\ Nodes' = Nodes /\ Filling' = Filling
    <2>1. Filling' = Filling
      <3>1. \A u \in Threads : (pc'[u] \in FillingLabels <=> pc[u] \in FillingLabels)
        BY <1>1, <1>2 DEF Same, FillingLabels
      <3> QED
        BY <3>1, <1>1 DEF Filling, FillingLabels
    <2> QED
      BY <2>1, <1>1, <1>3 DEF Free, Tagged, Nodes, Frozen
  <1>6. Linked' = Linked
    BY <1>2, <1>5 DEF Linked, BeingFilled
  <1>7. ThreadOK(t)'
    BY <1>1, <1>2, <1>5 DEF Locals, ThreadOK, Inserting
  <1>8. Degrees'
    BY <1>1, <1>2, <1>3, <1>5 DEF Degrees
  <1>9. data_compacted => delete_set' = {} /\ old_delete_set' = {} /\ (\A l \in Free' : graph'[l] = {}) /\ pc'[t] # "rewrite"
    BY <1>1, <1>2, <1>5 DEF Entry
  <1>10. Calm => (\A l \in Linked' : graph'[l] \subseteq Linked') /\ \A u \in Threads : u # t => HandLinked(u)'
    BY <1>1, <1>2, <1>5, <1>6, OthersKeep DEF Closed
  <1>11. ~mode.conc => /\ Consolidates(t)' => Removes(t)'
                       /\ \A u \in Threads : u # t => ~Consolidates(u)
    <2>1. SUFFICES ASSUME ~mode.conc PROVE Removes(t)'
      BY <1>1 DEF Consolidating
    <2>2. \A u \in Threads : ~InsertsOrSearches(u) /\ ~Consolidates(u)
      BY <2>1, <1>1 DEF UpdateFree, Consolidating
    <2>3. \A u \in Threads : ~InsertsOrSearches(u)' /\ (Consolidates(u)' => u = t)
      <3>1. ~InsertsOrSearches(t)'
        BY <1>2 DEF InsertsOrSearches
      <3> QED
        BY <3>1, <2>2, <1>1, <1>2, OthersKeep
    <2>4. 0 .. next_loc' - 1 = {}
      BY <1>1
    <2> QED
      BY <2>3, <2>4, <1>2 DEF Removes
  <1> HIDE DEF Inv, Sane
  <1> QED
    BY <1>1, <1>2, <1>3, <1>4, <1>7, <1>8, <1>9, <1>10, <1>11, ConsolidationKeeps DEF ConsolidationLabels

\* A consolidation that does not run concurrently runs alone, and then the slots that it takes for
\* empty are the free ones.
LEMMA ConsolidatesAlone ==
    ASSUME Inv, Sane, NEW t \in Threads, Consolidates(t), ~mode.conc
    PROVE  /\ Removes(t) /\ phase = "ready" /\ mode.dynamic /\ Empty = Free /\ BeingFilled = {}
           /\ Linked = Nodes \ Free /\ old_delete_set \subseteq Linked
           /\ \A u \in Threads : u # t => ~Consolidates(u)
  <1> USE DEF Inv, Sane
  <1>1. Removes(t)
    BY DEF Removed
  <1>2. phase = "ready" /\ mode.dynamic /\ ~stale_slots
    BY DEF Consolidates, DeleteSets, InConsolidation
  <1>3. Filling = {}
    <2>1. \A u \in Threads : pc[u] \notin FillingLabels
      BY <1>1 DEF Removes, InsertsOrSearches, FillingLabels
    <2> QED
      BY <2>1 DEF Filling, FillingLabels
  <1>4. Empty = Free
    BY <1>2 DEF Slots, Partition, Free
  <1>5. Linked = Nodes \ Free /\ BeingFilled = {}
    BY <1>3 DEF Linked, BeingFilled
  <1>6. old_delete_set \subseteq Linked
    BY <1>5, ModeFacts DEF Free, TypeOK
  <1> QED
    BY <1>1, <1>2, <1>4, <1>5, <1>6 DEF Removes

LEMMA ReadListSane == ASSUME Inv, Sane, NEW t \in Threads, ReadList(t) PROVE Sane'
  <1> USE DEF Inv, Sane
  <1>1. /\ UNCHANGED <<mode, build, graph, vec, location_to_tag, delete_set, old_delete_set, nd, start, data_compacted,
                       loc, tag, seen, expanded, pruned, files>>
        /\ pc[t] = "consolidate" /\ next_loc < MaxPoints + mode.frozen /\ next_loc' = next_loc + 1
    BY DEF ReadList, points, disk
  <1>2. PICK n : n = next_loc /\ n \in Nodes /\ n \in Nat
    BY <1>1, ModeFacts, Numbers DEF Domains
  <1>3. \/ ~NeedsRewrite(n) /\ UNCHANGED <<pc, des, copied>>
        \/ /\ NeedsRewrite(n) /\ copied' = [copied EXCEPT ![t] = Expansion(n, old_delete_set)]
           /\ des' = [des EXCEPT ![t] = n] /\ pc' = [pc EXCEPT ![t] = "rewrite"]
    BY <1>2 DEF ReadList, Goto
  <1>4. /\ \A u \in Threads : u # t => Same(u)
        /\ UNCHANGED phase /\ Consolidates(t)
        /\ pc'[t] = "consolidate" => copied'[t] = copied[t] /\ ~NeedsRewrite(n)
        /\ pc'[t] = "rewrite" => copied'[t] = Expansion(n, old_delete_set) /\ des'[t] = n /\ NeedsRewrite(n)
        /\ pc'[t] \in {"consolidate", "rewrite"}
    BY <1>1, <1>3 DEF Same, Domains, TypeOK, build, Consolidates
  <1>5. phase = "ready" /\ mode.dynamic
    BY <1>1 DEF DeleteSets, InConsolidation
  <1>6. Domains'
    <2>1. DOMAIN copied' = Threads /\ DOMAIN des' = Threads
      BY <1>3 DEF Domains
    <2>2. next_loc' \in 0 .. MaxPoints + mode.frozen
      BY <1>1, ModeFacts, Numbers DEF Domains
    <2> QED
      BY <2>1, <2>2, <1>1 DEF Domains
  <1>7. Free' = Free /\ Nodes' = Nodes /\ Filling' = Filling
    <2>1. Filling' = Filling
      <3>1. \A u \in Threads : (pc'[u] \in FillingLabels <=> pc[u] \in FillingLabels)
        BY <1>1, <1>4 DEF Same, FillingLabels
      <3> QED
        BY <3>1, <1>1 DEF Filling, FillingLabels
    <2> QED
      BY <2>1, <1>1 DEF Free, Tagged, Nodes, Frozen
  <1>8. Linked' = Linked
    BY <1>4, <1>7 DEF Linked, BeingFilled
  <1>9. Expansion(n, old_delete_set) \subseteq Nodes /\ n \notin Expansion(n, old_delete_set)
    <2>1. \A l \in Nodes : graph[l] \subseteq Nodes /\ l \notin graph[l]
      BY DEF Degrees, GoodList
    <2> QED
      BY <2>1, <1>2 DEF Expansion
  <1>10. ThreadOK(t)'
    BY <1>1, <1>2, <1>4, <1>7, <1>9 DEF Locals, ThreadOK, Inserting
  <1>11. Degrees'
    BY <1>1, <1>4, <1>5, <1>7 DEF Degrees
  <1>12. data_compacted => delete_set' = {} /\ old_delete_set' = {} /\ (\A l \in Free' : graph'[l] = {}) /\ pc'[t] # "rewrite"
    BY <1>1, <1>4, <1>7 DEF Entry, NeedsRewrite
  <1>13. Calm => (\A l \in Linked' : graph'[l] \subseteq Linked') /\ \A u \in Threads : u # t => HandLinked(u)'
    BY <1>1, <1>4, <1>7, <1>8, OthersKeep DEF Closed
  <1>14. ASSUME ~mode.conc PROVE Removes(t)' /\ \A u \in Threads : u # t => ~Consolidates(u)
    <2>1. /\ Removes(t) /\ Empty = Free /\ Linked = Nodes \ Free /\ old_delete_set \subseteq Linked
          /\ \A u \in Threads : u # t => ~Consolidates(u)
      BY <1>4, <1>14, ConsolidatesAlone
    <2>2. \A u \in Threads : ~InsertsOrSearches(u)' /\ (Consolidates(u)' => u = t)
      <3>1. ~InsertsOrSearches(t)'
        BY <1>4 DEF InsertsOrSearches
      <3> QED
        BY <3>1, <2>1, <1>1, <1>4, OthersKeep DEF Removes
    <2>3. ASSUME NEW l \in 0 .. next_loc' - 1, l \in Linked \ old_delete_set, pc'[t] = "rewrite" => l # des'[t]
          PROVE  graph[l] \cap old_delete_set = {}
      <3>1. CASE l = n
        <4>1. ~NeedsRewrite(n)
          BY <3>1, <2>3, <1>4
        <4> QED
          BY <4>1, <3>1, <2>1, <2>3 DEF NeedsRewrite
      <3>2. CASE l # n
        <4>1. l \in 0 .. next_loc - 1
          BY <3>2, <2>3, <1>1, <1>2
        <4> QED
          BY <4>1, <2>1, <2>3, <1>1 DEF Removes
      <3> QED
        BY <3>1, <3>2
    <2>4. ASSUME pc'[t] = "rewrite"
          PROVE  /\ n \in 0 .. next_loc' - 1 /\ n \in Linked
                 /\ Expansion(n, old_delete_set) \subseteq Linked \ old_delete_set
      <3>1. NeedsRewrite(n)
        BY <2>4, <1>4
      <3>2. n \in Linked /\ n \in 0 .. next_loc' - 1
        BY <3>1, <2>1, <1>1, <1>2 DEF NeedsRewrite
      <3>3. \A l \in Linked : graph[l] \subseteq Linked
        BY <1>14 DEF Closed, Calm
      <3> QED
        BY <3>2, <3>3, <2>1 DEF Expansion
    <2> QED
      BY <2>1, <2>2, <2>3, <2>4, <1>1, <1>4, <1>8 DEF Removes
  <1> HIDE DEF Inv, Sane
  <1> QED
    BY <1>1, <1>4, <1>5, <1>6, <1>10, <1>11, <1>12, <1>13, <1>14, ConsolidationKeeps DEF ConsolidationLabels

LEMMA RewriteListSane == ASSUME Inv, Sane, NEW t \in Threads, RewriteList(t) PROVE Sane'
  <1> USE DEF Inv, Sane
  <1>1. /\ UNCHANGED <<mode, build, vec, location_to_tag, delete_set, old_delete_set, nd, start, data_compacted,
                       loc, tag, seen, expanded, pruned, next_loc, files>>
        /\ pc[t] = "rewrite" /\ pc' = [pc EXCEPT ![t] = "consolidate"]
        /\ copied' = [copied EXCEPT ![t] = {}] /\ des' = [des EXCEPT ![t] = NoLoc]
    BY DEF RewriteList, points, disk, Goto
  <1>2. PICK s \in IF Cardinality(copied[t]) <= R THEN {copied[t]} ELSE Prune(copied[t]) :
          graph' = [graph EXCEPT ![des[t]] = s]
    BY DEF RewriteList
  <1>3. /\ pc'[t] = "consolidate" /\ copied'[t] = {} /\ \A u \in Threads : u # t => Same(u)
        /\ UNCHANGED phase /\ Consolidates(t)
    BY <1>1 DEF Same, Domains, TypeOK, build, Consolidates
  <1>4. phase = "ready" /\ mode.dynamic
    BY <1>1 DEF DeleteSets, InConsolidation
  <1>5. Domains'
    BY <1>1 DEF Domains
  <1>6. Free' = Free /\ Nodes' = Nodes /\ Filling' = Filling
    <2>1. Filling' = Filling
      <3>1. \A u \in Threads : (pc'[u] \in FillingLabels <=> pc[u] \in FillingLabels)
        BY <1>1, <1>3 DEF Same, FillingLabels
      <3> QED
        BY <3>1, <1>1 DEF Filling, FillingLabels
    <2> QED
      BY <2>1, <1>1 DEF Free, Tagged, Nodes, Frozen
  <1>7. Linked' = Linked
    BY <1>3, <1>6 DEF Linked, BeingFilled
  <1>8. ThreadOK(t) /\ des[t] \in Nodes /\ des[t] \notin copied[t] /\ copied[t] \in SUBSET Nodes
    BY <1>1 DEF Locals, ThreadOK
  <1>9. s \subseteq copied[t] /\ Cardinality(s) <= R
    BY <1>2, <1>8, Lists
  <1>10. Degrees' /\ graph'[des[t]] = s /\ \A l \in Locs : l # des[t] => graph'[l] = graph[l]
    <2>1. GoodList(s, des[t], Nodes, SlackRange)
      <3>1. s \subseteq Nodes /\ des[t] \notin s
        BY <1>8, <1>9
      <3> QED
        BY <3>1, <1>9, PrunedIsGood
    <2> QED
      BY <2>1, <1>1, <1>2, <1>3, <1>4, <1>8, WriteList
  <1>11. ThreadOK(t)'
    BY <1>1, <1>3, <1>6, <1>8 DEF ThreadOK, Inserting
  <1>12. ~data_compacted
    BY <1>1 DEF Entry
  <1>13. ASSUME ~mode.conc PROVE /\ Removes(t)' /\ (\A u \in Threads : u # t => ~Consolidates(u))
                                 /\ \A l \in Linked : graph'[l] \subseteq Linked
    <2>1. Removes(t) /\ \A u \in Threads : u # t => ~Consolidates(u)
      BY <1>3, <1>13, ConsolidatesAlone
    <2>2. \A u \in Threads : ~InsertsOrSearches(u)' /\ (Consolidates(u)' => u = t)
      <3>1. ~InsertsOrSearches(t)'
        BY <1>3 DEF InsertsOrSearches
      <3> QED
        BY <3>1, <2>1, <1>1, <1>3, OthersKeep DEF Removes
    <2>3. s \subseteq Linked \ old_delete_set /\ Linked \subseteq Locs /\ Linked \subseteq Nodes
      BY <2>1, <1>1, <1>9, ModeFacts DEF Removes, Linked
    <2>4. ASSUME NEW l \in 0 .. next_loc - 1, l \in Linked \ old_delete_set PROVE graph'[l] \cap old_delete_set = {}
      <3>1. CASE l = des[t]
        BY <3>1, <2>3, <1>10
      <3>2. CASE l # des[t]
        BY <3>2, <2>1, <2>3, <2>4, <1>10 DEF Removes
      <3> QED
        BY <3>1, <3>2
    <2>5. \A l \in Linked : graph'[l] \subseteq Linked
      <3>1. \A l \in Linked : graph[l] \subseteq Linked
        BY <1>13 DEF Closed, Calm
      <3> QED
        BY <3>1, <2>3, <1>10
    <2> QED
      BY <2>1, <2>2, <2>4, <2>5, <1>1, <1>3, <1>7 DEF Removes
  <1>14. Calm => (\A l \in Linked' : graph'[l] \subseteq Linked') /\ \A u \in Threads : u # t => HandLinked(u)'
    <2>1. Calm => ~mode.conc
      BY <1>12 DEF Calm
    <2> QED
      BY <2>1, <1>1, <1>3, <1>6, <1>7, <1>13, OthersKeep DEF Closed
  <1> HIDE DEF Inv, Sane
  <1> QED
    BY <1>1, <1>3, <1>4, <1>5, <1>10, <1>11, <1>12, <1>13, <1>14, ConsolidationKeeps DEF ConsolidationLabels

LEMMA ReleaseSane == ASSUME Inv, Sane, NEW t \in Threads, Release(t) PROVE Sane'
  <1> USE DEF Inv, Sane
  <1>1. /\ UNCHANGED <<mode, build, graph, vec, location_to_tag, delete_set, start, data_compacted, loc, tag, seen, expanded,
                       pruned, des, copied, files>>
        /\ pc[t] = "consolidate" /\ pc' = [pc EXCEPT ![t] = "idle"] /\ next_loc = MaxPoints + mode.frozen
        /\ old_delete_set' = {} /\ next_loc' = 0
    BY DEF Release, Goto, disk
  <1>2. pc'[t] = "idle" /\ (\A u \in Threads : u # t => Same(u)) /\ UNCHANGED phase /\ Consolidates(t)
    BY <1>1 DEF Same, TypeOK, build, Consolidates
  <1>3. phase = "ready" /\ mode.dynamic /\ ~stale_slots
    BY <1>1 DEF DeleteSets, InConsolidation
  <1>4. Domains'
    BY <1>1, ModeFacts, Numbers DEF Domains
  <1>5. Free' = Free \cup old_delete_set /\ Nodes' = Nodes /\ Filling' = Filling
    <2>1. Filling' = Filling
      <3>1. \A u \in Threads : (pc'[u] \in FillingLabels <=> pc[u] \in FillingLabels)
        BY <1>1, <1>2 DEF Same, FillingLabels
      <3> QED
        BY <3>1, <1>1 DEF Filling, FillingLabels
    <2>2. old_delete_set \cap (Tagged \cup delete_set) = {} /\ old_delete_set \subseteq DataLocs
      BY <1>3 DEF Slots, Partition, TypeOK
    <2> QED
      BY <2>1, <2>2, <1>1 DEF Free, Tagged, Nodes, Frozen
  <1>6. Linked' = Linked \ old_delete_set
    BY <1>2, <1>5 DEF Linked, BeingFilled
  <1>7. ThreadOK(t)'
    BY <1>1, <1>2, <1>5 DEF Locals, ThreadOK, Inserting
  <1>8. Degrees'
    BY <1>1, <1>2, <1>3, <1>5 DEF Degrees
  <1>9. data_compacted => delete_set' = {} /\ old_delete_set' = {} /\ (\A l \in Free' : graph'[l] = {}) /\ pc'[t] # "rewrite"
    BY <1>1, <1>2, <1>5 DEF Entry
  <1>10. ASSUME ~mode.conc PROVE /\ \A u \in Threads : u # t => ~Consolidates(u) /\ HandLinked(u)'
                                 /\ \A l \in Linked' : graph'[l] \subseteq Linked'
    <2>1. Removes(t) /\ \A u \in Threads : u # t => ~Consolidates(u)
      BY <1>2, <1>10, ConsolidatesAlone
    <2>2. \A u \in Threads : u # t => HandLinked(u)'
      <3>1. \A u \in Threads : u # t => ~InsertsOrSearches(u)'
        BY <2>1, <1>1, <1>2, OthersKeep DEF Removes
      <3> QED
        BY <3>1 DEF HandLinked, InsertsOrSearches, Inserting
    <2>3. ASSUME NEW l \in Linked' PROVE graph'[l] \subseteq Linked'
      <3>1. l \in Linked \ old_delete_set /\ l \in 0 .. next_loc - 1
        <4>1. l \in Linked \ old_delete_set
          BY <2>3, <1>6
        <4>2. l \in Nodes
          BY <4>1 DEF Linked
        <4>3. Nodes = 0 .. MaxPoints + mode.frozen - 1
          BY ModeFacts
        <4>4. next_loc = MaxPoints + mode.frozen
          BY <1>1
        <4>5. l \in 0 .. next_loc - 1
          BY <4>2, <4>3, <4>4, ModeFacts, Numbers
        <4> QED
          BY <4>1, <4>5
      <3>2. graph[l] \cap old_delete_set = {}
        BY <3>1, <2>1, <1>1 DEF Removes
      <3>3. graph[l] \subseteq Linked
        BY <3>1, <1>10 DEF Closed, Calm
      <3> QED
        BY <3>2, <3>3, <1>1, <1>6
    <2> QED
      BY <2>1, <2>2, <2>3
  <1>11. Calm => (\A l \in Linked' : graph'[l] \subseteq Linked') /\ \A u \in Threads : u # t => HandLinked(u)'
    <2>1. CASE ~mode.conc
      BY <2>1, <1>10
    <2>2. CASE data_compacted
      <3>1. old_delete_set = {}
        BY <2>2 DEF Entry
      <3>2. Linked' = Linked /\ Free' = Free
        BY <3>1, <1>5, <1>6
      <3> QED
        BY <3>2, <1>1, <1>2, OthersKeep DEF Closed
    <2> QED
      BY <2>1, <2>2 DEF Calm
  <1>12. ~Consolidates(t)'
    BY <1>2 DEF Consolidates
  <1> HIDE DEF Inv, Sane
  <1> QED
    BY <1>1, <1>2, <1>3, <1>4, <1>7, <1>8, <1>9, <1>10, <1>11, <1>12, ConsolidationKeeps DEF ConsolidationLabels

-----------------------------------------------------------------------------
(* save() *)

\* What save() leaves: the lists lead from points to points, and unused slots have none.
Without(tags) == {l \in DataLocs : tags[l] = NoTag}
GoodLayout(s, tags) ==
    /\ s = [graph |-> s.graph, vec |-> s.vec]
    /\ s.graph = [l \in Locs |-> s.graph[l]] /\ s.vec = [l \in Locs |-> s.vec[l]]
    /\ \A l \in Nodes : GoodList(s.graph[l], l, Nodes \ Without(tags), SlackRange)
    /\ \A l \in Locs : l \notin Nodes \/ l \in Without(tags) => s.graph[l] = {}
    /\ ~mode.conc => \A l \in DataLocs : tags[l] # NoTag => s.vec[l] = tags[l]

\* Nobody is inside the index, and nothing is waiting to be removed from it.
LEMMA SaveRests ==
    ASSUME Inv, Sane, NEW compact \in BOOLEAN, MaySave, ~SaveRefused(compact)
    PROVE  /\ Resting /\ phase = "ready" /\ ~damaged /\ delete_set = {} /\ old_delete_set = {}
           /\ ~DoCompact(compact) => data_compacted
           /\ DoCompact(compact) => mode.dynamic /\ compact
           /\ Linked = Nodes \ Free /\ Free = DataLocs \ Tagged
           /\ ~mode.conc => \A l \in Tagged : vec[l] = location_to_tag[l]
           /\ ~MovesFrozen => nd = MaxPoints
  <1>1. phase = "ready" /\ ~damaged /\ ~Consolidating /\ old_delete_set = {} /\ \A t \in Threads : ~InsertsOrSearches(t)
    BY DEF MaySave, UpdateFree, Inv, DeleteSets
  <1>2. Resting
    <2>1. \A t \in Threads : pc[t] \in Labels /\ ~Consolidates(t)
      BY <1>1 DEF Inv, TypeOK, Consolidating
    <2> QED
      BY <2>1, <1>1 DEF Resting, Labels, Consolidates, InsertsOrSearches
  <1>3. (~DoCompact(compact) => data_compacted) /\ (DoCompact(compact) => mode.dynamic /\ compact /\ delete_set = {})
    BY DEF SaveRefused, DoCompact
  <1>4. delete_set = {}
    BY <1>3 DEF Sane, Entry
  <1>5. Filling = {} /\ \A t \in Threads : pc[t] # "vector"
    BY <1>2 DEF Resting, Filling
  <1>6. Linked = Nodes \ Free /\ Free = DataLocs \ Tagged
    BY <1>1, <1>4, <1>5 DEF Linked, BeingFilled, Free
  <1>7. ~mode.conc => \A l \in Tagged : vec[l] = location_to_tag[l]
    BY <1>5 DEF Sane, Vectors, Filled
  <1>8. ~MovesFrozen => nd = MaxPoints
    <2>1. mode.frozen \in Nat /\ nd \in Nat /\ nd <= MaxPoints /\ MaxPoints \in Nat /\ (mode.dynamic => mode.frozen > 0)
      BY ModeFacts, Numbers DEF Inv
    <2>2. mode.dynamic \/ nd = MaxPoints
      BY <1>1 DEF Sane, Phases
    <2> QED
      BY <2>1, <2>2 DEF MovesFrozen
  <1> QED
    BY <1>1, <1>2, <1>3, <1>4, <1>6, <1>7, <1>8

\* Where the data counts as compacted the lists are like that already.
LEMMA LayoutIsGood ==
    ASSUME Inv, Sane, NEW compact \in BOOLEAN, MaySave, ~SaveRefused(compact), ~DoCompact(compact)
    PROVE  GoodLayout(layout, location_to_tag)
  <1>1. /\ data_compacted /\ Linked = Nodes \ Free /\ Free = DataLocs \ Tagged
        /\ ~mode.conc => \A l \in Tagged : vec[l] = location_to_tag[l]
    BY SaveRests
  <1>2. Free = Without(location_to_tag) /\ \A l \in DataLocs : location_to_tag[l] # NoTag => l \in Tagged
    BY <1>1 DEF Without, Tagged
  <1>3. layout = [graph |-> graph, vec |-> vec] /\ layout.graph = graph /\ layout.vec = vec
    BY DEF layout
  <1>4. graph = [l \in Locs |-> graph[l]] /\ vec = [l \in Locs |-> vec[l]]
    BY DEF Sane, Degrees, Domains
  <1>5. \A l \in Locs : l \notin Nodes \/ l \in Without(location_to_tag) => graph[l] = {}
    BY <1>1, <1>2 DEF Sane, Degrees, Entry
  <1>6. ASSUME NEW l \in Nodes PROVE GoodList(graph[l], l, Nodes \ Free, SlackRange)
    <2>1. GoodList(graph[l], l, Nodes, SlackRange)
      BY DEF Sane, Degrees
    <2>2. graph[l] \subseteq Nodes \ Free
      <3>1. CASE l \in Free
        BY <3>1, <1>1 DEF Sane, Entry
      <3>2. CASE l \notin Free
        BY <3>2, <1>1 DEF Sane, Closed, Calm
      <3> QED
        BY <3>1, <3>2
    <2> QED
      BY <2>1, <2>2 DEF GoodList
  <1> QED
    BY <1>1, <1>2, <1>3, <1>4, <1>5, <1>6 DEF GoodLayout

\* compact_data() makes them so, also where concurrent consolidations have left edges to
\* slots that are free.
LEMMA CompactIsGood ==
    ASSUME Inv, Sane, NEW compact \in BOOLEAN, MaySave, ~SaveRefused(compact), DoCompact(compact)
    PROVE  /\ GoodLayout(Compact(layout, Tagged, mode.frozen), CompactedTags)
           /\ \A l \in DataLocs : CompactedTags[l] # NoTag <=> l \in 0 .. nd - 1
  <1>1. /\ delete_set = {} /\ old_delete_set = {} /\ mode.dynamic
        /\ ~mode.conc => \A l \in Tagged : vec[l] = location_to_tag[l]
    BY SaveRests
  <1>2. PICK T \in SUBSET DataLocs, f \in 0 .. MaxFrozen, n \in Nat :
          /\ T = Tagged /\ f = mode.frozen /\ n = nd /\ T \subseteq DataLocs /\ Nodes = 0 .. MaxPoints + f - 1
          /\ n <= MaxPoints /\ f \in Nat /\ Frozen = FrozenLocs(f)
    BY ModeFacts DEF Inv, Frozen
  <1>3. /\ Cardinality(T) = n
        /\ \A l \in T : /\ NewLocation(l, T) \in 0 .. n - 1 /\ NewLocation(l, T) \in DataLocs
                        /\ CompactedTags[NewLocation(l, T)] = location_to_tag[l]
        /\ \A k \in 0 .. n - 1 : \E l \in T : NewLocation(l, T) = k
        /\ \A k \in DataLocs : k >= n => CompactedTags[k] = NoTag
    BY <1>1, <1>2, CompactedMaps DEF Inv
  <1>4. /\ \A l \in Nat : NewLocation(l, T) \in Nat
        /\ \A l, m \in T \cup FrozenLocs(f) : NewLocation(l, T) = NewLocation(m, T) => l = m
        /\ \A l \in FrozenLocs(f) : NewLocation(l, T) = l
    <2>1. T \subseteq DataLocs
      OBVIOUS
    <2> HIDE DEF Inv, Sane
    <2>2. /\ \A l \in Nat : NewLocation(l, T) \in Nat
          /\ \A l \in T \cup FrozenLocs(f) : l \in Locs /\ NewLocation(l, T) \in Locs /\ NewLocation(l, T) <= l
          /\ \A l, m \in T \cup FrozenLocs(f) : NewLocation(l, T) = NewLocation(m, T) => l = m
          /\ \A l \in T : NewLocation(l, T) < Cardinality(T)
          /\ \A l \in FrozenLocs(f) : NewLocation(l, T) = l
          /\ Cardinality(T) \in 0 .. MaxPoints
      BY <2>1, NewIsBelow, Zenon
    <2> QED
      BY <2>2
  <1>5. MaxPoints \in Nat /\ SlackRange \in Nat /\ MaxFrozen \in Nat /\ f <= MaxFrozen
    BY <1>2, Numbers
  <1>6. ASSUME NEW k \in DataLocs PROVE CompactedTags[k] # NoTag <=> k \in 0 .. n - 1
    <2>1. k \in Nat
      BY <1>5 DEF DataLocs
    <2>2. CASE k >= n
      BY <2>1, <2>2, <1>2, <1>3
    <2>3. CASE ~(k >= n)
      <3>1. k \in 0 .. n - 1
        BY <2>1, <2>3, <1>2
      <3>2. PICK l \in T : NewLocation(l, T) = k
        BY <3>1, <1>3
      <3>3. CompactedTags[k] = location_to_tag[l] /\ location_to_tag[l] # NoTag
        BY <3>2, <1>2, <1>3 DEF Tagged
      <3> QED
        BY <3>1, <3>3
    <2> QED
      BY <2>2, <2>3
  <1> DEFINE V == {vec[l] : l \in Locs}
             s == layout
             c == Compact(s, T, f)
             W == Without(CompactedTags)
  <1>7. s.graph = graph /\ s.vec = vec
    BY DEF layout
  <1>8. IsCompacted(c, s, T, f)
    <2>1. graph = [l \in Locs |-> graph[l]] /\ vec = [l \in Locs |-> vec[l]]
      BY DEF Sane, Degrees, Domains
    <2>2. \A l \in Locs : graph[l] \subseteq Nat
      <3>1. \A l \in Locs : graph[l] \subseteq Nodes
        BY DEF Sane, Degrees, GoodList
      <3> QED
        BY <3>1, <1>2
    <2>3. graph \in [Locs -> SUBSET Nat] /\ vec \in [Locs -> V]
      BY <2>1, <2>2
    <2>4. s \in Layouts(V)
      BY <2>3 DEF Layouts, layout
    <2> HIDE DEF V, s
    <2> QED
      BY <2>4, <1>2, CompactedLists
  <1> HIDE DEF c, V, s
  <1>9. W = {l \in DataLocs : l \notin 0 .. n - 1} /\ Nodes \ W = (0 .. n - 1) \cup FrozenLocs(f)
    <2>1. W = {l \in DataLocs : l \notin 0 .. n - 1}
      BY <1>6 DEF Without
    <2> QED
      BY <2>1, <1>2, <1>5 DEF DataLocs, FrozenLocs
  <1> HIDE DEF W
  <1>10. ASSUME NEW l \in T \cup FrozenLocs(f)
         PROVE  GoodList(c.graph[NewLocation(l, T)], NewLocation(l, T), Nodes \ W, SlackRange)
    <2>1. l \in Nodes
      BY <1>2, <1>5 DEF DataLocs, FrozenLocs
    <2>2. graph[l] \subseteq Nodes /\ l \notin graph[l] /\ Cardinality(graph[l]) <= SlackRange
      BY <2>1 DEF Sane, Degrees, GoodList
    <2> DEFINE keep == graph[l] \ (DataLocs \ T)
               new == [x \in keep |-> NewLocation(x, T)]
    <2>3. c.graph[NewLocation(l, T)] = NewList(graph[l], T)
      BY <1>7, <1>8 DEF IsCompacted
    <2>4. NewList(graph[l], T) = {NewLocation(x, T) : x \in keep}
      BY DEF NewList
    <2>5. keep \subseteq T \cup FrozenLocs(f) /\ keep \subseteq graph[l]
      BY <2>2, <1>2, <1>5 DEF DataLocs, FrozenLocs
    <2>6. \A x \in keep : NewLocation(x, T) \in Nodes \ W /\ NewLocation(x, T) # NewLocation(l, T)
      BY <2>2, <2>5, <1>3, <1>4, <1>9
    <2>7. IsFiniteSet(keep) /\ Cardinality(keep) <= Cardinality(graph[l]) /\ Cardinality(keep) \in Nat
          /\ Cardinality(graph[l]) \in Nat
      BY <2>2, <2>5, Lists, FS_Subset DEF Inv
    <2>8. new \in Surjection(keep, NewList(graph[l], T))
      BY <2>4 DEF Surjection
    <2> HIDE DEF keep, new
    <2>9. IsFiniteSet(NewList(graph[l], T)) /\ Cardinality(NewList(graph[l], T)) <= Cardinality(keep)
      BY <2>7, <2>8, FS_Surjection
    <2>10. Cardinality(NewList(graph[l], T)) \in Nat
      BY <2>9, FS_CardinalityType
    <2>11. Cardinality(NewList(graph[l], T)) <= SlackRange
      BY <2>2, <2>7, <2>9, <2>10, <1>5
    <2>12. NewList(graph[l], T) \subseteq Nodes \ W /\ NewLocation(l, T) \notin NewList(graph[l], T)
      BY <2>4, <2>6
    <2> QED
      BY <2>3, <2>11, <2>12 DEF GoodList
  <1>11. \A l \in W : l \in n .. MaxPoints - 1 /\ c.graph[l] = {}
    <2>1. \A l \in W : l \in n .. MaxPoints - 1
      BY <1>2, <1>5, <1>9 DEF DataLocs
    <2> QED
      BY <2>1, <1>3, <1>8 DEF IsCompacted
  <1>12. ASSUME NEW l \in Nodes PROVE GoodList(c.graph[l], l, Nodes \ W, SlackRange)
    <2>1. CASE l \in W
      <3>1. c.graph[l] = {}
        BY <2>1, <1>11
      <3> QED
        BY <3>1, <1>5, FS_EmptySet DEF GoodList
    <2>2. CASE l \in FrozenLocs(f)
      <3>1. NewLocation(l, T) = l
        BY <2>2, <1>4
      <3> QED
        BY <2>2, <3>1, <1>10
    <2>3. CASE l \in 0 .. n - 1
      <3>1. PICK m \in T : NewLocation(m, T) = l
        BY <2>3, <1>3
      <3> QED
        BY <3>1, <1>10
    <2> QED
      BY <2>1, <2>2, <2>3, <1>9
  <1>13. ASSUME NEW l \in Locs, l \notin Nodes PROVE c.graph[l] = {}
    <2>1. l \in Nat /\ l >= MaxPoints + f
      BY <1>13, <1>2, <1>5 DEF Locs
    <2>2. c.graph[l] = graph[l]
      BY <2>1, <1>7, <1>8 DEF IsCompacted
    <2> QED
      BY <2>2, <1>13 DEF Sane, Degrees
  <1>14. ASSUME ~mode.conc, NEW l \in DataLocs, CompactedTags[l] # NoTag PROVE c.vec[l] = CompactedTags[l]
    <2>1. PICK m \in T : NewLocation(m, T) = l
      BY <1>3, <1>6, <1>14
    <2>2. c.vec[l] = vec[m] /\ vec[m] = location_to_tag[m] /\ CompactedTags[l] = location_to_tag[m]
      BY <2>1, <1>1, <1>2, <1>3, <1>7, <1>8, <1>14 DEF IsCompacted
    <2> QED
      BY <2>2
  <1>15. GoodLayout(c, CompactedTags)
    BY <1>8, <1>11, <1>12, <1>13, <1>14 DEF GoodLayout, W, IsCompacted
  <1> QED
    BY <1>2, <1>6, <1>15 DEF c, s

LEMMA BaseIsGood ==
    ASSUME Inv, Sane, NEW compact \in BOOLEAN, MaySave, ~SaveRefused(compact)
    PROVE  \E c : /\ GoodLayout(c, TagsToWrite(compact))
                  /\ LayoutToWrite(compact) = IF compact THEN ToNd(c) ELSE c
                  /\ DoCompact(compact) => \A l \in DataLocs : TagsToWrite(compact)[l] # NoTag <=> l \in 0 .. nd - 1
  <1>1. CASE DoCompact(compact)
    <2>1. /\ GoodLayout(Compact(layout, Tagged, mode.frozen), CompactedTags)
          /\ \A l \in DataLocs : CompactedTags[l] # NoTag <=> l \in 0 .. nd - 1
      BY <1>1, CompactIsGood
    <2> QED
      BY <2>1, <1>1 DEF LayoutToWrite, TagsToWrite
  <1>2. CASE ~DoCompact(compact)
    <2>1. GoodLayout(layout, location_to_tag)
      BY <1>2, LayoutIsGood
    <2> QED
      BY <2>1, <1>2 DEF LayoutToWrite, TagsToWrite
  <1> QED
    BY <1>1, <1>2

\* Such a layout is all that is needed to go on.
LEMMA SavedSane ==
    ASSUME Inv, Sane, NEW compact \in BOOLEAN, MaySave, ~SaveRefused(compact),
           NEW s, GoodLayout(s, TagsToWrite(compact)), graph' = s.graph, vec' = s.vec, start' = start,
           CompactPoints(compact), UNCHANGED <<mode, build, delete_set, old_delete_set, nd, thread>>, FilesGraph'
    PROVE  Sane'
  <1>1. /\ Resting /\ phase = "ready" /\ delete_set = {} /\ old_delete_set = {}
        /\ DoCompact(compact) => mode.dynamic
    BY SaveRests
  <1>2. Locals' /\ Resting'
    BY <1>1, RestingThreadsOK DEF Sane
  <1>3. UNCHANGED <<phase, node_ctr, pc, loc, tag, seen, expanded, pruned, des, copied, next_loc>> /\ Nodes' = Nodes
    BY DEF build, thread, Nodes, Frozen
  <1>4. location_to_tag' = TagsToWrite(compact)
    BY DEF CompactPoints, TagsToWrite
  <1>5. Free' = Without(TagsToWrite(compact)) /\ \A l \in Tagged' : TagsToWrite(compact)[l] # NoTag /\ l \in DataLocs
    BY <1>1, <1>4 DEF Free, Tagged, Without
  <1>6. Domains'
    BY <1>3 DEF Sane, Domains, GoodLayout
  <1>7. Phases'
    <2>1. ~mode.dynamic => location_to_tag' = location_to_tag
      BY <1>1, <1>4 DEF TagsToWrite
    <2>2. ~mode.dynamic => Tagged' = Tagged
      BY <2>1 DEF Tagged
    <2>3. phase' = "ready" /\ UNCHANGED <<mode, nd, delete_set, old_delete_set>>
      BY <1>1, <1>3
    <2> QED
      BY <2>2, <2>3, <1>1 DEF Sane, Phases
  <1>8. \A l \in Locs : l \notin Nodes \/ l \in Free' => graph'[l] = {}
    BY <1>5 DEF GoodLayout
  <1>9. Entry'
    <2>1. \A l \in Free' : l \in Locs
      BY Numbers DEF Free, DataLocs, Locs
    <2>2. \A t \in Threads : pc'[t] # "rewrite"
      BY <1>2 DEF Resting
    <2> QED
      BY <2>1, <2>2, <1>1, <1>3, <1>8 DEF Sane, Entry
  <1>10. ASSUME NEW l \in Nodes PROVE GoodList(graph'[l], l, Nodes, SlackRange) /\ graph'[l] \subseteq Nodes \ Free'
    BY <1>5 DEF GoodLayout, GoodList
  <1>11. Degrees'
    <2>1. graph' = [l \in Locs |-> graph'[l]]
      BY DEF GoodLayout
    <2>2. phase' # "cleanup"
      BY <1>1, <1>3
    <2> QED
      BY <2>1, <2>2, <1>3, <1>8, <1>10 DEF Degrees
  <1>12. ~mode'.conc => \A l \in Tagged' : vec'[l] = location_to_tag'[l]
    BY <1>4, <1>5 DEF GoodLayout
  <1> HIDE DEF Inv, Sane
  <1> QED
    BY <1>2, <1>3, <1>6, <1>7, <1>9, <1>10, <1>11, <1>12, RestingSane

\* The frozen points go to nd and back: nothing else is there.
LEMMA FrozenMoves ==
    ASSUME Inv, Sane, NEW compact \in BOOLEAN, MaySave, ~SaveRefused(compact), MovesFrozen,
           NEW c, NEW tags, GoodLayout(c, tags),
           \A l \in DataLocs : tags[l] # NoTag => l \notin nd .. nd + mode.frozen - 1
    PROVE  /\ GoodLayout(ToEnd(ToNd(c)), tags)
           /\ (\A l \in DataLocs : tags[l] # NoTag <=> l \in 0 .. nd - 1) =>
                 /\ \A l \in RowsOf(nd, mode.frozen) :
                       GoodList(ToNd(c).graph[l], l, RowsOf(nd, mode.frozen), SlackRange)
                 /\ ~mode.conc => \A l \in 0 .. nd - 1 : ToNd(c).vec[l] = tags[l]
  <1>1. PICK n \in 0 .. MaxPoints - 1, f \in 1 .. MaxFrozen :
          n = nd /\ f = mode.frozen /\ Nodes = 0 .. MaxPoints + f - 1 /\ Frozen = FrozenLocs(f)
    <2>1. mode.frozen \in 0 .. MaxFrozen /\ nd \in Nat /\ nd < MaxPoints /\ mode.frozen > 0 /\ MaxFrozen \in Nat
          /\ MaxPoints \in Nat /\ Nodes = 0 .. MaxPoints + mode.frozen - 1
      BY ModeFacts, Numbers DEF Inv, MovesFrozen
    <2>2. nd \in 0 .. MaxPoints - 1 /\ mode.frozen \in 1 .. MaxFrozen
      BY <2>1
    <2>3. Frozen = FrozenLocs(mode.frozen)
      BY DEF Frozen
    <2> QED
      BY <2>1, <2>2, <2>3
  <1>2. MaxPoints \in Nat /\ MaxFrozen \in Nat /\ SlackRange \in Nat /\ f \in Nat /\ f <= MaxFrozen /\ f >= 1
        /\ n \in Nat /\ n < MaxPoints
    BY Numbers
  <1>3. PICK g, v : g = c.graph /\ v = c.vec /\ c = [graph |-> g, vec |-> v] /\ g = [l \in Locs |-> g[l]]
    BY DEF GoodLayout
  <1>4. /\ \A l \in Nodes : GoodList(g[l], l, Nodes \ Without(tags), SlackRange)
        /\ \A l \in Locs : l \notin Nodes \/ l \in Without(tags) => g[l] = {}
        /\ v = [l \in Locs |-> v[l]]
        /\ ~mode.conc => \A l \in DataLocs : tags[l] # NoTag => v[l] = tags[l]
    BY <1>3 DEF GoodLayout
  <1>5. \A l \in Locs : g[l] \subseteq Nodes \ Without(tags)
    BY <1>4 DEF GoodList
  <1>6. ASSUME NEW l \in Locs, NEW x \in g[l] PROVE x \in Nat /\ x < MaxPoints + f /\ (x < MaxPoints => x \notin n .. n + f - 1)
    <2>1. x \in Nodes /\ x \notin Without(tags)
      BY <1>5
    <2>2. x \in Nat /\ x < MaxPoints + f
      BY <2>1, <1>1, <1>2
    <2>3. x < MaxPoints => x \in DataLocs
      BY <2>2, <1>2 DEF DataLocs
    <2> QED
      BY <2>1, <2>2, <2>3, <1>1 DEF Without
  <1>7. ASSUME NEW l \in n .. n + f - 1, l < MaxPoints PROVE g[l] = {}
    <2>1. l \in DataLocs /\ l \in Locs
      BY <1>2, <1>7 DEF DataLocs, Locs
    <2>2. l \in Without(tags)
      BY <2>1, <1>1 DEF Without
    <2> QED
      BY <2>1, <2>2, <1>4
  <1>8. PICK s, r : s = RepositionPoints([graph |-> g, vec |-> v], MaxPoints, n, f) /\ r = RepositionPoints(s, n, MaxPoints, f)
    OBVIOUS
  <1>9. ToNd(c) = s /\ ToEnd(ToNd(c)) = r
    BY <1>1, <1>3, <1>8 DEF ToNd, ToEnd
  <1>10. /\ IsRepositioned(s, g, v, MaxPoints, n, f)
         /\ r.graph = g /\ r.vec = [l \in Locs |-> r.vec[l]]
         /\ \A l \in DataLocs : l \notin n .. n + f - 1 => s.vec[l] = v[l] /\ r.vec[l] = v[l]
    BY <1>3, <1>6, <1>7, <1>8, ThereAndBack
  <1>11. r = [graph |-> r.graph, vec |-> r.vec]
    BY <1>2, <1>8 DEF RepositionPoints
  <1>12. GoodLayout(r, tags)
    <2>1. ~mode.conc => \A l \in DataLocs : tags[l] # NoTag => r.vec[l] = tags[l]
      BY <1>1, <1>4, <1>10
    <2> QED
      BY <2>1, <1>3, <1>4, <1>10, <1>11 DEF GoodLayout
  <1>13. ASSUME \A l \in DataLocs : tags[l] # NoTag <=> l \in 0 .. n - 1
         PROVE  /\ \A l \in RowsOf(n, f) : GoodList(s.graph[l], l, RowsOf(n, f), SlackRange)
                /\ ~mode.conc => \A l \in 0 .. n - 1 : s.vec[l] = tags[l]
    <2>1. Nodes \ Without(tags) = InUse(n, f) /\ InUse(n, f) \subseteq Nodes
      <3>1. Without(tags) = {l \in DataLocs : l \notin 0 .. n - 1}
        BY <1>13 DEF Without
      <3> QED
        BY <3>1, <1>1, <1>2 DEF InUse, FrozenLocs, DataLocs
    <2>2. \A l \in InUse(n, f) : GoodList(g[l], l, InUse(n, f), SlackRange)
      BY <2>1, <1>4
    <2>3. \A l \in RowsOf(n, f) : GoodList(s.graph[l], l, RowsOf(n, f), SlackRange)
      BY <2>2, <1>2, <1>10, SavedRows
    <2>4. \A l \in 0 .. n - 1 : l \in DataLocs /\ l \notin n .. n + f - 1
      BY <1>2 DEF DataLocs
    <2> QED
      BY <2>3, <2>4, <1>4, <1>10, <1>13
  <1> QED
    BY <1>1, <1>9, <1>12, <1>13

\* Where the frozen points stay, the files are the index.
LEMMA WholeFiles ==
    ASSUME TypeOK, nd = MaxPoints, NEW c, NEW tags, GoodLayout(c, tags)
    PROVE  /\ RowsOf(nd, mode.frozen) = Nodes
           /\ \A l \in RowsOf(nd, mode.frozen) : GoodList(c.graph[l], l, RowsOf(nd, mode.frozen), SlackRange)
           /\ ~mode.conc => \A l \in 0 .. nd - 1 : tags[l] # NoTag => c.vec[l] = tags[l]
  <1>1. RowsOf(nd, mode.frozen) = Nodes /\ 0 .. nd - 1 = DataLocs
    BY ModeFacts DEF DataLocs
  <1>2. \A l \in Nodes : GoodList(c.graph[l], l, Nodes, SlackRange)
    BY DEF GoodLayout, GoodList
  <1> QED
    BY <1>1, <1>2 DEF GoodLayout

\* A file that cannot be written damages the index, unless the frozen points stay.
LEMMA SaveFailsSane == ASSUME Inv, Sane, NEW compact \in BOOLEAN, SaveFails(compact) PROVE GraphInv'
  <1>1. /\ MaySave /\ ~SaveRefused(compact) /\ files' = NoFile /\ CompactPoints(compact)
        /\ graph' = LayoutToWrite(compact).graph /\ vec' = LayoutToWrite(compact).vec
        /\ start' = IF compact /\ MovesFrozen THEN nd ELSE start
        /\ damaged' = (compact /\ MovesFrozen)
        /\ UNCHANGED <<mode, build, delete_set, old_delete_set, nd, thread>>
    BY DEF SaveFails
  <1>2. ~Loadable'
    BY <1>1 DEF Loadable
  <1>3. ASSUME ~damaged' PROVE Sane'
    <2>1. PICK c : /\ GoodLayout(c, TagsToWrite(compact))
                   /\ LayoutToWrite(compact) = IF compact THEN ToNd(c) ELSE c
      BY <1>1, BaseIsGood
    <2>2. LayoutToWrite(compact) = c /\ start' = start
      BY <2>1, <1>1, <1>3 DEF ToNd
    <2>3. FilesGraph'
      BY <1>2 DEF FilesGraph
    <2> QED
      BY <2>1, <2>2, <2>3, <1>1, SavedSane
  <1> QED
    BY <1>2, <1>3 DEF GraphInv

\* A save that leaves the index in order leaves files that are in order, and one that
\* does not never leaves sound ones.
LEMMA SaveSane == ASSUME Inv, Sane, NEW compact \in BOOLEAN, Save(compact) PROVE GraphInv'
  <1>1. /\ MaySave /\ ~SaveRefused(compact) /\ files' = Written(compact) /\ CompactPoints(compact)
        /\ graph' = ToEnd(LayoutToWrite(compact)).graph /\ vec' = ToEnd(LayoutToWrite(compact)).vec
        /\ start' = IF mode.frozen > 0 THEN MaxPoints ELSE start
        /\ damaged' = Overwrites(compact)
        /\ UNCHANGED <<mode, build, delete_set, old_delete_set, nd, thread>>
    BY DEF Save
  <1>2. /\ nd \in Nat /\ nd <= MaxPoints /\ mode.frozen \in Nat /\ MaxPoints \in Nat
    BY ModeFacts, Numbers DEF Inv
  <1>3. /\ files'.nd = nd /\ files'.start = (IF compact /\ MovesFrozen THEN nd ELSE start)
        /\ files'.graph = [l \in RowsOf(nd, mode.frozen) |-> LayoutToWrite(compact).graph[l]]
        /\ files'.vec = [l \in RowsOf(nd, mode.frozen) |-> LayoutToWrite(compact).vec[l]]
        /\ files'.tags = [l \in 0 .. nd - 1 |-> TagsToWrite(compact)[l]]
        /\ files'.sound = Sound(compact)
    BY <1>1 DEF Written, RowsOf
  <1>4. ASSUME damaged' PROVE ~Loadable'
    <2>1. ~Sound(compact)
      <3>1. MovesFrozen /\ ~DoCompact(compact) /\ (~compact \/ (nd .. nd + mode.frozen - 1) \cap Tagged # {})
        BY <1>1, <1>4 DEF Overwrites, DoCompact
      <3>2. Compacted => (nd .. nd + mode.frozen - 1) \cap Tagged = {}
        BY <1>2 DEF Compacted
      <3> QED
        BY <3>1, <3>2 DEF Sound
    <2> QED
      BY <2>1, <1>3 DEF Loadable
  <1>5. ASSUME ~damaged' PROVE Sane'
    <2>1. PICK c : /\ GoodLayout(c, TagsToWrite(compact))
                   /\ LayoutToWrite(compact) = IF compact THEN ToNd(c) ELSE c
                   /\ DoCompact(compact) => \A l \in DataLocs : TagsToWrite(compact)[l] # NoTag <=> l \in 0 .. nd - 1
      BY <1>1, BaseIsGood
    <2>2. start' = start
      BY <1>1 DEF Sane, Entry
    <2>3. ASSUME Sound(compact) PROVE \A l \in DataLocs : TagsToWrite(compact)[l] # NoTag <=> l \in 0 .. nd - 1
      <3>1. CASE DoCompact(compact)
        BY <3>1, <2>1
      <3>2. CASE ~DoCompact(compact)
        BY <3>2, <2>3 DEF Sound, Compacted, Tagged, TagsToWrite
      <3> QED
        BY <3>1, <3>2
    <2>4. /\ GoodLayout(ToEnd(LayoutToWrite(compact)), TagsToWrite(compact))
          /\ Sound(compact) =>
               /\ \A l \in RowsOf(nd, mode.frozen) :
                     GoodList(LayoutToWrite(compact).graph[l], l, RowsOf(nd, mode.frozen), SlackRange)
               /\ ~mode.conc => \A l \in 0 .. nd - 1 : LayoutToWrite(compact).vec[l] = TagsToWrite(compact)[l]
      <3>1. CASE ~MovesFrozen
        <4>1. LayoutToWrite(compact) = c /\ ToEnd(LayoutToWrite(compact)) = c
          BY <3>1, <2>1 DEF ToNd, ToEnd
        <4>2. nd = MaxPoints
          BY <3>1, <1>1, SaveRests
        <4>3. /\ \A l \in RowsOf(nd, mode.frozen) : GoodList(c.graph[l], l, RowsOf(nd, mode.frozen), SlackRange)
              /\ ~mode.conc => \A l \in 0 .. nd - 1 : TagsToWrite(compact)[l] # NoTag => c.vec[l] = TagsToWrite(compact)[l]
          BY <4>2, <2>1, WholeFiles DEF Inv
        <4>4. 0 .. nd - 1 = DataLocs
          BY <4>2 DEF DataLocs
        <4> QED
          BY <4>1, <4>3, <4>4, <2>1, <2>3
      <3>2. CASE MovesFrozen
        <4>1. compact /\ (DoCompact(compact) \/ (nd .. nd + mode.frozen - 1) \cap Tagged = {})
          BY <3>2, <1>1, <1>5 DEF Overwrites
        <4>2. ASSUME NEW l \in DataLocs, TagsToWrite(compact)[l] # NoTag PROVE l \notin nd .. nd + mode.frozen - 1
          <5>1. CASE DoCompact(compact)
            BY <5>1, <4>2, <2>1, <1>2
          <5>2. CASE ~DoCompact(compact)
            BY <5>2, <4>1, <4>2 DEF TagsToWrite, Tagged
          <5> QED
            BY <5>1, <5>2
        <4>3. LayoutToWrite(compact) = ToNd(c)
          BY <4>1, <2>1
        <4>4. PICK tags : tags = TagsToWrite(compact)
          OBVIOUS
        <4>5. GoodLayout(c, tags) /\ \A l \in DataLocs : tags[l] # NoTag => l \notin nd .. nd + mode.frozen - 1
          BY <4>2, <4>4, <2>1
        <4>6. /\ GoodLayout(ToEnd(ToNd(c)), tags)
              /\ (\A l \in DataLocs : tags[l] # NoTag <=> l \in 0 .. nd - 1) =>
                    /\ \A l \in RowsOf(nd, mode.frozen) :
                          GoodList(ToNd(c).graph[l], l, RowsOf(nd, mode.frozen), SlackRange)
                    /\ ~mode.conc => \A l \in 0 .. nd - 1 : ToNd(c).vec[l] = tags[l]
          BY <3>2, <4>5, <1>1, FrozenMoves
        <4> QED
          BY <4>3, <4>4, <4>6, <2>3
      <3> QED
        BY <3>1, <3>2
    <2>5. FilesGraph'
      <3>1. SUFFICES ASSUME Sound(compact) PROVE FilesGraph'
        BY <1>3 DEF FilesGraph, Loadable
      <3>2. /\ DOMAIN files'.graph = RowsOf(nd, mode.frozen)
            /\ \A l \in RowsOf(nd, mode.frozen) :
                  GoodList(files'.graph[l], l, RowsOf(nd, mode.frozen), SlackRange)
        BY <3>1, <2>4, <1>3
      <3>3. ASSUME ~mode.conc, NEW l \in 0 .. nd - 1 PROVE files'.vec[l] = files'.tags[l]
        <4>1. l \in RowsOf(nd, mode.frozen)
          BY <1>2 DEF RowsOf
        <4> QED
          BY <4>1, <3>1, <3>3, <2>4, <1>3
      <3>4. ~mode.dynamic => nd = MaxPoints
        BY <1>1 DEF MaySave, Sane, Phases
      <3>5. nd = MaxPoints => IF mode.frozen > 0 THEN files'.start = MaxPoints ELSE files'.start \in DataLocs
        <4>1. nd = MaxPoints => files'.start = start
          BY <1>2, <1>3 DEF MovesFrozen
        <4>2. IF mode.frozen > 0 THEN start = MaxPoints ELSE start \in DataLocs
          BY <1>1 DEF MaySave, Sane, Entry
        <4> QED
          BY <4>1, <4>2
      <3> QED
        BY <3>2, <3>3, <3>4, <3>5, <1>1, <1>3 DEF FilesGraph
    <2> QED
      BY <2>2, <2>4, <2>5, <1>1, SavedSane
  <1> QED
    BY <1>4, <1>5 DEF GraphInv

-----------------------------------------------------------------------------
(* load() *)

LEMMA RestartSane == ASSUME Inv, Sane, Restart PROVE Sane'
  <1>1. /\ files # NoFile /\ files.sound /\ graph' = LoadedLayout.graph /\ vec' = LoadedLayout.vec
        /\ location_to_tag' = LoadedTags /\ delete_set' = {} /\ old_delete_set' = {}
        /\ nd' = files.nd /\ data_compacted' = TRUE /\ phase' = "ready" /\ node_ctr' = 0
        /\ start' = IF files.nd < MaxPoints /\ mode.frozen > 0 THEN MaxPoints ELSE files.start
        /\ UNCHANGED <<mode, files>>
    BY DEF Restart
  <1>2. /\ pc' = [t \in Threads |-> "idle"] /\ loc' = [t \in Threads |-> NoLoc] /\ tag' = [t \in Threads |-> NoTag]
        /\ seen' = [t \in Threads |-> {}] /\ expanded' = [t \in Threads |-> {}] /\ pruned' = [t \in Threads |-> {}]
        /\ des' = [t \in Threads |-> NoLoc] /\ copied' = [t \in Threads |-> {}] /\ next_loc' = 0
    BY DEF Restart
  <1>3. PICK n \in 0 .. MaxPoints, f \in 0 .. MaxFrozen :
          /\ n = files.nd /\ f = mode.frozen /\ files.tags \in [0 .. n - 1 -> Tags] /\ Nodes = 0 .. MaxPoints + f - 1
          /\ Nodes = RowsOf(MaxPoints, f) /\ Nodes \subseteq Locs /\ Frozen = FrozenLocs(f) /\ (mode.dynamic => f > 0)
    BY <1>1, ModeFacts DEF Inv, Files, Frozen
  <1>4. /\ ~mode.dynamic => n = MaxPoints
        /\ DOMAIN files.graph = RowsOf(n, f)
        /\ \A l \in RowsOf(n, f) : GoodList(files.graph[l], l, RowsOf(n, f), SlackRange)
        /\ ~mode.conc => \A l \in 0 .. n - 1 : files.vec[l] = files.tags[l]
        /\ n = MaxPoints => IF f > 0 THEN files.start = MaxPoints ELSE files.start \in DataLocs
    BY <1>1, <1>3 DEF Sane, FilesGraph, Loadable
  <1>5. MaxPoints \in Nat /\ MaxPoints >= 1 /\ MaxFrozen \in Nat /\ SlackRange \in Nat /\ n \in Nat /\ n <= MaxPoints /\ f \in Nat /\ f <= MaxFrozen
    BY Numbers
  <1>6. n < MaxPoints => f > 0
    BY <1>3, <1>4, <1>5
  <1> DEFINE g == [l \in Locs |-> IF l \in RowsOf(n, f) THEN files.graph[l] ELSE {}]
             v == [l \in Locs |-> IF l \in RowsOf(n, f) THEN files.vec[l] ELSE Zero]
  <1>7. /\ LoadedLayout = IF n < MaxPoints /\ f > 0 THEN RepositionPoints([graph |-> g, vec |-> v], n, MaxPoints, f)
                          ELSE [graph |-> g, vec |-> v]
    BY <1>3, <1>4 DEF LoadedLayout
  <1>8. g = [l \in Locs |-> g[l]] /\ v = [l \in Locs |-> v[l]]
    OBVIOUS
  <1>9. RowsOf(n, f) \subseteq Locs /\ \A l \in 0 .. n - 1 : l \in RowsOf(n, f) /\ l \in DataLocs
    BY <1>5 DEF RowsOf, Locs, DataLocs
  <1>10. /\ \A l \in RowsOf(n, f) : GoodList(g[l], l, RowsOf(n, f), SlackRange)
         /\ \A l \in Locs : l \notin RowsOf(n, f) => g[l] = {}
         /\ \A l \in 0 .. n - 1 : v[l] = files.vec[l]
    BY <1>4, <1>9
  <1> HIDE DEF g, v
  <1>11. /\ graph' = [l \in Locs |-> graph'[l]] /\ vec' = [l \in Locs |-> vec'[l]]
         /\ \A l \in InUse(n, f) : GoodList(graph'[l], l, InUse(n, f), SlackRange)
         /\ \A l \in Locs : l \notin InUse(n, f) => graph'[l] = {}
         /\ \A l \in 0 .. n - 1 : vec'[l] = files.vec[l]
    <2>1. CASE n < MaxPoints
      <3>1. n \in 0 .. MaxPoints - 1 /\ f \in 1 .. MaxFrozen
        BY <2>1, <1>5, <1>6
      <3>2. PICK r : r = RepositionPoints([graph |-> g, vec |-> v], n, MaxPoints, f)
        OBVIOUS
      <3>3. /\ r.graph = [l \in Locs |-> r.graph[l]] /\ r.vec = [l \in Locs |-> r.vec[l]]
            /\ \A l \in InUse(n, f) : GoodList(r.graph[l], l, InUse(n, f), SlackRange)
            /\ \A l \in Locs : l \notin InUse(n, f) => r.graph[l] = {}
            /\ \A l \in 0 .. n - 1 : r.vec[l] = v[l]
        <4>1. IsLoaded(r, v, n, f, SlackRange)
          BY <3>1, <3>2, <1>5, <1>8, <1>10, LoadedLists
        <4> QED
          BY <4>1 DEF IsLoaded
      <3>4. LoadedLayout = r
        BY <2>1, <3>2, <1>6, <1>7
      <3> QED
        BY <3>3, <3>4, <1>1, <1>10
    <2>2. CASE ~(n < MaxPoints)
      <3>1. graph' = g /\ vec' = v
        BY <2>2, <1>1, <1>7
      <3>2. n = MaxPoints
        BY <2>2, <1>5
      <3>3. InUse(n, f) = RowsOf(n, f)
        BY <3>2, <1>5 DEF InUse, RowsOf, FrozenLocs
      <3> QED
        BY <3>1, <3>3, <1>8, <1>10
    <2> QED
      BY <2>1, <2>2
  <1>12. Tagged' = 0 .. n - 1 /\ \A l \in 0 .. n - 1 : location_to_tag'[l] = files.tags[l]
    <2>1. \A l \in DataLocs : l \in Nat /\ (l < n <=> l \in 0 .. n - 1)
      BY <1>5 DEF DataLocs
    <2>2. \A l \in DataLocs : LoadedTags[l] = IF l < n THEN files.tags[l] ELSE NoTag
      BY <1>3 DEF LoadedTags
    <2>3. \A l \in 0 .. n - 1 : files.tags[l] # NoTag
      BY <1>3, TagsAssumption
    <2> QED
      BY <2>1, <2>2, <2>3, <1>1, <1>9 DEF Tagged
  <1>13. Nodes' = Nodes /\ Free' = DataLocs \ (0 .. n - 1) /\ Nodes \ Free' = InUse(n, f) /\ InUse(n, f) \subseteq Nodes
    <2>1. Nodes' = Nodes /\ Free' = DataLocs \ (0 .. n - 1)
      BY <1>1, <1>12 DEF Nodes, Frozen, Free
    <2> QED
      BY <2>1, <1>3, <1>5 DEF InUse, FrozenLocs, DataLocs
  <1>14. Domains'
    BY <1>1, <1>2, <1>3, <1>5, <1>11 DEF Domains
  <1>15. Phases'
    <2>1. mode.dynamic \/ n = MaxPoints
      BY <1>4
    <2>2. n = MaxPoints => 0 .. n - 1 = DataLocs
      BY DEF DataLocs
    <2> QED
      BY <2>1, <2>2, <1>1, <1>3, <1>4, <1>12 DEF Phases
  <1>16. Entry'
    <2>1. IF f > 0 THEN start' = MaxPoints ELSE start' \in DataLocs
      BY <1>1, <1>3, <1>4, <1>5, <1>6
    <2>2. \A l \in Free' : graph'[l] = {}
      <3>1. \A l \in Free' : l \in Locs /\ l \notin InUse(n, f)
        BY <1>5, <1>13 DEF DataLocs, Locs
      <3> QED
        BY <3>1, <1>11
    <2>3. \A t \in Threads : pc'[t] # "rewrite"
      BY <1>2
    <2> QED
      BY <2>1, <2>2, <2>3, <1>1, <1>3 DEF Entry
  <1>17. Locals' /\ Resting'
    BY <1>2 DEF Locals, ThreadOK, Inserting, Resting
  <1>18. \A l \in Nodes \ Free' : graph'[l] \subseteq Nodes \ Free'
    BY <1>11, <1>13 DEF GoodList
  <1>19. Degrees'
    <2>1. ASSUME NEW l \in Nodes PROVE GoodList(graph'[l], l, Nodes, SlackRange)
      <3>1. CASE l \in InUse(n, f)
        BY <3>1, <1>11, <1>13 DEF GoodList
      <3>2. CASE l \notin InUse(n, f)
        <4>1. graph'[l] = {}
          BY <3>2, <1>3, <1>11
        <4> QED
          BY <4>1, <1>5, FS_EmptySet DEF GoodList
      <3> QED
        BY <3>1, <3>2
    <2>2. \A l \in Locs \ Nodes : graph'[l] = {}
      BY <1>11, <1>13
    <2> QED
      BY <2>1, <2>2, <1>1, <1>11, <1>13 DEF Degrees
  <1>20. FilesGraph'
    BY <1>1 DEF Sane, FilesGraph, Loadable
  <1>21. ~mode.conc => \A l \in Tagged' : vec'[l] = location_to_tag'[l]
    BY <1>4, <1>11, <1>12
  <1>22. mode' = mode
    BY <1>1
  <1> HIDE DEF Inv, Sane
  <1> QED
    BY <1>13, <1>14, <1>15, <1>16, <1>17, <1>18, <1>19, <1>20, <1>21, <1>22, RestingSane

-----------------------------------------------------------------------------
(* All steps *)

SavesOrLoads == Restart \/ \E compact \in BOOLEAN : Save(compact) \/ SaveFails(compact)

\* Only save() and load() touch the files, and only they damage an index or start over.
LEMMA FilesStay == ASSUME [Next]_vars, ~SavesOrLoads PROVE UNCHANGED <<files, damaged>>
  <1>1. CASE SetStartPoints \/ LinkDone \/ CleanupNode \/ BuildDone \/ \E n \in 1 .. MaxPoints : Build(n)
    BY <1>1 DEF SetStartPoints, LinkDone, CleanupNode, BuildDone, Build, disk
  <1>2. ASSUME NEW t \in Threads, Step(t) PROVE UNCHANGED <<files, damaged>>
    BY <1>2 DEF Step, LinkNode, Expand, EndSearch, SetLinks, InterInsert, PruneNeighbour, PointDone, SetVector,
               EndQuery, LockFails, SwapDeleteSets, ReadList, RewriteList, Release, disk
  <1>3. ASSUME NEW t \in Threads, Call(t) PROVE UNCHANGED <<files, damaged>>
    BY <1>3 DEF Call, BeginQuery, CheckSizes, BeginInsert, disk
  <1>4. CASE \E x \in Tags : LazyDelete(x)
    BY <1>4 DEF LazyDelete, disk
  <1>5. CASE \E compact \in BOOLEAN : SaveThrows(compact)
    BY <1>5 DEF SaveThrows, disk
  <1>6. CASE UNCHANGED vars
    BY <1>6 DEF vars, disk
  <1> QED
    BY <1>1, <1>2, <1>3, <1>4, <1>5, <1>6 DEF Next, Stop, SavesOrLoads

LEMMA StepSane == ASSUME Inv, Sane, NEW t \in Threads, Step(t) PROVE Sane'
  BY LinkNodeSane, ExpandSane, EndSearchSane, SetLinksSane, InterInsertSane, PruneNeighbourSane, BackToIdle,
     SetVectorSane, SwapDeleteSetsSane, ReadListSane, RewriteListSane, ReleaseSane DEF Step

LEMMA SaneStays == ASSUME Inv, Sane, [Next]_vars, ~SavesOrLoads PROVE Sane'
  <1>1. CASE SetStartPoints \/ LinkDone \/ CleanupNode \/ BuildDone
    BY <1>1, BuildStepsSane
  <1>2. CASE \E n \in 1 .. MaxPoints : Build(n)
    BY <1>2, BuildSane
  <1>3. ASSUME NEW t \in Threads, Call(t) PROVE Sane'
    BY <1>3, BeginQuerySane, BackToIdle, BeginInsertSane DEF Call
  <1>4. CASE \E x \in Tags : LazyDelete(x)
    BY <1>4, LazyDeleteSane
  <1>5. CASE \/ UNCHANGED vars
             \/ \E compact \in BOOLEAN : SaveThrows(compact)
    <2>1. UNCHANGED <<mode, build, graph, vec, location_to_tag, delete_set, old_delete_set, nd, start,
                      data_compacted, thread, files>>
      BY <1>5 DEF SaveThrows, vars, points, disk
    <2> QED
      BY <2>1, NothingHappens
  <1> QED
    BY <1>1, <1>2, <1>3, <1>4, <1>5, StepSane DEF Next, Stop, SavesOrLoads

LEMMA NextGraphInv == ASSUME Inv, GraphInv, [Next]_vars PROVE GraphInv'
  <1>1. CASE Restart
    <2>1. Loadable /\ damaged' = FALSE
      BY <1>1 DEF Restart, Loadable
    <2>2. Sane
      BY <2>1 DEF GraphInv
    <2> QED
      BY <1>1, <2>1, <2>2, RestartSane DEF GraphInv
  <1>2. ASSUME NEW compact \in BOOLEAN, Save(compact) \/ SaveFails(compact) PROVE GraphInv'
    <2>1. Sane
      BY <1>2 DEF GraphInv, Save, SaveFails, MaySave
    <2> QED
      BY <1>2, <2>1, SaveSane, SaveFailsSane
  <1>3. CASE ~SavesOrLoads
    <2>1. UNCHANGED <<files, damaged>>
      BY <1>3, FilesStay
    <2>2. ~Loadable => ~Loadable'
      BY <2>1 DEF Loadable
    <2>3. Sane => Sane'
      BY <1>3, SaneStays
    <2> QED
      BY <2>1, <2>2, <2>3 DEF GraphInv
  <1> QED
    BY <1>1, <1>2, <1>3 DEF SavesOrLoads

\* A static index has no stack of empty slots.
StaticStack == ~mode.dynamic => empty_slots = <<>>

LEMMA NextStatic == ASSUME Inv, GraphInv, StaticStack, [Next]_vars PROVE StaticStack'
  <1>1. CASE Restart
    <2>1. Loadable /\ empty_slots' = (IF files.nd < MaxPoints THEN Count(files.nd) ELSE <<>>) /\ mode' = mode
      BY <1>1 DEF Restart, Loadable
    <2>2. ~mode.dynamic => files.nd = MaxPoints
      BY <2>1 DEF GraphInv, Sane, FilesGraph
    <2>3. ~(MaxPoints < MaxPoints)
      BY Numbers
    <2> QED
      BY <2>1, <2>2, <2>3 DEF StaticStack
  <1>2. ASSUME NEW compact \in BOOLEAN, Save(compact) \/ SaveFails(compact) \/ SaveThrows(compact) PROVE StaticStack'
    <2>1. DoCompact(compact) /\ ~SaveRefused(compact) => mode.dynamic
      BY DEF DoCompact, SaveRefused
    <2>2. UNCHANGED mode /\ (~mode.dynamic => UNCHANGED empty_slots)
      BY <1>2, <2>1 DEF Save, SaveFails, SaveThrows, CompactPoints, points
    <2> QED
      BY <2>2 DEF StaticStack
  <1>3. CASE SetStartPoints \/ LinkDone \/ CleanupNode \/ BuildDone \/ \E n \in 1 .. MaxPoints : Build(n)
    BY <1>3 DEF SetStartPoints, LinkDone, CleanupNode, BuildDone, Build, points, StaticStack
  <1>4. ASSUME NEW t \in Threads, Step(t) PROVE StaticStack'
    <2>1. CASE Release(t)
      BY <2>1 DEF Release, Inv, DeleteSets, InConsolidation, StaticStack
    <2> QED
      BY <1>4, <2>1 DEF Step, LinkNode, Expand, EndSearch, SetLinks, InterInsert, PruneNeighbour, PointDone, SetVector,
               EndQuery, LockFails, SwapDeleteSets, ReadList, RewriteList, points, StaticStack
  <1>5. ASSUME NEW t \in Threads, Call(t) PROVE StaticStack'
    BY <1>5 DEF Call, BeginQuery, CheckSizes, BeginInsert, points, StaticStack
  <1>6. CASE \E x \in Tags : LazyDelete(x)
    BY <1>6 DEF LazyDelete, StaticStack
  <1>7. CASE UNCHANGED vars
    BY <1>7 DEF vars, points, StaticStack
  <1> QED
    BY <1>1, <1>2, <1>3, <1>4, <1>5, <1>6, <1>7 DEF Next, Stop

\* The graph is in order in every state of an index that is not damaged, and a damaged
\* index has left no files that could be loaded.
THEOREM GraphInvHolds == Spec => [](Inv /\ GraphInv /\ StaticStack)
  <1>1. Init => Inv /\ GraphInv /\ StaticStack
    BY InitInv, InitSane DEF GraphInv, StaticStack, Init
  <1>2. Inv /\ GraphInv /\ StaticStack /\ [Next]_vars => (Inv /\ GraphInv /\ StaticStack)'
    BY NextInv, NextGraphInv, NextStatic
  <1> QED
    BY <1>1, <1>2, PTL DEF Spec

\* Without concurrent consolidation no list of a linked node leads to an empty slot or to
\* one that is being filled: not through the copies that inter_insert() takes and writes
\* back later, nor through the lists that process_delete() rewrites, nor through the list
\* a slot still has from the point before, and not after compact_data(), save() and load().
THEOREM NoEdgeDangles == Spec => []NoDanglingEdges
  <1>1. ASSUME Inv, GraphInv, StaticStack PROVE NoDanglingEdges
    <2>1. SUFFICES ASSUME ~damaged, ~stale_slots, ~mode.conc, phase = "ready",
                          NEW l \in (DataLocs \ (Empty \cup Filling)) \cup Frozen
                   PROVE  graph[l] \cap (Empty \cup Filling) = {}
      BY DEF NoDanglingEdges
    <2>2. Sane
      BY <1>1, <2>1 DEF GraphInv
    <2>3. CASE mode.dynamic
      <3>1. Empty = Free
        BY <2>1, <2>3, <1>1 DEF Inv, Slots, Partition, Free
      <3>2. Linked = (DataLocs \cup Frozen) \ (Empty \cup Filling)
        BY <3>1, <2>1 DEF Linked, BeingFilled, Nodes
      <3>3. Frozen \cap (Empty \cup Filling) = {}
        <4>1. Frozen \cap DataLocs = {}
          BY <1>1, ModeFacts DEF Inv
        <4>2. \A t \in Threads : pc[t] \in {"vector", "search", "links"} => loc[t] \in DataLocs
          BY <2>1, <2>2 DEF Sane, Locals, ThreadOK, Inserting
        <4>3. Filling \subseteq DataLocs
          BY <4>2 DEF Filling
        <4> QED
          BY <4>1, <4>3, <3>1 DEF Free
      <3>4. l \in Linked
        BY <2>1, <3>2, <3>3
      <3>5. graph[l] \subseteq Linked
        BY <3>4, <2>1, <2>2 DEF Sane, Closed, Calm
      <3> QED
        BY <3>2, <3>5
    <2>4. CASE ~mode.dynamic
      <3>1. Empty = {}
        BY <2>4, <1>1 DEF StaticStack, Empty, ToSet
      <3>2. Filling = {}
        BY <2>1, <2>2, <2>4 DEF Sane, Locals, ThreadOK, Inserting, Filling
      <3> QED
        BY <3>1, <3>2
    <2> QED
      BY <2>3, <2>4
  <1> QED
    BY <1>1, GraphInvHolds, PTL

\* Without concurrent consolidation search_with_tags() never answers with a tag and the
\* distance of another vector, although insert_point() publishes the tag before it stores
\* the vector and slots are used again.
THEOREM AnswersAreTrue == Spec => []AnswersMatchTags
  <1>1. ASSUME Inv, GraphInv PROVE AnswersMatchTags
    <2>1. SUFFICES ASSUME ~damaged, ~mode.conc, NEW t \in Threads, pc[t] = "query", NEW a \in Answers(t)
                   PROVE  a[1] = a[2]
      BY DEF AnswersMatchTags
    <2>2. HasMet(t)
      BY <1>1, <2>1 DEF GraphInv, Sane, Vectors
    <2>3. PICK p \in seen[t] : p[1] \in Tagged /\ a = <<location_to_tag[p[1]], p[2]>>
      BY <2>1 DEF Answers
    <2> QED
      BY <2>1, <2>2, <2>3 DEF HasMet
  <1> QED
    BY <1>1, GraphInvHolds, PTL

\* However the threads interleave the test of a list's length with its growth, no list
\* outgrows the slack of GRAPH_SLACK_FACTOR, no node becomes its own neighbour, and link()
\* leaves no list above the range behind it.
THEOREM DegreesStayBounded == Spec => []DegreesBounded
  <1>1. ASSUME Inv, GraphInv PROVE DegreesBounded
    <2>1. SUFFICES ASSUME ~damaged
                   PROVE  /\ \A l \in Locs : Cardinality(graph[l]) <= SlackRange /\ l \notin graph[l]
                          /\ phase = "cleanup" => \A i \in 0 .. node_ctr - 1 : Cardinality(graph[VisitOrder(i)]) <= R
      BY DEF DegreesBounded
    <2>2. Degrees
      BY <1>1, <2>1 DEF GraphInv, Sane
    <2>3. \A l \in Locs \ Nodes : Cardinality(graph[l]) <= SlackRange /\ l \notin graph[l]
      <3>1. Cardinality({}) = 0 /\ 0 <= SlackRange
        BY Numbers, FS_EmptySet
      <3>2. \A l \in Locs \ Nodes : graph[l] = {}
        BY <2>2 DEF Degrees
      <3> QED
        BY <3>1, <3>2
    <2> QED
      BY <2>2, <2>3 DEF Degrees, GoodList
  <1> QED
    BY <1>1, GraphInvHolds, PTL
================================================================================
