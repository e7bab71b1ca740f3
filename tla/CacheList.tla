------------------------------ MODULE CacheList ------------------------------
(***************************************************************************)
(* Which nodes the neighbour cache is to hold.  Two programs choose them:  *)
(* the generator (search/ours_cache_gen.cpp) writes a file with the nodes  *)
(* around the start node and, in hybrid mode, those of the highest         *)
(* in-degree, which all threads count; the search itself, when it is given *)
(* no file, takes the nodes around its medoids (cache_bfs_levels,          *)
(* search/ours_search.cpp:791-865).                                        *)
(*                                                                         *)
(* A node that is visited has its neighbour list read before; the reads    *)
(* are those of AlignedReader and are taken as correct here.               *)
(***************************************************************************)
EXTENDS Integers, Sequences, FiniteSets, FiniteSetsExt, SequencesExt

CONSTANTS NumPoints,   \* num_nodes
          Graphs,      \* neighbour lists of every node, as functions of the id
          Limits,      \* values of num_nodes_to_cache
          Hops,        \* values of bfs_hops
          MedoidLists, \* medoids of an index
          IoBatch,     \* io_batch_size, nodes of a block of the scan
          Threads      \* those of the parallel region

Ids == 0 .. NumPoints - 1
ASSUME PointsAssumption == NumPoints \in Nat \ {0} /\ IoBatch \in Nat \ {0}
ASSUME GraphsAssumption == \A g \in Graphs : DOMAIN g = Ids /\ \A v \in Ids : g[v] \in Seq(Ids)
ASSUME LimitsAssumption == Limits \subseteq Nat /\ Hops \subseteq Nat
ASSUME ThreadsAssumption == Threads # {}
ASSUME MedoidsAssumption == \A ms \in MedoidLists : ms \in Seq(Ids) /\ ms # <<>>

VARIABLES program,        \* "generator" or "search"
          graph, limit, medoids, hops, mode,   \* its inputs
          step,           \* "start", "hop", "visit", "listed", "scan", "select", "done", "failed"
          chosen,         \* bfs_selected, or node_list, in the order of insertion
          frontier, next_frontier, pos, hop,
          in_degrees, next_i,
          at,             \* per thread: "register", "next", "add", "out" or "failed"
          local, left,    \* per thread: local_increments, and its entries not yet added
          scan_failed,
          list            \* the file of the generator, or node_list

choice == <<program, graph, limit, medoids, hops, mode>>
bfs == <<chosen, frontier, next_frontier, pos, hop>>
scan == <<in_degrees, next_i, at, local, left, scan_failed>>
listvars == <<choice, step, bfs, scan, list>>

NoCounts == [v \in Ids |-> 0]

ListInit ==
    /\ program \in {"generator", "search"}
    /\ graph \in Graphs /\ limit \in Limits /\ medoids \in MedoidLists
    /\ hops \in Hops /\ mode \in {"hybrid", "bfs"}
    /\ program = "generator" => Len(medoids) = 1
    /\ program = "search" => mode = "bfs" /\ hops = Min(Hops)   \* not options of the search
    /\ step = "start"
    /\ chosen = <<>> /\ frontier = <<>> /\ next_frontier = <<>> /\ pos = 0 /\ hop = 0
    /\ in_degrees = NoCounts /\ next_i = 0
    /\ at = [t \in Threads |-> "register"]
    /\ local = [t \in Threads |-> NoCounts] /\ left = [t \in Threads |-> {}]
    /\ scan_failed = FALSE
    /\ list = <<>>

\* The program that chose the nodes has ended, or the call has returned.
Forget ==
    /\ program' = "none" /\ limit' = 0 /\ medoids' = <<>> /\ hops' = 0 /\ mode' = "bfs"
    /\ step' = "over"
    /\ chosen' = <<>> /\ frontier' = <<>> /\ next_frontier' = <<>> /\ pos' = 0 /\ hop' = 0
    /\ in_degrees' = NoCounts /\ next_i' = 0
    /\ at' = [t \in Threads |-> "register"]
    /\ local' = [t \in Threads |-> NoCounts] /\ left' = [t \in Threads |-> {}]
    /\ scan_failed' = FALSE
    /\ list' = <<>>
    /\ UNCHANGED graph

-----------------------------------------------------------------------------
\* Generator, lines 190-198; cache_bfs_levels, lines 792-805, where a list of no
\* nodes is asked for by 0 and every medoid is taken.
AppendNew(q, v) == IF Contains(q, v) THEN q ELSE Append(q, v)
Extended(q, nodes) == FoldLeft(AppendNew, q, nodes)

Begin ==
    /\ step = "start"
    /\ IF program = "search" /\ limit = 0 THEN step' = "done" /\ UNCHANGED <<chosen, frontier>>
       ELSE step' = "hop" /\ chosen' = Extended(<<>>, medoids) /\ frontier' = chosen'
    /\ UNCHANGED <<choice, next_frontier, pos, hop, scan, list>>

Full == Len(chosen) >= limit

\* Generator, lines 204-211 and 251; cache_bfs_levels, line 825.
LimitHops == IF mode = "bfs" THEN 999999 ELSE hops
MoreHops == /\ frontier # <<>>
            /\ IF program = "search" THEN ~Full
               ELSE hop < LimitHops /\ ~(hop > 0 /\ Full)

BeginHop ==
    /\ step = "hop" /\ MoreHops
    /\ step' = "visit" /\ next_frontier' = <<>> /\ pos' = 0
    /\ UNCHANGED <<choice, chosen, frontier, hop, scan, list>>

\* Generator, lines 236-246; cache_bfs_levels, lines 851-859: the neighbours that
\* are new, until one of them fills the list.
Taken(u) == LET all == Extended(chosen, graph[u])
            IN  SubSeq(all, Len(chosen) + 1, Min({Len(all), Max({Len(chosen) + 1, limit})}))

VisitNode ==
    LET new == Taken(frontier[pos + 1])
    IN  /\ step = "visit" /\ pos < Len(frontier) /\ ~(program = "search" /\ Full)
        /\ chosen' = chosen \o new
        /\ next_frontier' = next_frontier \o new
        /\ pos' = pos + 1
        /\ step' = IF program = "generator" /\ new # <<>> /\ Len(chosen \o new) >= limit
                   THEN "listed" ELSE "visit"
        /\ UNCHANGED <<choice, frontier, hop, scan, list>>

EndHop ==
    /\ step = "visit" /\ (pos = Len(frontier) \/ (program = "search" /\ Full))
    /\ frontier' = next_frontier /\ hop' = hop + 1
    /\ step' = "hop"
    /\ UNCHANGED <<choice, chosen, next_frontier, pos, scan, list>>

EndBfs ==
    /\ step = "hop" /\ ~MoreHops
    /\ step' = "listed"
    /\ UNCHANGED <<choice, bfs, scan, list>>

\* Orders in which a hash set of the nodes q may be written.
Orders(q) == {s \in [1 .. Len(q) -> ToSet(q)] : IsInjective(s)}

\* Generator, lines 258-265; the end of cache_bfs_levels.
SaveBfs ==
    /\ step = "listed" /\ (program = "search" \/ mode = "bfs" \/ Full)
    /\ list' \in IF program = "search" THEN {chosen} ELSE Orders(chosen)
    /\ step' = "done"
    /\ UNCHANGED <<choice, bfs, scan>>

BeginScan ==
    /\ step = "listed" /\ program = "generator" /\ mode = "hybrid" /\ ~Full
    /\ step' = "scan"
    /\ UNCHANGED <<choice, bfs, scan, list>>

-----------------------------------------------------------------------------
\* Lines 293-298: a thread registers; an exception sets scan_failed (lines 369-384).
Register(t) ==
    /\ step = "scan" /\ at[t] = "register"
    /\ \/ at' = [at EXCEPT ![t] = "next"] /\ UNCHANGED scan_failed
       \/ at' = [at EXCEPT ![t] = "failed"] /\ scan_failed' = TRUE
    /\ UNCHANGED <<choice, step, bfs, in_degrees, next_i, local, left, list>>

\* Lines 315-352: the next block of nodes is counted in the thread's own map, which
\* was cleared.  After a failure blocks are skipped, once the flag is seen.
Links(us, v) == UNION {{u} \X {x \in DOMAIN graph[u] : graph[u][x] = v} : u \in us}
BlockCounts(i) ==
    [v \in Ids |-> Cardinality(Links(i .. Min({i + IoBatch, NumPoints}) - 1, v))]
NotCleared(t, i) == [v \in Ids |-> local[t][v] + BlockCounts(i)[v]]
LocalIncrements(t, i) == BlockCounts(i)

TakeBlock(t) ==
    /\ step = "scan" /\ at[t] = "next"
    /\ \/ /\ next_i >= NumPoints
          /\ at' = [at EXCEPT ![t] = "out"]
          /\ UNCHANGED <<next_i, local, left>>
       \/ /\ next_i < NumPoints /\ scan_failed
          /\ next_i' = next_i + IoBatch
          /\ UNCHANGED <<at, local, left>>
       \/ /\ next_i < NumPoints
          /\ next_i' = next_i + IoBatch
          /\ local' = [local EXCEPT ![t] = LocalIncrements(t, next_i)]
          /\ left' = [left EXCEPT ![t] = {v \in Ids : local'[t][v] > 0}]
          /\ at' = [at EXCEPT ![t] = "add"]
    /\ UNCHANGED <<choice, step, bfs, in_degrees, scan_failed, list>>

\* Lines 354-357: one atomic addition.
AddOne(t) ==
    /\ at[t] = "add"
    /\ \E v \in left[t] :
         /\ in_degrees' = [in_degrees EXCEPT ![v] = @ + local[t][v]]
         /\ left' = [left EXCEPT ![t] = @ \ {v}]
    /\ UNCHANGED <<choice, step, bfs, next_i, at, local, scan_failed, list>>

EndBlock(t) ==
    /\ at[t] = "add" /\ left[t] = {}
    /\ at' = [at EXCEPT ![t] = "next"]
    /\ UNCHANGED <<choice, step, bfs, in_degrees, next_i, local, left, scan_failed, list>>

\* A thread that throws leaves the worksharing loop to the others, which OpenMP
\* does not define: the program may also hang or be terminated.
Undefined ==
    /\ step = "scan" /\ \E t \in Threads : at[t] = "failed"
    /\ step' = "failed"
    /\ UNCHANGED <<choice, bfs, scan, list>>

\* Lines 387-391: after the region, a failure ends the program without a file.
EndScan ==
    /\ step = "scan" /\ \A t \in Threads : at[t] \in {"out", "failed"}
    /\ step' = IF ~scan_failed THEN "select" ELSE "failed"
    /\ UNCHANGED <<choice, bfs, scan, list>>

-----------------------------------------------------------------------------
\* NodeIndegree, lines 25-34: the higher degree, and of equal ones the lower id.
Higher(u, v) == \/ in_degrees[u] > in_degrees[v]
                \/ in_degrees[u] = in_degrees[v] /\ u < v

\* Lines 413-423: the heap after node i, with its least node on top.
Needed == limit - Len(chosen)
Top(pq) == CHOOSE v \in pq : \A u \in pq \ {v} : Higher(u, v)
Push(pq, i) ==
    IF Contains(chosen, i) THEN pq
    ELSE IF Cardinality(pq) < Needed THEN pq \cup {i}
    ELSE IF in_degrees[i] > in_degrees[Top(pq)] THEN (pq \ {Top(pq)}) \cup {i}
    ELSE pq

Heap == FoldLeft(Push, {}, [x \in 1 .. NumPoints |-> x - 1])
BestFirst(pq) ==
    {s \in [1 .. Cardinality(pq) -> pq] : \A x \in 2 .. Cardinality(pq) : Higher(s[x - 1], s[x])}

\* Lines 396-444: the nodes of the heap, best first, follow those of the BFS.
Select ==
    /\ step = "select"
    /\ list' \in {s \o t : s \in Orders(chosen), t \in BestFirst(Heap)}
    /\ step' = "done"
    /\ UNCHANGED <<choice, bfs, scan>>

ScanStep(t) == Register(t) \/ TakeBlock(t) \/ AddOne(t) \/ EndBlock(t)
ListStep == \/ Begin \/ BeginHop \/ VisitNode \/ EndHop \/ EndBfs \/ SaveBfs \/ BeginScan
            \/ Undefined \/ EndScan \/ Select \/ \E t \in Threads : ScanStep(t)

-----------------------------------------------------------------------------
\* The nodes at most d edges away from the medoids.
Within[d \in 0 .. NumPoints] ==
    IF d = 0 THEN ToSet(medoids)
    ELSE Within[d - 1] \cup UNION {ToSet(graph[u]) : u \in Within[d - 1]}
InDegree(v) == Cardinality(Links(Ids, v))

\* The list is what was asked for.  The nodes around the medoids come level by
\* level until the list is full; the generator's hybrid list is then filled with
\* the nodes of the highest in-degree, whatever thread counted which block and
\* in whatever order the counts were added; no node is listed twice, and the
\* list has the length asked for if the graph has so many nodes.  (A list of
\* fewer than two nodes, and one with more medoids than nodes, is longer than
\* asked for: both programs look at the length only after an insertion.)
CacheListExact ==
    (step = "done" /\ limit > 0 /\ program \in {"generator", "search"}) =>
        LET near == ToSet(chosen)
            far == ToSet(list) \ near
            ring == IF program = "generator" THEN Min({LimitHops, NumPoints}) ELSE NumPoints
        IN  /\ IsInjective(list) /\ near \subseteq Within[ring]
            /\ Len(list) <= Max({limit, 2, Len(medoids)})
            /\ \A d \in 0 .. ring - 1 :
                 near \subseteq Within[d] \/ Within[d] \subseteq near
            /\ Len(chosen) < limit => near = Within[ring]
            /\ (program = "generator" /\ mode = "hybrid") => Len(list) >= Min({limit, NumPoints})
            /\ \A u \in far, v \in Ids \ ToSet(list) :
                 InDegree(u) > InDegree(v) \/ (InDegree(u) = InDegree(v) /\ u < v)
=============================================================================
