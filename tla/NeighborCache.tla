---------------------------- MODULE NeighborCache ----------------------------
(***************************************************************************)
(* From the choice of the cached nodes to the cache of a running search:   *)
(* a list is generated or found by the search itself (CacheList), read     *)
(* from CACHE_FILE (search/ours_search_main.cpp:84-139 and 249-269), and   *)
(* its nodes are read from the index (AlignedReader) into the cache        *)
(* (CompactCache).                                                         *)
(***************************************************************************)
EXTENDS CompactCache

CONSTANTS Files,     \* lists in files that were not made by the generator
          Reloads    \* lists that a cache is loaded with again

ASSUME FilesAssumption == \A s \in Files \cup Reloads : s \in Seq(Ids)

VARIABLE given    \* node_list, as the driver passes it on

vars == <<listvars, reader, cache, given>>

\* A list from elsewhere: a file with the nodes s.
FileInit(s) ==
    /\ program = "file" /\ graph \in Graphs /\ limit = Len(s) /\ medoids = <<>>
    /\ hops = 0 /\ mode = "bfs"
    /\ step = "done"
    /\ chosen = <<>> /\ frontier = <<>> /\ next_frontier = <<>> /\ pos = 0 /\ hop = 0
    /\ in_degrees = NoCounts /\ next_i = 0
    /\ at = [t \in Threads |-> "register"]
    /\ local = [t \in Threads |-> NoCounts] /\ left = [t \in Threads |-> {}]
    /\ scan_failed = FALSE
    /\ list = s

Init == (ListInit \/ \E s \in Files : FileInit(s)) /\ ReaderInit /\ CacheInit /\ given = <<>>

ChooseNodes == ListStep /\ UNCHANGED <<reader, cache, given>>

\* read_node_list_from_txt() with num_nodes_to_cache = n: the first n nodes of the
\* file; a file with fewer is refused.  A search without a file has its list.
Given(n) == IF program = "search" THEN list ELSE SubSeq(list, 1, n)
Refused(n) == program # "search" /\ Len(list) < n

StartSearch(n) ==
    /\ step = "done" /\ pc = "closed"
    /\ program = "search" => n = limit
    /\ IF Refused(n) THEN pc' = "refused" /\ UNCHANGED given
                     ELSE pc' = "idle" /\ given' = Given(n)
    /\ hash' \in Hashes
    /\ OpenReader
    /\ Forget
    /\ UNCHANGED <<node_list, i, k, lookup, pool>>

Load(s) ==
    /\ \/ LoadTooLarge(s)
       \/ s = <<>> /\ LoadNothing
       \/ \E m \in {"auto", "offset", "hash"} : LoadCacheList(s, m)
    /\ given' = <<>>
    /\ UNCHANGED <<listvars, reader>>

LoadGiven == node_list = <<>> /\ Load(given)
LoadAgain == node_list # <<>> /\ \E s \in Reloads : Load(s)

Loading ==
    \/ (ReadBatch \/ BatchRead) /\ UNCHANGED <<listvars, given>>
    \/ ReaderStep /\ UNCHANGED <<listvars, cache, given>>
    \/ Store /\ UNCHANGED <<listvars, reader, given>>

Next == \/ ChooseNodes \/ LoadGiven \/ LoadAgain \/ Loading
        \/ \E n \in Limits \cup {Len(list)} : StartSearch(n)

Spec == Init /\ [][Next]_vars

-----------------------------------------------------------------------------
\* A search finds a node exactly if it was loaded, and at the offset it finds
\* the pool holds this node's list: through either lookup and either I/O engine,
\* for any hash values, batch by batch through the same buffers, with nodes
\* listed twice, and after the cache was loaded again; and loading does not
\* fail once the size of the list was accepted.  (A partial submission to the
\* ring, and an event with an error, go unnoticed by read(): then the buffers
\* may hold anything, and so may the cache.)
LookupExact ==
    /\ (pc = "store" /\ k < Count) => ~CannotStore
    /\ (pc \in {"idle", "batch", "read", "store"} /\ ~faulty) =>
        \A id \in Ids :
            /\ id \in Stored <=> Lookup(id) # Unused
            /\ id \in Stored =>
                 /\ Lookup(id) + Len(graph[id]) < Len(pool)
                 /\ SubSeq(pool, Lookup(id) + 1, Lookup(id) + Len(graph[id]) + 1) = Entry(id)
=============================================================================
