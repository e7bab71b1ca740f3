---------------------------- MODULE CompactCache ----------------------------
(***************************************************************************)
(* The neighbour cache of the search (search/ours_search.cpp:57-129,       *)
(* 409-433 and 672-789).  load_cache_list() reads the neighbour lists of   *)
(* the given nodes in batches, copies them into one flat pool,             *)
(* [count, n1, n2, ...] per node, and finds them again through an offset   *)
(* vector with a slot per node of the index, or through an open-addressing *)
(* hash table with linear probing.                                         *)
(*                                                                         *)
(* In the pool, <<id, 0>> is the count of node id and <<id, x>> its x-th   *)
(* neighbour.                                                              *)
(***************************************************************************)
EXTENDS CacheList, AlignedReader

CONSTANTS Hashes,      \* values of compact_cache_hash(), as functions of the id
          MaxDegree,   \* _max_degree
          BatchSize,   \* SIGMA_IO_BATCH_SIZE
          Unused       \* CACHE_EMPTY, the sentinel and the bound of the offsets

ASSUME SizesAssumption == MaxDegree \in Nat \ {0} /\ Unused \in Nat /\ BatchSize \in 1 .. Buffers
ASSUME HashesAssumption == Hashes \subseteq [Ids -> Nat]
ASSUME DegreesAssumption == \A g \in Graphs : \A x \in Ids : Len(g[x]) <= MaxDegree
ASSUME SentinelAssumption == NumPoints <= Unused /\ Garbage \notin Ids

VARIABLES hash,               \* fixed while the search runs
          pc,                 \* "closed", "idle", "batch", "read", "store", "refused"
          node_list, i, k,    \* the sorted argument, the first node of the batch, nodes of it stored
          use_offset_mode,    \* _use_offset_cache_mode
          cache_offsets,      \* _cache_offsets
          keys, offsets,      \* _cache_hash_keys, _cache_hash_offsets, from 0
          pool                \* _cache_pool

lookup == <<use_offset_mode, cache_offsets, keys, offsets>>
cache == <<hash, pc, node_list, i, k, lookup, pool>>

Nothing == [x \in {} |-> 0]

CacheInit ==
    /\ hash = Nothing
    /\ pc = "closed" /\ node_list = <<>> /\ i = 0 /\ k = 0
    /\ use_offset_mode = FALSE
    /\ cache_offsets = Nothing /\ keys = Nothing /\ offsets = Nothing
    /\ pool = <<>>

-----------------------------------------------------------------------------
\* init_compact_cache_hash(): "Keep load factor <= 0.75".
Capacity(n) == (n * 4 + 2) \div 3 + 1

\* Lines 689-703, with n nodes: what SIGMA_CACHE_LOOKUP_MODE asks for, or the
\* smaller of the two lookups (4 bytes per node, 8 bytes per hash slot).
OffsetMode(lookup_mode, n) ==
    CASE lookup_mode = "offset" -> TRUE
      [] lookup_mode = "hash" -> FALSE
      [] lookup_mode = "auto" -> n = NumPoints \/ NumPoints * 4 <= Capacity(n) * 8

\* Lines 674-679: what an empty list leaves.
ClearLookups == keys' = Nothing /\ offsets' = Nothing /\ cache_offsets' = Nothing

LoadNothing ==
    /\ pc = "idle"
    /\ ClearLookups
    /\ pool' = <<>> /\ use_offset_mode' = FALSE
    /\ node_list' = <<>> /\ i' = 0 /\ k' = 0
    /\ UNCHANGED <<hash, pc>>

\* Lines 683-687: room for the largest lists must have 32-bit offsets.
TooLarge(n) == n * (MaxDegree + 1) >= Unused

LoadTooLarge(given) ==
    /\ pc = "idle" /\ given # <<>> /\ TooLarge(Len(given))
    /\ ClearLookups
    /\ pool' = <<>> /\ use_offset_mode' = FALSE
    /\ pc' = "refused"
    /\ UNCHANGED <<hash, node_list, i, k>>

\* Line 721: the same nodes, as often, in ascending order.
SortedList(s) ==
    {q \in [1 .. Len(s) -> ToSet(s)] :
        /\ \A x \in 2 .. Len(s) : q[x - 1] <= q[x]
        /\ \A id \in ToSet(s) : Cardinality({x \in DOMAIN q : q[x] = id})
                                = Cardinality({x \in DOMAIN s : s[x] = id})}

\* Lines 689-757: the lookup is allocated and the list sorted.
LoadCacheList(given, lookup_mode) ==
    LET n == Len(given)
        slots == 0 .. Capacity(n) - 1
    IN  /\ pc = "idle" /\ given # <<>> /\ ~TooLarge(n)
        /\ pool' = <<>>
        /\ node_list' \in SortedList(given) /\ i' = 0 /\ k' = 0
        /\ use_offset_mode' = OffsetMode(lookup_mode, n)
        /\ cache_offsets' = IF OffsetMode(lookup_mode, n) THEN [x \in Ids |-> Unused] ELSE Nothing
        /\ keys' = IF OffsetMode(lookup_mode, n) THEN Nothing ELSE [s \in slots |-> Unused]
        /\ offsets' = IF OffsetMode(lookup_mode, n) THEN Nothing ELSE [s \in slots |-> Unused]
        /\ pc' = "batch"
        /\ UNCHANGED hash

\* Lines 741-757: one batch is read.  The buffers are new with every call.
Count == Min({BatchSize, Len(node_list) - i})

ReadBatch ==
    /\ pc = "batch" /\ i < Len(node_list)
    /\ BeginRead([x \in 1 .. Count |-> [buf |-> x, node |-> node_list[i + x]]],
                 IF i = 0 THEN NoData ELSE buf)
    /\ pc' = "read"
    /\ UNCHANGED <<hash, node_list, i, k, lookup, pool>>

BatchRead ==
    /\ pc = "read" /\ EndRead
    /\ pc' = "store" /\ k' = 0
    /\ UNCHANGED <<hash, node_list, i, lookup, pool>>

-----------------------------------------------------------------------------
\* The slots that insert_cache_lookup() and find_cache_lookup() look at, in
\* order: linear probing that wraps around.
Probe(id, n) == (hash[id] + n) % Cardinality(DOMAIN keys)
Probes == 0 .. Cardinality(DOMAIN keys) - 1

\* insert_cache_lookup(), lines 88-99: probes that end at a slot for id.
Ends(id) == {n \in Probes : keys[Probe(id, n)] \in {Unused, id}}

next_id == node_list[i + k + 1]
Entry(id) == [x \in 1 .. Len(graph[id]) + 1 |-> <<id, x - 1>>]

\* get_neighbors_ptr(): what the buffer of the node holds.
Parsed(b) == IF buf[b] = Garbage THEN <<<<Garbage, 0>>>> ELSE Entry(buf[b])

\* Lines 759-785 for one node; an id that is listed twice is stored twice, and
\* the later copy is the one that is found.
StoreInVector ==
    /\ pc = "store" /\ k < Count /\ use_offset_mode
    /\ Len(pool) < Unused
    /\ cache_offsets' = [cache_offsets EXCEPT ![next_id] = Len(pool)]
    /\ pool' = pool \o Parsed(k + 1)
    /\ k' = k + 1
    /\ UNCHANGED <<hash, pc, node_list, i, use_offset_mode, keys, offsets>>

StoreInHash ==
    /\ pc = "store" /\ k < Count /\ ~use_offset_mode
    /\ Len(pool) < Unused
    /\ Ends(next_id) # {}
    /\ LET slot == Probe(next_id, Min(Ends(next_id)))
       IN  /\ keys' = [keys EXCEPT ![slot] = next_id]
           /\ offsets' = [offsets EXCEPT ![slot] = Len(pool)]
    /\ pool' = pool \o Parsed(k + 1)
    /\ k' = k + 1
    /\ UNCHANGED <<hash, pc, node_list, i, use_offset_mode, cache_offsets>>

\* Lines 101-102 and 766-771: the exceptions; LookupExact says that they are never thrown.
CannotStore == Len(pool) >= Unused \/ (~use_offset_mode /\ Ends(next_id) = {})

EndBatch ==
    /\ pc = "store" /\ k = Count
    /\ i' = i + Count /\ k' = 0
    /\ pc' = IF i + Count < Len(node_list) THEN "batch" ELSE "idle"
    /\ UNCHANGED <<hash, node_list, lookup, pool>>

Store == StoreInVector \/ StoreInHash \/ EndBatch

-----------------------------------------------------------------------------
\* find_cache_lookup(), lines 106-129: the offset, or Unused.
FindInHash(id) ==
    IF Ends(id) = {} THEN Unused
    ELSE LET slot == Probe(id, Min(Ends(id)))
         IN  IF keys[slot] = id THEN offsets[slot] ELSE Unused

\* Lines 413-420, 425-428: the pool offset at which a search finds node id.
Lookup(id) == IF ~use_offset_mode THEN FindInHash(id)
              ELSE IF id \in DOMAIN cache_offsets THEN cache_offsets[id] ELSE Unused

Stored == {node_list[x] : x \in 1 .. i + k}
=============================================================================
