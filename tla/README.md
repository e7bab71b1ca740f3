# HiDANN: TLA+ models, model checking and proofs

HiDANN builds a graph index for approximate nearest-neighbour search under a
memory budget and searches it from disk. This directory models the parts of the
program that carry its own logic, checks them with TLC on small instances, and
proves some of the properties for all parameters with TLAPS. Paths below are
relative to the repository. `baselines/` holds third-party systems for
comparison and is not considered.

## 1. The system

### 1.1 Construction (`construction/`)

`run_sigma_pipeline.py` runs one process per step under one `--prefix`:

| step | program | reads | writes |
|---|---|---|---|
| clean | runner | | removes all outputs of the prefix (`HIDANN_CLEAN_CONSTRUCTION_OUTPUTS`, on by default) |
| build | `our_construction --stage=build` | partitions | `subgraph_u<k>.mem.index` and `.data`, skipped when `.data` exists |
| self-dump | `our_construction --stage=self-dump` | subindexes | bucket logs, truncated first |
| cross-pairs, one process per anchor | `our_construction --stage=cross-pairs` | two subindexes at a time | appends to bucket logs |
| compact | `our_construction --stage=compact` | bucket logs | `cand.idx`, `cand.ids`; deletes logs and subindexes |
| prune | `our_pruning` | candidates, PQ tables (generated when absent) | graph |
| reverse edges | `reverse_edge_logic` | graph | symmetric candidates |
| prune | `our_pruning` | those candidates | final graph |

The components communicate through files only. Within a process, OpenMP
threads share the bucket logs (through per-thread staging buffers) and the loaded
subindexes. Hard here: what a killed run leaves to the next one, appends by
several threads and processes to the same logs, at most two subindexes in
memory, and the arithmetic of batches and stripes that keep to a byte budget.

### 1.2 Search (`search/`, `include/`, `src/linux_aligned_file_reader.cpp`)

`ours_search_main.cpp` reads options, loads the index and a neighbour cache, and
for each list length `L` runs all queries in an OpenMP loop. A query
(`SigmaSearch::cached_beam_search_explicit`) takes a scratch space from a shared
pool, walks the graph with a beam over a bounded candidate list, reads
uncached nodes in batches through the I/O context of its thread, and then refines
the candidates with exact distances, stopping early when the top-k settles. Hard
here: the candidate list changes while a beam is collected; threads outnumber
scratch spaces; a notification between `pop()` and the wait is lost; one worker
throws while others are running; result slots are counted by two loops.

The nodes of the cache come from a file made by `ours_cache_gen.cpp`, or from the
search's own breadth-first walk; they are read in batches through libaio or
io_uring. Hard here: counts made by many threads, requests that the
kernel takes only in part, buffers used again for every batch.

### 1.3 In-memory index (`src/index.cpp`)

The DiskANN index in memory. The construction builds and loads static indexes with
it; the class also offers a dynamic index with insertion, lazy deletion,
consolidation, save and load, under four locks and a lock per node. Hard here:
lists that are copied, pruned and written back without the lock in between, slots
that move between four sets, and a compaction that renames everything in place.

### 1.4 Inventory

| component | state | operations | what makes it correct |
|---|---|---|---|
| candidate list, `include/neighbor.h` | array, size, capacity, cursor | `reserve`, `clear`, `insert`, `closest_unexpanded` | sorted without duplicates, keeps the best, cursor at the first unexpanded, all accesses in bounds |
| traversal, `ours_search.cpp:365-526` | list, visited, frontier, counters | collect, read, parse | each node expanded once, ends, in a local optimum |
| refinement, `ours_search.cpp:528-668` | distances, batch start, streak | batch, early-exit test, output | full refinement is exact, the early exit is the one documented |
| neighbour cache, `ours_search.cpp:57-129, 672-789` | pool, offset vector or hash table | load, look up | finds exactly what was loaded, also after reloading |
| search workers, `ours_search_main.cpp:338-390`, `scratch.h`, `concurrent_queue.h` | pool, contexts, failure flag | pop, wait, search, fail, push, join | scratch spaces are exclusive and never lost, own context, failure is reported, loops end |
| search driver, `ours_search_main.cpp:142-550` | slots, files, exit code | search, abort, save | only complete runs are saved, files match their `L` |
| cross-partition phase, `our_construction.cpp:1085-1530` | loop indices, held subindexes | load, search, keep, free | two subindexes at most, the right ones, every pair once |
| bucket logs, `our_construction.cpp:611-726, 956-1083, 1532-1719` | staging buffers, logs, candidate files | append, flush, compact | no record lost, duplicated or misplaced |
| pruning, `our_pruning.cpp` | metadata batch, id batch, output | read, prune, write | result independent of batching, budget kept |
| reverse edges, `reverse_edge_logic.cpp` | counts, offsets, stripe, cursors | count, fill, write | exactly the out- and in-neighbours, no cursor leaves its segment |
| runner, `run_sigma_pipeline.py` | files of a prefix | the steps above, kills, restarts | the final graph is made from this run's data alone |
| aligned file reader, `linux_aligned_file_reader.cpp` | contexts, submission queue, buffers | register, submit, wait, exit | every buffer holds what its request asked for |
| cache generation, `ours_cache_gen.cpp`, `ours_search.cpp:791-865` | frontier, in-degree counts, heap | visit, count, select, save | the list asked for, whatever the threads do |
| in-memory index, `index.cpp` | lists, vectors, tags, slots, files | build, insert, delete, consolidate, query, save, load | no slot lost or given out twice, no released point reached, answers belong to their tags, lists bounded, nothing lost by save and load |
| disk layouts, PQ, partitioning, distances, evaluation | | | not modelled, see section 7 |

`PROJECT.json` has the same list with sources, the hazards at their lines, and
the source lines of every definition.

## 2. Modules

Every module models one component; an action is one operation of the code, or
one critical section where threads interleave. Variables keep the names of the
source. `MC*.tla` and the `.cfg` files give the constants their values, `*Proofs.tla` hold the
theorems (section 4). In the
modules, definitions named for a defect (`KeepEvery`, `NotGrown`, ...) stand before the
definition they are a faulty variant of; they are used only to confirm that the
properties notice such a defect.

* `TopLSet`: what a bounded candidate list promises. `NeighborPriorityQueue`
  implements it, `insert()` iteration by iteration, with the array, the
  cursor and entries left over from earlier queries.
* `BeamSearch`: the traversal over the promise of `TopLSet`, so that the pair
  composes: the list is checked and proved once and used abstractly here. A node is
  named by its rank in the order of the query.
* `Refinement`: batches, top-k and early exit; floating-point distances
  become small integers, heap ties a nondeterministic choice.
* `SearchWorkers`: threads, pool, lost notifications, timeouts, failures of one
  loop. A query is one step. `SearchDriver` is the program around it: it starts a loop for
  every `L`, looks at the workers' failure flag after the region, and saves.
* `CacheList`: the choice of the cached nodes, by the generator (both modes; the threads
  count blocks and add them to the shared counters one by one) or by the search.
* `AlignedReader`: one thread's `read()` with both engines. The kernel may consume a part of
  the ring's entries, fail a read or cut it short, or fail altogether, which ends the process.
* `CompactCache`: `load_cache_list()` over the reader, offset vector, open
  addressing with wrap-around, pool offsets; and the lookup.
* `NeighborCache` composes the three: a list is generated, found or given as a file, the
  search program takes its part of it and loads it, and may be asked to load another.
* `CrossPairs`: the pair loop for any flags, and the runner's process plan.
* `BucketLogs`: staging buffers, logs, compaction.
* `CandidateStages` composes the two: the self-dump and every searched pair produce records,
  which the threads write through the logs, in one process or in the runner's, each of which
  opens the logs again; the compaction reads what they left. A record belongs to the dump or to a
  pair of partitions.
* `Pruning`: batches of metadata and ids, budget arithmetic with the
  wrap-around of unsigned subtraction, and pruning of a node. Threads of a
  batch write disjoint parts, so a batch is one step.
* `ReverseEdges`: counting, offsets, the binary search for stripes, and
  the two kinds of writes through the cursors, record by record.
* `GraphStages` composes the two as the runner does: pruning, reverse edges, pruning
  again with the same options, each started with the files of the one before.
* `Pipeline`: files by provenance (which runs' data went in, or torn), kills in
  any step, restarts with other data or another `P`. `CandidateStages`,
  `Pruning` and `ReverseEdges` are its steps in detail.
* `IndexLayout`: the in-place algorithms that move points: `compact_data()` and
  `reposition_points()`, as folds over their loops.
* `MemoryIndex`: the in-memory index over it. A step is a stretch of code under one lock of a node
  or under `_tag_lock`; `_update_lock` and `_consolidate_lock` are derived from where the threads are.
  Pruning keeps any non-empty part of the candidates up to the range, and a search may
  stop after any expansion, so that the results hold for all distances. A vector is the tag it was
  inserted under. `damaged` and `stale_slots` record two states from which the code
  promises nothing (section 5); `sound` in the files says that a save wrote the points.

Abstractions common to all: vectors and distances are small integers or ranks; a record or
query is a model value; logging, timing, page-cache advice and failing system
calls (which end the programs) are left out, except failures that the code handles.

## 3. Runs

| run | instance | what it shows |
|---|---|---|
| `candidate_list` | 3 ids, 2 distances, capacities 1 and 2, any number of queries | bounds, order, cursor and retention at every step of an insert; inserts return; implements `TopLSet` |
| `traversal` | the 81 graphs of four nodes with out-degree two, 3 caches, L and beam 1 to 3, I/O limits 0, 1, 4 | one expansion per node, best of visited, local optimum, termination |
| `refinement` | up to 4 candidates, 3 distances, k and batch 1 to 2, streak 0 to 2, all modes | exactness and number of answers, early exit as documented |
| `search_program` | 2 threads, 1 scratch space, 3 queries, up to 2 list lengths, some below K, failures anywhere | exclusive use of scratch spaces, own contexts, complete runs only, files match when no `L` is ignored, abort with message, termination |
| `result_files` | the same | violation: files do not match after an ignored `L` |
| `neighbor_cache` | 7 nodes, 2 graphs, 2 threads, limits 0 to 8, 8 other files, colliding hashes, batches of 3 in rounds of 2, both engines | the list is the one asked for; exact lookup after every batch and reload, loading never fails after its check |
| `candidate_stages` | P from 1 to 3, every subset of pairs, all flags, 3 nodes, 1 to 5 buckets, 2 threads, 6 records, one or several processes | memory bound, right subindexes, every pair once, reuse; staging in bounds, conservation of records, exact candidate files |
| `graph_stages` | candidate files of 4 nodes, 9 sets of pruning options, graphs of 3 nodes given directly, 4 budgets for stripes | exact pruned lists and headers for any batching, exact symmetric lists, cursors in their segments, batches and stripes within their budgets and maximal, sound final graph |
| `pruning_memory` | the same | violation: memory use beyond what is left |
| `pipeline` | 3 runs, P 1 or 2, kill in any step | fresh final graph |
| `memory_index` | 3 slots and tags, range 1 with slack 2, 2 threads; static, or dynamic with 1 or 2 frozen points, up to 5 operations | slots and tags accounted for, no edge to a released slot, answers match tags, bounded lists, save and load keep everything |
| `data_compacted` | the same | violation: the flag is true of an index that is not compacted |

Bounds. The list needs two capacities and three ids for a full list, a displacement, a tie
and a larger capacity after a smaller one. The traversal needs a node that leaves the
list while it waits in the frontier: four nodes and a list of one. Two threads on one scratch
space is the smallest pool on which a thread waits while another pushes, and the scratch space
comes to it with the other's context; two list lengths let it pass from one loop to the next. Three
partitions give an anchor whose last target is skipped or kept and one that follows; the
properties of the pair loop are proved for every P. Five buckets for three nodes give short and empty buckets. Metadata batches
of two or three rows cut four nodes into unequal pieces. Three pipeline runs give a killed
run, a run that inherits from it with cleaning switched off, and a run to
judge. Batches of three nodes in rounds of two leave a round of one; two blocks are left for
two threads to count. In the index a list of one neighbour with a slack of two is full with the third
point; five operations reach insert, delete, consolidate, insert into the released
slot and query, or build, save, load, delete, consolidate and save again. Counters are
bounded by the instance (`MaxRuns`, `Queries`, `MaxLs`, `MaxCandidates`, `max_ops`);
no state constraint is used. The threads of `memory_index` are symmetric; no liveness is checked there.

Deadlock checking is off in the models of programs that end, and on in `memory_index`: no thread
waits for a lock for ever.

Fairness. `BeamSearch` and `insert()` run on one thread that is not interrupted: weak
fairness of their steps. In `SearchDriver` the main thread and each worker have weak
fairness, as operating-system threads are scheduled and `wait_for` ends by its
timeout; no fairness is assumed of notifications, which can be lost.

## 4. Proofs

Each `*Proofs` module extends its component and proves theorems of its specification for every value
of the constants, from the assumptions named in the component (ids are naturals, counts are
at least one, and so on; TLC evaluates them in the runs). The pattern is the same
throughout: an inductive invariant that TLC has checked on the run's instance, a lemma per action and
under it a step per conjunct the action can disturb, then the properties as consequences.

`NeighborPriorityQueueProofs`, for all sets of ids, distances and capacities. The
inductive invariant is `TypeOK`, `Sorted`, `CursorAtFirstUnexpanded`, `RetainsBest` and
`SearchBrackets`. None of the first four is inductive by itself: that an insertion keeps the
order needs that the binary search has bracketed the place (everything below `lo`
is better, everything from `hi` on is worse), that the best are retained needs
the order, and that dropping the last entry is harmless needs that a full list is
searched only for an entry that beats it. `ImplementsTheTopLSet` maps the array to the set of the ids it
holds: `reserve`, `clear`, the last step of `insert` and `closest_unexpanded` are steps of `TopLSet`, the
iterations of the binary search stutter. What takes a set of ids to the best `L` of them is
counted by the elements below one (cardinality lemmas).

`QueryProofs`, first part (`BeamSearch`), for every graph, cache, list length, beam and I/O limit. A node of the list is marked exactly when
it has been expanded or waits in the frontier, and what has been expanded has been visited with all its
neighbours (`Bookkeeping`); hence `Closest` never returns a node that was expanded, even one that had left the list
and come back into view. That the list is the best of what was visited (`ListIsBest`) survives an
insertion because the best of a set and one more node is the best of the best and that node.

`QueryProofs`, second part (`Refinement`), for every candidate list, k, batch and mode. `ExactPrefix` says that everything before the next batch
carries its exact distance, `StreakCounts` that the counter is the number of last
batches with the same top-k ids, `Answered` that the answer is a top-k of the distances at the output.

`NeighborCacheProofs`, for every graph, limit, number of hops and threads, hash function, batch size and queue depth. Two
invariants are proved together, since the search is given what was chosen.

* `ListInv`, from which `CacheListExact` follows. `Bfs` says what the list holds at each point of the search: between two hops all nodes
  within `hop` edges of the medoids and nothing else (`AtHop`), within a hop these and a part of the next
  level, all neighbours of the frontier nodes visited so far among them (`AtVisit`); a level is left
  in the middle only when the list is full. A hop always ends before the
  nodes run out, since each level adds one. `Scanning` says of the parallel count that there is a way to give each thread
  that has counted a block, and not added all of it, a block of its own, so that `in_degrees[v]` is the number of
  edges to `v` from the blocks handed out without those whose count for `v` is pending (`Counted`). The blocks are
  only known to exist: the code does not record them. At the end
  none is pending. `HeapAt` says that the heap holds the highest nodes it has been shown: when a node of equal degree comes
  it stays out, which is right because its id is larger.
* `CacheInv`, from which `LookupExact` follows. `Position` and `Reading`: the requests before `processed` have filled their
  buffers, also when the rounds of a batch are cut short by the queue, and an old buffer is never taken for a
  new one. `Lookups`: in the hash table the probes of a stored node reach it before any free slot, those of another node reach a
  free one; probing reaches every slot (`Reached`), the table is larger than the list,
  so a free slot is always left; an insertion moves no other node's end. `Contents`: the offset found
  leads to the node's entry of the pool, which only grows at its end and stays below the sentinel. Nodes listed twice are
  stored twice and the later entry is found.

The list is extended and the heap filled by folds; `ExtendedFold` and `HeapFold` show that they are a round per position.

`SearchDriverProofs`, for any number of threads, scratch spaces, queries and list lengths. `Owned` gives every scratch space one
place, `Contexts` says that a thread past the registration uses its own context, `Accounted` that every
query handed out is answered or with a thread unless a failure is known, `Messages` that a failure has a message or
a thread about to write it. The driver's part (`Regions`) says that at the join no thread has a query left, so that a
loop without failure has answered all of them: only then is a result slot complete.

The pair loop (first part of `CandidateStagesProofs`), for every number of partitions, selection of pairs
and flags: the invariant adds to `TypeOK` what each program point says
about the three pointers and the loop bounds. The kept subindex exists only after
the last target, when the inner loop can only end; hence `TwoIndexBudget` and
`RightIndexes`. `AllPairsOnce` adds `Progress`: before the position of the two
loops every selected pair has been searched once, after it none has. `IndexesAreReused` adds the number of loads as
a function of that position. The runner's
one process per anchor and a single process over all anchors differ only in where the loop
position is at the start of a process.

`CandidateStagesProofs`, for any number of partitions, nodes, buckets, threads, records and processes. A record is in
one place, a position in a buffer or in a log (`OnePlace`): an append adds a place, a flush moves the places of a
buffer behind those of a log, and opening the logs clears what is there. That the last is harmless needs
to know where the two state machines are: the logs are open while the loop runs and closed between processes
(`StageOrder`, `LoopPhases`), a closed log has no buffer left to flush (`LogPhases`), and what is still to be
produced belongs to the pair at hand (`LoopRecords`), which has not been searched (`Behind`). `StagesRunTheLoop` proves that the
composition implements `CrossPairs`, so that all theorems about the loop hold in it (`LoopInTheStages`).
`CandidateFilesExact` needs the contents of the logs and the two passes of the compaction. `OwnLogs`: a record is only in the
buffers and the log of the bucket of its node. When the logs are closed no buffer is left and every record produced has
its one place, so that each log is `Uncompacted`: what was found for the nodes of its bucket, every record once, in any order. `bucket_base`
divides the nodes into ranges that meet (`OwnRange`, `BucketBounds`). `Files`, after each bucket: the rows of the nodes before
`bucket_base(b)` follow one another and each names exactly the ids found for its node. The step over a bucket is `PassInv`, kept by each
record of the second pass: a cursor is the start of its node's list plus the ids of that node's records already read, hence the places of two records
are disjoint and all lie within the bucket's part of `cand.ids`. The counts of the first pass are the numbers of ids by a bijection.
At the end what was produced is all there is to find, since every selected pair has been searched (`EveryPairOnce`).
`StagingBuffersSuffice`: a buffer is at least as long as the encoded records in it, since the doubling of `ensure()`, a
recursive function of the length asked for, never returns less than that.

`GraphStagesProofs`, for every graph, candidate file, budget and option. It has two inductive invariants, one per
program, and one that ties them together.

* `ReverseInv` of `reverse_edge_logic`. `CountPass`: the counts are the out- and in-degrees over the records read.
  `StripeOK`: the offsets are their sums, a stripe ends where the binary search put it. `Filled`: every cursor
  stands behind what the records scanned so far have put into its node's segment, and the segment up to
  the cursor holds each id as often as these records name it. At the end of the scan the cursor is at the
  end of the segment, hence neither fatal error of the program can occur (`StagesCursors`) and a stripe's lists are
  complete (`StagesSymmetric`).
* `PruneInv` of `our_pruning`. `InputsOK`: rows of `cand.idx` follow one another in `cand.ids`. `BatchOK`: the last batch was the largest
  that fits. `Written`: the lists so far are well pruned, and length and largest degree are theirs.
  `Position`: they belong to the nodes before the current row, whatever the cuts into metadata and
  id batches. That the part of a chunk taken for a node is the node's own list follows from the order of the rows.
  The pool is an insertion sort, which keeps it ordered; from the order follows that what the first scan
  of the pool drops is occluded by something nearer, and that the second one fills up with the nearest (`WellPruned`).
* `StagesInv` adds `History`: what the first pruning wrote is the graph that the reverse edges read, and the lists these
  wrote are those the second pruning reads. `FinalGraph` needs all three.

The loops of both programs are folds and recursive functions over data. The library chooses a recursive function by what it satisfies, so that
each of them is first shown to exist (`IsRun`, `RunOfFold`, `IsFlat`, the two binary searches); what it computes is
then proved round by round.

`PipelineProofs`, for any number of runs and kills: after the clean-up of a run no file that its steps read or reuse holds
anything of another run (`OnlyThisRun`); each step keeps this, whatever the killed run before left.

`MemoryIndexProofs`, for any number of slots, tags, threads and operations. `SlotsAccounted` follows from `Partition` (every slot
is empty, tagged, deleted or being consolidated) and `TagMaps`; to be inductive they need three more facts. `DeleteSets`:
only a consolidating thread has an old delete set, so that nothing is lost when the sets are swapped and when a save
compacts. `StackAboveBuilt`: the shape the stack has after `build()`, which is not a partition; from
it a compaction gets back to one, and it shows that an insertion finds a free slot there too, as the
assertion in `reserve_location()` expects (`ReservedSlotIsFree`). `Files`: the tags in the files of a sound save are those of
the first `nd` slots, one each. The compaction renames by rank, which is proved to be a bijection onto the first `nd` slots.
The invariant covers concurrent consolidation, failed saves and damaged indexes.

The graph of the index needs a second invariant on top of that one, `GraphInv`: a damaged index has left no files that
may be loaded, and any other is `Sane`. `Linked` are the nodes a search may reach, all but the free slots and those being
filled. `NoDanglingEdges` follows from `Closed` (linked nodes lead to linked nodes), which is not inductive by itself, since lists are
written from what a thread has read earlier: `HandLinked` says that the nodes a thread has met, pruned or copied are linked too, and `OneEach`
that no two threads fill one slot. A consolidation removes points while it holds the update lock alone: `Removes` says that
the lists before `next_loc` are free of them, so that the slots can be released at the end. `AnswersMatchTags` follows from `Vectors`: a linked
point has the vector of its tag, and what a query has met is the vector of any tag that is still there. `DegreesBounded` follows from `Degrees`,
with concurrent consolidation too. `FilesGraph` says the same of the files, with the frozen points next to the others.
For saves and loads the loops of `reposition_points()` and `compact_data()` are proved to do what they
should: each loop is shown to have its intermediate states (`LoopStates`), and what holds before the first round and is kept by the rounds holds after the last, as a
set of rounds that break it would have a least element (`LeastNatural`, `Rounds`). Hence `SwappedLists`, `Repositioned`,
`CompactedLists`, and that the frozen points come back unchanged from `nd` (`ThereAndBack`) if no point lies there, which is
what `Overwrites` tests.

Only model-checked:

* termination of a traversal and of the search program, and the return of `insert()`: liveness
  is outside the prover's reach;
* that a save and a load of the in-memory index keep every vector and edge (`RoundTrip`). The proofs show that the
  lists lead from points to points and that the points have their vectors after a save and after a load, not
  that the edges are the ones from before.

## 5. Findings

* `result_files` (defect): after an `L` below `recall_at`, the saving loop
  (`ours_search_main.cpp:533-543`) does not advance past the empty slot, so that files named
  after a later `L` hold another slot.
* `pruning_memory`: `our_pruning.cpp:12` promises strictly limited memory. With less
  memory left than the 10000 rows of the metadata buffer take, the subtraction at line 507
  wraps around and the batch budget becomes its maximum; a single node that does
  not fit is a batch of its own. `BatchesFitAndAreMaximal` is what holds.

* `data_compacted` (defect, dynamic index only): `_data_compacted` is described as "true if data has been
  compacted" (`include/index.h:442`), but insertions into a new dynamic index fill its slots from the last one down
  while the flag stays true. `save()` with `compact_before_save` then compacts
  nothing (`index.cpp:2510`) and writes the first rows. `RoundTrip` is what holds: a save of
  points that are where the flag says, or that were compacted, loses nothing.

Smaller observations, without a run of their own:

* `read()` looks at no result of libaio, and does not notice a partial submission to the ring or a short read
  (`linux_aligned_file_reader.cpp:39-176`); the model then reaches wrong buffers. `LookupExact` is stated for
  batches that were carried out in full.
* A cache list of fewer than two nodes, or of fewer than there are medoids, is longer than asked for: the length is tested
  after an insertion (`CacheListExact` says how long it can be). A worker of the
  generator that throws leaves the OpenMP loop to the others, which OpenMP does not define.
* `save()` that cannot write a file leaves the frozen points at `_nd`; `save()` without
  compaction moves what is at `_nd` over them (`damaged`). `build()` on a dynamic index leaves the slots it fills in
  `_empty_slots` (`stale_slots`). With `_conc_consolidate`, an insertion may link a point whose slot is then released:
  `NoDanglingEdges` and `AnswersMatchTags` are stated without it.
* `search_io_limit` is described as the maximum number of I/Os (`ours_search_main.cpp:601`); it is tested between
  rounds, and a round may exceed it by `beam_width - 1`.

`--max-mib` is described as a hard cap of the stripe buffer
(`reverse_edge_logic.cpp:205`); a node other than the first that exceeds it alone gets a
larger buffer (`StripesFitAndAreMaximal`).

## 6. Plan

1. Proofs: `RoundTrip` of `MemoryIndex`, from `CompactedLists` and `ThereAndBack`.
2. Disk layouts as operators checked against a reference over small formats.
3. Deregistration of threads and closing of the reader; the filtered paths and `resize` of the index.

## 7. Not modelled

* Disk layouts; `deregister_thread`, `deregister_all_threads` and `close` of the reader; labels, `resize`, PQ builds and
  `optimize_index_layout` of the in-memory index.
* Behaviour of an index after a save that failed or damaged it, and of files that a save wrote from points that were not
  where it took them from. Reads inside the cache generator are taken as correct, and its
  threads fail only when they register.
* `pq.cpp`, `math_utils.cpp`, `distance.cpp`, `occlude_list_ptr` and the search inside a pair of
  partitions: floating-point computations on vectors, outside what TLC can enumerate.
* `partition.cpp`, `disk_utils.cpp`, the tools and scripts: sequential file conversion and measurement.
* Resuming with `HIDANN_CLEAN_CONSTRUCTION_OUTPUTS=0` after a kill: modelled, but no property is
  stated of such runs, since no document promises anything of them.
