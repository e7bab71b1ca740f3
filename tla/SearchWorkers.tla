---------------------------- MODULE SearchWorkers ----------------------------
(***************************************************************************)
(* The parallel query loop of the search driver                            *)
(* (search/ours_search_main.cpp:338-390) over the shared pool of scratch   *)
(* spaces (include/scratch.h, ScratchStoreManager, over                    *)
(* include/concurrent_queue.h) and the per-thread I/O contexts of the file *)
(* reader (src/linux_aligned_file_reader.cpp).  SearchDriver runs one loop *)
(* per search list length L; the threads, their contexts and the pool      *)
(* outlive it.                                                             *)
(*                                                                         *)
(* A thread takes the next query, registers an I/O context unless it has   *)
(* one, takes a scratch space from the pool (waiting, with a timeout, when *)
(* the pool is empty), searches, and returns the scratch space.  A step is *)
(* one critical section of the queue's mutex, one atomic operation or one  *)
(* stretch of thread-local work.                                           *)
(***************************************************************************)
EXTENDS Integers, FiniteSets, Sequences, SequencesExt

CONSTANTS Threads,    \* threads of the OpenMP team
          Scratches,  \* scratch spaces load() put into the pool
          Queries,    \* queries 1..Queries of every loop
          NoScratch, NoThread

ASSUME ScratchesAssumption == IsFiniteSet(Scratches) /\ Scratches # {} /\ NoScratch \notin Scratches
ASSUME ThreadsAssumption == IsFiniteSet(Threads) /\ Threads # {} /\ NoThread \notin Threads
ASSUME QueriesAssumption == Queries \in Nat \ {0}

VARIABLES pool,        \* _thread_data: the queue of idle scratch spaces
          pc,          \* where every thread is
          holds,       \* _scratch of the thread's ScratchStoreManager
          query,       \* iteration the thread works on
          raised,      \* an exception is unwinding the search call
          next_query,  \* the next iteration of schedule(dynamic, 1)
          registered,  \* threads in ctx_map
          ctx,         \* data->ctx of every scratch space: whose context it is
          worker_failure, failure_msg,
          answered     \* queries whose search returned: their rows are filled

workers == <<pool, pc, holds, query, raised, next_query, registered, ctx, worker_failure,
             failure_msg, answered>>

Goto(t, l) == pc' = [pc EXCEPT ![t] = l]

-----------------------------------------------------------------------------
\* load() fills the pool (ours_search.cpp:276-284); no worker has run yet.
WorkersInit ==
    /\ pool \in {s \in [1 .. Cardinality(Scratches) -> Scratches] : IsInjective(s)}
    /\ pc = [t \in Threads |-> "joined"]
    /\ holds = [t \in Threads |-> NoScratch]
    /\ query = [t \in Threads |-> 0]
    /\ raised = [t \in Threads |-> FALSE]
    /\ next_query = 1
    /\ registered = {}
    /\ ctx = [s \in Scratches |-> NoThread]
    /\ worker_failure = FALSE
    /\ failure_msg = NoThread
    /\ answered = {}

\* Lines 331-341: fresh rows and a fresh flag; the team starts.
BeginLoop ==
    /\ pc' = [t \in Threads |-> "next"]
    /\ next_query' = 1
    /\ worker_failure' = FALSE /\ failure_msg' = NoThread
    /\ answered' = {}
    /\ UNCHANGED <<pool, holds, query, raised, registered, ctx>>

\* Lines 342-348: the next iteration; after a failure it is skipped, once the
\* relaxed load of the flag sees it.  A thread that finds no iteration waits at
\* the end of the parallel region.
IterationsLeft == next_query <= Queries

TakeQuery(t) ==
    /\ pc[t] = "next"
    /\ \/ /\ ~IterationsLeft
          /\ Goto(t, "joined")
          /\ UNCHANGED <<query, next_query>>
       \/ /\ IterationsLeft
          /\ next_query' = next_query + 1
          /\ query' = [query EXCEPT ![t] = next_query]
          /\ \/ Goto(t, "register")
             \/ worker_failure /\ Goto(t, "next")
    /\ UNCHANGED <<pool, holds, raised, registered, ctx, worker_failure, failure_msg,
                   answered>>

\* Line 352, ensure_thread_registered(): io_setup() may refuse a new context, and
\* register_thread() then throws.
Register(t) ==
    /\ pc[t] = "register"
    /\ \/ registered' = registered \cup {t} /\ Goto(t, "pop")
       \/ t \notin registered /\ UNCHANGED registered /\ Goto(t, "catch")
    /\ UNCHANGED <<pool, holds, query, raised, next_query, ctx, worker_failure, failure_msg,
                   answered>>

\* ScratchStoreManager's constructor, with ConcurrentQueue::pop(): the front of
\* the queue, or null.  The search then stores the thread's context in the
\* scratch space (ours_search.cpp:314-316).
KeepContext(s, t) == IF ctx[s] = NoThread THEN t ELSE ctx[s]
OwnContext(s, t) == t

Pop(t) ==
    /\ pc[t] = "pop"
    /\ \/ /\ pool # <<>>
          /\ holds' = [holds EXCEPT ![t] = Head(pool)]
          /\ pool' = Tail(pool)
          /\ ctx' = [ctx EXCEPT ![Head(pool)] = OwnContext(Head(pool), t)]
          /\ Goto(t, "search")
       \/ /\ pool = <<>>
          /\ Goto(t, "empty")
          /\ UNCHANGED <<pool, holds, ctx>>
    /\ UNCHANGED <<query, raised, next_query, registered, worker_failure, failure_msg,
                   answered>>

\* wait_for_push_notify(): the thread starts to wait on push_cv.  push_mut is
\* not the queue's mutex and there is no predicate, so a push between the pop
\* and this step is not noticed.
BeginWait(t) ==
    /\ pc[t] = "empty"
    /\ Goto(t, "wait")
    /\ UNCHANGED <<pool, holds, query, raised, next_query, registered, ctx, worker_failure,
                   failure_msg, answered>>

\* push_cv.wait_for() times out after 10 microseconds, and pop() is tried again.
NoTimeout(t) == FALSE /\ UNCHANGED workers
TimeOut(t) ==
    /\ pc[t] = "wait"
    /\ Goto(t, "pop")
    /\ UNCHANGED <<pool, holds, query, raised, next_query, registered, ctx, worker_failure,
                   failure_msg, answered>>

\* Line 354: the search ends with an answer, or an exception unwinds it.
Search(t) ==
    /\ pc[t] = "search"
    /\ \/ answered' = answered \cup {query[t]} /\ UNCHANGED raised
       \/ raised' = [raised EXCEPT ![t] = TRUE] /\ UNCHANGED answered
    /\ Goto(t, "push")
    /\ UNCHANGED <<pool, holds, query, next_query, registered, ctx, worker_failure,
                   failure_msg>>

\* The scratch space is not returned when the search throws.
PushOnReturnOnly(t) ==
    /\ pc[t] = "push"
    /\ pool' = IF raised[t] THEN pool ELSE Append(pool, holds[t])
    /\ holds' = [holds EXCEPT ![t] = NoScratch]
    /\ Goto(t, "notify")
    /\ UNCHANGED <<query, raised, next_query, registered, ctx, worker_failure, failure_msg,
                   answered>>

\* ~ScratchStoreManager(): clear() and push(), on return and on unwinding.
Push(t) ==
    /\ pc[t] = "push"
    /\ pool' = Append(pool, holds[t])
    /\ holds' = [holds EXCEPT ![t] = NoScratch]
    /\ Goto(t, "notify")
    /\ UNCHANGED <<query, raised, next_query, registered, ctx, worker_failure, failure_msg,
                   answered>>

\* push_notify_all(): every thread that waits at this moment wakes.
Notify(t) ==
    /\ pc[t] = "notify"
    /\ pc' = [u \in Threads |-> IF pc[u] = "wait" THEN "pop"
                                ELSE IF u # t THEN pc[u]
                                ELSE IF raised[t] THEN "catch" ELSE "next"]
    /\ raised' = [raised EXCEPT ![t] = FALSE]
    /\ UNCHANGED <<pool, holds, query, next_query, registered, ctx, worker_failure,
                   failure_msg, answered>>

\* Lines 363-378: the first handler to exchange the flag writes the message.
ExchangeInverted == worker_failure
FirstFailure == ~worker_failure

Catch(t) ==
    /\ pc[t] = "catch"
    /\ worker_failure' = TRUE
    /\ Goto(t, IF FirstFailure THEN "message" ELSE "next")
    /\ UNCHANGED <<pool, holds, query, raised, next_query, registered, ctx, failure_msg,
                   answered>>

WriteMessage(t) ==
    /\ pc[t] = "message"
    /\ failure_msg' = t
    /\ Goto(t, "next")
    /\ UNCHANGED <<pool, holds, query, raised, next_query, registered, ctx, worker_failure,
                   answered>>

\* The end of the parallel region: every thread has arrived.
RegionOver == \A t \in Threads : pc[t] = "joined"

Step(t) == \/ TakeQuery(t) \/ Register(t) \/ Pop(t) \/ BeginWait(t) \/ TimeOut(t)
           \/ Search(t) \/ Push(t) \/ Notify(t) \/ Catch(t) \/ WriteMessage(t)

-----------------------------------------------------------------------------
\* Each scratch space is in the pool once or held by exactly one thread: two
\* searches never share their candidate lists and buffers, and none is lost,
\* whether searches return or throw.
ScratchConserved ==
    /\ IsInjective(pool)
    /\ \A s \in Scratches :
         Cardinality({t \in Threads : holds[t] = s})
           + Cardinality({i \in DOMAIN pool : pool[i] = s}) = 1

\* A search reads through the context of the thread it runs on, although the
\* scratch space it got was used by other threads before.
ReadsThroughOwnContext ==
    \A t \in Threads : pc[t] = "search" => /\ ctx[holds[t]] = t
                                           /\ t \in registered

=============================================================================
