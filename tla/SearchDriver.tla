---------------------------- MODULE SearchDriver ----------------------------
(***************************************************************************)
(* The search program (search/ours_search_main.cpp, search_disk_index):    *)
(* the arguments are checked, the cache list is read, the queries are run  *)
(* by the workers (SearchWorkers) for every list length L that is at least *)
(* recall_at, and then the results of every such L are written to files    *)
(* that carry L in their name.                                             *)
(***************************************************************************)
EXTENDS SearchWorkers, FiniteSetsExt

CONSTANTS Ls,          \* list lengths a user may ask for
          MaxLs,       \* longest list of list lengths
          RecallAts,   \* values of recall_at (K)
          Recalls,     \* recall of a search, and thresholds, in percent
          Empty, NotSaved

ASSUME LsAssumption == Ls \subseteq Nat /\ MaxLs \in Nat /\ RecallAts \subseteq Nat
ASSUME RecallsAssumption == Recalls \subseteq Nat /\ 0 \in Recalls

VARIABLES Lvec, recall_at, fail_if_recall_below, inputs_ok, has_truth, \* inputs
          stage,        \* "start", "search", "loop", "save" or "exited"
          test_id,      \* index of the search loop, then of the saving loop
          position,     \* position of the saving loop in Lvec
          results,      \* query_result_ids: per index, the L and the rows filled
          best_recall,
          files,        \* file of an L: the results it holds
          exit_code

inputs == <<Lvec, recall_at, fail_if_recall_below, inputs_ok, has_truth>>
driver == <<stage, test_id, position, results, best_recall, files, exit_code>>
vars == <<workers, inputs, driver>>

Indices == 0 .. Len(Lvec) - 1
LAt(i) == Lvec[i + 1]

Init ==
    /\ WorkersInit
    /\ Lvec \in UNION {[1 .. n -> Ls] : n \in 1 .. MaxLs}
    /\ recall_at \in RecallAts /\ fail_if_recall_below \in Recalls
    /\ inputs_ok \in BOOLEAN /\ has_truth \in BOOLEAN
    /\ stage = "start"
    /\ test_id = 0 /\ position = 0
    /\ results = <<>>
    /\ best_recall = 0
    /\ files = [L \in Ls |-> NotSaved]
    /\ exit_code = 1

Exit(code) == stage' = "exited" /\ exit_code' = code

\* Lines 150-175 and 239-300: bad arguments and an invalid CACHE_FILE end the
\* program; otherwise one empty slot per list length is made.
Start ==
    /\ stage = "start"
    /\ \/ /\ ~inputs_ok
          /\ Exit(-1)
          /\ UNCHANGED results
       \/ /\ inputs_ok
          /\ stage' = "search"
          /\ results' = [i \in Indices |-> Empty]
          /\ UNCHANGED exit_code
    /\ UNCHANGED <<workers, inputs, test_id, position, best_recall, files>>

\* Lines 321-329: an L below recall_at is ignored.
SkipL ==
    /\ stage = "search" /\ test_id < Len(Lvec)
    /\ LAt(test_id) < recall_at
    /\ test_id' = test_id + 1
    /\ UNCHANGED <<workers, inputs, stage, position, results, best_recall, files, exit_code>>

\* Lines 331-342: the queries of an L are handed to the workers.
BeginL ==
    /\ stage = "search" /\ test_id < Len(Lvec)
    /\ LAt(test_id) >= recall_at
    /\ stage' = "loop"
    /\ BeginLoop
    /\ UNCHANGED <<inputs, test_id, position, results, best_recall, files, exit_code>>

Work(t) == stage = "loop" /\ Step(t) /\ UNCHANGED <<inputs, driver>>

\* Lines 391-530: the rows become the results of this L; without ground truth no
\* recall is computed.
BestRecall(r) == IF has_truth THEN Max({best_recall, r}) ELSE best_recall

EndL ==
    /\ stage = "loop" /\ RegionOver /\ ~worker_failure
    /\ stage' = "search"
    /\ results' = [results EXCEPT ![test_id] = [L |-> LAt(test_id), rows |-> answered]]
    /\ \E r \in Recalls : best_recall' = BestRecall(r)
    /\ test_id' = test_id + 1
    /\ UNCHANGED <<workers, inputs, position, files, exit_code>>

\* A failure that is only reported.
AbortAndGoOn ==
    /\ stage = "loop" /\ RegionOver /\ worker_failure
    /\ stage' = "search"
    /\ results' = [results EXCEPT ![test_id] = [L |-> LAt(test_id), rows |-> answered]]
    /\ test_id' = test_id + 1
    /\ UNCHANGED <<workers, inputs, position, best_recall, files, exit_code>>

\* Lines 381-390: a worker failed.
AbortL ==
    /\ stage = "loop" /\ RegionOver /\ worker_failure
    /\ Exit(-1)
    /\ UNCHANGED <<workers, inputs, test_id, position, results, best_recall, files>>

\* Lines 532-534: the saving loop has an index of its own.
BeginSave ==
    /\ stage = "search" /\ test_id = Len(Lvec)
    /\ stage' = "save"
    /\ test_id' = 0
    /\ UNCHANGED <<workers, inputs, position, results, best_recall, files, exit_code>>

\* Lines 536-537.
SkipSave ==
    /\ stage = "save" /\ position < Len(Lvec)
    /\ LAt(position) < recall_at
    /\ position' = position + 1
    /\ UNCHANGED <<workers, inputs, stage, test_id, results, best_recall, files, exit_code>>

\* Lines 539-543: test_id advances only when a file pair was written.
NextSlotStuck == test_id
NextSlot == test_id + 1

SaveL ==
    /\ stage = "save" /\ position < Len(Lvec)
    /\ LAt(position) >= recall_at
    /\ files' = [files EXCEPT ![LAt(position)] = results[test_id]]
    /\ test_id' = NextSlot
    /\ position' = position + 1
    /\ UNCHANGED <<workers, inputs, stage, results, best_recall, exit_code>>

\* Lines 546-549.
Finish ==
    /\ stage = "save" /\ position = Len(Lvec)
    /\ Exit(IF best_recall >= fail_if_recall_below THEN 0 ELSE -1)
    /\ UNCHANGED <<workers, inputs, test_id, position, results, best_recall, files>>

Main == \/ Start \/ SkipL \/ BeginL \/ EndL \/ AbortL
        \/ BeginSave \/ SkipSave \/ SaveL \/ Finish
Next == Main \/ \E t \in Threads : Work(t)

\* The main thread and every worker keep running, and a timed wait ends.
Spec == Init /\ [][Next]_vars /\ WF_vars(Main) /\ \A t \in Threads : WF_vars(Work(t))

-----------------------------------------------------------------------------
\* Results reach the disk, and the program reports success, only when every
\* query of every requested search was answered: a run that aborts leaves no
\* file that could be taken for its result.
SavesOnlyCompleteRuns ==
    ((\E L \in Ls : files[L] # NotSaved) \/ exit_code = 0) =>
        \A i \in Indices :
            results[i] = IF LAt(i) < recall_at THEN Empty
                         ELSE [L |-> LAt(i), rows |-> 1 .. Queries]

\* As long as no L is ignored, the files of an L hold the results of that L.
FilesMatchWithoutSkips ==
    (\A i \in Indices : LAt(i) >= recall_at) =>
        \A L \in Ls : files[L] # NotSaved => files[L].L = L

\* When the program stops because a worker failed, the message it prints is
\* there: the handler writes it after it set the flag, and the end of the region
\* keeps the main thread from reading before.
AbortHasMessage == (stage = "exited" /\ worker_failure) => failure_msg # NoThread

\* The program ends: no thread waits for a scratch space for ever, although a
\* notification can be lost between pop() and the wait.
Terminates == <>(stage = "exited")

\* The files of an L hold the results of the search with that L ("Path prefix
\* for saving results of the queries", include/program_options_utils.hpp:26;
\* "Ignoring search with L:", ours_search_main.cpp:327).
FilesMatch == \A L \in Ls : files[L] \in {NotSaved, [L |-> L, rows |-> 1 .. Queries]}
=============================================================================
