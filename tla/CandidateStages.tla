--------------------------- MODULE CandidateStages ---------------------------
(***************************************************************************)
(* The stages of construction/our_construction.cpp that find the           *)
(* candidates: the edges of every subindex are dumped, the selected pairs  *)
(* of partitions are searched (CrossPairs), all threads write what they    *)
(* find through the bucket logs (BucketLogs), and the logs are compacted.  *)
(*                                                                         *)
(* With --stage=pair-processing one process does it all; the runner starts *)
(* a process for the dump, one per anchor and one for the compaction       *)
(* (construction/run_sigma_pipeline.py:426-437).                           *)
(***************************************************************************)
EXTENDS CrossPairs, BucketLogs

CONSTANTS Self,     \* origin of the records of the self-dump
          Origin    \* the stage or the pair of partitions a record comes from

ASSUME OriginAssumption ==
    Self \notin Nat \X Nat /\ Origin \in [Records -> {Self} \cup (Nat \X Nat)]

VARIABLES one_process,   \* --stage=pair-processing or all
          stage          \* "open", "dump", "cross", "compact"

cross == vars
allvars == <<cross, logvars, one_process, stage>>

From(o) == {r \in Records : Origin[r] = o}

StagesInit ==
    /\ Init /\ LogsInit
    /\ one_process \in BOOLEAN
    /\ one_process => Len(procs) = 1
    /\ stage = "open"

\* Lines 1002-1032: the dump begins, over truncated logs.
BeginDump ==
    /\ stage = "open"
    /\ OpenLogs(TRUE) /\ todo' = From(Self)
    /\ stage' = "dump"
    /\ UNCHANGED <<cross, one_process>>

\* Lines 1068-1083: its process ends, or goes on with what its threads have staged.
EndDump ==
    /\ stage = "dump"
    /\ IF one_process THEN LoopOver /\ UNCHANGED logvars ELSE CloseLogs
    /\ stage' = "cross"
    /\ UNCHANGED <<cross, one_process>>

\* Lines 1002-1010 and 1085-1153: a process of the cross-partition phase.
BeginCross ==
    /\ stage = "cross"
    /\ StartProcess
    /\ IF one_process THEN UNCHANGED logvars ELSE OpenLogs(FALSE) /\ UNCHANGED todo
    /\ UNCHANGED <<one_process, stage>>

\* Steps that only move indexes, and the death of a process.
MoveIndexes ==
    /\ stage = "cross"
    /\ LoadAnchor \/ SkipTarget \/ ReleaseTarget \/ EndAnchor \/ Die
    /\ UNCHANGED <<logvars, one_process, stage>>

\* Lines 1190-1230: the threads start on the pair <<i, j>>.
BeginPair ==
    /\ stage = "cross"
    /\ LoadTarget
    /\ Produce(From(<<i, j>>))
    /\ UNCHANGED <<one_process, stage>>

\* Lines 1217-1487: they have produced all records of the pair.
EndPair ==
    /\ stage = "cross" /\ LoopOver
    /\ SearchPair
    /\ UNCHANGED <<logvars, one_process, stage>>

\* append_record() in the loops of the dump and of the pairs.
Write ==
    /\ stage = "dump" \/ pc = "search"
    /\ LogStep
    /\ UNCHANGED <<cross, one_process, stage>>

\* Lines 1015-1028 and 1507: flush_bucket_logs() at the end of a process.
Flush ==
    /\ \/ stage = "dump" /\ ~one_process
       \/ stage = "cross" /\ pc = "anchor" /\ ~(i < end)
    /\ BeginFlush \/ \E t \in Threads : FlushThread(t)
    /\ UNCHANGED <<cross, one_process, stage>>

\* A process that ends without the final flush.
EndCrossUnflushed ==
    /\ stage = "cross" /\ LoopOver
    /\ EndProcess
    /\ phase' = "closed"
    /\ UNCHANGED <<sizes, todo, staging, flushed, log, output, one_process, stage>>

EndCross ==
    /\ stage = "cross"
    /\ EndProcess
    /\ CloseLogs
    /\ UNCHANGED <<one_process, stage>>

\* Lines 1532-1565: in the same process or in one of its own.
EndStages ==
    /\ stage = "cross"
    /\ EndPlan
    /\ BeginCompaction
    /\ stage' = "compact"
    /\ UNCHANGED one_process

CompactStep == stage = "compact" /\ Compaction /\ UNCHANGED <<cross, one_process, stage>>

StagesNext == \/ BeginDump \/ EndDump \/ BeginCross \/ MoveIndexes \/ BeginPair \/ EndPair
              \/ Write \/ Flush \/ EndCross \/ EndStages \/ CompactStep

StagesSpec == StagesInit /\ [][StagesNext]_allvars

-----------------------------------------------------------------------------
\* The records that the loops have produced so far.
Produced ==
    {r \in Records :
        IF Origin[r] = Self THEN stage # "open" /\ ~(stage = "dump" /\ r \in todo)
        ELSE /\ Origin[r] \in Pairs(P)
             /\ \/ processed[Origin[r]] > 0
                \/ pc = "search" /\ Origin[r] = <<i, j>> /\ r \notin todo}

\* Until the compaction begins, every record produced so far is in exactly one
\* buffer or log, once, across bucket switches, full buffers, the end of a
\* process and the opening of the logs by the next, for any order of the
\* threads; nothing of an earlier build is left.
RecordsConserved ==
    stage \in {"dump", "cross"} =>
        /\ \A r \in Produced : Copies(r) = 1
        /\ \A r \in (Records \cup {Stale}) \ Produced : Copies(r) = 0

\* The neighbours of the records rs.
Found(rs) == UNION {{r} \X (1 .. Count[r]) : r \in rs}

\* cand.idx and cand.ids after the runner's plan or a single process: the entry
\* of every node delimits exactly the neighbours found for it by the dump and in
\* the selected pairs, every record in one piece, and the header counts them all.
CandidatesExact ==
    (phase = "done" /\ procs \in {OnePerAnchor(P), AllAtOnce}) =>
        LET all == From(Self) \cup UNION {From(q) : q \in selected}
            Of(g) == {r \in all : Gid[r] = g}
        IN  /\ Len(idx) = N
            /\ total_ids = Len(ids) /\ total_ids = Cardinality(Found(all))
            /\ \A g \in 0 .. N - 1 :
                 /\ Len(Slice(g)) = Cardinality(Found(Of(g)))
                 /\ \A r \in Of(g) : \E p \in 0 .. Len(Slice(g)) :
                      \A x \in 1 .. Count[r] : p + x <= Len(Slice(g)) /\ Slice(g)[p + x] = <<r, x>>
=============================================================================
