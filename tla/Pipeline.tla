------------------------------ MODULE Pipeline ------------------------------
(***************************************************************************)
(* The construction pipeline (construction/run_sigma_pipeline.py) as the   *)
(* sequence of processes it starts, and the files they leave to each       *)
(* other.  A pipeline may be killed in any step and started again, with    *)
(* other data or another number of partitions under the same --prefix;     *)
(* what is left on disk is then the input of programs that skip work when  *)
(* a file exists.                                                          *)
(*                                                                         *)
(* The content of a file is abstracted to its provenance: the runs whose   *)
(* data or parameters went into it, and Torn when a process was killed     *)
(* while writing it or something it was made from.  A file that does not   *)
(* exist has no provenance.                                                *)
(***************************************************************************)
EXTENDS Integers, FiniteSets

CONSTANTS Ps,        \* numbers of partitions (detected_P)
          MaxRuns    \* bound on the number of pipeline runs

ASSUME PsAssumption == Ps \subseteq Nat \ {0} /\ IsFiniteSet(Ps)
ASSUME MaxRunsAssumption == MaxRuns \in Nat

Torn == 0
Absent == {}

\* The files of one --prefix (lines 176-203).  Subindexes and PQ tables do not
\* carry P in their names.  "part" is only used for subindexes.
File(kind, p, part) == [kind |-> kind, P |-> p, part |-> part]
Parts == UNION {0 .. p - 1 : p \in Ps}
Sub(k) == File("subindex", 0, k)          \* .subgraph_uk.mem.index
SubData(k) == File("subdata", 0, k)       \* .subgraph_uk.mem.index.data
Pq == File("pq", 0, 0)                    \* .pq_pivots.bin, .pq_compressed.bin
Logs(p) == File("logs", p, 0)             \* _Pp.bucket_*.log
Cand(p) == File("cand", p, 0)             \* _Pp.cand.idx, .cand.ids
Graph(p) == File("graph", p, 0)           \* _Pp.mem.index
Reversed(p) == File("reversed", p, 0)     \* _Pp_reversed.cand.idx, .cand.ids
Final(p) == File("final", p, 0)           \* _Pp_final.mem.index
Subindexes(p) == {Sub(k) : k \in 0 .. p - 1} \cup {SubData(k) : k \in 0 .. p - 1}
Files == {Sub(k) : k \in Parts} \cup {SubData(k) : k \in Parts} \cup {Pq}
           \cup UNION {{Logs(p), Cand(p), Graph(p), Reversed(p), Final(p)} : p \in Ps}

VARIABLES disk,    \* provenance of every file
          run,     \* number of the current run
          P,       \* its detected_P
          clean,   \* HIDANN_CLEAN_CONSTRUCTION_OUTPUTS, on by default
          step,    \* the step the run is in, or "idle", "killed", "done"
          k        \* partition of the build, anchor of the cross-pair steps

vars == <<disk, run, P, clean, step, k>>

Exists(f) == disk[f] # Absent
From(S) == {run} \cup UNION {disk[f] : f \in S}

-----------------------------------------------------------------------------
Init ==
    /\ disk = [f \in Files |-> Absent]
    /\ run = 0 /\ P \in Ps /\ clean = TRUE
    /\ step = "idle" /\ k = 0

StartRun ==
    /\ step \in {"idle", "killed", "done"} /\ run < MaxRuns
    /\ run' = run + 1
    /\ P' \in Ps /\ clean' \in BOOLEAN
    /\ step' = "clean" /\ k' = 0
    /\ UNCHANGED disk

\* remove_stale_outputs(), lines 165-210.
StaleButSubindexes == {Pq, Logs(P), Cand(P), Graph(P), Reversed(P), Final(P)}
StaleOutputs == Subindexes(P) \cup {Pq, Logs(P), Cand(P), Graph(P), Reversed(P), Final(P)}

RemoveStaleOutputs ==
    /\ step = "clean"
    /\ disk' = IF clean THEN [f \in Files |-> IF f \in StaleOutputs THEN Absent ELSE disk[f]]
                        ELSE disk
    /\ step' = "build"
    /\ UNCHANGED <<run, P, clean, k>>

\* our_construction --stage=build-subgraphs (our_construction.cpp:857-908): a
\* partition is built unless its .data file exists; Index::save() writes the
\* graph and then the data (src/index.cpp:370-373).
MustBuild == ~Exists(SubData(k))

BuildSubgraph ==
    /\ step = "build" /\ k < P
    /\ disk' = IF MustBuild THEN [disk EXCEPT ![Sub(k)] = {run}, ![SubData(k)] = {run}] ELSE disk
    /\ k' = k + 1
    /\ UNCHANGED <<run, P, clean, step>>

EndBuild ==
    /\ step = "build" /\ k = P
    /\ step' = "self-dump" /\ k' = 0
    /\ UNCHANGED <<disk, run, P, clean>>

\* The later stages of our_construction die when a subindex file is missing
\* (our_construction.cpp:924-938); the pipeline stops with them.
Reads == CASE step = "self-dump" -> Subindexes(P)
           [] step = "cross-pairs" -> Subindexes(P) \cup {Logs(P)}
           [] step = "compact" -> Subindexes(P) \cup {Logs(P)}
           [] step = "prune" -> {Cand(P)}
           [] step = "reverse" -> {Graph(P)}
           [] step = "prune-final" -> {Reversed(P)}
           [] OTHER -> {}
InputsExist == \A f \in Reads : Exists(f)

\* --stage=self-dump truncates the bucket logs (our_construction.cpp:1005).
SelfDump ==
    /\ step = "self-dump" /\ InputsExist
    /\ disk' = [disk EXCEPT ![Logs(P)] = From(Subindexes(P))]
    /\ step' = "cross-pairs"
    /\ UNCHANGED <<run, P, clean, k>>

\* --stage=cross-pairs --anchor=k, appending to the logs.
CrossPairs ==
    /\ step = "cross-pairs" /\ k < P - 1 /\ InputsExist
    /\ disk' = [disk EXCEPT ![Logs(P)] = From(Subindexes(P) \cup {Logs(P)})]
    /\ k' = k + 1
    /\ UNCHANGED <<run, P, clean, step>>

EndCrossPairs ==
    /\ step = "cross-pairs" /\ k = P - 1
    /\ step' = "compact" /\ k' = 0
    /\ UNCHANGED <<disk, run, P, clean>>

\* --stage=compact: the logs and the subindexes are deleted
\* (our_construction.cpp:1701-1732).
Consumed == Subindexes(P) \cup {Logs(P)}

Compact ==
    /\ step = "compact" /\ InputsExist
    /\ disk' = [f \in Files |-> IF f = Cand(P) THEN From({Logs(P)})
                                ELSE IF f \in Consumed THEN Absent ELSE disk[f]]
    /\ step' = "prune"
    /\ UNCHANGED <<run, P, clean, k>>

\* our_pruning: PQ tables are generated unless they exist (our_pruning.cpp:398).
PqFrom == IF Exists(Pq) THEN disk[Pq] ELSE {run}

Prune ==
    /\ step = "prune" /\ InputsExist
    /\ disk' = [disk EXCEPT ![Pq] = PqFrom, ![Graph(P)] = From({Cand(P)}) \cup PqFrom]
    /\ step' = "reverse"
    /\ UNCHANGED <<run, P, clean, k>>

Reverse ==
    /\ step = "reverse" /\ InputsExist
    /\ disk' = [disk EXCEPT ![Reversed(P)] = From({Graph(P)})]
    /\ step' = "prune-final"
    /\ UNCHANGED <<run, P, clean, k>>

PruneFinal ==
    /\ step = "prune-final" /\ InputsExist
    /\ disk' = [disk EXCEPT ![Pq] = PqFrom, ![Final(P)] = From({Reversed(P)}) \cup PqFrom]
    /\ step' = "done"
    /\ UNCHANGED <<run, P, clean, k>>

-----------------------------------------------------------------------------
\* The files a step writes, and the ones it deletes.
NewPq == IF Exists(Pq) THEN {} ELSE {Pq}
Writes == CASE step = "build" -> IF k < P /\ MustBuild THEN {Sub(k), SubData(k)} ELSE {}
            [] step \in {"self-dump", "cross-pairs"} -> {Logs(P)}
            [] step = "compact" -> {Cand(P)}
            [] step = "prune" -> {Graph(P)} \cup NewPq
            [] step = "reverse" -> {Reversed(P)}
            [] step = "prune-final" -> {Final(P)} \cup NewPq
            [] OTHER -> {}
Deletes == CASE step = "clean" -> IF clean THEN StaleOutputs ELSE {}
             [] step = "compact" -> Consumed
             [] OTHER -> {}

\* A step is killed or fails: some of its outputs are unfinished, some of the
\* files it deletes are gone, and run_step() ends the pipeline (lines 122-124).
Killed ==
    /\ step \notin {"idle", "killed", "done"}
    /\ \E W \in SUBSET Writes, D \in SUBSET Deletes :
         /\ step = "build" /\ SubData(k) \in W => Sub(k) \in W
         /\ disk' = [f \in Files |-> IF f \in W THEN disk[f] \cup {run, Torn}
                                     ELSE IF f \in D THEN Absent ELSE disk[f]]
    /\ step' = "killed"
    /\ UNCHANGED <<run, P, clean, k>>

Next == \/ StartRun \/ RemoveStaleOutputs \/ BuildSubgraph \/ EndBuild \/ SelfDump
        \/ CrossPairs \/ EndCrossPairs \/ Compact \/ Prune \/ Reverse \/ PruneFinal
        \/ Killed

Spec == Init /\ [][Next]_vars

-----------------------------------------------------------------------------
\* The final graph of a run that cleans up first is made from that run's data
\* and parameters alone, whatever earlier runs, of any P, left behind when they
\* were killed.
FinalIsFresh == (step = "done" /\ clean) => disk[Final(P)] = {run}
=============================================================================
