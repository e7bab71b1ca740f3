--------------------------- MODULE PipelineProofs ---------------------------
(***************************************************************************)
(* For every number of runs, killed in any step, with any numbers of       *)
(* partitions: the final graph of a run that cleans up first is made from  *)
(* that run alone.                                                         *)
(***************************************************************************)
EXTENDS Pipeline, TLAPS

Steps == {"idle", "clean", "build", "self-dump", "cross-pairs", "compact", "prune", "reverse",
          "prune-final", "done", "killed"}

TypeOK ==
    /\ disk \in [Files -> SUBSET Nat]
    /\ run \in Nat /\ P \in Ps /\ step \in Steps /\ k \in Nat

\* After the clean-up of a run, nothing of an earlier run is left in any file
\* that this run's steps read or reuse: the subindexes whose .data file would
\* make the build skip a partition, the logs that are appended to, the PQ
\* tables that are not trained again.
OnlyThisRun ==
    (clean /\ step \notin {"idle", "clean", "killed"}) =>
        \A f \in StaleOutputs : disk[f] \subseteq {run}

Inv == TypeOK /\ OnlyThisRun /\ FinalIsFresh

-----------------------------------------------------------------------------
\* The files of the running number of partitions are files of the prefix.
LEMMA OwnFiles == ASSUME P \in Ps PROVE StaleOutputs \subseteq Files
  <1>1. \A x \in 0 .. P - 1 : x \in Parts
    BY DEF Parts
  <1>2. Subindexes(P) \subseteq Files
    BY <1>1 DEF Subindexes, Files
  <1>3. {Pq, Logs(P), Cand(P), Graph(P), Reversed(P), Final(P)} \subseteq Files
    BY DEF Files
  <1> QED
    BY <1>2, <1>3 DEF StaleOutputs

\* A file made from fresh inputs is fresh.
LEMMA FromFresh ==
    ASSUME NEW S, \A f \in S : disk[f] \subseteq {run}
    PROVE  From(S) = {run}
  BY DEF From

LEMMA InitInv == ASSUME Init PROVE Inv
  BY DEF Init, Inv, TypeOK, Steps, OnlyThisRun, FinalIsFresh, Absent

LEMMA StartRunInv == ASSUME Inv, StartRun PROVE Inv'
  BY DEF StartRun, Inv, TypeOK, Steps, OnlyThisRun, FinalIsFresh

\* The step that makes the rest true: remove_stale_outputs().
LEMMA RemoveStaleOutputsInv == ASSUME Inv, RemoveStaleOutputs PROVE Inv'
  <1>1. /\ step' = "build" /\ UNCHANGED <<run, P, clean, k>>
        /\ disk' = IF clean THEN [f \in Files |-> IF f \in StaleOutputs THEN Absent ELSE disk[f]]
                            ELSE disk
    BY DEF RemoveStaleOutputs
  <1>2. StaleOutputs' = StaleOutputs
    BY <1>1 DEF StaleOutputs
  <1>3. StaleOutputs \subseteq Files
    BY OwnFiles DEF Inv, TypeOK
  <1>4. disk' \in [Files -> SUBSET Nat]
    BY <1>1 DEF Inv, TypeOK, Absent
  <1>5. clean => \A f \in StaleOutputs : disk'[f] = {}
    BY <1>1, <1>3 DEF Absent
  <1> QED
    BY <1>1, <1>2, <1>4, <1>5 DEF Inv, TypeOK, Steps, OnlyThisRun, FinalIsFresh

\* A step after the clean-up keeps the invariant when every file it touches
\* either keeps its content, disappears, or is made from this run's files.
LEMMA WorkKeepsInv ==
    ASSUME Inv, UNCHANGED <<run, P, clean>>, k' \in Nat,
           step \in Steps \ {"idle", "clean", "killed", "done"},
           step' \in Steps \ {"idle", "clean", "killed", "done"},
           disk' \in [Files -> SUBSET Nat],
           clean => \A f \in StaleOutputs : disk'[f] \subseteq {run}
    PROVE  Inv'
  <1>1. StaleOutputs' = StaleOutputs
    BY DEF StaleOutputs
  <1> QED
    BY <1>1 DEF Inv, TypeOK, Steps, OnlyThisRun, FinalIsFresh

LEMMA FromType == ASSUME Inv, NEW S, S \subseteq Files PROVE From(S) \subseteq Nat
  BY DEF Inv, TypeOK, From

LEMMA BuildSubgraphInv == ASSUME Inv, BuildSubgraph PROVE Inv'
  <1>1. /\ step = "build" /\ step' = "build" /\ UNCHANGED <<run, P, clean>> /\ k' = k + 1
        /\ disk' = IF MustBuild THEN [disk EXCEPT ![Sub(k)] = {run}, ![SubData(k)] = {run}]
                                ELSE disk
    BY DEF BuildSubgraph
  <1>2. /\ disk \in [Files -> SUBSET Nat] /\ run \in Nat /\ k \in Nat
        /\ clean => \A f \in StaleOutputs : disk[f] \subseteq {run}
    BY <1>1 DEF Inv, TypeOK, OnlyThisRun
  <1>3. disk' \in [Files -> SUBSET Nat]
    BY <1>1, <1>2
  <1>4. clean => \A f \in StaleOutputs : disk'[f] \subseteq {run}
    <2>1. \A f \in StaleOutputs : f \in Files
      BY OwnFiles DEF Inv, TypeOK
    <2> QED
      BY <1>1, <1>2, <2>1
  <1>5. k' \in Nat
    BY <1>1, <1>2
  <1> QED
    BY <1>1, <1>3, <1>4, <1>5, WorkKeepsInv DEF Steps

LEMMA EndBuildInv == ASSUME Inv, EndBuild PROVE Inv'
  <1>1. /\ step = "build" /\ step' = "self-dump" /\ UNCHANGED <<disk, run, P, clean>> /\ k' = 0
    BY DEF EndBuild
  <1> QED
    BY <1>1, WorkKeepsInv DEF Steps, Inv, TypeOK, OnlyThisRun

LEMMA EndCrossPairsInv == ASSUME Inv, EndCrossPairs PROVE Inv'
  <1>1. /\ step = "cross-pairs" /\ step' = "compact" /\ UNCHANGED <<disk, run, P, clean>> /\ k' = 0
    BY DEF EndCrossPairs
  <1> QED
    BY <1>1, WorkKeepsInv DEF Steps, Inv, TypeOK, OnlyThisRun

\* The steps that write one file from others.
LEMMA WriteKeepsInv ==
    ASSUME Inv, UNCHANGED <<run, P, clean>>, k' \in Nat,
           step \in Steps \ {"idle", "clean", "killed", "done"},
           step' \in Steps \ {"idle", "clean", "killed", "done"},
           NEW g, NEW S, S \subseteq StaleOutputs,
           disk' = [disk EXCEPT ![g] = From(S)]
    PROVE  Inv'
  <1>1. /\ disk \in [Files -> SUBSET Nat] /\ run \in Nat
        /\ clean => \A f \in StaleOutputs : disk[f] \subseteq {run}
    BY DEF Inv, TypeOK, OnlyThisRun, Steps
  <1>2. StaleOutputs \subseteq Files
    BY OwnFiles DEF Inv, TypeOK
  <1>3. From(S) \subseteq Nat
    BY <1>2, FromType
  <1>4. disk' \in [Files -> SUBSET Nat]
    BY <1>1, <1>3
  <1>5. clean => From(S) = {run}
    BY <1>1, FromFresh
  <1>6. clean => \A f \in StaleOutputs : disk'[f] \subseteq {run}
    BY <1>1, <1>2, <1>5
  <1> QED
    BY <1>4, <1>6, WorkKeepsInv

LEMMA SelfDumpInv == ASSUME Inv, SelfDump PROVE Inv'
  <1>1. /\ step = "self-dump" /\ step' = "cross-pairs" /\ UNCHANGED <<run, P, clean, k>>
        /\ disk' = [disk EXCEPT ![Logs(P)] = From(Subindexes(P))]
    BY DEF SelfDump
  <1>2. Subindexes(P) \subseteq StaleOutputs
    BY DEF StaleOutputs
  <1> QED
    BY <1>1, <1>2, WriteKeepsInv DEF Steps, Inv, TypeOK

LEMMA CrossPairsInv == ASSUME Inv, CrossPairs PROVE Inv'
  <1>1. /\ step = "cross-pairs" /\ step' = step /\ UNCHANGED <<run, P, clean>> /\ k' = k + 1
        /\ disk' = [disk EXCEPT ![Logs(P)] = From(Subindexes(P) \cup {Logs(P)})]
    BY DEF CrossPairs
  <1>2. Subindexes(P) \cup {Logs(P)} \subseteq StaleOutputs
    BY DEF StaleOutputs
  <1>3. k' \in Nat
    BY <1>1 DEF Inv, TypeOK
  <1> QED
    BY <1>1, <1>2, <1>3, WriteKeepsInv DEF Steps

LEMMA ReverseInv == ASSUME Inv, Reverse PROVE Inv'
  <1>1. /\ step = "reverse" /\ step' = "prune-final" /\ UNCHANGED <<run, P, clean, k>>
        /\ disk' = [disk EXCEPT ![Reversed(P)] = From({Graph(P)})]
    BY DEF Reverse
  <1>2. {Graph(P)} \subseteq StaleOutputs
    BY DEF StaleOutputs
  <1>3. k' \in Nat
    BY <1>1 DEF Inv, TypeOK
  <1> QED
    BY <1>1, <1>2, <1>3, WriteKeepsInv DEF Steps

LEMMA CompactInv == ASSUME Inv, Compact PROVE Inv'
  <1>1. /\ step = "compact" /\ step' = "prune" /\ UNCHANGED <<run, P, clean, k>>
        /\ disk' = [f \in Files |-> IF f = Cand(P) THEN From({Logs(P)})
                                    ELSE IF f \in Consumed THEN Absent ELSE disk[f]]
    BY DEF Compact
  <1>2. /\ disk \in [Files -> SUBSET Nat] /\ run \in Nat /\ k \in Nat
        /\ clean => \A f \in StaleOutputs : disk[f] \subseteq {run}
    BY <1>1 DEF Inv, TypeOK, OnlyThisRun
  <1>3. StaleOutputs \subseteq Files /\ {Logs(P)} \subseteq StaleOutputs
    BY OwnFiles DEF Inv, TypeOK, StaleOutputs
  <1>4. From({Logs(P)}) \subseteq Nat /\ (clean => From({Logs(P)}) = {run})
    BY <1>2, <1>3, FromType, FromFresh
  <1>5. disk' \in [Files -> SUBSET Nat]
    BY <1>1, <1>2, <1>4 DEF Absent
  <1>6. clean => \A f \in StaleOutputs : disk'[f] \subseteq {run}
    BY <1>1, <1>2, <1>3, <1>4 DEF Absent
  <1> QED
    BY <1>1, <1>2, <1>5, <1>6, WorkKeepsInv DEF Steps

\* The PQ tables that a pruning step reuses are this run's.
LEMMA PqIsFresh == ASSUME Inv PROVE
    /\ PqFrom \subseteq Nat
    /\ (clean /\ step \notin {"idle", "clean", "killed"}) => PqFrom \subseteq {run}
  <1>1. Pq \in StaleOutputs /\ Pq \in Files
    BY OwnFiles DEF StaleOutputs, Inv, TypeOK
  <1> QED
    BY <1>1 DEF PqFrom, Inv, TypeOK, OnlyThisRun

LEMMA PruneInv == ASSUME Inv, Prune PROVE Inv'
  <1>1. /\ step = "prune" /\ step' = "reverse" /\ UNCHANGED <<run, P, clean, k>>
        /\ disk' = [disk EXCEPT ![Pq] = PqFrom, ![Graph(P)] = From({Cand(P)}) \cup PqFrom]
    BY DEF Prune
  <1>2. /\ disk \in [Files -> SUBSET Nat] /\ run \in Nat /\ k \in Nat
        /\ clean => \A f \in StaleOutputs : disk[f] \subseteq {run}
    BY <1>1 DEF Inv, TypeOK, OnlyThisRun
  <1>3. StaleOutputs \subseteq Files /\ {Cand(P)} \subseteq StaleOutputs
    BY OwnFiles DEF Inv, TypeOK, StaleOutputs
  <1>4. From({Cand(P)}) \subseteq Nat /\ (clean => From({Cand(P)}) = {run})
    BY <1>2, <1>3, FromType, FromFresh
  <1>5. PqFrom \subseteq Nat /\ (clean => PqFrom \subseteq {run})
    BY <1>1, PqIsFresh
  <1>6. disk' \in [Files -> SUBSET Nat]
    BY <1>1, <1>2, <1>4, <1>5
  <1>7. clean => \A f \in StaleOutputs : disk'[f] \subseteq {run}
    BY <1>1, <1>2, <1>3, <1>4, <1>5
  <1> QED
    BY <1>1, <1>2, <1>6, <1>7, WorkKeepsInv DEF Steps

LEMMA PruneFinalInv == ASSUME Inv, PruneFinal PROVE Inv'
  <1>1. /\ step = "prune-final" /\ step' = "done" /\ UNCHANGED <<run, P, clean, k>>
        /\ disk' = [disk EXCEPT ![Pq] = PqFrom, ![Final(P)] = From({Reversed(P)}) \cup PqFrom]
    BY DEF PruneFinal
  <1>2. /\ disk \in [Files -> SUBSET Nat] /\ run \in Nat /\ k \in Nat
        /\ clean => \A f \in StaleOutputs : disk[f] \subseteq {run}
    BY <1>1 DEF Inv, TypeOK, OnlyThisRun
  <1>3. /\ StaleOutputs \subseteq Files /\ {Reversed(P)} \subseteq StaleOutputs
        /\ Final(P) \in Files
    BY OwnFiles DEF Inv, TypeOK, StaleOutputs
  <1>4. From({Reversed(P)}) \subseteq Nat /\ (clean => From({Reversed(P)}) = {run})
    BY <1>2, <1>3, FromType, FromFresh
  <1>5. PqFrom \subseteq Nat /\ (clean => PqFrom \subseteq {run})
    BY <1>1, PqIsFresh
  <1>6. disk' \in [Files -> SUBSET Nat]
    BY <1>1, <1>2, <1>4, <1>5
  <1>7. clean => \A f \in StaleOutputs : disk'[f] \subseteq {run}
    BY <1>1, <1>2, <1>3, <1>4, <1>5
  <1>8. clean => disk'[Final(P)] = {run}
    BY <1>1, <1>2, <1>3, <1>4, <1>5
  <1>9. StaleOutputs' = StaleOutputs /\ Final(P)' = Final(P)
    BY <1>1 DEF StaleOutputs, Final
  <1>10. OnlyThisRun' /\ FinalIsFresh'
    BY <1>1, <1>7, <1>8, <1>9 DEF OnlyThisRun, FinalIsFresh
  <1> QED
    BY <1>1, <1>6, <1>10 DEF Inv, TypeOK, Steps

\* A killed step leaves anything behind, but the run it belonged to is over.
LEMMA KilledInv == ASSUME Inv, Killed PROVE Inv'
  <1>1. step' = "killed" /\ UNCHANGED <<run, P, clean, k>>
    BY DEF Killed
  <1>2. PICK W \in SUBSET Writes, D \in SUBSET Deletes :
             disk' = [f \in Files |-> IF f \in W THEN disk[f] \cup {run, Torn}
                                             ELSE IF f \in D THEN Absent ELSE disk[f]]
    BY DEF Killed
  <1>3. disk' \in [Files -> SUBSET Nat]
    BY <1>2 DEF Inv, TypeOK, Torn, Absent
  <1> QED
    BY <1>1, <1>3 DEF Inv, TypeOK, Steps, OnlyThisRun, FinalIsFresh

LEMMA NextInv == ASSUME Inv, [Next]_vars PROVE Inv'
  <1>1. CASE UNCHANGED vars
    <2>1. StaleOutputs' = StaleOutputs /\ Final(P)' = Final(P)
      BY <1>1 DEF vars, StaleOutputs, Final
    <2> QED
      BY <1>1, <2>1 DEF vars, Inv, TypeOK, OnlyThisRun, FinalIsFresh
  <1> QED
    BY <1>1, StartRunInv, RemoveStaleOutputsInv, BuildSubgraphInv, EndBuildInv, SelfDumpInv,
       CrossPairsInv, EndCrossPairsInv, CompactInv, PruneInv, ReverseInv, PruneFinalInv, KilledInv
       DEF Next

\* The final graph of a run that removes stale outputs first depends on nothing
\* an earlier run left on disk, complete or torn, under any number of partitions
\* (run_sigma_pipeline.py, remove_stale_outputs).
THEOREM FinalGraphIsFresh == Spec => []FinalIsFresh
  <1>1. Init => Inv
    BY InitInv
  <1>2. Inv /\ [Next]_vars => Inv'
    BY NextInv
  <1>3. Inv => FinalIsFresh
    BY DEF Inv
  <1> QED
    BY <1>1, <1>2, <1>3, PTL DEF Spec

=============================================================================
