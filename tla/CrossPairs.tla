----------------------------- MODULE CrossPairs -----------------------------
(***************************************************************************)
(* The cross-partition phase of the construction                           *)
(* (construction/our_construction.cpp:1085-1520): for every selected pair  *)
(* i < j of partitions both subindexes are loaded and searched against     *)
(* each other.  j runs downwards, so that the last target of an anchor,    *)
(* i + 1, can be kept in memory as the next anchor.                        *)
(*                                                                         *)
(* The phase is one process, or, as construction/run_sigma_pipeline.py     *)
(* starts it, one process per anchor.  A process is given by its           *)
(* --anchor-start, --anchor-end and --target flags, -1 when a flag is      *)
(* absent.                                                                 *)
(***************************************************************************)
EXTENDS Integers, Sequences, FiniteSets

CONSTANTS Ps,       \* numbers of partitions
          None      \* no subindex in a pointer

ASSUME PsAssumption == Ps \subseteq Nat \ {0}
ASSUME NoneAssumption == None \notin Nat

VARIABLES P,              \* number of partitions
          selected,       \* the pairs the --cross-pairs-file allows
          procs, n,       \* the processes to run, and the number of the running one
          pc,             \* "start", "anchor", "target", "search", "release", "done", "died"
          begin, end,     \* anchor_begin, anchor_end_exclusive
          i, j,           \* the loop indices
          u_i, u_j, cached_next_u,  \* partition of the subindex held, or None
          processed,      \* history: how often the pair <<i, j>> was searched
          loads           \* history: subindexes read from disk by this process

inputs == <<P, selected, procs>>
pointers == <<u_i, u_j, cached_next_u>>
vars == <<P, selected, procs, n, pc, begin, end, i, j, u_i, u_j, cached_next_u, processed, loads>>

Pairs(p) == {q \in (0 .. p - 1) \X (0 .. p - 1) : q[1] < q[2]}
Process(a, b, t) == [start |-> a, last |-> b, target |-> t]

\* run_sigma_pipeline.py:431-435: a process for every anchor.
OnePerAnchor(p) == [k \in 1 .. p - 1 |-> Process(k - 1, k - 1, -1)]
\* A single process over all anchors.
AllAtOnce == <<Process(-1, -1, -1)>>

-----------------------------------------------------------------------------
Init ==
    /\ P \in Ps
    /\ selected \in SUBSET Pairs(P)
    /\ \/ procs = OnePerAnchor(P)
       \/ \E a, b, t \in -1 .. P : procs = <<Process(a, b, t)>>
    /\ n = 1
    /\ pc = "start"
    /\ begin = 0 /\ end = 0 /\ i = 0 /\ j = 0
    /\ u_i = None /\ u_j = None /\ cached_next_u = None
    /\ processed = [q \in Pairs(P) |-> 0]
    /\ loads = 0

running == procs[n]

\* Lines 1105-1135: the anchors of the process.
First(a) == IF a.start >= 0 THEN a.start ELSE 0
LastAnchor(a) == IF a.last >= 0 THEN a.last ELSE First(a)
WholeRange(a) == a.start < 0 /\ a.last < 0
RangeOK(a) == P < 2 \/ WholeRange(a) \/ (LastAnchor(a) >= First(a) /\ LastAnchor(a) < P - 1)
TargetOK(a) == a.target >= 0 => /\ a.start >= 0 /\ a.last = a.start
                                /\ a.start < a.target /\ a.target < P
AnchorBegin(a) == IF P < 2 \/ WholeRange(a) THEN 0 ELSE First(a)
EndWithoutLast(a) == IF P < 2 THEN 0 ELSE IF WholeRange(a) THEN P - 1 ELSE LastAnchor(a)
AnchorEnd(a) == IF P < 2 THEN 0 ELSE IF WholeRange(a) THEN P - 1 ELSE LastAnchor(a) + 1

\* Lines 1101-1153: a process starts with nothing in memory, or dies because of
\* its flags, which stops the pipeline too.
FlagsOK == RangeOK(running) /\ TargetOK(running)

StartProcess ==
    /\ pc = "start" /\ n <= Len(procs) /\ FlagsOK
    /\ begin' = AnchorBegin(running) /\ end' = AnchorEnd(running)
    /\ i' = AnchorBegin(running)
    /\ loads' = 0
    /\ pc' = "anchor"
    /\ UNCHANGED <<inputs, n, j, pointers, processed>>

Die ==
    /\ pc = "start" /\ n <= Len(procs) /\ ~FlagsOK
    /\ pc' = "died"
    /\ UNCHANGED <<inputs, n, begin, end, i, j, pointers, processed, loads>>

\* Lines 1154-1183: the anchor is the index kept from the last one, or is loaded.
AnchorIndex == IF cached_next_u # None THEN cached_next_u ELSE i

LastTarget == P - 1

LoadAnchor ==
    /\ pc = "anchor" /\ i < end
    /\ u_i' = AnchorIndex
    /\ cached_next_u' = None
    /\ loads' = IF cached_next_u # None THEN loads ELSE loads + 1
    /\ j' = LastTarget
    /\ pc' = "target"
    /\ UNCHANGED <<inputs, n, begin, end, i, u_j, processed>>

\* Lines 1185-1190: which targets the anchor is searched with.
Wanted == /\ running.target >= 0 => j = running.target
          /\ <<i, j>> \in selected

SkipTarget ==
    /\ pc = "target" /\ j > i /\ ~Wanted
    /\ j' = j - 1
    /\ UNCHANGED <<inputs, n, pc, begin, end, i, pointers, processed, loads>>

\* Lines 1191-1208.
LoadTarget ==
    /\ pc = "target" /\ j > i /\ Wanted
    /\ u_j' = j
    /\ loads' = loads + 1
    /\ pc' = "search"
    /\ UNCHANGED <<inputs, n, begin, end, i, j, u_i, cached_next_u, processed>>

\* Lines 1217-1487: both directions of the pair, by all threads.
SearchPair ==
    /\ pc = "search"
    /\ processed' = [processed EXCEPT ![<<i, j>>] = @ + 1]
    /\ pc' = "release"
    /\ UNCHANGED <<inputs, n, begin, end, i, j, pointers, loads>>

\* Lines 1488-1504: the target becomes the next anchor, or is freed.
KeepEvery == u_j
KeepNever == None
KeptIndex == IF running.target < 0 /\ j = i + 1 THEN u_j ELSE cached_next_u

ReleaseTarget ==
    /\ pc = "release"
    /\ cached_next_u' = KeptIndex
    /\ u_j' = None
    /\ j' = j - 1
    /\ pc' = "target"
    /\ UNCHANGED <<inputs, n, begin, end, i, u_i, processed, loads>>

\* The inner loop ends and u_i goes out of scope.
EndAnchor ==
    /\ pc = "target" /\ ~(j > i)
    /\ u_i' = None
    /\ i' = i + 1
    /\ pc' = "anchor"
    /\ UNCHANGED <<inputs, n, begin, end, j, u_j, cached_next_u, processed, loads>>

\* Lines 1506-1530: the process ends, and its memory with it.
EndProcess ==
    /\ pc = "anchor" /\ ~(i < end)
    /\ cached_next_u' = None
    /\ n' = n + 1
    /\ pc' = "start"
    /\ UNCHANGED <<inputs, begin, end, i, j, u_i, u_j, processed, loads>>

EndPlan ==
    /\ pc = "start" /\ n > Len(procs)
    /\ pc' = "done"
    /\ UNCHANGED <<inputs, n, begin, end, i, j, pointers, processed, loads>>

Next == \/ StartProcess \/ Die \/ LoadAnchor \/ SkipTarget \/ LoadTarget \/ SearchPair
        \/ ReleaseTarget \/ EndAnchor \/ EndProcess \/ EndPlan

Spec == Init /\ [][Next]_vars

-----------------------------------------------------------------------------
Labels == {"start", "anchor", "target", "search", "release", "done", "died"}
Pointer == 0 .. P - 1 \cup {None}

TypeOK ==
    /\ P \in Ps /\ selected \subseteq Pairs(P)
    /\ procs \in Seq([start : Int, last : Int, target : Int])
    /\ n \in 1 .. Len(procs) + 1
    /\ pc \in Labels
    /\ begin \in 0 .. P /\ end \in 0 .. P
    /\ i \in 0 .. P /\ j \in -1 .. P - 1
    /\ u_i \in Pointer /\ u_j \in Pointer /\ cached_next_u \in Pointer
    /\ processed \in [Pairs(P) -> Nat]
    /\ loads \in Nat

\* Never more than two subindexes are in memory: the budget check of the build
\* (two_index_ram, lines 831-849) admits no third, and the one kept for the
\* next anchor counts.
AtMostTwoResident == None \in {u_i, u_j, cached_next_u}

\* Ids are computed from the loop indices and distances from the indexes held:
\* a pair is only searched in its own subindexes, and the one kept in memory is
\* that of the next anchor, whatever pairs are left out.
HoldsTheRightIndexes ==
    /\ pc \in {"target", "search", "release"} => u_i = i
    /\ pc \in {"search", "release"} => u_j = j
    /\ cached_next_u # None => cached_next_u = IF pc = "anchor" THEN i ELSE i + 1

\* The processes search every pair they are asked for exactly once and no other:
\* the anchors of the runner, or of a process without flags, make up all pairs.
EveryPairOnce ==
    (pc = "done" /\ procs \in {OnePerAnchor(P), AllAtOnce}) =>
        \A q \in Pairs(P) : processed[q] = IF q \in selected THEN 1 ELSE 0

\* "Reverse order for j to enable index reuse" (line 1182): in one process an
\* anchor after the first is read from disk only if it was not the last target
\* of the anchor before it.
AnchorsAreReused ==
    (pc = "done" /\ procs = AllAtOnce /\ P > 1) =>
        loads = 1 + Cardinality(selected)
                  + Cardinality({k \in 1 .. P - 2 : <<k - 1, k>> \notin selected})
=============================================================================
