------------------------ MODULE CandidateStagesProofs ------------------------
(***************************************************************************)
(* The pair loop (CrossPairs), for every number of partitions, selection   *)
(* of pairs and flags: at most two subindexes are in memory, those of the  *)
(* pair being searched, every selected pair is searched once, and anchors  *)
(* are reused.                                                             *)
(*                                                                         *)
(* The loop with the bucket logs, for every number of partitions, nodes,   *)
(* buckets, threads and records, one process or several, and any           *)
(* interleaving of the threads: no record is lost or duplicated on its way *)
(* to the logs (RecordsConserved), no staging buffer is written past its   *)
(* end (StagingFits), and the compaction leaves exactly what was found     *)
(* (CandidatesExact).  The stages implement the loop, so that its theorems *)
(* hold there too.                                                         *)
(***************************************************************************)
EXTENDS CandidateStages, FiniteSetTheorems, SequenceTheorems, TLAPS

\* What each program point says about the pointers.  The subindex kept for the
\* next anchor exists only after the last target, when the inner loop can do
\* nothing but end; that is why no third one is ever loaded.
Pointers ==
    /\ pc \in {"start", "done", "died"} => u_i = None /\ u_j = None /\ cached_next_u = None
    /\ pc = "anchor" => u_i = None /\ u_j = None /\ cached_next_u \in {None, i}
    /\ pc = "target" => u_i = i /\ u_j = None /\ cached_next_u \in {None, i + 1}
    /\ pc \in {"search", "release"} => u_i = i /\ u_j = j /\ cached_next_u = None

\* The bounds of the two loops.
LoopBounds ==
    /\ pc = "anchor" => /\ i <= end
                        /\ end <= P - 1
                        /\ n <= Len(procs)
                        /\ cached_next_u # None => i < P
    /\ pc \in {"target", "search", "release"} => /\ i < end /\ end <= P - 1
                                                 /\ i <= j
                                                 /\ n <= Len(procs)
    /\ pc = "target" /\ j > i => cached_next_u = None
    /\ pc \in {"search", "release"} => i < j

Inv == TypeOK /\ Pointers /\ LoopBounds

-----------------------------------------------------------------------------
\* The constants and loop variables are integers.
LEMMA Types == ASSUME TypeOK
               PROVE /\ P \in Nat /\ P >= 1 /\ n \in Nat /\ Len(procs) \in Nat
                     /\ begin \in Nat /\ end \in Nat /\ i \in Nat /\ j \in Int /\ loads \in Nat
  <1>1. P \in Nat /\ P >= 1 /\ Len(procs) \in Nat
    BY PsAssumption DEF TypeOK
  <1> QED
    BY <1>1 DEF TypeOK

\* An element of a sequence, and an updated counter, have their types.
LEMMA ElementType == ASSUME NEW S, NEW s \in Seq(S), NEW x \in 1 .. Len(s) PROVE s[x] \in S
  OBVIOUS
LEMMA CounterType == ASSUME NEW S, NEW f \in [S -> Nat], NEW x \in S
                     PROVE [f EXCEPT ![x] = @ + 1] \in [S -> Nat]
  OBVIOUS

\* The flags of a running process are integers.
LEMMA RunningType == ASSUME TypeOK, n <= Len(procs)
                     PROVE running \in [start : Int, last : Int, target : Int]
  <1>1. procs \in Seq([start : Int, last : Int, target : Int])
    BY DEF TypeOK
  <1>2. n \in 1 .. Len(procs)
    BY Types DEF TypeOK
  <1> QED
    BY <1>1, <1>2, ElementType DEF running

LEMMA InitInv == ASSUME Init PROVE Inv
  <1>1. P \in Nat /\ P >= 1
    BY PsAssumption DEF Init
  <1>2. /\ procs \in Seq([start : Int, last : Int, target : Int])
    <2>1. CASE procs = OnePerAnchor(P)
      BY <2>1, <1>1 DEF OnePerAnchor, Process
    <2>2. CASE \E x, y, t \in -1 .. P : procs = <<Process(x, y, t)>>
      BY <2>2, <1>1 DEF Process
    <2> QED
      BY <2>1, <2>2 DEF Init
  <1>3. TypeOK
    BY <1>1, <1>2 DEF Init, TypeOK, Labels, Pointer
  <1> QED
    BY <1>3 DEF Init, Inv, Pointers, LoopBounds

LEMMA StartProcessInv == ASSUME Inv, StartProcess PROVE Inv'
  <1>1. TypeOK /\ n <= Len(procs) /\ pc = "start" /\ pc' = "anchor"
    BY DEF Inv, StartProcess
  <1>2. /\ u_i' = None /\ u_j' = None /\ cached_next_u' = None
        /\ P' = P /\ n' = n /\ procs' = procs /\ selected' = selected /\ j' = j
        /\ processed' = processed /\ loads' = 0
        /\ begin' = AnchorBegin(running) /\ i' = AnchorBegin(running) /\ end' = AnchorEnd(running)
    BY DEF Inv, Pointers, StartProcess, inputs, pointers
  <1>3. /\ AnchorBegin(running) \in 0 .. P /\ AnchorEnd(running) \in 0 .. P
        /\ AnchorEnd(running) <= P - 1
        /\ AnchorBegin(running) <= AnchorEnd(running)
    <2>1. FlagsOK
      BY DEF StartProcess
    <2> QED
      BY <1>1, <2>1, Types, RunningType DEF FlagsOK, RangeOK, AnchorBegin, AnchorEnd, WholeRange,
         First, LastAnchor
  <1>4. TypeOK'
    BY <1>1, <1>2, <1>3 DEF TypeOK, Labels, Pointer
  <1> QED
    BY <1>1, <1>2, <1>3, <1>4 DEF Inv, Pointers, LoopBounds

LEMMA DieInv == ASSUME Inv, Die PROVE Inv'
  BY DEF Inv, Die, TypeOK, Labels, Pointer, Pointers, LoopBounds, inputs, pointers

LEMMA LoadAnchorInv == ASSUME Inv, LoadAnchor PROVE Inv'
  <1>1. TypeOK /\ pc = "anchor" /\ pc' = "target" /\ i < end /\ end <= P - 1 /\ n <= Len(procs)
    BY DEF Inv, LoadAnchor, LoopBounds
  <1>2. u_i' = i
    BY DEF Inv, LoadAnchor, Pointers, AnchorIndex
  <1>3. /\ u_j' = None /\ cached_next_u' = None /\ i' = i /\ j' = P - 1 /\ end' = end /\ n' = n
        /\ P' = P /\ procs' = procs /\ selected' = selected /\ begin' = begin
        /\ processed' = processed /\ loads' \in {loads, loads + 1}
    BY DEF Inv, LoadAnchor, Pointers, LastTarget, inputs
  <1>4. TypeOK'
    <2>1. i \in 0 .. P - 1 /\ P - 1 \in -1 .. P - 1 /\ loads + 1 \in Nat
      BY <1>1, Types
    <2> QED
      BY <1>1, <1>2, <1>3, <2>1 DEF TypeOK, Labels, Pointer
  <1> QED
    BY <1>1, <1>2, <1>3, <1>4, Types DEF Inv, Pointers, LoopBounds

LEMMA SkipTargetInv == ASSUME Inv, SkipTarget PROVE Inv'
  <1>1. TypeOK /\ pc = "target" /\ pc' = "target" /\ j > i /\ j' = j - 1 /\ cached_next_u = None
    BY DEF Inv, SkipTarget, LoopBounds
  <1>2. UNCHANGED <<P, selected, procs, n, begin, end, i, u_i, u_j, cached_next_u, processed, loads>>
    BY DEF SkipTarget, inputs, pointers
  <1>3. TypeOK'
    BY <1>1, <1>2, Types DEF TypeOK, Labels, Pointer
  <1>4. i <= j'
    BY <1>1, Types
  <1> QED
    BY <1>1, <1>2, <1>3, <1>4 DEF Inv, Pointers, LoopBounds

LEMMA LoadTargetInv == ASSUME Inv, LoadTarget PROVE Inv'
  <1>1. TypeOK /\ pc = "target" /\ pc' = "search" /\ j > i /\ u_j' = j /\ cached_next_u = None
    BY DEF Inv, LoadTarget, LoopBounds
  <1>2. /\ UNCHANGED <<P, selected, procs, n, begin, end, i, j, u_i, cached_next_u, processed>>
        /\ loads' = loads + 1
    BY DEF LoadTarget, inputs
  <1>3. TypeOK'
    BY <1>1, <1>2, Types DEF TypeOK, Labels, Pointer
  <1>4. i < j
    BY <1>1, Types
  <1> QED
    BY <1>1, <1>2, <1>3, <1>4 DEF Inv, Pointers, LoopBounds

LEMMA SearchPairInv == ASSUME Inv, SearchPair PROVE Inv'
  <1>1. TypeOK /\ pc = "search" /\ pc' = "release" /\ i < j
    BY DEF Inv, SearchPair, LoopBounds
  <1>2. UNCHANGED <<P, selected, procs, n, begin, end, i, j, u_i, u_j, cached_next_u, loads>>
    BY DEF SearchPair, inputs, pointers
  <1>3. processed' \in [Pairs(P) -> Nat]
    <2>1. <<i, j>> \in Pairs(P)
      BY <1>1, Types DEF Pairs, TypeOK
    <2>2. processed \in [Pairs(P) -> Nat] /\ processed' = [processed EXCEPT ![<<i, j>>] = @ + 1]
      BY <1>1 DEF SearchPair, TypeOK
    <2> QED
      BY <2>1, <2>2, CounterType
  <1>4. TypeOK'
    BY <1>1, <1>2, <1>3 DEF TypeOK, Labels, Pointer
  <1> QED
    BY <1>1, <1>2, <1>4 DEF Inv, Pointers, LoopBounds

\* The target is kept only when it is i + 1, and then j becomes i.
LEMMA ReleaseTargetInv == ASSUME Inv, ReleaseTarget PROVE Inv'
  <1>1. /\ TypeOK /\ pc = "release" /\ pc' = "target" /\ i < j /\ j' = j - 1 /\ u_j' = None
        /\ u_i = i /\ u_j = j /\ cached_next_u = None /\ cached_next_u' = KeptIndex
    BY DEF Inv, ReleaseTarget, LoopBounds, Pointers
  <1>2. UNCHANGED <<P, selected, procs, n, begin, end, i, u_i, processed, loads>>
    BY DEF ReleaseTarget, inputs
  <1>3. \/ cached_next_u' = None
        \/ cached_next_u' = i + 1 /\ j = i + 1
    BY <1>1 DEF KeptIndex
  <1>4. i <= j' /\ (j' > i => cached_next_u' = None)
    BY <1>1, <1>3, Types
  <1>5. TypeOK'
    BY <1>1, <1>2, <1>3, Types DEF TypeOK, Labels, Pointer
  <1> QED
    BY <1>1, <1>2, <1>3, <1>4, <1>5 DEF Inv, Pointers, LoopBounds

LEMMA EndAnchorInv == ASSUME Inv, EndAnchor PROVE Inv'
  <1>1. /\ TypeOK /\ pc = "target" /\ pc' = "anchor" /\ i' = i + 1 /\ u_i' = None /\ u_j = None
        /\ i < end /\ end <= P - 1 /\ n <= Len(procs) /\ cached_next_u \in {None, i + 1}
    BY DEF Inv, EndAnchor, LoopBounds, Pointers
  <1>2. UNCHANGED <<P, selected, procs, n, begin, end, j, u_j, cached_next_u, processed, loads>>
    BY DEF EndAnchor, inputs
  <1>3. i' <= end /\ i' < P /\ i' \in 0 .. P
    BY <1>1, Types
  <1>4. TypeOK'
    BY <1>1, <1>2, <1>3 DEF TypeOK, Labels, Pointer
  <1> QED
    BY <1>1, <1>2, <1>3, <1>4 DEF Inv, Pointers, LoopBounds

LEMMA EndProcessInv == ASSUME Inv, EndProcess PROVE Inv'
  <1>1. /\ TypeOK /\ pc = "anchor" /\ pc' = "start" /\ n' = n + 1 /\ n <= Len(procs)
        /\ u_i = None /\ u_j = None /\ cached_next_u' = None
    BY DEF Inv, EndProcess, LoopBounds, Pointers
  <1>2. UNCHANGED <<P, selected, procs, begin, end, i, j, u_i, u_j, processed, loads>>
    BY DEF EndProcess, inputs
  <1>3. n' \in 1 .. Len(procs) + 1
    BY <1>1, Types DEF TypeOK
  <1>4. TypeOK'
    BY <1>1, <1>2, <1>3 DEF TypeOK, Labels, Pointer
  <1> QED
    BY <1>1, <1>2, <1>4 DEF Inv, Pointers, LoopBounds

LEMMA EndPlanInv == ASSUME Inv, EndPlan PROVE Inv'
  BY DEF Inv, EndPlan, TypeOK, Labels, Pointer, Pointers, LoopBounds, inputs, pointers

LEMMA StutterInv == ASSUME Inv, UNCHANGED vars PROVE Inv'
  BY DEF Inv, vars, TypeOK, Pointer, Pointers, LoopBounds

LEMMA NextInv == ASSUME Inv, [Next]_vars PROVE Inv'
  BY StartProcessInv, DieInv, LoadAnchorInv, SkipTargetInv, LoadTargetInv, SearchPairInv,
     ReleaseTargetInv, EndAnchorInv, EndProcessInv, EndPlanInv, StutterInv DEF Next

-----------------------------------------------------------------------------
\* The loops keep the inductive invariant in every execution.
THEOREM InvHolds == Spec => []Inv
  BY InitInv, NextInv, PTL DEF Spec

\* The loop indices and pointers of the phase stay in range for every P.
THEOREM TypeCorrect == Spec => []TypeOK
  <1>1. Inv => TypeOK
    BY DEF Inv
  <1> QED
    BY <1>1, InvHolds, PTL

\* For every number of partitions, selection and flags, at most two subindexes
\* are in memory at once, as the budget check assumes.
THEOREM TwoIndexBudget == Spec => []AtMostTwoResident
  <1>1. Inv => AtMostTwoResident
    BY DEF Inv, TypeOK, Labels, Pointers, AtMostTwoResident
  <1> QED
    BY <1>1, InvHolds, PTL

\* Pairs are always searched in their own subindexes, reused or loaded.
THEOREM RightIndexes == Spec => []HoldsTheRightIndexes
  <1>1. Inv => HoldsTheRightIndexes
    BY DEF Inv, TypeOK, Labels, Pointers, HoldsTheRightIndexes
  <1> QED
    BY <1>1, InvHolds, PTL

-----------------------------------------------------------------------------
\* Completeness.  The plan covers all anchors: one process without flags, or a
\* process per anchor.
WholePlan == procs \in {OnePerAnchor(P), AllAtOnce}

\* f counts one search for the pairs in S of the anchors below a and for those of
\* a with a target above c, and none for the other pairs of p partitions.
Covered(f, S, p, a, c) ==
    \A q \in Pairs(p) :
        f[q] = IF q \in S /\ (q[1] < a \/ (q[1] = a /\ q[2] > c)) THEN 1 ELSE 0
Searched(a, c) == Covered(processed, selected, P, a, c)

\* The first anchor of the process to run next, and the one after its last.
NextAnchor == IF procs = AllAtOnce THEN (IF n = 1 THEN 0 ELSE P - 1) ELSE n - 1
Stop == IF procs = AllAtOnce THEN P - 1 ELSE n

\* How far the searches have come at each program point.
Progress ==
    WholePlan =>
        /\ pc \in {"anchor", "target", "search", "release"} => end = Stop
        /\ pc = "start" => Searched(NextAnchor, P - 1)
        /\ pc = "anchor" => Searched(i, P - 1)
        /\ pc \in {"target", "search"} => Searched(i, j)
        /\ pc = "search" => <<i, j>> \in selected
        /\ pc = "release" => Searched(i, j - 1)
        /\ pc = "done" => Searched(P - 1, P - 1)

\* A pair of partitions.
LEMMA PairType == ASSUME NEW p \in Nat, NEW q \in Pairs(p)
                  PROVE /\ q[1] \in Nat /\ q[2] \in Nat /\ q[1] < q[2] /\ q[2] <= p - 1
                        /\ q = <<q[1], q[2]>>
  BY DEF Pairs

\* Before the first anchor nothing may have been searched.
LEMMA CoveredFirst == ASSUME NEW p \in Nat, NEW f, NEW S, \A q \in Pairs(p) : f[q] = 0
                      PROVE Covered(f, S, p, 0, p - 1)
  <1> SUFFICES ASSUME NEW q \in Pairs(p) PROVE ~(q[1] < 0) /\ ~(q[2] > p - 1)
    BY DEF Covered
  <1> QED
    BY PairType

\* A target left out moves the frontier,
LEMMA CoveredSkip == ASSUME NEW p \in Nat, NEW f, NEW S, NEW a \in Nat, NEW c \in Nat,
                            <<a, c>> \notin S, Covered(f, S, p, a, c)
                     PROVE Covered(f, S, p, a, c - 1)
  <1> SUFFICES ASSUME NEW q \in Pairs(p), q \in S, q[1] = a
               PROVE q[2] > c - 1 <=> q[2] > c
    BY DEF Covered
  <1>1. q[2] # c /\ q[2] \in Nat
    BY PairType
  <1> QED
    BY <1>1

\* a searched one too,
LEMMA CoveredSearch == ASSUME NEW p \in Nat, NEW f \in [Pairs(p) -> Nat], NEW S, NEW a \in Nat,
                              NEW c \in Nat, <<a, c>> \in S, <<a, c>> \in Pairs(p),
                              Covered(f, S, p, a, c)
                       PROVE Covered([f EXCEPT ![<<a, c>>] = @ + 1], S, p, a, c - 1)
  <1> DEFINE g == [f EXCEPT ![<<a, c>>] = @ + 1]
  <1> SUFFICES ASSUME NEW q \in Pairs(p)
               PROVE g[q] = IF q \in S /\ (q[1] < a \/ (q[1] = a /\ q[2] > c - 1)) THEN 1 ELSE 0
    BY DEF Covered
  <1>1. q[1] \in Nat /\ q[2] \in Nat /\ q = <<q[1], q[2]>>
    BY PairType
  <1>2. f[q] = IF q \in S /\ (q[1] < a \/ (q[1] = a /\ q[2] > c)) THEN 1 ELSE 0
    BY DEF Covered
  <1>3. CASE q = <<a, c>>
    <2>1. f[q] = 0
      BY <1>2, <1>3
    <2>2. g[q] = 1
      BY <1>3, <2>1
    <2> QED
      BY <1>3, <2>2
  <1>4. CASE q # <<a, c>>
    <2>1. g[q] = f[q]
      BY <1>4
    <2>2. ~(q[1] = a /\ q[2] = c)
      BY <1>1, <1>4
    <2> QED
      BY <1>1, <1>2, <2>1, <2>2
  <1> QED
    BY <1>3, <1>4

\* and an anchor whose targets are exhausted gives way to the next.
LEMMA CoveredNext == ASSUME NEW p \in Nat, NEW f, NEW S, NEW a \in Nat, Covered(f, S, p, a, a)
                     PROVE Covered(f, S, p, a + 1, p - 1)
  <1> SUFFICES ASSUME NEW q \in Pairs(p)
               PROVE (q[1] < a \/ (q[1] = a /\ q[2] > a))
                     <=> (q[1] < a + 1 \/ (q[1] = a + 1 /\ q[2] > p - 1))
    BY DEF Covered
  <1> QED
    BY PairType

\* In a whole plan no process has a target, and the flags give NextAnchor and Stop.
LEMMA WholePlanFlags ==
    ASSUME TypeOK, WholePlan, n <= Len(procs)
    PROVE /\ running.target = -1
          /\ AnchorBegin(running) = NextAnchor /\ AnchorEnd(running) = Stop
          /\ NextAnchor \in Nat
          /\ (IF procs = AllAtOnce THEN P - 1 ELSE n) = Stop
  <1>1. P \in Nat /\ P >= 1 /\ n \in Nat /\ n >= 1
    BY Types DEF TypeOK
  <1>2. CASE procs = AllAtOnce
    <2>1. n = 1 /\ running = Process(-1, -1, -1)
      BY <1>1, <1>2 DEF AllAtOnce, running
    <2> QED
      BY <1>1, <1>2, <2>1 DEF Process, AnchorBegin, AnchorEnd, WholeRange, NextAnchor, Stop
  <1>3. CASE procs # AllAtOnce
    <2>1. procs = [x \in 1 .. P - 1 |-> Process(x - 1, x - 1, -1)]
      BY <1>3 DEF WholePlan, OnePerAnchor
    <2>2. Len(procs) = P - 1
      BY <1>1, <2>1
    <2>3. n \in 1 .. P - 1
      BY <1>1, <2>2
    <2>4. running = Process(n - 1, n - 1, -1)
      BY <2>1, <2>3 DEF running
    <2> QED
      BY <1>1, <1>3, <2>3, <2>4
         DEF Process, AnchorBegin, AnchorEnd, WholeRange, First, LastAnchor, NextAnchor, Stop
  <1> QED
    BY <1>2, <1>3

\* After the last process of a whole plan no anchor is left.
LEMMA WholePlanEnds == ASSUME TypeOK, WholePlan, n > Len(procs) PROVE NextAnchor = P - 1
  <1>1. P \in Nat /\ P >= 1 /\ n \in Nat /\ n = Len(procs) + 1
    BY Types DEF TypeOK
  <1>2. CASE procs = AllAtOnce
    BY <1>1, <1>2 DEF AllAtOnce, NextAnchor
  <1>3. CASE procs # AllAtOnce
    <2>1. procs = [x \in 1 .. P - 1 |-> Process(x - 1, x - 1, -1)]
      BY <1>3 DEF WholePlan, OnePerAnchor
    <2>2. Len(procs) = P - 1
      BY <1>1, <2>1
    <2> QED
      BY <1>1, <1>3, <2>2 DEF NextAnchor
  <1> QED
    BY <1>2, <1>3

LEMMA InitProgress == ASSUME Init PROVE Progress
  <1>1. P \in Nat /\ P >= 1 /\ n = 1 /\ pc = "start"
    BY PsAssumption DEF Init
  <1>2. NextAnchor = 0
    BY <1>1 DEF NextAnchor
  <1>3. Searched(0, P - 1)
    BY <1>1, CoveredFirst DEF Init, Searched
  <1> QED
    BY <1>1, <1>2, <1>3 DEF Progress

LEMMA StartProcessProgress == ASSUME Inv, Progress, StartProcess PROVE Progress'
  <1> SUFFICES ASSUME WholePlan PROVE Progress'
    BY DEF Progress, WholePlan, StartProcess, inputs
  <1>1. TypeOK /\ n <= Len(procs) /\ pc' = "anchor" /\ Searched(NextAnchor, P - 1)
    BY DEF Inv, StartProcess, Progress
  <1>2. i' = NextAnchor /\ end' = Stop
    BY <1>1, WholePlanFlags DEF StartProcess
  <1>3. UNCHANGED <<P, selected, procs, n, processed>>
    BY DEF StartProcess, inputs
  <1>4. Stop' = Stop
    BY <1>3 DEF Stop
  <1>5. Covered(processed, selected, P, NextAnchor, P - 1)
    BY <1>1 DEF Searched
  <1>6. Covered(processed', selected', P', i', P' - 1)
    BY <1>2, <1>3, <1>5
  <1> QED
    BY <1>1, <1>2, <1>4, <1>6 DEF Progress, Searched

LEMMA LoadAnchorProgress == ASSUME Inv, Progress, LoadAnchor PROVE Progress'
  <1> SUFFICES ASSUME WholePlan PROVE Progress'
    BY DEF Progress, WholePlan, LoadAnchor, inputs
  <1>1. pc' = "target" /\ Searched(i, P - 1) /\ end = Stop /\ j' = P - 1
    BY DEF LoadAnchor, Progress, LastTarget
  <1>2. UNCHANGED <<P, selected, procs, n, processed, i, end>>
    BY DEF LoadAnchor, inputs
  <1>3. Stop' = Stop
    BY <1>2 DEF Stop
  <1>4. Covered(processed', selected', P', i', j')
    BY <1>1, <1>2 DEF Searched
  <1> QED
    BY <1>1, <1>2, <1>3, <1>4 DEF Progress, Searched

LEMMA SkipTargetProgress == ASSUME Inv, Progress, SkipTarget PROVE Progress'
  <1> SUFFICES ASSUME WholePlan PROVE Progress'
    BY DEF Progress, WholePlan, SkipTarget, inputs
  <1>1. /\ pc = "target" /\ pc' = "target" /\ Searched(i, j) /\ end = Stop /\ j' = j - 1 /\ j > i
        /\ TypeOK /\ n <= Len(procs) /\ ~Wanted
    BY DEF SkipTarget, Progress, Inv, LoopBounds
  <1>2. UNCHANGED <<P, selected, procs, n, processed, i, end>>
    BY DEF SkipTarget, inputs
  <1>3. Stop' = Stop
    BY <1>2 DEF Stop
  <1>4. <<i, j>> \notin selected
    BY <1>1, WholePlanFlags DEF Wanted
  <1>5. P \in Nat /\ i \in Nat /\ j \in Nat
    BY <1>1, Types
  <1>6. Covered(processed, selected, P, i, j - 1)
    BY <1>1, <1>4, <1>5, CoveredSkip DEF Searched
  <1>7. Covered(processed', selected', P', i', j')
    BY <1>1, <1>2, <1>6
  <1> QED
    BY <1>1, <1>2, <1>3, <1>7 DEF Progress, Searched

LEMMA LoadTargetProgress == ASSUME Inv, Progress, LoadTarget PROVE Progress'
  <1> SUFFICES ASSUME WholePlan PROVE Progress'
    BY DEF Progress, WholePlan, LoadTarget, inputs
  <1>1. pc' = "search" /\ Searched(i, j) /\ end = Stop /\ <<i, j>> \in selected
    BY DEF LoadTarget, Progress, Wanted
  <1>2. UNCHANGED <<P, selected, procs, n, processed, i, j, end>>
    BY DEF LoadTarget, inputs
  <1>3. Stop' = Stop
    BY <1>2 DEF Stop
  <1>4. Covered(processed', selected', P', i', j')
    BY <1>1, <1>2 DEF Searched
  <1> QED
    BY <1>1, <1>2, <1>3, <1>4 DEF Progress, Searched

LEMMA SearchPairProgress == ASSUME Inv, Progress, SearchPair PROVE Progress'
  <1> SUFFICES ASSUME WholePlan PROVE Progress'
    BY DEF Progress, WholePlan, SearchPair, inputs
  <1>1. /\ pc' = "release" /\ Searched(i, j) /\ end = Stop /\ <<i, j>> \in selected
        /\ TypeOK /\ i < j
    BY DEF SearchPair, Progress, Inv, LoopBounds
  <1>2. UNCHANGED <<P, selected, procs, n, i, j, end>>
    BY DEF SearchPair, inputs
  <1>3. Stop' = Stop
    BY <1>2 DEF Stop
  <1>4. P \in Nat /\ i \in Nat /\ j \in Nat
    BY <1>1, Types
  <1>5. <<i, j>> \in Pairs(P) /\ processed \in [Pairs(P) -> Nat]
    BY <1>1 DEF TypeOK
  <1>6. Covered(processed', selected, P, i, j - 1)
    BY <1>1, <1>4, <1>5, CoveredSearch DEF Searched, SearchPair
  <1>7. Covered(processed', selected', P', i', j' - 1)
    BY <1>2, <1>6
  <1> QED
    BY <1>1, <1>2, <1>3, <1>7 DEF Progress, Searched

LEMMA ReleaseTargetProgress == ASSUME Inv, Progress, ReleaseTarget PROVE Progress'
  <1> SUFFICES ASSUME WholePlan PROVE Progress'
    BY DEF Progress, WholePlan, ReleaseTarget, inputs
  <1>1. pc' = "target" /\ Searched(i, j - 1) /\ end = Stop /\ j' = j - 1
    BY DEF ReleaseTarget, Progress
  <1>2. UNCHANGED <<P, selected, procs, n, processed, i, end>>
    BY DEF ReleaseTarget, inputs
  <1>3. Stop' = Stop
    BY <1>2 DEF Stop
  <1>4. Covered(processed', selected', P', i', j')
    BY <1>1, <1>2 DEF Searched
  <1> QED
    BY <1>1, <1>2, <1>3, <1>4 DEF Progress, Searched

LEMMA EndAnchorProgress == ASSUME Inv, Progress, EndAnchor PROVE Progress'
  <1> SUFFICES ASSUME WholePlan PROVE Progress'
    BY DEF Progress, WholePlan, EndAnchor, inputs
  <1>1. /\ pc' = "anchor" /\ Searched(i, j) /\ end = Stop /\ i' = i + 1 /\ TypeOK
        /\ ~(j > i) /\ i <= j
    BY DEF EndAnchor, Progress, Inv, LoopBounds
  <1>2. UNCHANGED <<P, selected, procs, n, processed, end>>
    BY DEF EndAnchor, inputs
  <1>3. Stop' = Stop
    BY <1>2 DEF Stop
  <1>4. P \in Nat /\ i \in Nat /\ i = j
    BY <1>1, Types
  <1>5. Covered(processed, selected, P, i + 1, P - 1)
    BY <1>1, <1>4, CoveredNext DEF Searched
  <1>6. Covered(processed', selected', P', i', P' - 1)
    BY <1>1, <1>2, <1>5
  <1> QED
    BY <1>1, <1>2, <1>3, <1>6 DEF Progress, Searched

LEMMA EndProcessProgress == ASSUME Inv, Progress, EndProcess PROVE Progress'
  <1> SUFFICES ASSUME WholePlan PROVE Progress'
    BY DEF Progress, WholePlan, EndProcess, inputs
  <1>1. /\ pc' = "start" /\ Searched(i, P - 1) /\ end = Stop /\ n' = n + 1 /\ TypeOK
        /\ ~(i < end) /\ i <= end /\ n <= Len(procs)
    BY DEF EndProcess, Progress, Inv, LoopBounds
  <1>2. UNCHANGED <<P, selected, procs, processed>>
    BY DEF EndProcess, inputs
  <1>3. i = Stop /\ n \in Nat /\ n + 1 # 1
    BY <1>1, Types DEF TypeOK
  <1>4. NextAnchor' = Stop
    <2>1. CASE procs = AllAtOnce
      <3>1. procs' = AllAtOnce /\ n' # 1
        BY <1>1, <1>2, <1>3, <2>1
      <3> QED
        BY <1>2, <2>1, <3>1 DEF NextAnchor, Stop, AllAtOnce
    <2>2. CASE procs # AllAtOnce
      <3>1. (n + 1) - 1 = n
        BY <1>3
      <3>2. NextAnchor' = n' - 1
        BY <1>2, <2>2 DEF NextAnchor, AllAtOnce
      <3> QED
        BY <1>1, <2>2, <3>1, <3>2 DEF Stop
    <2> QED
      BY <2>1, <2>2
  <1>5. Covered(processed', selected', P', NextAnchor', P' - 1)
    BY <1>1, <1>2, <1>3, <1>4 DEF Searched
  <1> QED
    BY <1>1, <1>5 DEF Progress, Searched

LEMMA EndPlanProgress == ASSUME Inv, Progress, EndPlan PROVE Progress'
  <1> SUFFICES ASSUME WholePlan PROVE Progress'
    BY DEF Progress, WholePlan, EndPlan, inputs
  <1>1. pc' = "done" /\ Searched(NextAnchor, P - 1) /\ TypeOK /\ n > Len(procs)
    BY DEF EndPlan, Progress, Inv
  <1>2. UNCHANGED <<P, selected, processed>>
    BY DEF EndPlan, inputs
  <1>3. Covered(processed', selected', P', P' - 1, P' - 1)
    BY <1>1, <1>2, WholePlanEnds DEF Searched
  <1> QED
    BY <1>1, <1>3 DEF Progress, Searched

LEMMA DieProgress == ASSUME Progress, Die PROVE Progress'
  BY DEF Progress, Die

LEMMA StutterProgress == ASSUME Progress, UNCHANGED vars PROVE Progress'
  BY DEF Progress, vars, WholePlan, Searched, Stop, NextAnchor

LEMMA NextProgress == ASSUME Inv, Progress, [Next]_vars PROVE Progress'
  BY StartProcessProgress, DieProgress, LoadAnchorProgress, SkipTargetProgress,
     LoadTargetProgress, SearchPairProgress, ReleaseTargetProgress, EndAnchorProgress,
     EndProcessProgress, EndPlanProgress, StutterProgress DEF Next

\* For every number of partitions and every selection of pairs, the runner's
\* process per anchor, and a single process, search each selected pair exactly
\* once and no other.
THEOREM AllPairsOnce == Spec => []EveryPairOnce
  <1>1. Inv /\ Progress => EveryPairOnce
    <2> SUFFICES ASSUME Inv, Progress, pc = "done", WholePlan, NEW q \in Pairs(P)
                 PROVE processed[q] = IF q \in selected THEN 1 ELSE 0
      BY DEF EveryPairOnce, WholePlan
    <2>1. processed[q] = IF q \in selected /\ (q[1] < P - 1 \/ (q[1] = P - 1 /\ q[2] > P - 1))
                         THEN 1 ELSE 0
      BY DEF Progress, Searched, Covered
    <2>2. P \in Nat
      BY Types DEF Inv
    <2>3. q[1] < P - 1
      BY <2>2, PairType
    <2> QED
      BY <2>1, <2>3
  <1> QED
    BY <1>1, InitInv, NextInv, InitProgress, NextProgress, PTL DEF Spec

-----------------------------------------------------------------------------
(***************************************************************************)
(* The reuse of indexes in a single process.  The reads up to anchor a and *)
(* target c are those of the targets searched so far and those of the      *)
(* anchors that were not the last target of the anchor before them.        *)
(***************************************************************************)
TargetsRead(S, a, c) == {q \in S : q[1] < a \/ (q[1] = a /\ q[2] > c)}
AnchorsRead(S, a) == {k \in 0 .. a : k = 0 \/ <<k - 1, k>> \notin S}
Reads(S, a, c) == Cardinality(AnchorsRead(S, a)) + Cardinality(TargetsRead(S, a, c))

OneProcess == procs = AllAtOnce /\ P > 1

\* The number of reads at each program point, and when the next anchor is in
\* memory.
LoadsCounted ==
    OneProcess =>
        /\ pc = "start" => n = 1 \/ loads = Reads(selected, P - 2, P - 2)
        /\ pc = "anchor" => /\ loads = Reads(selected, i - 1, i - 1)
                            /\ cached_next_u # None <=> (i > 0 /\ <<i - 1, i>> \in selected)
        /\ pc = "target" => /\ loads = Reads(selected, i, j)
                            /\ cached_next_u # None <=> (j = i /\ <<i, i + 1>> \in selected)
        /\ pc \in {"search", "release"} => /\ loads = Reads(selected, i, j - 1)
                                           /\ <<i, j>> \in selected
        /\ pc = "done" => loads = Reads(selected, P - 2, P - 2)

LEMMA SelectionFinite == ASSUME NEW p \in Nat, NEW S, S \subseteq Pairs(p) PROVE IsFiniteSet(S)
  <1> DEFINE I == 0 .. p - 1
  <1>1. IsFiniteSet(I)
    BY FS_Interval
  <1>2. IsFiniteSet(I \X I)
    BY <1>1, FS_Product
  <1>3. S \subseteq I \X I
    BY DEF Pairs
  <1> QED
    BY <1>2, <1>3, FS_Subset

LEMMA ReadsFinite ==
    ASSUME NEW p \in Nat, NEW S, S \subseteq Pairs(p), NEW a \in Int, NEW c \in Int
    PROVE  /\ IsFiniteSet(AnchorsRead(S, a)) /\ Cardinality(AnchorsRead(S, a)) \in Nat
           /\ IsFiniteSet(TargetsRead(S, a, c)) /\ Cardinality(TargetsRead(S, a, c)) \in Nat
  <1>a. IsFiniteSet(0 .. a)
    BY FS_Interval
  <1>1. IsFiniteSet(0 .. a) /\ IsFiniteSet(S)
    BY <1>a, SelectionFinite
  <1>2. AnchorsRead(S, a) \subseteq 0 .. a /\ TargetsRead(S, a, c) \subseteq S
    BY DEF AnchorsRead, TargetsRead
  <1> QED
    BY <1>1, <1>2, FS_Subset, FS_CardinalityType

\* Nothing is read before the first anchor.
LEMMA ReadsFirst == ASSUME NEW p \in Nat, NEW S, S \subseteq Pairs(p) PROVE Reads(S, -1, -1) = 0
  <1>1. AnchorsRead(S, -1) = {}
    BY DEF AnchorsRead
  <1>2. TargetsRead(S, -1, -1) = {}
    BY PairType DEF TargetsRead
  <1> QED
    BY <1>1, <1>2, FS_EmptySet DEF Reads

\* An anchor is read unless it was the last target of the one before it.
LEMMA ReadsAnchor ==
    ASSUME NEW p \in Nat, NEW S, S \subseteq Pairs(p), NEW a \in 0 .. p - 1
    PROVE  Reads(S, a, p - 1) = Reads(S, a - 1, a - 1)
                                  + (IF a > 0 /\ <<a - 1, a>> \in S THEN 0 ELSE 1)
  <1>1. TargetsRead(S, a, p - 1) = TargetsRead(S, a - 1, a - 1)
    <2>1. \A q \in S : /\ q[1] \in Nat /\ q[2] \in Nat /\ q[1] < q[2] /\ q[2] <= p - 1
      BY PairType
    <2>2. \A q \in S : (q[1] < a \/ (q[1] = a /\ q[2] > p - 1))
                         <=> (q[1] < a - 1 \/ (q[1] = a - 1 /\ q[2] > a - 1))
      BY <2>1
    <2> QED
      BY <2>2 DEF TargetsRead
  <1>2. CASE a > 0 /\ <<a - 1, a>> \in S
    <2>1. \A k \in Int : k \in 0 .. a <=> (k = a \/ k \in 0 .. a - 1)
      OBVIOUS
    <2>2. AnchorsRead(S, a) = AnchorsRead(S, a - 1)
      BY <1>2, <2>1 DEF AnchorsRead
    <2> QED
      BY <1>1, <1>2, <2>2, ReadsFinite DEF Reads
  <1>3. CASE ~(a > 0 /\ <<a - 1, a>> \in S)
    <2>1. /\ \A k \in Int : k \in 0 .. a <=> (k = a \/ k \in 0 .. a - 1)
          /\ a \notin 0 .. a - 1
      OBVIOUS
    <2>2. /\ AnchorsRead(S, a) = AnchorsRead(S, a - 1) \cup {a}
          /\ a \notin AnchorsRead(S, a - 1)
      BY <1>3, <2>1 DEF AnchorsRead
    <2>4. /\ IsFiniteSet(AnchorsRead(S, a - 1)) /\ Cardinality(AnchorsRead(S, a - 1)) \in Nat
          /\ Cardinality(TargetsRead(S, a - 1, a - 1)) \in Nat
      <3>1. a - 1 \in Int
        OBVIOUS
      <3> QED
        BY <3>1, ReadsFinite
    <2>3. Cardinality(AnchorsRead(S, a)) = Cardinality(AnchorsRead(S, a - 1)) + 1
      BY <2>2, <2>4, FS_AddElement
    <2> QED
      BY <1>1, <1>3, <2>3, <2>4 DEF Reads
  <1> QED
    BY <1>2, <1>3

\* A target left out costs no read,
LEMMA ReadsSkip ==
    ASSUME NEW p \in Nat, NEW S, S \subseteq Pairs(p), NEW a \in Nat, NEW c \in Nat,
           <<a, c>> \notin S
    PROVE  Reads(S, a, c - 1) = Reads(S, a, c)
  <1>1. \A q \in S : q[1] \in Nat /\ q[2] \in Nat /\ q = <<q[1], q[2]>>
    BY PairType
  <1>2. \A q \in S : q[1] = a => (q[2] > c - 1 <=> q[2] > c)
    <2> SUFFICES ASSUME NEW q \in S, q[1] = a PROVE q[2] > c - 1 <=> q[2] > c
      OBVIOUS
    <2>1. q[2] # c /\ q[2] \in Nat
      BY <1>1
    <2> QED
      BY <2>1
  <1>3. TargetsRead(S, a, c - 1) = TargetsRead(S, a, c)
    BY <1>2 DEF TargetsRead
  <1> QED
    BY <1>3 DEF Reads

\* and a searched one costs one.
LEMMA ReadsTarget ==
    ASSUME NEW p \in Nat, NEW S, S \subseteq Pairs(p), NEW a \in Nat, NEW c \in Nat,
           <<a, c>> \in S
    PROVE  Reads(S, a, c - 1) = Reads(S, a, c) + 1
  <1> DEFINE x == <<a, c>>
  <1>1. \A q \in S : q[1] \in Nat /\ q[2] \in Nat /\ q = <<q[1], q[2]>>
    BY PairType
  <1>2. \A q \in S : q # x => (q[1] = a /\ q[2] > c - 1 <=> q[1] = a /\ q[2] > c)
    <2> SUFFICES ASSUME NEW q \in S, q # x, q[1] = a PROVE q[2] > c - 1 <=> q[2] > c
      OBVIOUS
    <2>1. q[2] # c /\ q[2] \in Nat
      BY <1>1
    <2> QED
      BY <2>1
  <1>3. x[1] = a /\ x[2] = c /\ c > c - 1 /\ ~(c > c) /\ ~(a < a)
    OBVIOUS
  <1> HIDE DEF x
  <1>4. x \in S
    BY DEF x
  <1>5. TargetsRead(S, a, c - 1) = TargetsRead(S, a, c) \cup {x} /\ x \notin TargetsRead(S, a, c)
    BY <1>2, <1>3, <1>4 DEF TargetsRead
  <1>6. Cardinality(TargetsRead(S, a, c - 1)) = Cardinality(TargetsRead(S, a, c)) + 1
    BY <1>5, ReadsFinite, FS_AddElement
  <1>7. Cardinality(AnchorsRead(S, a)) \in Nat /\ Cardinality(TargetsRead(S, a, c)) \in Nat
    BY ReadsFinite
  <1> QED
    BY <1>6, <1>7 DEF Reads

\* All reads of a process over all anchors.
LEMMA ReadsAll ==
    ASSUME NEW p \in Nat, p > 1, NEW S, S \subseteq Pairs(p)
    PROVE  Reads(S, p - 2, p - 2)
             = 1 + Cardinality(S) + Cardinality({k \in 1 .. p - 2 : <<k - 1, k>> \notin S})
  <1> DEFINE T == {k \in 1 .. p - 2 : <<k - 1, k>> \notin S}
  <1>1. TargetsRead(S, p - 2, p - 2) = S
    <2>1. \A q \in S : q[1] \in Nat /\ q[2] \in Nat /\ q[1] < q[2] /\ q[2] <= p - 1
      BY PairType
    <2>2. \A q \in S : q[1] < p - 2 \/ (q[1] = p - 2 /\ q[2] > p - 2)
      BY <2>1
    <2> QED
      BY <2>2 DEF TargetsRead
  <1>2. AnchorsRead(S, p - 2) = T \cup {0} /\ 0 \notin T
    <2>1. /\ \A k \in Int : k \in 0 .. p - 2 <=> (k = 0 \/ k \in 1 .. p - 2)
          /\ 0 \notin 1 .. p - 2
      OBVIOUS
    <2> QED
      BY <2>1 DEF AnchorsRead
  <1>3. IsFiniteSet(T)
    <2>1. IsFiniteSet(1 .. p - 2) /\ T \subseteq 1 .. p - 2
      BY FS_Interval
    <2> QED
      BY <2>1, FS_Subset
  <1> HIDE DEF T
  <1>4. Cardinality(AnchorsRead(S, p - 2)) = Cardinality(T) + 1 /\ Cardinality(T) \in Nat
    BY <1>2, <1>3, FS_AddElement, FS_CardinalityType
  <1>5. Cardinality(S) \in Nat
    BY SelectionFinite, FS_CardinalityType
  <1>6. Reads(S, p - 2, p - 2) = 1 + Cardinality(S) + Cardinality(T)
    BY <1>1, <1>4, <1>5 DEF Reads
  <1> QED
    BY <1>6 DEF T

\* In a single process over all anchors.
LEMMA OneProcessFlags ==
    ASSUME Inv, Progress, OneProcess
    PROVE  /\ P \in Nat /\ selected \subseteq Pairs(P) /\ i \in Nat /\ j \in Int
           /\ WholePlan /\ Len(procs) = 1
           /\ n <= 1 => n = 1 /\ running.target = -1 /\ AnchorBegin(running) = 0
           /\ pc \in {"anchor", "target", "search", "release"} => end = P - 1 /\ n = 1
  <1>1. /\ P \in Nat /\ selected \subseteq Pairs(P) /\ i \in Nat /\ j \in Int /\ n \in Nat
        /\ n >= 1
    BY Types DEF Inv, TypeOK
  <1>2. WholePlan /\ Len(procs) = 1
    BY DEF OneProcess, WholePlan, AllAtOnce
  <1>3. ASSUME n <= 1
        PROVE  n = 1 /\ running.target = -1 /\ AnchorBegin(running) = 0
    <2>1. n = 1
      BY <1>1, <1>3
    <2>2. n <= Len(procs) /\ NextAnchor = 0
      BY <1>2, <2>1 DEF OneProcess, NextAnchor
    <2> QED
      BY <1>2, <2>1, <2>2, WholePlanFlags DEF Inv
  <1>4. ASSUME pc \in {"anchor", "target", "search", "release"} PROVE end = P - 1 /\ n = 1
    <2>1. end = Stop /\ Stop = P - 1
      BY <1>2, <1>4 DEF Progress, Stop, OneProcess
    <2>2. n <= Len(procs)
      BY <1>4 DEF Inv, LoopBounds
    <2> QED
      BY <1>1, <1>2, <2>1, <2>2
  <1> QED
    BY <1>1, <1>2, <1>3, <1>4

LEMMA InitLoads == ASSUME Init PROVE LoadsCounted
  BY DEF Init, LoadsCounted

\* One step per action of a single process.
LEMMA NextLoads ==
    ASSUME Inv, Progress, LoadsCounted, [Next]_vars
    PROVE  LoadsCounted'
  <1> SUFFICES ASSUME OneProcess' PROVE LoadsCounted'
    BY DEF LoadsCounted
  <1>1. UNCHANGED <<P, selected, procs>> /\ OneProcess
    BY DEF Next, vars, inputs, OneProcess, StartProcess, Die, LoadAnchor, SkipTarget, LoadTarget,
           SearchPair, ReleaseTarget, EndAnchor, EndProcess, EndPlan
  <1>2. /\ P \in Nat /\ P > 1 /\ selected \subseteq Pairs(P) /\ i \in Nat /\ j \in Int
        /\ Len(procs) = 1 /\ (n <= 1 => n = 1 /\ running.target = -1 /\ AnchorBegin(running) = 0)
        /\ (pc \in {"anchor", "target", "search", "release"} => end = P - 1 /\ n = 1)
    BY <1>1, OneProcessFlags DEF OneProcess
  <1>3. CASE StartProcess
    <2>1. /\ pc = "start" /\ pc' = "anchor" /\ i' = 0 /\ loads' = 0 /\ cached_next_u' = cached_next_u
      BY <1>2, <1>3 DEF StartProcess, pointers
    <2>2. cached_next_u = None
      BY <2>1 DEF Inv, Pointers
    <2>3. Reads(selected, -1, -1) = 0
      BY <1>2, ReadsFirst
    <2>4. loads' = Reads(selected', i' - 1, i' - 1)
      BY <1>1, <2>1, <2>3
    <2> QED
      BY <2>1, <2>2, <2>4 DEF LoadsCounted
  <1>4. CASE Die
    <2>1. pc' = "died"
      BY <1>4 DEF Die
    <2> QED
      BY <2>1 DEF LoadsCounted
  <1>5. CASE LoadAnchor
    <2>1. /\ pc = "anchor" /\ pc' = "target" /\ i < end /\ i' = i /\ j' = P - 1
          /\ cached_next_u' = None
          /\ loads' = IF cached_next_u # None THEN loads ELSE loads + 1
      BY <1>5 DEF LoadAnchor, LastTarget
    <2>2. /\ loads = Reads(selected, i - 1, i - 1) /\ loads \in Nat
          /\ cached_next_u # None <=> (i > 0 /\ <<i - 1, i>> \in selected)
      BY <1>1, <2>1, Types DEF Inv, LoadsCounted
    <2>3. i < P - 1 /\ i \in 0 .. P - 1
      BY <1>2, <2>1
    <2>4. Reads(selected, i, P - 1) = Reads(selected, i - 1, i - 1)
                                        + (IF i > 0 /\ <<i - 1, i>> \in selected THEN 0 ELSE 1)
      BY <1>2, <2>3, ReadsAnchor
    <2>5. loads' = Reads(selected, i, P - 1)
      BY <2>1, <2>2, <2>4
    <2>6. loads' = Reads(selected', i', j') /\ j' # i'
      BY <1>1, <1>2, <2>1, <2>3, <2>5
    <2> QED
      BY <2>1, <2>6 DEF LoadsCounted
  <1>6. CASE SkipTarget
    <2>1. /\ pc = "target" /\ pc' = "target" /\ j > i /\ j' = j - 1 /\ ~Wanted
          /\ i' = i /\ loads' = loads /\ cached_next_u' = cached_next_u
      BY <1>6 DEF SkipTarget, pointers
    <2>2. <<i, j>> \notin selected
      BY <1>2, <2>1 DEF Wanted
    <2>3. loads = Reads(selected, i, j) /\ cached_next_u = None
      BY <1>1, <2>1 DEF LoadsCounted, Inv, LoopBounds
    <2>4. Reads(selected, i, j - 1) = Reads(selected, i, j)
      <3>1. j \in Nat
        BY <1>2, <2>1
      <3> QED
        BY <1>2, <2>2, <3>1, ReadsSkip
    <2>5. j - 1 = i => <<i, i + 1>> \notin selected
      <3>1. j - 1 = i => j = i + 1
        BY <1>2
      <3> QED
        BY <2>2, <3>1
    <2>6. /\ loads' = Reads(selected', i', j') /\ cached_next_u' = None
          /\ ~(j' = i' /\ <<i', i' + 1>> \in selected')
      BY <1>1, <2>1, <2>3, <2>4, <2>5
    <2> QED
      BY <2>1, <2>6 DEF LoadsCounted
  <1>7. CASE LoadTarget
    <2>1. /\ pc = "target" /\ pc' = "search" /\ j > i /\ Wanted /\ loads' = loads + 1
          /\ i' = i /\ j' = j
      BY <1>7 DEF LoadTarget
    <2>2. <<i, j>> \in selected /\ j \in Nat
      BY <1>2, <2>1 DEF Wanted
    <2>3. loads = Reads(selected, i, j)
      BY <1>1, <2>1 DEF LoadsCounted
    <2>4. Reads(selected, i, j - 1) = Reads(selected, i, j) + 1
      BY <1>2, <2>2, ReadsTarget
    <2>5. loads' = Reads(selected', i', j' - 1) /\ <<i', j'>> \in selected'
      BY <1>1, <2>1, <2>2, <2>3, <2>4
    <2> QED
      BY <2>1, <2>5 DEF LoadsCounted
  <1>8. CASE SearchPair
    <2>1. pc = "search" /\ pc' = "release" /\ UNCHANGED <<i, j, loads>>
      BY <1>8 DEF SearchPair
    <2>2. loads = Reads(selected, i, j - 1) /\ <<i, j>> \in selected
      BY <1>1, <2>1 DEF LoadsCounted
    <2>3. loads' = Reads(selected', i', j' - 1) /\ <<i', j'>> \in selected'
      BY <1>1, <2>1, <2>2
    <2> QED
      BY <2>1, <2>3 DEF LoadsCounted
  <1>9. CASE ReleaseTarget
    <2>1. /\ pc = "release" /\ pc' = "target" /\ cached_next_u' = KeptIndex /\ j' = j - 1
          /\ i' = i /\ loads' = loads
      BY <1>9 DEF ReleaseTarget
    <2>2. loads = Reads(selected, i, j - 1) /\ <<i, j>> \in selected
      BY <1>1, <2>1 DEF LoadsCounted
    <2>3. u_j = j /\ cached_next_u = None /\ i < j
      BY <2>1 DEF Inv, Pointers, LoopBounds
    <2>4. j \in Nat /\ j # None
      BY <1>2, <2>3, NoneAssumption
    <2>5. KeptIndex # None <=> j = i + 1
      BY <1>2, <2>1, <2>3, <2>4 DEF KeptIndex
    <2>6. j = i + 1 <=> (j - 1 = i /\ <<i, i + 1>> \in selected)
      <3>1. j = i + 1 <=> j - 1 = i
        BY <1>2
      <3> QED
        BY <2>2, <3>1
    <2>7. loads' = Reads(selected', i', j')
      BY <1>1, <2>1, <2>2
    <2>8. cached_next_u' # None <=> (j' = i' /\ <<i', i' + 1>> \in selected')
      BY <1>1, <2>1, <2>5, <2>6
    <2> QED
      BY <2>1, <2>7, <2>8 DEF LoadsCounted
  <1>10. CASE EndAnchor
    <2>1. /\ pc = "target" /\ pc' = "anchor" /\ ~(j > i) /\ i' = i + 1
          /\ UNCHANGED <<loads, cached_next_u>>
      BY <1>10 DEF EndAnchor
    <2>2. j = i
      BY <1>2, <2>1 DEF Inv, LoopBounds
    <2>3. /\ loads = Reads(selected, i, i)
          /\ cached_next_u # None <=> <<i, i + 1>> \in selected
      BY <1>1, <2>1, <2>2 DEF LoadsCounted
    <2>4. i' - 1 = i /\ i' > 0
      BY <1>2, <2>1
    <2>5. /\ loads' = Reads(selected', i' - 1, i' - 1)
          /\ cached_next_u' # None <=> (i' > 0 /\ <<i' - 1, i'>> \in selected')
      BY <1>1, <2>1, <2>3, <2>4
    <2> QED
      BY <2>1, <2>5 DEF LoadsCounted
  <1>11. CASE EndProcess
    <2>1. pc = "anchor" /\ pc' = "start" /\ ~(i < end) /\ UNCHANGED loads
      BY <1>11 DEF EndProcess
    <2>2. i = P - 1
      BY <1>2, <2>1 DEF Inv, LoopBounds
    <2>3. loads = Reads(selected, i - 1, i - 1)
      BY <1>1, <2>1 DEF LoadsCounted
    <2>4. i - 1 = P - 2
      BY <1>2, <2>2
    <2>5. loads' = Reads(selected', P' - 2, P' - 2)
      BY <1>1, <2>1, <2>3, <2>4
    <2> QED
      BY <2>1, <2>5 DEF LoadsCounted
  <1>12. CASE EndPlan
    <2>1. pc = "start" /\ pc' = "done" /\ n > 1 /\ UNCHANGED loads
      BY <1>2, <1>12 DEF EndPlan
    <2>2. loads = Reads(selected, P - 2, P - 2)
      BY <1>1, <1>2, <2>1 DEF LoadsCounted
    <2>3. loads' = Reads(selected', P' - 2, P' - 2)
      BY <1>1, <2>1, <2>2
    <2> QED
      BY <2>1, <2>3 DEF LoadsCounted
  <1>13. CASE UNCHANGED vars
    BY <1>13 DEF vars, LoadsCounted, OneProcess
  <1> QED
    BY <1>3, <1>4, <1>5, <1>6, <1>7, <1>8, <1>9, <1>10, <1>11, <1>12, <1>13 DEF Next

\* The number of subindexes a process without flags reads from disk, for every
\* number of partitions and every selection: the order of the targets saves the
\* read of every anchor whose pair with the one before it is selected.
THEOREM IndexesAreReused == Spec => []AnchorsAreReused
  <1>1. Inv /\ Progress /\ LoadsCounted => AnchorsAreReused
    <2> SUFFICES ASSUME Inv, LoadsCounted, pc = "done", procs = AllAtOnce, P > 1
                 PROVE  loads = 1 + Cardinality(selected)
                                  + Cardinality({k \in 1 .. P - 2 : <<k - 1, k>> \notin selected})
      BY DEF AnchorsAreReused
    <2>1. loads = Reads(selected, P - 2, P - 2)
      BY DEF LoadsCounted, OneProcess
    <2>2. P \in Nat /\ selected \subseteq Pairs(P)
      BY Types DEF Inv, TypeOK
    <2> QED
      BY <2>1, <2>2, ReadsAll
  <1> QED
    BY <1>1, InitInv, NextInv, InitProgress, NextProgress, InitLoads, NextLoads, PTL DEF Spec

-----------------------------------------------------------------------------
\* The variables of the logs.
LogsTypeOK ==
    /\ N \in Nat \ {0} /\ B \in Nat \ {0}
    /\ phase \in {"closed", "append", "flush", "compact", "done"}
    /\ todo \subseteq Records
    /\ cur_b \in [Threads -> Int]
    /\ buf \in [Threads -> Seq(Records)]
    /\ just \in [Threads -> Nat]
    /\ flushed \subseteq Threads
    /\ log \in [0 .. B - 1 -> Seq(Records \cup {Stale})]

\* A buffer with something in it is for a log that exists.
BuffersHaveLogs == \A t \in Threads : buf[t] # <<>> => cur_b[t] \in 0 .. B - 1

\* What the phases of a process say about its buffers and its loop: a process
\* that closes the logs leaves nothing in them.
LogPhases ==
    /\ phase = "append" => flushed = {}
    /\ phase = "flush" => \A t \in flushed : buf[t] = <<>>
    /\ phase = "closed" => \A t \in Threads : buf[t] = <<>>
    /\ phase # "append" => todo = {} /\ \A t \in Threads : just[t] = 0

\* Where the stages and the pair loop are.
StageOrder ==
    /\ one_process \in BOOLEAN
    /\ stage \in {"open", "dump", "cross", "compact"}
    /\ stage \in {"open", "dump"} => pc = "start" /\ \A q \in Pairs(P) : processed[q] = 0
    /\ stage = "open" => phase = "closed"
    /\ stage = "compact" <=> phase \in {"compact", "done"}
    /\ stage = "compact" => pc = "done"

\* The logs are open while the pair loop runs: those of the only process since the
\* dump, those of another one since it started.
LoopPhases ==
    /\ one_process => Len(procs) = 1
    /\ stage \in {"open", "dump"} => n = 1
    /\ stage = "dump" => phase = "append" \/ (phase = "flush" /\ ~one_process)
    /\ stage = "cross" =>
         /\ pc = "start" => IF one_process /\ n = 1 THEN phase = "append" ELSE phase = "closed"
         /\ pc = "anchor" => phase = "append" \/ (phase = "flush" /\ ~(i < end))
         /\ pc \in {"target", "search", "release"} => phase = "append"

\* The records that the running loop has still to produce are of its own stage or
\* pair; between the loops there are none.
LoopRecords ==
    /\ stage = "dump" => todo \subseteq From(Self)
    /\ stage = "cross" /\ pc = "search" => todo \subseteq From(<<i, j>>)
    /\ stage = "cross" /\ pc # "search" => todo = {}

\* The plan is one process, or one per anchor, and the pairs from the position of
\* the loops on have not been searched.
Unsearched(a, c) == \A q \in Pairs(P) : processed[q] > 0 => q[1] < a \/ (q[1] = a /\ q[2] > c)
Behind ==
    /\ procs = OnePerAnchor(P) \/ Len(procs) = 1
    /\ pc \in {"anchor", "target", "search", "release"} /\ procs = OnePerAnchor(P) => end = n
    /\ pc = "start" /\ n <= Len(procs) => Unsearched(AnchorBegin(running), P)
    /\ pc = "anchor" => Unsearched(i, P)
    /\ pc \in {"target", "search"} => Unsearched(i, j)
    /\ pc = "release" => Unsearched(i, j - 1)

\* Every record produced is in one place, and no other record is anywhere.
OnePlace ==
    stage \in {"dump", "cross"} =>
        /\ \A r \in Produced : \E p : Places(buf, log, r) = {p}
        /\ \A r \in (Records \cup {Stale}) \ Produced : Places(buf, log, r) = {}

LogsInv == LogsTypeOK /\ BuffersHaveLogs /\ LogPhases /\ StageOrder /\ LoopPhases
           /\ LoopRecords
StagesInv == Inv /\ Behind /\ LogsInv /\ OnePlace

-----------------------------------------------------------------------------
(* Places of a record *)

\* A place is a position of a buffer or of a log.
LEMMA PlaceOf ==
    ASSUME NEW bufs, NEW logs, NEW r, NEW p
    PROVE  p \in Places(bufs, logs, r) <=>
               \/ \E t \in DOMAIN bufs : \E x \in DOMAIN bufs[t] :
                    bufs[t][x] = r /\ p = <<"buffer", t, x>>
               \/ \E k \in DOMAIN logs : \E x \in DOMAIN logs[k] :
                    logs[k][x] = r /\ p = <<"log", k, x>>
  <1>1. \A t \in DOMAIN bufs : p \in {<<"buffer", t, x>> : x \in At(bufs[t], r)} <=>
            \E x \in DOMAIN bufs[t] : bufs[t][x] = r /\ p = <<"buffer", t, x>>
    BY DEF At
  <1>2. \A k \in DOMAIN logs : p \in {<<"log", k, x>> : x \in At(logs[k], r)} <=>
            \E x \in DOMAIN logs[k] : logs[k][x] = r /\ p = <<"log", k, x>>
    BY DEF At
  <1>3. p \in Places(bufs, logs, r) <=>
            \/ \E t \in DOMAIN bufs : p \in {<<"buffer", t, x>> : x \in At(bufs[t], r)}
            \/ \E k \in DOMAIN logs : p \in {<<"log", k, x>> : x \in At(logs[k], r)}
    BY Zenon DEF Places
  <1> QED
    BY <1>1, <1>2, <1>3

\* The places of a record before and after a write.
Follows(bufs, logs, bufs2, logs2, r) ==
    /\ Places(bufs, logs, r) = {} => Places(bufs2, logs2, r) = {}
    /\ (\E p : Places(bufs, logs, r) = {p}) => \E p : Places(bufs2, logs2, r) = {p}

LEMMA FollowsItself == ASSUME NEW bufs, NEW logs, NEW r PROVE Follows(bufs, logs, bufs, logs, r)
  BY Zenon DEF Follows

LEMMA FollowsTwice ==
    ASSUME NEW b1, NEW l1, NEW b2, NEW l2, NEW b3, NEW l3, NEW r,
           Follows(b1, l1, b2, l2, r), Follows(b2, l2, b3, l3, r)
    PROVE  Follows(b1, l1, b3, l3, r)
  BY Zenon DEF Follows

\* flush(): the buffer of t goes to the end of log k.
LEMMA FlushMoves ==
    ASSUME NEW T, NEW D, NEW E, NEW bufs \in [T -> Seq(E)], NEW logs \in [D -> Seq(E)],
           NEW t \in T, NEW k, bufs[t] # <<>> => k \in D, NEW r
    PROVE  Follows(bufs, logs, [bufs EXCEPT ![t] = <<>>], Written(logs, k, bufs[t]), r)
  <1> DEFINE bufs2 == [bufs EXCEPT ![t] = <<>>]
             logs2 == Written(logs, k, bufs[t])
             Moved(p) == IF p[1] = "buffer" /\ p[2] = t THEN <<"log", k, Len(logs[k]) + p[3]>> ELSE p
  <1>1. CASE bufs[t] = <<>>
    <2>1. bufs2 = bufs
      BY <1>1
    <2>2. logs2 = logs
      BY <1>1 DEF Written
    <2>3. Follows(bufs, logs, bufs, logs, r)
      BY FollowsItself
    <2> HIDE DEF bufs2, logs2
    <2>4. Follows(bufs, logs, bufs2, logs2, r)
      BY <2>1, <2>2, <2>3, Zenon
    <2> QED
      BY <2>4, Zenon DEF bufs2, logs2
  <1>2. CASE bufs[t] # <<>>
    <2> DEFINE m == Len(logs[k])
    <2>1. k \in D /\ logs[k] \in Seq(E) /\ bufs[t] \in Seq(E) /\ m \in Nat
      BY <1>2
    <2>2. /\ logs2 \in [D -> Seq(E)] /\ logs2[k] = logs[k] \o bufs[t]
          /\ \A h \in D : h # k => logs2[h] = logs[h]
      BY <1>2, <2>1 DEF Written
    <2>3. /\ bufs2 \in [T -> Seq(E)] /\ bufs2[t] = <<>>
          /\ \A u \in T : u # t => bufs2[u] = bufs[u]
      OBVIOUS
    <2>4. /\ DOMAIN logs2[k] = 1 .. m + Len(bufs[t])
          /\ \A x \in 1 .. m : logs2[k][x] = logs[k][x]
          /\ \A x \in 1 .. Len(bufs[t]) : logs2[k][m + x] = bufs[t][x]
          /\ DOMAIN logs[k] = 1 .. m /\ DOMAIN bufs[t] = 1 .. Len(bufs[t])
      BY <2>1, <2>2
    <2> DEFINE S == Places(bufs, logs, r)
               S2 == Places(bufs2, logs2, r)
    <2> HIDE DEF bufs2, logs2, m
    <2>5. ASSUME NEW p \in S PROVE Moved(p) \in S2
      <3>1. CASE \E u \in T : \E x \in DOMAIN bufs[u] : bufs[u][x] = r /\ p = <<"buffer", u, x>>
        <4>1. PICK u \in T : \E x \in DOMAIN bufs[u] : bufs[u][x] = r /\ p = <<"buffer", u, x>>
          BY <3>1
        <4>2. PICK x \in DOMAIN bufs[u] : bufs[u][x] = r /\ p = <<"buffer", u, x>>
          BY <4>1
        <4>3. CASE u # t
          <5>1. Moved(p) = p /\ bufs2[u] = bufs[u] /\ u \in DOMAIN bufs2
            BY <4>2, <4>3, <2>3
          <5> QED
            BY <5>1, <4>2, PlaceOf
        <4>4. CASE u = t
          <5>1. Moved(p) = <<"log", k, m + x>>
            BY <4>2, <4>4 DEF m
          <5>2. m + x \in DOMAIN logs2[k] /\ logs2[k][m + x] = r /\ k \in DOMAIN logs2
            BY <4>2, <4>4, <2>4, <2>1, <2>2
          <5> QED
            BY <5>1, <5>2, PlaceOf
        <4> QED
          BY <4>3, <4>4
      <3>2. CASE \E h \in D : \E x \in DOMAIN logs[h] : logs[h][x] = r /\ p = <<"log", h, x>>
        <4>1. PICK h \in D : \E x \in DOMAIN logs[h] : logs[h][x] = r /\ p = <<"log", h, x>>
          BY <3>2
        <4>2. PICK x \in DOMAIN logs[h] : logs[h][x] = r /\ p = <<"log", h, x>>
          BY <4>1
        <4>3. Moved(p) = p
          BY <4>2
        <4>4. x \in DOMAIN logs2[h] /\ logs2[h][x] = r /\ h \in DOMAIN logs2
          <5>1. CASE h = k
            BY <5>1, <4>2, <2>4, <2>1, <2>2
          <5>2. CASE h # k
            BY <5>2, <4>2, <2>2
          <5> QED
            BY <5>1, <5>2
        <4> QED
          BY <4>2, <4>3, <4>4, PlaceOf
      <3> QED
        BY <3>1, <3>2, PlaceOf
    <2>6. ASSUME NEW z \in S2 PROVE \E p \in S : z = Moved(p)
      <3>1. CASE \E u \in T : \E x \in DOMAIN bufs2[u] : bufs2[u][x] = r /\ z = <<"buffer", u, x>>
        <4>1. PICK u \in T : \E x \in DOMAIN bufs2[u] : bufs2[u][x] = r /\ z = <<"buffer", u, x>>
          BY <3>1
        <4>2. u # t /\ bufs2[u] = bufs[u] /\ u \in DOMAIN bufs
          BY <4>1, <2>3
        <4>3. z \in S
          BY <4>1, <4>2, PlaceOf
        <4>4. Moved(z) = z
          BY <4>1, <4>2
        <4> QED
          BY <4>3, <4>4
      <3>2. CASE \E h \in D : \E x \in DOMAIN logs2[h] : logs2[h][x] = r /\ z = <<"log", h, x>>
        <4>1. PICK h \in D : \E x \in DOMAIN logs2[h] : logs2[h][x] = r /\ z = <<"log", h, x>>
          BY <3>2
        <4>2. PICK x \in DOMAIN logs2[h] : logs2[h][x] = r /\ z = <<"log", h, x>>
          BY <4>1
        <4>3. CASE h # k \/ (h = k /\ x <= m)
          <5>1. x \in DOMAIN logs[h] /\ logs[h][x] = r /\ h \in DOMAIN logs
            BY <4>3, <4>2, <2>4, <2>1, <2>2
          <5>2. z \in S /\ Moved(z) = z
            BY <5>1, <4>2, PlaceOf
          <5> QED
            BY <5>2
        <4>4. CASE h = k /\ ~(x <= m)
          <5> DEFINE w == x - m
          <5>1. w \in 1 .. Len(bufs[t]) /\ x = m + w
            BY <4>4, <4>2, <2>4, <2>1
          <5>2. bufs[t][w] = r /\ w \in DOMAIN bufs[t] /\ t \in DOMAIN bufs
            BY <5>1, <4>4, <4>2, <2>4
          <5> DEFINE p == <<"buffer", t, w>>
          <5>3. p \in S
            BY <5>2, PlaceOf
          <5>4. Moved(p) = <<"log", k, m + w>>
            BY DEF m
          <5> QED
            BY <5>1, <5>3, <5>4, <4>2, <4>4
        <4> QED
          BY <4>3, <4>4
      <3> QED
        BY <3>1, <3>2, PlaceOf, <2>2, <2>3
    <2>7. S2 = {Moved(p) : p \in S}
      BY <2>5, <2>6
    <2>8. S = {} => S2 = {}
      BY <2>7
    <2>9. ASSUME NEW p, S = {p} PROVE S2 = {Moved(p)}
      BY <2>7, <2>9
    <2> QED
      BY <2>8, <2>9 DEF Follows, bufs2, logs2
  <1> QED
    BY <1>1, <1>2

\* A record appended to the buffer of t gets one more place, and the others none.
Appended(bufs, t, r, bufs2) == bufs2 = [bufs EXCEPT ![t] = Append(bufs[t], r)]
Gains(bufs, bufs2, logs, r, s) ==
    /\ s # r => Places(bufs2, logs, s) = Places(bufs, logs, s)
    /\ s = r /\ Places(bufs, logs, s) = {} => \E p : Places(bufs2, logs, s) = {p}

LEMMA AppendPlaces ==
    ASSUME NEW bufs \in [Threads -> Seq(Records)], NEW logs, NEW t \in Threads,
           NEW r \in Records, NEW bufs2, Appended(bufs, t, r, bufs2), NEW s
    PROVE  Gains(bufs, bufs2, logs, r, s)
  <1> DEFINE m == Len(bufs[t])
  <1>1. /\ bufs2 \in [Threads -> Seq(Records)] /\ bufs2[t] = Append(bufs[t], r)
        /\ \A u \in Threads : u # t => bufs2[u] = bufs[u]
    BY DEF Appended
  <1>2. /\ m \in Nat /\ DOMAIN bufs[t] = 1 .. m /\ DOMAIN bufs2[t] = 1 .. m + 1
        /\ \A x \in 1 .. m : bufs2[t][x] = bufs[t][x]
        /\ bufs2[t][m + 1] = r
    BY <1>1
  <1> HIDE DEF m
  <1>3. ASSUME NEW u \in Threads, NEW x
        PROVE  (x \in DOMAIN bufs2[u] /\ bufs2[u][x] = s) <=>
                   \/ x \in DOMAIN bufs[u] /\ bufs[u][x] = s
                   \/ u = t /\ x = m + 1 /\ s = r
    <2>1. CASE u # t
      BY <2>1, <1>1
    <2>2. CASE u = t
      BY <2>2, <1>2
    <2> QED
      BY <2>1, <2>2
  <1>4. ASSUME NEW p
        PROVE  p \in Places(bufs2, logs, s) <=>
                   p \in Places(bufs, logs, s) \/ (s = r /\ p = <<"buffer", t, m + 1>>)
    <2>1. DOMAIN bufs2 = Threads /\ DOMAIN bufs = Threads
      BY <1>1
    <2>2. t \in Threads /\ m + 1 \in DOMAIN bufs2[t] /\ bufs2[t][m + 1] = r
      BY <1>2
    <2>3. p \in Places(bufs2, logs, s) =>
              p \in Places(bufs, logs, s) \/ (s = r /\ p = <<"buffer", t, m + 1>>)
      BY <1>3, <2>1, PlaceOf
    <2>4. p \in Places(bufs, logs, s) => p \in Places(bufs2, logs, s)
      BY <1>3, <2>1, PlaceOf
    <2>5. s = r /\ p = <<"buffer", t, m + 1>> => p \in Places(bufs2, logs, s)
      BY <2>1, <2>2, PlaceOf
    <2> QED
      BY <2>3, <2>4, <2>5
  <1>5. /\ s # r => Places(bufs2, logs, s) = Places(bufs, logs, s)
        /\ s = r => Places(bufs2, logs, s) = Places(bufs, logs, s) \cup {<<"buffer", t, m + 1>>}
    BY <1>4, Zenon
  <1> QED
    BY <1>5 DEF Gains

-----------------------------------------------------------------------------
(* The pair loop inside the stages *)

\* Every step of the stages is a step of the pair loop or leaves it alone.
LEMMA LoopStep == ASSUME [StagesNext]_allvars PROVE [Next]_vars
  <1>1. UNCHANGED cross => UNCHANGED vars
    BY DEF cross
  <1>2. CASE UNCHANGED allvars
    BY <1>1, <1>2 DEF allvars
  <1>3. CASE BeginDump \/ EndDump \/ Write \/ Flush \/ CompactStep
    BY <1>1, <1>3 DEF BeginDump, EndDump, Write, Flush, CompactStep
  <1>4. CASE BeginCross \/ MoveIndexes \/ BeginPair \/ EndPair \/ EndCross \/ EndStages
    BY <1>4 DEF BeginCross, MoveIndexes, BeginPair, EndPair, EndCross, EndStages, Next
  <1> QED
    BY <1>2, <1>3, <1>4 DEF StagesNext

\* The processes of the runner.
LEMMA RunnersProcess ==
    ASSUME Inv, procs = OnePerAnchor(P), NEW k \in 1 .. Len(procs)
    PROVE  /\ Len(procs) = P - 1 /\ P >= 2
           /\ AnchorBegin(procs[k]) = k - 1 /\ AnchorEnd(procs[k]) = k
  <1>1. P \in Nat /\ P >= 1
    BY Types DEF Inv
  <1> DEFINE f == [x \in 1 .. P - 1 |-> Process(x - 1, x - 1, -1)]
  <1>2. procs = f
    BY DEF OnePerAnchor
  <1>3. Len(procs) = P - 1
    <2>1. DOMAIN procs = 1 .. P - 1 /\ P - 1 \in Nat
      BY <1>1, <1>2
    <2>2. procs \in Seq([start : Int, last : Int, target : Int])
      BY DEF Inv, TypeOK
    <2>3. DOMAIN procs = 1 .. Len(procs) /\ Len(procs) \in Nat
      BY <2>2
    <2> QED
      BY <2>1, <2>3
  <1>4. P >= 2 /\ k \in 1 .. P - 1
    BY <1>1, <1>3
  <1>5. procs[k] = [start |-> k - 1, last |-> k - 1, target |-> -1]
    BY <1>2, <1>4 DEF Process
  <1>6. procs[k].start = k - 1 /\ procs[k].last = k - 1
    BY <1>5
  <1> QED
    BY <1>3, <1>4, <1>6, <1>1 DEF AnchorBegin, AnchorEnd, WholeRange, First, LastAnchor

\* At the beginning nothing has been searched.
LEMMA InitBehind == ASSUME Init PROVE Behind
  <1>1. \A q \in Pairs(P) : processed[q] = 0
    BY DEF Init
  <1>2. procs = OnePerAnchor(P) \/ Len(procs) = 1
    BY DEF Init
  <1> QED
    BY <1>1, <1>2 DEF Init, Behind, Unsearched

\* The frontier of the pairs moves on with the loops, and into the next process.
LEMMA NextBehind == ASSUME Inv, Behind, [Next]_vars PROVE Behind'
  <1>1. /\ P \in Nat /\ P >= 1 /\ n \in Nat /\ Len(procs) \in Nat /\ end \in Nat
        /\ i \in Nat /\ j \in Int /\ n >= 1
    BY Types DEF Inv, TypeOK
  <1>2. ASSUME NEW q \in Pairs(P)
        PROVE  q[1] \in Nat /\ q[2] \in Nat /\ q[2] <= P - 1 /\ q = <<q[1], q[2]>>
               /\ processed[q] \in Nat
    BY <1>1, PairType DEF Inv, TypeOK
  <1>3. CASE UNCHANGED vars
    BY <1>3 DEF vars, Behind, Unsearched, running, AnchorBegin, WholeRange, First
  <1>4. CASE StartProcess
    <2>1. /\ P' = P /\ procs' = procs /\ processed' = processed /\ n' = n /\ pc' = "anchor"
          /\ end' = AnchorEnd(running) /\ i' = AnchorBegin(running)
          /\ pc = "start" /\ n <= Len(procs)
      BY <1>4 DEF StartProcess, inputs
    <2>2. Unsearched(AnchorBegin(running), P)
      BY <2>1 DEF Behind
    <2>3. procs = OnePerAnchor(P) => end' = n'
      BY <2>1, <1>1, RunnersProcess DEF running
    <2> QED
      BY <2>1, <2>2, <2>3 DEF Behind, Unsearched
  <1>5. CASE Die
    BY <1>5 DEF Die, inputs, Behind
  <1>6. CASE LoadAnchor
    <2>1. /\ P' = P /\ procs' = procs /\ processed' = processed /\ n' = n /\ pc' = "target"
          /\ end' = end /\ i' = i /\ j' = P - 1 /\ pc = "anchor"
      BY <1>6 DEF LoadAnchor, inputs, LastTarget
    <2>2. Unsearched(i, P)
      BY <2>1 DEF Behind
    <2>3. Unsearched(i, P - 1)
      BY <2>2, <1>1, <1>2 DEF Unsearched
    <2> QED
      BY <2>1, <2>3 DEF Behind, Unsearched
  <1>7. CASE SkipTarget
    <2>1. /\ P' = P /\ procs' = procs /\ processed' = processed /\ n' = n /\ pc' = pc
          /\ end' = end /\ i' = i /\ j' = j - 1 /\ pc = "target"
      BY <1>7 DEF SkipTarget, inputs
    <2>2. Unsearched(i, j)
      BY <2>1 DEF Behind
    <2>3. Unsearched(i, j - 1)
      BY <2>2, <1>1, <1>2 DEF Unsearched
    <2> QED
      BY <2>1, <2>3 DEF Behind, Unsearched
  <1>8. CASE LoadTarget
    BY <1>8 DEF LoadTarget, inputs, Behind, Unsearched
  <1>9. CASE SearchPair
    <2>1. /\ P' = P /\ procs' = procs /\ n' = n /\ pc' = "release"
          /\ end' = end /\ i' = i /\ j' = j /\ pc = "search"
          /\ processed' = [processed EXCEPT ![<<i, j>>] = @ + 1]
      BY <1>9 DEF SearchPair, inputs
    <2>2. Unsearched(i, j)
      BY <2>1 DEF Behind
    <2>3. ASSUME NEW q \in Pairs(P), processed'[q] > 0
          PROVE  q[1] < i \/ (q[1] = i /\ q[2] > j - 1)
      <3>1. CASE q = <<i, j>>
        BY <3>1, <1>1
      <3>2. CASE q # <<i, j>>
        <4>1. processed'[q] = processed[q]
          BY <3>2, <2>1 DEF Inv, TypeOK
        <4> QED
          BY <4>1, <2>3, <2>2, <1>2, <1>1 DEF Unsearched
      <3> QED
        BY <3>1, <3>2
    <2> QED
      BY <2>1, <2>3 DEF Behind, Unsearched
  <1>10. CASE ReleaseTarget
    BY <1>10 DEF ReleaseTarget, inputs, Behind, Unsearched
  <1>11. CASE EndAnchor
    <2>1. /\ P' = P /\ procs' = procs /\ processed' = processed /\ n' = n /\ pc' = "anchor"
          /\ end' = end /\ i' = i + 1 /\ pc = "target"
      BY <1>11 DEF EndAnchor, inputs
    <2>2. Unsearched(i, j)
      BY <2>1 DEF Behind
    <2>3. Unsearched(i + 1, P)
      BY <2>2, <1>1, <1>2 DEF Unsearched
    <2> QED
      BY <2>1, <2>3 DEF Behind, Unsearched
  <1>12. CASE EndProcess
    <2>1. /\ P' = P /\ procs' = procs /\ processed' = processed /\ n' = n + 1 /\ pc' = "start"
          /\ pc = "anchor" /\ ~(i < end)
      BY <1>12 DEF EndProcess, inputs
    <2>2. ASSUME n + 1 <= Len(procs) PROVE Unsearched(AnchorBegin(procs[n + 1]), P)
      <3>1. procs = OnePerAnchor(P)
        <4>1. Len(procs) # 1
          <5>1. n \in Nat /\ n >= 1
            BY <1>1
          <5>2. \A m \in Nat : n + 1 <= m => m # 1
            BY <5>1
          <5> QED
            BY <5>2, <2>2, <1>1
        <4>2. procs = OnePerAnchor(P) \/ Len(procs) = 1
          BY Zenon DEF Behind
        <4> QED
          BY <4>1, <4>2
      <3>2. AnchorBegin(procs[n + 1]) = n
        BY <3>1, <2>2, <1>1, RunnersProcess
      <3>3. i = n
        BY <3>1, <2>1, <1>1 DEF Behind, Inv, LoopBounds
      <3> QED
        BY <3>2, <3>3, <2>1 DEF Behind
    <2>3. AnchorBegin(running)' = AnchorBegin(procs[n + 1])
      BY <2>1 DEF running, AnchorBegin, WholeRange, First
    <2> QED
      BY <2>1, <2>2, <2>3 DEF Behind, Unsearched
  <1>13. CASE EndPlan
    BY <1>13 DEF EndPlan, inputs, Behind
  <1> QED
    BY <1>3, <1>4, <1>5, <1>6, <1>7, <1>8, <1>9, <1>10, <1>11, <1>12, <1>13 DEF Next

-----------------------------------------------------------------------------
(* Writing to the logs *)

\* gid_to_bucket() names a log, also when the last buckets are short or empty.
LEMMA BucketExists == ASSUME LogsTypeOK, NEW g \in Nat PROVE gid_to_bucket(g) \in 0 .. B - 1
  <1>1. N \in Nat /\ N >= 1 /\ B \in Nat /\ B >= 1
    BY DEF LogsTypeOK
  <1>2. bucket_size \in Nat /\ bucket_size >= 1
    BY <1>1 DEF bucket_size
  <1>3. g \div bucket_size \in Nat
    BY <1>2
  <1> QED
    BY <1>1, <1>3 DEF gid_to_bucket, Smaller

\* A log that is written to stays a sequence of records.
LEMMA WrittenType ==
    ASSUME NEW D, NEW E, NEW logs \in [D -> Seq(E)], NEW q \in Seq(E), NEW k,
           q # <<>> => k \in D
    PROVE  Written(logs, k, q) \in [D -> Seq(E)]
  BY DEF Written

\* A record is one of the nodes' own or the one of an earlier build.
LEMMA BufferedRecords ==
    ASSUME LogsTypeOK
    PROVE  /\ buf \in [Threads -> Seq(Records \cup {Stale})]
           /\ \A t \in Threads : buf[t] \in Seq(Records) /\ buf[t] \in Seq(Records \cup {Stale})
  <1>1. \A q \in Seq(Records) : q \in Seq(Records \cup {Stale})
    OBVIOUS
  <1>2. buf \in [Threads -> Seq(Records)]
    BY DEF LogsTypeOK
  <1> QED
    BY <1>1, <1>2

\* A thread empties its buffer into the log it is for.
LEMMA FlushOne ==
    ASSUME LogsTypeOK, BuffersHaveLogs, NEW t \in Threads,
           log' = Written(log, cur_b[t], buf[t]), buf' = [buf EXCEPT ![t] = <<>>]
    PROVE  /\ log' \in [0 .. B - 1 -> Seq(Records \cup {Stale})]
           /\ buf' \in [Threads -> Seq(Records)]
           /\ buf'[t] = <<>> /\ \A u \in Threads : u # t => buf'[u] = buf[u]
           /\ \A r : Follows(buf, log, buf', log', r)
  <1>1. buf \in [Threads -> Seq(Records \cup {Stale})] /\ buf[t] \in Seq(Records \cup {Stale})
    BY BufferedRecords
  <1>2. log \in [0 .. B - 1 -> Seq(Records \cup {Stale})] /\ buf \in [Threads -> Seq(Records)]
    BY DEF LogsTypeOK
  <1>3. buf[t] # <<>> => cur_b[t] \in 0 .. B - 1
    BY DEF BuffersHaveLogs
  <1>4. log' \in [0 .. B - 1 -> Seq(Records \cup {Stale})]
    BY <1>1, <1>2, <1>3, WrittenType
  <1>5. \A r : Follows(buf, log, buf', log', r)
    <2> SUFFICES ASSUME NEW r PROVE Follows(buf, log, buf', log', r)
      OBVIOUS
    <2> QED
      BY <1>1, <1>2, <1>3, FlushMoves
  <1>6. /\ buf' \in [Threads -> Seq(Records)]
        /\ buf'[t] = <<>> /\ \A u \in Threads : u # t => buf'[u] = buf[u]
    BY <1>2
  <1> QED
    BY <1>4, <1>5, <1>6, Zenon

\* Nothing changes for the records when their places only move.
LEMMA OnlyMoved ==
    ASSUME OnePlace, stage' \in {"dump", "cross"} => stage \in {"dump", "cross"},
           Produced' = Produced, \A r : Follows(buf, log, buf', log', r)
    PROVE  OnePlace'
  BY DEF OnePlace, Follows

\* What has been produced is a matter of the stage, the pair loop and its records.
LEMMA SameProduced ==
    ASSUME UNCHANGED <<cross, stage, todo>> PROVE Produced' = Produced
  BY DEF cross, vars, Produced

\* append_record(), its second part: a full buffer is flushed.
LEMMA FlushIfFullInv ==
    ASSUME StagesInv, NEW t \in Threads, FlushIfFull(t), UNCHANGED <<cross, one_process, stage>>
    PROVE  LogsInv' /\ OnePlace'
  <1> USE DEF StagesInv, LogsInv
  <1>1. /\ just[t] > 0 /\ just' = [just EXCEPT ![t] = 0]
        /\ UNCHANGED <<N, B, phase, todo, cur_b, cap, flushed>>
        /\ UNCHANGED <<P, procs, n, pc, end, i, j, processed, one_process, stage>>
    BY DEF FlushIfFull, sizes, cross, vars
  <1>2. phase = "append" /\ flushed = {}
    BY <1>1 DEF LogPhases
  <1>3. /\ log' \in [0 .. B - 1 -> Seq(Records \cup {Stale})]
        /\ buf' \in [Threads -> Seq(Records)]
        /\ \A u \in Threads : buf'[u] # <<>> => buf'[u] = buf[u]
        /\ \A r : Follows(buf, log, buf', log', r)
    <2>1. CASE Used(buf[t]) + just[t] > cap[t]
      <3>1. log' = Written(log, cur_b[t], buf[t]) /\ buf' = [buf EXCEPT ![t] = <<>>]
        BY <2>1 DEF FlushIfFull
      <3> QED
        BY <3>1, FlushOne
    <2>2. CASE ~(Used(buf[t]) + just[t] > cap[t])
      <3>1. log' = log /\ buf' = [buf EXCEPT ![t] = buf[t]]
        BY <2>2 DEF FlushIfFull
      <3>2. buf' = buf
        BY <3>1 DEF LogsTypeOK
      <3>3. \A r : Follows(buf, log, buf', log', r)
        BY <3>1, <3>2, FollowsItself, Zenon
      <3>4. /\ log' \in [0 .. B - 1 -> Seq(Records \cup {Stale})]
            /\ buf' \in [Threads -> Seq(Records)]
        BY <3>1, <3>2 DEF LogsTypeOK
      <3> QED
        BY <3>2, <3>3, <3>4, Zenon
    <2> QED
      BY <2>1, <2>2
  <1>4. just' \in [Threads -> Nat]
    BY <1>1 DEF LogsTypeOK
  <1>5. LogsTypeOK'
    BY <1>1, <1>3, <1>4 DEF LogsTypeOK
  <1>6. BuffersHaveLogs'
    BY <1>1, <1>3 DEF BuffersHaveLogs
  <1>7. LogPhases'
    BY <1>1, <1>2 DEF LogPhases
  <1>8. StageOrder' /\ LoopPhases' /\ LoopRecords'
    BY <1>1 DEF StageOrder, LoopPhases, LoopRecords, From
  <1>9. OnePlace'
    <2>1. Produced' = Produced
      BY <1>1, SameProduced
    <2> QED
      BY <2>1, <1>1, <1>3, OnlyMoved
  <1> QED
    BY <1>5, <1>6, <1>7, <1>8, <1>9

\* The pair a process works on, and the records that may come from it.
LEMMA PairAtWork == ASSUME Inv, pc = "search" PROVE <<i, j>> \in Pairs(P) /\ <<i, j>> # Self
  <1>1. i \in Nat /\ j \in Int /\ P \in Nat /\ i < j /\ i < P /\ j <= P - 1
    BY Types DEF Inv, TypeOK, LoopBounds
  <1>2. i \in 0 .. P - 1 /\ j \in 0 .. P - 1 /\ j \in Nat
    BY <1>1
  <1>3. <<i, j>> \in Pairs(P)
    BY <1>1, <1>2 DEF Pairs
  <1>4. <<i, j>> \in Nat \X Nat
    BY <1>1, <1>2
  <1> QED
    BY <1>3, <1>4, OriginAssumption

\* What the loop has still to produce has not been produced.
LEMMA TodoIsNew ==
    ASSUME Inv, Behind, LoopRecords, StageOrder, NEW r \in todo, r \in Records,
           stage = "dump" \/ pc = "search"
    PROVE  r \notin Produced /\ stage \in {"dump", "cross"}
  <1>1. CASE stage = "dump"
    BY <1>1 DEF Produced, LoopRecords, From
  <1>2. CASE stage # "dump"
    <2>1. pc = "search" /\ stage = "cross"
      BY <1>2 DEF StageOrder
    <2>2. Origin[r] = <<i, j>>
      BY <2>1 DEF LoopRecords, From
    <2>3. <<i, j>> \in Pairs(P) /\ <<i, j>> # Self
      BY <2>1, PairAtWork
    <2>4. ~(processed[<<i, j>>] > 0)
      <3>1. i \in Nat /\ j \in Int
        BY Types DEF Inv
      <3>2. Unsearched(i, j)
        BY <2>1 DEF Behind
      <3> QED
        BY <2>3, <3>1, <3>2 DEF Unsearched
    <2> QED
      BY <2>1, <2>2, <2>3, <2>4 DEF Produced
  <1> QED
    BY <1>1, <1>2

\* append_record(), its first part: a record of another bucket flushes the buffer
\* first; then the record is in it.
LEMMA AppendRecordInv ==
    ASSUME StagesInv, NEW t \in Threads, NEW r \in Records, AppendRecord(t, r),
           stage = "dump" \/ pc = "search", UNCHANGED <<cross, one_process, stage>>
    PROVE  LogsInv' /\ OnePlace'
  <1> USE DEF StagesInv, LogsInv
  <1> DEFINE k == gid_to_bucket(Gid[r])
  <1>1. /\ phase = "append" /\ r \in todo /\ todo' = todo \ {r}
        /\ cur_b' = [cur_b EXCEPT ![t] = k]
        /\ just' = [just EXCEPT ![t] = Size(r)]
        /\ log' = SwitchTo(t, k).logs
        /\ buf' = [buf EXCEPT ![t] = Append(SwitchTo(t, k).rest, r)]
        /\ UNCHANGED <<N, B, phase, flushed>>
        /\ UNCHANGED <<P, procs, n, pc, end, i, j, processed, one_process, stage>>
    BY DEF AppendRecord, sizes, cross, vars
  <1>2. k \in 0 .. B - 1
    BY BucketExists, RecordsAssumption
  <1>3. Size(r) \in Nat
    BY RecordsAssumption DEF Size
  <1> HIDE DEF k
  <1>4. PICK mid \in [Threads -> Seq(Records)] :
            /\ \A s : Follows(buf, log, mid, log', s)
            /\ buf' = [mid EXCEPT ![t] = Append(mid[t], r)]
            /\ \A u \in Threads : u # t => mid[u] = buf[u]
            /\ log' \in [0 .. B - 1 -> Seq(Records \cup {Stale})]
    <2>1. CASE cur_b[t] = k
      <3>1. log' = log /\ buf' = [buf EXCEPT ![t] = Append(buf[t], r)]
        BY <2>1, <1>1 DEF SwitchTo
      <3>2. \A s : Follows(buf, log, buf, log', s)
        BY <3>1, FollowsItself, Zenon
      <3>3. buf \in [Threads -> Seq(Records)] /\ log' \in [0 .. B - 1 -> Seq(Records \cup {Stale})]
        BY <3>1 DEF LogsTypeOK
      <3> QED
        BY <3>1, <3>2, <3>3, Zenon
    <2>2. CASE cur_b[t] # k
      <3> DEFINE mid == [buf EXCEPT ![t] = <<>>]
      <3>1. log' = Written(log, cur_b[t], buf[t]) /\ buf' = [buf EXCEPT ![t] = Append(<<>>, r)]
        BY <2>2, <1>1 DEF SwitchTo
      <3>2. mid \in [Threads -> Seq(Records)] /\ mid[t] = <<>>
            /\ \A u \in Threads : u # t => mid[u] = buf[u]
        BY DEF LogsTypeOK
      <3>3. buf' = [mid EXCEPT ![t] = Append(mid[t], r)]
        BY <3>1, <3>2 DEF LogsTypeOK
      <3>4. log \in [0 .. B - 1 -> Seq(Records \cup {Stale})] /\ buf[t] \in Seq(Records \cup {Stale})
            /\ buf \in [Threads -> Seq(Records \cup {Stale})]
        BY BufferedRecords DEF LogsTypeOK
      <3>5. buf[t] # <<>> => cur_b[t] \in 0 .. B - 1
        BY DEF BuffersHaveLogs
      <3>6. log' \in [0 .. B - 1 -> Seq(Records \cup {Stale})]
        BY <3>1, <3>4, <3>5, WrittenType
      <3>7. \A s : Follows(buf, log, mid, log', s)
        <4> SUFFICES ASSUME NEW s PROVE Follows(buf, log, mid, log', s)
          OBVIOUS
        <4> QED
          BY <3>1, <3>4, <3>5, FlushMoves
      <3> QED
        BY <3>2, <3>3, <3>6, <3>7
    <2> QED
      BY <2>1, <2>2
  <1>5. buf' \in [Threads -> Seq(Records)] /\ \A u \in Threads : u # t => buf'[u] = buf[u]
    BY <1>4
  <1>6. LogsTypeOK'
    <2>1. cur_b' \in [Threads -> Int] /\ just' \in [Threads -> Nat] /\ todo' \subseteq Records
      BY <1>1, <1>2, <1>3 DEF LogsTypeOK
    <2> QED
      BY <2>1, <1>1, <1>4, <1>5 DEF LogsTypeOK
  <1>7. BuffersHaveLogs'
    <2> SUFFICES ASSUME NEW u \in Threads, buf'[u] # <<>> PROVE cur_b'[u] \in 0 .. B - 1
      BY <1>1 DEF BuffersHaveLogs
    <2>1. CASE u = t
      BY <2>1, <1>1, <1>2 DEF LogsTypeOK
    <2>2. CASE u # t
      <3>1. cur_b'[u] = cur_b[u] /\ buf'[u] = buf[u]
        BY <2>2, <1>1, <1>5 DEF LogsTypeOK
      <3> QED
        BY <3>1 DEF BuffersHaveLogs
    <2> QED
      BY <2>1, <2>2
  <1>8. LogPhases'
    BY <1>1 DEF LogPhases
  <1>9. StageOrder' /\ LoopPhases' /\ LoopRecords'
    BY <1>1 DEF StageOrder, LoopPhases, LoopRecords, From
  <1>10. r \notin Produced /\ stage \in {"dump", "cross"}
    BY <1>1, TodoIsNew
  <1>11. Produced' = Produced \cup {r}
    <2>1. ASSUME NEW s \in Records, s # r PROVE s \in todo' <=> s \in todo
      BY <2>1, <1>1
    <2>2. ASSUME NEW s \in Records, s # r PROVE s \in Produced' <=> s \in Produced
      BY <2>1, <2>2, <1>1 DEF Produced
    <2>3. r \in Produced'
      <3>1. CASE stage = "dump"
        BY <3>1, <1>1 DEF Produced, LoopRecords, From
      <3>2. CASE stage # "dump"
        <4>1. pc = "search" /\ stage = "cross"
          BY <3>2, <1>10
        <4>2. Origin[r] = <<i, j>> /\ <<i, j>> # Self /\ <<i, j>> \in Pairs(P)
          BY <4>1, <1>1, PairAtWork DEF LoopRecords, From
        <4> QED
          BY <4>1, <4>2, <1>1 DEF Produced
      <3> QED
        BY <3>1, <3>2
    <2>4. Produced \subseteq Records /\ Produced' \subseteq Records
      BY DEF Produced
    <2> QED
      BY <2>2, <2>3, <2>4
  <1>12. ASSUME NEW s \in Records \cup {Stale}
         PROVE  Gains(mid, buf', log', r, s)
    <2>1. PICK logs, bufs : logs = log' /\ bufs = buf'
      OBVIOUS
    <2>2. Appended(mid, t, r, bufs)
      BY <2>1, <1>4 DEF Appended
    <2>3. Gains(mid, bufs, logs, r, s)
      BY <2>2, AppendPlaces, Zenon
    <2> QED
      BY <2>1, <2>3, Zenon
  <1>13. OnePlace'
    <2>1. ASSUME NEW s \in Produced' PROVE \E p : Places(buf', log', s) = {p}
      <3>1. s \in Records
        BY <2>1 DEF Produced
      <3>2. CASE s = r
        <4>1. Places(buf, log, s) = {}
          BY <3>2, <1>10 DEF OnePlace
        <4>2. Places(mid, log', s) = {}
          BY <4>1, <1>4 DEF Follows
        <4> QED
          BY <4>2, <3>1, <3>2, <1>12, Zenon DEF Gains
      <3>3. CASE s # r
        <4>1. s \in Produced
          BY <2>1, <3>3, <1>11
        <4>2. \E p : Places(buf, log, s) = {p}
          BY <4>1, <1>10, Zenon DEF OnePlace
        <4>3. \E p : Places(mid, log', s) = {p}
          BY <4>2, <1>4, Zenon DEF Follows
        <4>4. Places(buf', log', s) = Places(mid, log', s)
          BY <3>1, <3>3, <1>12, Zenon DEF Gains
        <4> QED
          BY <4>3, <4>4
      <3> QED
        BY <3>2, <3>3
    <2>2. ASSUME NEW s \in (Records \cup {Stale}) \ Produced' PROVE Places(buf', log', s) = {}
      <3>1. s \notin Produced /\ s # r /\ s \in Records \cup {Stale}
        BY <2>2, <1>11
      <3>2. Places(buf, log, s) = {}
        BY <3>1, <1>10, Zenon DEF OnePlace
      <3>3. Places(mid, log', s) = {}
        BY <3>2, <1>4, Zenon DEF Follows
      <3> QED
        BY <3>1, <3>3, <1>12, Zenon DEF Gains
    <2> QED
      BY <2>1, <2>2 DEF OnePlace
  <1> QED
    BY <1>6, <1>7, <1>8, <1>9, <1>13

\* flush_bucket_logs(): the region begins, and each thread empties its buffer.
LEMMA FlushInv == ASSUME StagesInv, Flush PROVE LogsInv' /\ OnePlace'
  <1> USE DEF StagesInv, LogsInv
  <1>1. /\ UNCHANGED <<P, procs, n, pc, end, i, j, processed, one_process, stage>>
        /\ UNCHANGED <<cross, stage>>
        /\ \/ stage = "dump" /\ ~one_process
           \/ stage = "cross" /\ pc = "anchor" /\ ~(i < end)
    BY DEF Flush, cross, vars
  <1>2. CASE BeginFlush
    <2>1. /\ phase = "append" /\ todo = {} /\ \A t \in Threads : just[t] = 0
          /\ phase' = "flush" /\ UNCHANGED <<N, B, todo, cur_b, buf, just, flushed, log>>
      BY <1>2 DEF BeginFlush, LoopOver, sizes, staging
    <2>2. LogsTypeOK' /\ BuffersHaveLogs'
      BY <2>1 DEF LogsTypeOK, BuffersHaveLogs
    <2>3. LogPhases'
      BY <2>1 DEF LogPhases
    <2>4. StageOrder' /\ LoopPhases' /\ LoopRecords'
      BY <2>1, <1>1 DEF StageOrder, LoopPhases, LoopRecords, From
    <2>5. OnePlace'
      BY <2>1, <1>1, SameProduced, FollowsItself, OnlyMoved
    <2> QED
      BY <2>2, <2>3, <2>4, <2>5
  <1>3. ASSUME NEW t \in Threads, FlushThread(t) PROVE LogsInv' /\ OnePlace'
    <2>1. /\ phase = "flush" /\ log' = Written(log, cur_b[t], buf[t])
          /\ buf' = [buf EXCEPT ![t] = <<>>] /\ flushed' = flushed \cup {t}
          /\ UNCHANGED <<N, B, phase, todo, cur_b, just>>
      BY <1>3 DEF FlushThread, sizes
    <2>2. /\ log' \in [0 .. B - 1 -> Seq(Records \cup {Stale})]
          /\ buf' \in [Threads -> Seq(Records)]
          /\ buf'[t] = <<>> /\ \A u \in Threads : u # t => buf'[u] = buf[u]
          /\ \A r : Follows(buf, log, buf', log', r)
      BY <2>1, FlushOne
    <2>3. LogsTypeOK' /\ BuffersHaveLogs'
      BY <2>1, <2>2 DEF LogsTypeOK, BuffersHaveLogs
    <2>4. LogPhases'
      BY <2>1, <2>2 DEF LogPhases, LogsTypeOK
    <2>5. StageOrder' /\ LoopPhases' /\ LoopRecords'
      BY <2>1, <1>1 DEF StageOrder, LoopPhases, LoopRecords, From
    <2>6. OnePlace'
      BY <2>1, <2>2, <1>1, SameProduced, OnlyMoved
    <2> QED
      BY <2>3, <2>4, <2>5, <2>6
  <1> QED
    BY <1>2, <1>3 DEF Flush

-----------------------------------------------------------------------------
(* The stages *)

\* Empty buffers and logs hold no record.
LEMMA EmptyPlaces ==
    ASSUME NEW bufs, NEW logs, NEW r, \A t \in DOMAIN bufs : bufs[t] = <<>>,
           \A k \in DOMAIN logs : logs[k] = <<>>
    PROVE  Places(bufs, logs, r) = {}
  <1>1. \A x : x \notin DOMAIN <<>>
    OBVIOUS
  <1>2. \A p : p \notin Places(bufs, logs, r)
    BY <1>1, PlaceOf
  <1> QED
    BY <1>2

\* The variables of the pair loop do not change.
LEMMA SameLoop == ASSUME UNCHANGED cross PROVE UNCHANGED <<P, procs, n, pc, end, i, j, processed>>
  BY DEF cross, vars

\* The dump begins over truncated logs: what an earlier build left is gone.
LEMMA BeginDumpInv == ASSUME StagesInv, BeginDump PROVE LogsInv' /\ OnePlace'
  <1> USE DEF StagesInv, LogsInv
  <1>1. /\ stage = "open" /\ stage' = "dump" /\ todo' = From(Self)
        /\ UNCHANGED <<P, procs, n, pc, end, i, j, processed>> /\ UNCHANGED <<N, B, one_process>>
        /\ log' = [k \in 0 .. B - 1 |-> <<>>]
        /\ cur_b' = [t \in Threads |-> -1] /\ buf' = [t \in Threads |-> <<>>]
        /\ just' = [t \in Threads |-> 0] /\ flushed' = {} /\ phase' = "append"
    BY SameLoop DEF BeginDump, OpenLogs, OpenedLogs, sizes
  <1>2. pc = "start" /\ \A q \in Pairs(P) : processed[q] = 0
    BY <1>1 DEF StageOrder
  <1>3. LogsTypeOK'
    BY <1>1 DEF LogsTypeOK, From
  <1>4. BuffersHaveLogs' /\ LogPhases'
    BY <1>1 DEF BuffersHaveLogs, LogPhases
  <1>5. StageOrder' /\ LoopPhases' /\ LoopRecords'
    BY <1>1, <1>2 DEF StageOrder, LoopPhases, LoopRecords, From
  <1>6. Produced' = {}
    BY <1>1, <1>2 DEF Produced, From
  <1>7. \A r : Places(buf', log', r) = {}
    BY <1>1, EmptyPlaces
  <1> QED
    BY <1>3, <1>4, <1>5, <1>6, <1>7 DEF OnePlace

\* The dump ends: all its records have been produced.
LEMMA EndDumpInv == ASSUME StagesInv, EndDump PROVE LogsInv' /\ OnePlace'
  <1> USE DEF StagesInv, LogsInv
  <1>1. /\ stage = "dump" /\ stage' = "cross" /\ UNCHANGED <<P, procs, n, pc, end, i, j, processed>>
        /\ UNCHANGED <<N, B, todo, cur_b, buf, just, flushed, log>> /\ UNCHANGED one_process
        /\ todo = {}
        /\ \/ one_process /\ phase = "append" /\ phase' = phase
           \/ ~one_process /\ phase = "flush" /\ flushed = Threads /\ phase' = "closed"
    BY SameLoop DEF EndDump, LoopOver, logvars, CloseLogs, AllFlushed, sizes, staging, LogPhases
  <1>2. LogsTypeOK' /\ BuffersHaveLogs'
    BY <1>1 DEF LogsTypeOK, BuffersHaveLogs
  <1>3. LogPhases'
    BY <1>1 DEF LogPhases
  <1>4. StageOrder' /\ LoopPhases' /\ LoopRecords'
    BY <1>1 DEF StageOrder, LoopPhases, LoopRecords
  <1>5. Produced' = Produced
    BY <1>1 DEF Produced
  <1>6. OnePlace'
    BY <1>1, <1>5, FollowsItself, OnlyMoved
  <1> QED
    BY <1>2, <1>3, <1>4, <1>6

\* A process opens the logs as they are; every buffer before it had been flushed.
LEMMA BeginCrossInv == ASSUME StagesInv, BeginCross PROVE LogsInv' /\ OnePlace'
  <1> USE DEF StagesInv, LogsInv
  <1>1. /\ stage = "cross" /\ stage' = stage /\ pc = "start" /\ pc' = "anchor" /\ n <= Len(procs)
        /\ UNCHANGED <<P, procs, n, processed>> /\ UNCHANGED <<N, B, todo, log, one_process>>
    BY DEF BeginCross, StartProcess, inputs, OpenLogs, OpenedLogs, sizes, logvars
  <1>2. todo = {}
    BY <1>1 DEF LoopRecords
  <1>3. /\ LogsTypeOK' /\ BuffersHaveLogs' /\ LogPhases' /\ buf' = buf
        /\ phase' = "append"
    <2>1. CASE one_process
      <3>1. UNCHANGED <<N, B, phase, todo, cur_b, buf, just, flushed, log>>
        BY <2>1 DEF BeginCross, logvars
      <3>2. phase = "append"
        <4>1. Len(procs) = 1 /\ n \in Nat /\ n >= 1
          BY <2>1, Types DEF LoopPhases, Inv, TypeOK
        <4>2. n = 1
          BY <4>1, <1>1
        <4> QED
          BY <4>2, <2>1, <1>1 DEF LoopPhases
      <3> QED
        BY <3>1, <3>2 DEF LogsTypeOK, BuffersHaveLogs, LogPhases
    <2>2. CASE ~one_process
      <3>1. /\ phase = "closed" /\ phase' = "append" /\ flushed' = {}
            /\ cur_b' = [t \in Threads |-> -1] /\ buf' = [t \in Threads |-> <<>>]
            /\ just' = [t \in Threads |-> 0]
        BY <2>2 DEF BeginCross, OpenLogs
      <3>2. buf' = buf
        BY <3>1 DEF LogsTypeOK, LogPhases
      <3>3. LogsTypeOK'
        BY <3>1, <1>1 DEF LogsTypeOK
      <3>4. BuffersHaveLogs' /\ LogPhases'
        BY <3>1 DEF BuffersHaveLogs, LogPhases
      <3> QED
        BY <3>1, <3>2, <3>3, <3>4
    <2> QED
      BY <2>1, <2>2
  <1>4. StageOrder' /\ LoopPhases' /\ LoopRecords'
    BY <1>1, <1>2, <1>3 DEF StageOrder, LoopPhases, LoopRecords
  <1>5. Produced' = Produced
    BY <1>1 DEF Produced
  <1>6. OnePlace'
    BY <1>1, <1>3, <1>5, FollowsItself, OnlyMoved
  <1> QED
    BY <1>3, <1>4, <1>6

\* The logs are left alone while the loop only moves indexes.
LEMMA MoveIndexesInv == ASSUME StagesInv, MoveIndexes PROVE LogsInv' /\ OnePlace'
  <1> USE DEF StagesInv, LogsInv
  <1>1. /\ stage = "cross" /\ pc # "search" /\ pc' # "search" /\ UNCHANGED <<P, procs, n, processed>>
        /\ UNCHANGED <<N, B, phase, todo, cur_b, buf, just, flushed, log, one_process, stage>>
    BY DEF MoveIndexes, logvars, LoadAnchor, SkipTarget, ReleaseTarget, EndAnchor, Die, inputs
  <1>2. LogsTypeOK' /\ BuffersHaveLogs' /\ LogPhases'
    BY <1>1 DEF LogsTypeOK, BuffersHaveLogs, LogPhases
  <1>3. StageOrder' /\ LoopRecords'
    BY <1>1 DEF StageOrder, LoopRecords
  <1>6. LoopPhases'
    BY <1>1 DEF LoopPhases, MoveIndexes, LoadAnchor, SkipTarget, ReleaseTarget, EndAnchor, Die
  <1>4. Produced' = Produced
    BY <1>1 DEF Produced
  <1>5. OnePlace'
    BY <1>1, <1>4, FollowsItself, OnlyMoved
  <1> QED
    BY <1>2, <1>3, <1>5, <1>6

\* The threads start on a pair that has not been searched.
LEMMA BeginPairInv == ASSUME StagesInv, BeginPair PROVE LogsInv' /\ OnePlace'
  <1> USE DEF StagesInv, LogsInv
  <1>1. /\ stage = "cross" /\ pc = "target" /\ pc' = "search" /\ todo' = From(<<i, j>>)
        /\ UNCHANGED <<P, procs, n, end, i, j, processed>>
        /\ UNCHANGED <<N, B, phase, cur_b, buf, just, flushed, log, one_process, stage>>
    BY DEF BeginPair, LoadTarget, Produce, inputs, sizes, staging
  <1>2. phase = "append"
    BY <1>1 DEF LoopPhases
  <1>3. LogsTypeOK' /\ BuffersHaveLogs'
    BY <1>1 DEF LogsTypeOK, BuffersHaveLogs, From
  <1>4. LogPhases' /\ StageOrder' /\ LoopPhases' /\ LoopRecords'
    BY <1>1, <1>2 DEF LogPhases, StageOrder, LoopPhases, LoopRecords, From
  <1>5. Produced' = Produced
    BY <1>1 DEF Produced, From
  <1>6. OnePlace'
    BY <1>1, <1>5, FollowsItself, OnlyMoved
  <1> QED
    BY <1>3, <1>4, <1>6

\* They have produced all records of the pair, which counts as searched from now on.
LEMMA EndPairInv == ASSUME StagesInv, EndPair PROVE LogsInv' /\ OnePlace'
  <1> USE DEF StagesInv, LogsInv
  <1>1. /\ stage = "cross" /\ pc = "search" /\ pc' = "release" /\ todo = {}
        /\ processed' = [processed EXCEPT ![<<i, j>>] = @ + 1]
        /\ UNCHANGED <<P, procs, n, end, i, j>>
        /\ UNCHANGED <<N, B, phase, todo, cur_b, buf, just, flushed, log, one_process, stage>>
    BY DEF EndPair, LoopOver, SearchPair, inputs, logvars
  <1>2. LogsTypeOK' /\ BuffersHaveLogs'
    BY <1>1 DEF LogsTypeOK, BuffersHaveLogs
  <1>3. LogPhases' /\ StageOrder' /\ LoopPhases' /\ LoopRecords'
    BY <1>1 DEF LogPhases, StageOrder, LoopPhases, LoopRecords
  <1>4. Produced' = Produced
    <2>1. <<i, j>> \in Pairs(P) /\ processed \in [Pairs(P) -> Nat]
      BY <1>1, PairAtWork DEF Inv, TypeOK
    <2>2. processed'[<<i, j>>] > 0 /\ \A q \in Pairs(P) : q # <<i, j>> => processed'[q] = processed[q]
      BY <2>1, <1>1
    <2>3. ASSUME NEW r \in Records PROVE r \in Produced' <=> r \in Produced
      <3>1. CASE Origin[r] = <<i, j>>
        <4>1. <<i, j>> # Self
          BY <1>1, PairAtWork
        <4> QED
          BY <3>1, <4>1, <2>1, <2>2, <1>1 DEF Produced
      <3>2. CASE Origin[r] # <<i, j>>
        BY <3>2, <2>2, <1>1 DEF Produced
      <3> QED
        BY <3>1, <3>2
    <2>4. Produced \subseteq Records /\ Produced' \subseteq Records
      BY DEF Produced
    <2> QED
      BY <2>3, <2>4
  <1>5. OnePlace'
    BY <1>1, <1>4, FollowsItself, OnlyMoved
  <1> QED
    BY <1>2, <1>3, <1>5

\* A process ends when all its threads have flushed.
LEMMA EndCrossInv == ASSUME StagesInv, EndCross PROVE LogsInv' /\ OnePlace'
  <1> USE DEF StagesInv, LogsInv
  <1>1. /\ stage = "cross" /\ pc = "anchor" /\ pc' = "start" /\ n' = n + 1
        /\ phase = "flush" /\ flushed = Threads /\ phase' = "closed"
        /\ UNCHANGED <<P, procs, end, i, j, processed>>
        /\ UNCHANGED <<N, B, todo, cur_b, buf, just, flushed, log, one_process, stage>>
    BY DEF EndCross, EndProcess, CloseLogs, AllFlushed, inputs, sizes, staging
  <1>2. LogsTypeOK' /\ BuffersHaveLogs'
    BY <1>1 DEF LogsTypeOK, BuffersHaveLogs
  <1>3. LogPhases' /\ StageOrder' /\ LoopRecords'
    BY <1>1 DEF LogPhases, StageOrder, LoopRecords
  <1>4. LoopPhases'
    <2>1. n' # 1
      <3>1. n \in Nat /\ n >= 1
        BY Types DEF Inv, TypeOK
      <3> QED
        BY <3>1, <1>1
    <2> QED
      BY <2>1, <1>1 DEF LoopPhases
  <1>5. Produced' = Produced
    BY <1>1 DEF Produced
  <1>6. OnePlace'
    BY <1>1, <1>5, FollowsItself, OnlyMoved
  <1> QED
    BY <1>2, <1>3, <1>4, <1>6

\* The compaction begins, and empties one log after the other.
LEMMA EndStagesInv == ASSUME StagesInv, EndStages PROVE LogsInv' /\ OnePlace'
  <1> USE DEF StagesInv, LogsInv
  <1>1. /\ stage = "cross" /\ stage' = "compact" /\ pc = "start" /\ pc' = "done"
        /\ phase = "closed" /\ phase' = "compact"
        /\ UNCHANGED <<P, procs, n, end, i, j, processed, one_process>>
        /\ UNCHANGED <<N, B, todo, cur_b, buf, just, flushed, log>>
    BY DEF EndStages, EndPlan, BeginCompaction, inputs, sizes, staging
  <1>2. LogsTypeOK' /\ BuffersHaveLogs'
    BY <1>1 DEF LogsTypeOK, BuffersHaveLogs
  <1>3. LogPhases' /\ StageOrder' /\ LoopPhases' /\ LoopRecords'
    BY <1>1 DEF LogPhases, StageOrder, LoopPhases, LoopRecords
  <1> QED
    BY <1>1, <1>2, <1>3 DEF OnePlace

LEMMA CompactStepInv == ASSUME StagesInv, CompactStep PROVE LogsInv' /\ OnePlace'
  <1> USE DEF StagesInv, LogsInv
  <1>1. /\ stage = "compact" /\ stage' = "compact"
        /\ UNCHANGED <<P, procs, n, pc, end, i, j, processed>>
        /\ UNCHANGED <<N, B, todo, cur_b, buf, just, flushed, one_process>>
        /\ phase = "compact" /\ phase' \in {"compact", "done"}
        /\ log' = log \/ log' = [log EXCEPT ![b] = <<>>]
    BY SameLoop DEF CompactStep, Compaction, SkipBucket, CompactBucket, FinishCompaction, sizes, staging
  <1>2. log' \in [0 .. B - 1 -> Seq(Records \cup {Stale})]
    <2>1. log \in [0 .. B - 1 -> Seq(Records \cup {Stale})] /\ <<>> \in Seq(Records \cup {Stale})
      BY DEF LogsTypeOK
    <2>2. CASE b \in 0 .. B - 1
      BY <2>1, <2>2, <1>1
    <2>3. CASE b \notin 0 .. B - 1
      BY <2>1, <2>3, <1>1
    <2> QED
      BY <2>2, <2>3
  <1>3. LogsTypeOK' /\ BuffersHaveLogs'
    BY <1>1, <1>2 DEF LogsTypeOK, BuffersHaveLogs
  <1>4. LogPhases' /\ StageOrder' /\ LoopPhases' /\ LoopRecords'
    BY <1>1 DEF LogPhases, StageOrder, LoopPhases, LoopRecords
  <1> QED
    BY <1>1, <1>3, <1>4 DEF OnePlace

LEMMA StutterLogs == ASSUME StagesInv, UNCHANGED allvars PROVE LogsInv' /\ OnePlace'
  <1> USE DEF StagesInv, LogsInv
  <1>1. /\ UNCHANGED <<P, procs, n, pc, end, i, j, processed, one_process, stage>>
        /\ UNCHANGED <<N, B, phase, todo, cur_b, buf, just, flushed, log>>
    BY SameLoop DEF allvars, logvars
  <1>2. LogsTypeOK' /\ BuffersHaveLogs' /\ LogPhases'
    BY <1>1 DEF LogsTypeOK, BuffersHaveLogs, LogPhases
  <1>3. StageOrder' /\ LoopPhases' /\ LoopRecords'
    BY <1>1 DEF StageOrder, LoopPhases, LoopRecords, From
  <1>4. Produced' = Produced
    BY <1>1 DEF Produced
  <1>5. OnePlace'
    BY <1>1, <1>4, FollowsItself, OnlyMoved
  <1> QED
    BY <1>2, <1>3, <1>5

-----------------------------------------------------------------------------
LEMMA InitStages == ASSUME StagesInit PROVE StagesInv
  <1>1. Init /\ LogsInit /\ stage = "open" /\ one_process \in BOOLEAN /\ (one_process => Len(procs) = 1)
    BY DEF StagesInit
  <1>2. Inv /\ Behind
    BY <1>1, InitInv, InitBehind
  <1>3. /\ pc = "start" /\ n = 1 /\ phase = "closed" /\ todo = {} /\ flushed = {}
        /\ \A q \in Pairs(P) : processed[q] = 0
        /\ N \in Ns /\ B \in Bs
        /\ cur_b = [t \in Threads |-> -1] /\ buf = [t \in Threads |-> <<>>]
        /\ just = [t \in Threads |-> 0]
    BY <1>1 DEF Init, LogsInit
  <1>4. log \in [0 .. B - 1 -> Seq(Records \cup {Stale})]
    <2>1. <<Stale>> \in Seq(Records \cup {Stale}) /\ <<>> \in Seq(Records \cup {Stale})
      OBVIOUS
    <2>2. CASE log = [k \in 0 .. B - 1 |-> <<>>]
      BY <2>1, <2>2
    <2>3. CASE log = [k \in 0 .. B - 1 |-> IF k = gid_to_bucket(Gid[Stale]) THEN <<Stale>> ELSE <<>>]
      BY <2>1, <2>3
    <2> QED
      BY <2>2, <2>3, <1>1 DEF LogsInit
  <1>5. LogsTypeOK
    BY <1>3, <1>4, SizesAssumption DEF LogsTypeOK
  <1>6. BuffersHaveLogs /\ LogPhases
    BY <1>3 DEF BuffersHaveLogs, LogPhases
  <1>7. StageOrder /\ LoopPhases /\ LoopRecords
    BY <1>1, <1>3 DEF StageOrder, LoopPhases, LoopRecords
  <1>8. OnePlace
    BY <1>1 DEF OnePlace
  <1> QED
    BY <1>2, <1>5, <1>6, <1>7, <1>8 DEF StagesInv, LogsInv

LEMMA NextStages == ASSUME StagesInv, [StagesNext]_allvars PROVE StagesInv'
  <1>1. Inv' /\ Behind'
    BY LoopStep, NextInv, NextBehind DEF StagesInv
  <1>2. LogsInv' /\ OnePlace'
    <2>1. CASE Write
      <3>1. /\ stage = "dump" \/ pc = "search"
            /\ UNCHANGED <<cross, one_process, stage>>
        BY <2>1 DEF Write
      <3>2. PICK t \in Threads : FlushIfFull(t) \/ \E r \in Records : AppendRecord(t, r)
        BY <2>1 DEF Write, LogStep
      <3>3. CASE FlushIfFull(t)
        BY <3>1, <3>3, FlushIfFullInv
      <3>4. CASE \E r \in Records : AppendRecord(t, r)
        BY <3>1, <3>4, AppendRecordInv
      <3> QED
        BY <3>2, <3>3, <3>4
    <2>2. CASE UNCHANGED allvars
      BY <2>2, StutterLogs
    <2>3. CASE BeginDump \/ EndDump \/ BeginCross \/ MoveIndexes
      BY <2>3, BeginDumpInv, EndDumpInv, BeginCrossInv, MoveIndexesInv
    <2>4. CASE BeginPair \/ EndPair \/ Flush
      BY <2>4, BeginPairInv, EndPairInv, FlushInv
    <2>5. CASE EndCross \/ EndStages \/ CompactStep
      BY <2>5, EndCrossInv, EndStagesInv, CompactStepInv
    <2> QED
      BY <2>1, <2>2, <2>3, <2>4, <2>5 DEF StagesNext
  <1> QED
    BY <1>1, <1>2 DEF StagesInv

\* The invariant holds in all stages, in one process or in several.
THEOREM StagesInvHolds == StagesSpec => []StagesInv
  BY InitStages, NextStages, PTL DEF StagesSpec

\* Every record that a thread hands to append_record() in the dump or for a pair of
\* partitions is in exactly one buffer or log, once, until the compaction; no
\* other record is, in particular none of an earlier build.
THEOREM NoRecordLost == StagesSpec => []RecordsConserved
  <1>1. StagesInv => RecordsConserved
    <2> SUFFICES ASSUME OnePlace, stage \in {"dump", "cross"}
                 PROVE  /\ \A r \in Produced : Copies(r) = 1
                        /\ \A r \in (Records \cup {Stale}) \ Produced : Copies(r) = 0
      BY DEF StagesInv, RecordsConserved
    <2>1. ASSUME NEW r \in Produced PROVE Copies(r) = 1
      <3>1. PICK p : Places(buf, log, r) = {p}
        BY DEF OnePlace
      <3> QED
        BY <3>1, FS_Singleton DEF Copies
    <2>2. ASSUME NEW r \in (Records \cup {Stale}) \ Produced PROVE Copies(r) = 0
      <3>1. Places(buf, log, r) = {}
        BY DEF OnePlace
      <3> QED
        BY <3>1, FS_EmptySet DEF Copies
    <2> QED
      BY <2>1, <2>2
  <1> QED
    BY <1>1, StagesInvHolds, PTL

-----------------------------------------------------------------------------
(* The staging buffers *)

\* A set of naturals has a least element.
LEMMA LeastNatural == ASSUME NEW S, S \subseteq Nat, S # {}
                      PROVE  \E x \in S : \A y \in S : x <= y
  <1> DEFINE less == OpToRel(<, Nat)
  <1>1. IsWellFoundedOn(less, Nat)
    BY NatLessThanWellFounded
  <1>2. PICK x \in S : \A y \in S : ~(<<y, x>> \in less)
    BY <1>1, WFMin
  <1>3. \A y \in S : ~(y < x)
    BY <1>2 DEF OpToRel
  <1> QED
    BY <1>3

\* What holds before a loop and is kept by its rounds holds after each of them.
LEMMA Rounds ==
    ASSUME NEW m \in Nat, NEW S, 0 \in S, \A k \in 1 .. m : k - 1 \in S => k \in S
    PROVE  \A k \in 0 .. m : k \in S
  <1> DEFINE Bad == {k \in 0 .. m : k \notin S}
  <1>1. SUFFICES ASSUME Bad # {} PROVE FALSE
    OBVIOUS
  <1>2. PICK x \in Bad : \A k \in Bad : x <= k
    <2>1. Bad \subseteq Nat
      OBVIOUS
    <2> HIDE DEF Bad
    <2> QED
      BY <1>1, <2>1, LeastNatural
  <1>3. x \in 1 .. m /\ x - 1 \in 0 .. m /\ ~(x <= x - 1)
    OBVIOUS
  <1> QED
    BY <1>2, <1>3

\* ensure() ends with a buffer that everything fits into.  The function that Grown
\* chooses exists, and each that satisfies its equation has this property.
Doubling(f, x, need) == IF x >= need THEN x ELSE f[2 * x]
Roomy(need) == {y \in Nat : y > 0 /\ y >= need}

LEMMA DoublingExists ==
    ASSUME NEW c \in Nat, c > 0, NEW m \in Nat, NEW need \in Nat, 2 * need <= c + m
    PROVE  \E f : f = [x \in c .. c + m |-> Doubling(f, x, need)]
  <1> DEFINE D(k) == ((c + m) - k .. c + m) \cap (c .. c + m)
             Good == {k \in 0 .. m : \E f : f = [x \in D(k) |-> Doubling(f, x, need)]}
  <1>1. 0 \in Good
    <2> DEFINE f == [x \in D(0) |-> x]
    <2>1. ASSUME NEW x \in D(0) PROVE x >= need
      OBVIOUS
    <2>2. f = [x \in D(0) |-> Doubling(f, x, need)]
      BY <2>1 DEF Doubling
    <2>3. 0 \in 0 .. m
      OBVIOUS
    <2> HIDE DEF f, D
    <2> QED
      BY <2>2, <2>3
  <1>2. ASSUME NEW k \in 1 .. m, k - 1 \in Good PROVE k \in Good
    <2>1. PICK f : f = [x \in D(k - 1) |-> Doubling(f, x, need)]
      BY <1>2
    <2> DEFINE h == [x \in D(k) |-> Doubling(f, x, need)]
    <2>2. ASSUME NEW x \in D(k), ~(x >= need) PROVE 2 * x \in D(k - 1) /\ 2 * x \in D(k)
      BY <2>2
    <2>3. ASSUME NEW x \in D(k) PROVE h[x] = Doubling(h, x, need)
      <3>1. CASE x >= need
        BY <3>1 DEF Doubling
      <3>2. CASE ~(x >= need)
        <4>1. 2 * x \in D(k - 1) /\ 2 * x \in D(k)
          BY <3>2, <2>2
        <4> HIDE DEF D
        <4>2. f[2 * x] = Doubling(f, 2 * x, need) /\ h[2 * x] = Doubling(f, 2 * x, need)
          BY <4>1, <2>1
        <4>3. h[x] = f[2 * x]
          BY <3>2 DEF Doubling
        <4> HIDE DEF h
        <4> QED
          BY <4>2, <4>3, <3>2 DEF Doubling
      <3> QED
        BY <3>1, <3>2
    <2> HIDE DEF D
    <2>4. h = [x \in D(k) |-> Doubling(h, x, need)]
      <3>1. h = [x \in D(k) |-> h[x]]
        OBVIOUS
      <3> HIDE DEF h
      <3> QED
        BY <3>1, <2>3
    <2> HIDE DEF h
    <2> QED
      BY <2>4
  <1> HIDE DEF Good
  <1>3. m \in Good
    <2>1. \A k \in 0 .. m : k \in Good
      BY <1>1, <1>2, Rounds
    <2> QED
      BY <2>1
  <1>4. D(m) = c .. c + m
    OBVIOUS
  <1> HIDE DEF D
  <1> QED
    BY <1>3, <1>4 DEF Good

LEMMA DoublingFits ==
    ASSUME NEW c \in Nat, c > 0, NEW m \in Nat, NEW need \in Nat, 2 * need <= c + m,
           NEW f, f = [x \in c .. c + m |-> Doubling(f, x, need)]
    PROVE  f[c] \in Roomy(need)
  <1> DEFINE Good == {k \in 0 .. m : \A x \in c .. c + m : x >= (c + m) - k => f[x] \in Roomy(need)}
  <1>0. ASSUME NEW x \in c .. c + m PROVE f[x] = Doubling(f, x, need)
    OBVIOUS
  <1>1. 0 \in Good
    <2>1. ASSUME NEW x \in c .. c + m, x >= (c + m) - 0 PROVE f[x] \in Roomy(need)
      BY <2>1, <1>0 DEF Doubling, Roomy
    <2> QED
      BY <2>1
  <1>2. ASSUME NEW k \in 1 .. m, k - 1 \in Good PROVE k \in Good
    <2>1. ASSUME NEW x \in c .. c + m, x >= (c + m) - k PROVE f[x] \in Roomy(need)
      <3>1. CASE x >= need
        BY <3>1, <1>0 DEF Doubling, Roomy
      <3>2. CASE ~(x >= need)
        <4>1. 2 * x \in c .. c + m /\ 2 * x >= (c + m) - (k - 1)
          BY <3>2, <2>1
        <4>2. f[2 * x] \in Roomy(need)
          BY <4>1, <1>2
        <4> QED
          BY <4>2, <3>2, <1>0 DEF Doubling
      <3> QED
        BY <3>1, <3>2
    <2> QED
      BY <2>1
  <1> HIDE DEF Good
  <1>3. m \in Good
    <2>1. \A k \in 0 .. m : k \in Good
      BY <1>1, <1>2, Rounds
    <2> QED
      BY <2>1
  <1> QED
    BY <1>3 DEF Good

LEMMA GrownFits ==
    ASSUME NEW c \in Nat, c > 0, NEW need \in Nat
    PROVE  Grown(c, need) \in Nat /\ Grown(c, need) > 0 /\ need <= Grown(c, need)
  <1> DEFINE Is(f) == f = [x \in c .. c + 2 * need |-> Doubling(f, x, need)]
             g == CHOOSE f : Is(f)
  <1>1. 2 * need \in Nat /\ 2 * need <= c + 2 * need
    OBVIOUS
  <1>2. \E f : Is(f)
    BY <1>1, DoublingExists
  <1>3. Is(g)
    BY <1>2
  <1>4. g[c] \in Roomy(need)
    <2> HIDE DEF g
    <2> QED
      BY <1>1, <1>3, DoublingFits
  <1>5. Grown(c, need) = g[c]
    BY DEF Grown, Doubling
  <1> QED
    BY <1>4, <1>5 DEF Roomy

\* The greatest position of a set is the one the fold takes out.
LEMMA MaxOfInterval ==
    ASSUME NEW k \in Nat, NEW S, S \subseteq 1 .. k, k \in S
    PROVE  Max(S) = k
  <1>1. ASSUME NEW y \in S PROVE y \in Nat /\ y <= k
    OBVIOUS
  <1>2. \E x \in S : \A y \in S : x >= y
    BY <1>1
  <1>3. Max(S) \in S /\ \A y \in S : Max(S) >= y
    BY <1>2 DEF Max
  <1>4. Max(S) \in Nat /\ Max(S) <= k /\ Max(S) >= k
    BY <1>1, <1>3
  <1> QED
    BY <1>4

\* The space used is added up record by record: the function that the fold chooses
\* exists, and it is a natural number.
UsedRound(g, q, S) == IF S = {} THEN 0 ELSE g[S \ {Max(S)}] + Size(q[Max(S)])
AddsUp(g, q, k) == g = [S \in SUBSET (1 .. k) |-> UsedRound(g, q, S)]

LEMMA AddsUpExists == ASSUME NEW q, NEW m \in Nat PROVE \E g : AddsUp(g, q, m)
  <1> DEFINE Good == {k \in 0 .. m : \E g : AddsUp(g, q, k)}
  <1>1. 0 \in Good
    <2> DEFINE g == [S \in SUBSET (1 .. 0) |-> 0]
    <2>1. ASSUME NEW S \in SUBSET (1 .. 0) PROVE UsedRound(g, q, S) = 0
      <3>1. S = {}
        OBVIOUS
      <3> QED
        BY <3>1 DEF UsedRound
    <2>2. AddsUp(g, q, 0)
      BY <2>1 DEF AddsUp
    <2>3. 0 \in 0 .. m
      OBVIOUS
    <2> HIDE DEF g
    <2> QED
      BY <2>2, <2>3
  <1>2. ASSUME NEW k \in 1 .. m, k - 1 \in Good PROVE k \in Good
    <2>1. PICK g : AddsUp(g, q, k - 1)
      BY <1>2
    <2> DEFINE h == [S \in SUBSET (1 .. k) |-> IF k \in S THEN g[S \ {k}] + Size(q[k]) ELSE g[S]]
    <2>2. ASSUME NEW S \in SUBSET (1 .. k), k \notin S PROVE S \in SUBSET (1 .. k - 1)
      BY <2>2
    <2>3. ASSUME NEW S \in SUBSET (1 .. k) PROVE h[S] = UsedRound(h, q, S)
      <3>1. CASE k \in S
        <4>0. k \in Nat /\ S \subseteq 1 .. k
          OBVIOUS
        <4>1. Max(S) = k /\ S # {}
          BY <3>1, <4>0, MaxOfInterval, Zenon
        <4>2. S \ {k} \in SUBSET (1 .. k) /\ k \notin S \ {k}
          OBVIOUS
        <4>3. h[S \ {k}] = g[S \ {k}]
          BY <4>2
        <4>4. h[S] = g[S \ {k}] + Size(q[k])
          BY <3>1
        <4> HIDE DEF h
        <4> QED
          BY <4>1, <4>3, <4>4 DEF UsedRound
      <3>2. CASE k \notin S
        <4>1. S \in SUBSET (1 .. k - 1)
          BY <3>2, <2>2
        <4>2. g[S] = UsedRound(g, q, S)
          BY <4>1, <2>1 DEF AddsUp
        <4>3. h[S] = g[S]
          BY <3>2
        <4>4. S \ {Max(S)} \in SUBSET (1 .. k) /\ k \notin S \ {Max(S)}
          BY <3>2
        <4>5. h[S \ {Max(S)}] = g[S \ {Max(S)}]
          BY <4>4
        <4> HIDE DEF h
        <4> QED
          BY <4>2, <4>3, <4>5 DEF UsedRound
      <3> QED
        BY <3>1, <3>2
    <2>4. AddsUp(h, q, k)
      <3>1. h = [S \in SUBSET (1 .. k) |-> h[S]]
        OBVIOUS
      <3> HIDE DEF h
      <3> QED
        BY <3>1, <2>3 DEF AddsUp
    <2> HIDE DEF h
    <2> QED
      BY <2>4
  <1> HIDE DEF Good
  <1>3. \A k \in 0 .. m : k \in Good
    BY <1>1, <1>2, Rounds
  <1>4. m \in Good
    BY <1>3
  <1> QED
    BY <1>4 DEF Good

LEMMA UsedType ==
    ASSUME NEW q \in Seq(Records) PROVE Used(q) \in Nat /\ (q = <<>> => Used(q) = 0)
  <1> DEFINE m == Len(q)
             g == CHOOSE f : AddsUp(f, q, m)
  <1>1. /\ m \in Nat /\ DOMAIN q = 1 .. m /\ \A k \in 1 .. m : q[k] \in Records
        /\ q = <<>> => m = 0
    OBVIOUS
  <1>2. Used(q) = g[1 .. m]
    BY <1>1 DEF Used, FoldLeft, MapThenFoldSet, AddsUp, UsedRound
  <1>3. AddsUp(g, q, m)
    <2>1. \E f : AddsUp(f, q, m)
      BY <1>1, AddsUpExists
    <2> QED
      BY <2>1
  <1> HIDE DEF g, m
  <1>4. ASSUME NEW S \in SUBSET (1 .. m) PROVE g[S] = UsedRound(g, q, S)
    BY <1>3 DEF AddsUp
  <1> DEFINE Good == {k \in 0 .. m : g[1 .. k] \in Nat}
  <1>5. g[1 .. 0] = 0
    <2>1. 1 .. 0 \in SUBSET (1 .. m) /\ 1 .. 0 = {}
      BY <1>1
    <2> QED
      BY <2>1, <1>4 DEF UsedRound
  <1>6. 0 \in Good
    BY <1>5, <1>1
  <1>7. ASSUME NEW k \in 1 .. m, k - 1 \in Good PROVE k \in Good
    <2>0. m \in Nat /\ k \in Nat /\ k <= m /\ 1 <= k
      BY <1>1
    <2>1. 1 .. k \in SUBSET (1 .. m) /\ 1 .. k # {} /\ k \in 1 .. k
      BY <2>0
    <2>2. (1 .. k) \ {k} = 1 .. k - 1
      BY <2>0
    <2>3. Max(1 .. k) = k
      BY <2>0, <2>1, MaxOfInterval
    <2>4. g[1 .. k] = g[1 .. k - 1] + Size(q[k])
      BY <1>4, <2>1, <2>2, <2>3 DEF UsedRound
    <2>5. Size(q[k]) \in Nat
      <3>1. q[k] \in Records
        BY <1>1
      <3> QED
        BY <3>1, RecordsAssumption DEF Size
    <2>6. g[1 .. k - 1] \in Nat
      BY <1>7
    <2> QED
      BY <2>4, <2>5, <2>6, <1>1
  <1> HIDE DEF Good
  <1>8. m \in Good
    <2>1. \A k \in 0 .. m : k \in Good
      BY <1>1, <1>6, <1>7, Rounds
    <2> QED
      BY <2>1, <1>1
  <1> QED
    BY <1>1, <1>2, <1>5, <1>8 DEF Good

-----------------------------------------------------------------------------
\* A new buffer has room; what a step does to the buffer of one thread.
RoomFor(q, c) == c \in Nat /\ c > 0 /\ Used(q) <= c
StagingInv == /\ DOMAIN cap = Threads
              /\ \A t \in Threads : RoomFor(buf[t], cap[t])

LEMMA EmptyFits == ASSUME NEW c \in Nat, c > 0 PROVE RoomFor(<<>>, c)
  <1>1. <<>> \in Seq(Records)
    OBVIOUS
  <1>2. Used(<<>>) = 0
    BY <1>1, UsedType
  <1> QED
    BY <1>2 DEF RoomFor

LEMMA AppendFits ==
    ASSUME StagesInv, StagingInv, NEW t \in Threads, NEW r \in Records, AppendRecord(t, r)
    PROVE  StagingInv'
  <1> DEFINE q == Append(SwitchTo(t, gid_to_bucket(Gid[r])).rest, r)
  <1>1. cap' = [cap EXCEPT ![t] = Grown(cap[t], Used(q))] /\ buf' = [buf EXCEPT ![t] = q]
    BY DEF AppendRecord
  <1>2. buf \in [Threads -> Seq(Records)]
    BY DEF StagesInv, LogsInv, LogsTypeOK
  <1>3. q \in Seq(Records)
    BY <1>2 DEF SwitchTo
  <1> HIDE DEF q
  <1>4. Used(q) \in Nat
    BY <1>3, UsedType
  <1>5. cap[t] \in Nat /\ cap[t] > 0
    BY DEF StagingInv, RoomFor
  <1>6. RoomFor(q, Grown(cap[t], Used(q)))
    BY <1>4, <1>5, GrownFits DEF RoomFor
  <1>7. cap'[t] = Grown(cap[t], Used(q)) /\ buf'[t] = q /\ DOMAIN cap' = Threads
    BY <1>1, <1>2 DEF StagingInv
  <1>8. ASSUME NEW u \in Threads PROVE RoomFor(buf'[u], cap'[u])
    <2>1. CASE u = t
      BY <2>1, <1>6, <1>7
    <2>2. CASE u # t
      <3>1. buf'[u] = buf[u] /\ cap'[u] = cap[u]
        BY <2>2, <1>1, <1>2 DEF StagingInv
      <3> QED
        BY <3>1 DEF StagingInv
    <2> QED
      BY <2>1, <2>2
  <1> QED
    BY <1>7, <1>8 DEF StagingInv

\* A buffer that is emptied, or left alone, still fits.
LEMMA EmptiedFits ==
    ASSUME StagingInv, cap' = cap, \A u \in Threads : buf'[u] \in {<<>>, buf[u]}
    PROVE  StagingInv'
  <1>1. ASSUME NEW u \in Threads PROVE RoomFor(buf'[u], cap'[u])
    <2>1. cap[u] \in Nat /\ cap[u] > 0 /\ RoomFor(buf[u], cap[u])
      BY DEF StagingInv, RoomFor
    <2>2. RoomFor(<<>>, cap[u])
      BY <2>1, EmptyFits
    <2> QED
      BY <2>1, <2>2
  <1> QED
    BY <1>1 DEF StagingInv

LEMMA NewBuffersFit ==
    ASSUME cap = [t \in Threads |-> Cap0], buf = [t \in Threads |-> <<>>]
    PROVE  StagingInv
  <1>1. RoomFor(<<>>, Cap0)
    BY SizesAssumption, EmptyFits
  <1> QED
    BY <1>1 DEF StagingInv

LEMMA NextStaging == ASSUME StagesInv, StagingInv, [StagesNext]_allvars PROVE StagingInv'
  <1>0. buf \in [Threads -> Seq(Records)]
    BY DEF StagesInv, LogsInv, LogsTypeOK
  <1>1. CASE UNCHANGED <<cap, buf>>
    BY <1>1, EmptiedFits
  <1>2. ASSUME NEW d \in BOOLEAN, OpenLogs(d) PROVE StagingInv'
    <2>1. cap' = [t \in Threads |-> Cap0] /\ buf' = [t \in Threads |-> <<>>]
      BY <1>2 DEF OpenLogs
    <2>2. RoomFor(<<>>, Cap0)
      BY SizesAssumption, EmptyFits
    <2> QED
      BY <2>1, <2>2 DEF StagingInv
  <1>3. CASE Write
    <2>1. PICK t \in Threads : FlushIfFull(t) \/ \E r \in Records : AppendRecord(t, r)
      BY <1>3 DEF Write, LogStep
    <2>2. CASE FlushIfFull(t)
      <3>1. cap' = cap /\ \A u \in Threads : buf'[u] \in {<<>>, buf[u]}
        BY <2>2, <1>0 DEF FlushIfFull
      <3> QED
        BY <3>1, EmptiedFits
    <2>3. CASE \E r \in Records : AppendRecord(t, r)
      BY <2>3, AppendFits
    <2> QED
      BY <2>1, <2>2, <2>3
  <1>4. CASE Flush
    <2>1. CASE BeginFlush
      BY <2>1, <1>1 DEF BeginFlush, staging
    <2>2. ASSUME NEW t \in Threads, FlushThread(t) PROVE StagingInv'
      <3>1. cap' = cap /\ \A u \in Threads : buf'[u] \in {<<>>, buf[u]}
        BY <2>2, <1>0 DEF FlushThread
      <3> QED
        BY <3>1, EmptiedFits
    <2> QED
      BY <2>1, <2>2, <1>4 DEF Flush
  <1>5. CASE BeginDump
    BY <1>5, <1>2 DEF BeginDump
  <1>6. CASE BeginCross
    BY <1>6, <1>1, <1>2 DEF BeginCross, logvars
  <1>7. CASE EndDump
    BY <1>7, <1>1 DEF EndDump, CloseLogs, staging, logvars
  <1>8. CASE MoveIndexes \/ EndPair \/ UNCHANGED allvars
    BY <1>8, <1>1 DEF MoveIndexes, EndPair, logvars, allvars
  <1>9. CASE BeginPair
    BY <1>9, <1>1 DEF BeginPair, Produce, staging
  <1>10. CASE EndCross \/ EndStages
    BY <1>10, <1>1 DEF EndCross, EndStages, CloseLogs, BeginCompaction, staging
  <1>11. CASE CompactStep
    BY <1>11, <1>1 DEF CompactStep, Compaction, SkipBucket, CompactBucket, FinishCompaction, staging
  <1> QED
    BY <1>3, <1>4, <1>5, <1>6, <1>7, <1>8, <1>9, <1>10, <1>11 DEF StagesNext

\* The copies of append_record() end inside the staging buffer of the thread, for
\* every size of record and of buffer: ensure() has doubled it as often as needed.
THEOREM StagingBuffersSuffice == StagesSpec => []StagingFits
  <1>1. StagesInit => StagingInv
    BY NewBuffersFit DEF StagesInit, LogsInit
  <1>2. StagingInv => StagingFits
    BY DEF StagingInv, RoomFor, StagingFits
  <1> QED
    BY <1>1, <1>2, NextStaging, StagesInvHolds, PTL DEF StagesSpec

-----------------------------------------------------------------------------
\* The stages run the pair loop of CrossPairs: whatever the logs and the threads do,
\* every step is one of the loop or leaves it alone.
THEOREM StagesRunTheLoop == StagesSpec => Spec
  <1>1. StagesInit => Init
    BY DEF StagesInit
  <1>2. [StagesNext]_allvars => [Next]_vars
    BY LoopStep
  <1> QED
    BY <1>1, <1>2, PTL DEF StagesSpec, Spec

\* So all that is proved of the loop holds in the stages: two subindexes at
\* most, the right ones, every pair once, and no needless load.
THEOREM LoopInTheStages ==
    StagesSpec => [](AtMostTwoResident /\ HoldsTheRightIndexes /\ EveryPairOnce /\ AnchorsAreReused)
  BY StagesRunTheLoop, TwoIndexBudget, RightIndexes, AllPairsOnce, IndexesAreReused, PTL

-----------------------------------------------------------------------------
(* Counting the neighbours in a log *)

\* What the counts are of: the neighbours of the gids gs.
LEMMA NeighbourOf ==
    ASSUME NEW q, NEW gs, NEW w
    PROVE  w \in Neighbours(q, gs) <=>
             \E x \in DOMAIN q : Gid[q[x]] \in gs /\ w \in {x} \X (1 .. Count[q[x]])
  BY Zenon DEF Neighbours

LEMMA FoundOf ==
    ASSUME NEW rs, NEW w
    PROVE  w \in Found(rs) <=> \E r \in rs : w \in {r} \X (1 .. Count[r])
  BY Zenon DEF Found

\* The records of a log; those that a pass over it has seen.
All == Records \cup {Stale}
Seen(q, gs, x) == {w \in Neighbours(q, gs) : w[1] <= x}

\* One record adds its own neighbours.
LEMMA OfOneRecord ==
    ASSUME NEW c \in Nat, NEW x
    PROVE  IsFiniteSet({x} \X (1 .. c)) /\ Cardinality({x} \X (1 .. c)) = c
  <1>1. IsFiniteSet({x}) /\ Cardinality({x}) = 1
    BY FS_Singleton
  <1>2. IsFiniteSet(1 .. c) /\ Cardinality(1 .. c) = c
    BY FS_Interval
  <1>3. /\ IsFiniteSet({x} \X (1 .. c))
        /\ Cardinality({x} \X (1 .. c)) = Cardinality({x}) * Cardinality(1 .. c)
    BY <1>1, <1>2, FS_Product
  <1> QED
    BY <1>1, <1>2, <1>3

\* A disjoint union.
LEMMA DisjointCount ==
    ASSUME NEW S, NEW T, IsFiniteSet(S), IsFiniteSet(T), S \cap T = {}
    PROVE  IsFiniteSet(S \cup T) /\ Cardinality(S \cup T) = Cardinality(S) + Cardinality(T)
  <1>1. /\ IsFiniteSet(S \cup T)
        /\ Cardinality(S \cup T) = Cardinality(S) + Cardinality(T) - Cardinality(S \cap T)
    BY FS_Union
  <1>2. Cardinality(S \cap T) = 0
    BY FS_EmptySet
  <1>3. Cardinality(S) \in Nat /\ Cardinality(T) \in Nat
    BY FS_CardinalityType
  <1> QED
    BY <1>1, <1>2, <1>3

Part(q, gs, x) == IF Gid[q[x]] \in gs THEN {x} \X (1 .. Count[q[x]]) ELSE {}

LEMMA SeenNext ==
    ASSUME NEW q \in Seq(All), NEW gs, NEW x \in 1 .. Len(q)
    PROVE  /\ Seen(q, gs, x) = Seen(q, gs, x - 1) \cup Part(q, gs, x)
           /\ Seen(q, gs, x - 1) \cap Part(q, gs, x) = {}
  <1>0. DOMAIN q = 1 .. Len(q) /\ Len(q) \in Nat
    OBVIOUS
  <1>1. ASSUME NEW w \in Seen(q, gs, x) PROVE w \in Seen(q, gs, x - 1) \cup Part(q, gs, x)
    <2>1. w \in Neighbours(q, gs) /\ w[1] <= x
      BY DEF Seen
    <2>2. PICK y \in DOMAIN q : Gid[q[y]] \in gs /\ w \in {y} \X (1 .. Count[q[y]])
      BY <2>1, NeighbourOf
    <2>3. w[1] = y /\ y \in 1 .. Len(q)
      BY <2>2, <1>0
    <2>4. CASE y = x
      BY <2>4, <2>2 DEF Part
    <2>5. CASE y # x
      <3>1. w[1] <= x - 1
        BY <2>1, <2>3, <2>5, <1>0
      <3> QED
        BY <3>1, <2>1 DEF Seen
    <2> QED
      BY <2>4, <2>5
  <1>2. ASSUME NEW w \in Seen(q, gs, x - 1) PROVE w \in Seen(q, gs, x) /\ w[1] <= x - 1 /\ w[1] # x
    <2>1. w \in Neighbours(q, gs) /\ w[1] <= x - 1
      BY DEF Seen
    <2>2. PICK y \in DOMAIN q : w \in {y} \X (1 .. Count[q[y]])
      BY <2>1, NeighbourOf
    <2>3. w[1] = y /\ y \in Int /\ x \in Int
      BY <2>2, <1>0
    <2> QED
      BY <2>1, <2>3 DEF Seen
  <1>3. ASSUME NEW w \in Part(q, gs, x) PROVE w \in Seen(q, gs, x) /\ w[1] = x
    <2>1. Gid[q[x]] \in gs /\ w \in {x} \X (1 .. Count[q[x]])
      BY DEF Part
    <2>2. w[1] = x /\ x <= x /\ x \in DOMAIN q
      BY <2>1, <1>0
    <2>3. w \in Neighbours(q, gs)
      BY <2>1, <2>2, NeighbourOf
    <2> QED
      BY <2>2, <2>3 DEF Seen
  <1> QED
    BY <1>1, <1>2, <1>3

\* After every record the count is that of the records before plus its own.
Counted(q, gs, x) == IsFiniteSet(Seen(q, gs, x)) /\ Cardinality(Seen(q, gs, x)) \in Nat

LEMMA CountNext ==
    ASSUME NEW q \in Seq(All), NEW gs, NEW x \in 1 .. Len(q), Counted(q, gs, x - 1)
    PROVE  /\ Counted(q, gs, x)
           /\ Cardinality(Seen(q, gs, x)) = Cardinality(Seen(q, gs, x - 1)) +
                (IF Gid[q[x]] \in gs THEN Count[q[x]] ELSE 0)
  <1> DEFINE S == Seen(q, gs, x - 1)
             T == Part(q, gs, x)
             d == IF Gid[q[x]] \in gs THEN Count[q[x]] ELSE 0
  <1>1. q[x] \in All
    OBVIOUS
  <1>2. Count[q[x]] \in Nat
    BY <1>1, RecordsAssumption DEF All
  <1>3. IsFiniteSet(T) /\ Cardinality(T) = d /\ d \in Nat
    BY <1>2, OfOneRecord, FS_EmptySet DEF Part
  <1>4. IsFiniteSet(S) /\ Cardinality(S) \in Nat
    BY DEF Counted
  <1>5. Seen(q, gs, x) = S \cup T /\ S \cap T = {}
    BY SeenNext
  <1> HIDE DEF S, T, d
  <1>6. IsFiniteSet(S \cup T) /\ Cardinality(S \cup T) = Cardinality(S) + Cardinality(T)
    BY <1>3, <1>4, <1>5, DisjointCount
  <1>7. IsFiniteSet(Seen(q, gs, x)) /\ Cardinality(Seen(q, gs, x)) = Cardinality(S) + d
    BY <1>5, <1>6, <1>3
  <1>8. Cardinality(S) + d \in Nat
    BY <1>3, <1>4
  <1> QED
    BY <1>7, <1>8 DEF Counted, S, d

LEMMA SeenNone == ASSUME NEW q \in Seq(All), NEW gs
                  PROVE Counted(q, gs, 0) /\ Cardinality(Seen(q, gs, 0)) = 0
  <1>1. ASSUME NEW w \in Seen(q, gs, 0) PROVE FALSE
    <2>1. w \in Neighbours(q, gs) /\ w[1] <= 0
      BY DEF Seen
    <2>2. PICK y \in DOMAIN q : w \in {y} \X (1 .. Count[q[y]])
      BY <2>1, NeighbourOf
    <2>3. w[1] = y /\ y \in Nat /\ y > 0
      BY <2>2
    <2> QED
      BY <2>1, <2>3
  <1>2. Seen(q, gs, 0) = {}
    BY <1>1
  <1> QED
    BY <1>2, FS_EmptySet DEF Counted

LEMMA AllCounted ==
    ASSUME NEW q \in Seq(All), NEW gs, NEW x \in 0 .. Len(q) PROVE Counted(q, gs, x)
  <1> DEFINE Good == {y \in 0 .. Len(q) : Counted(q, gs, y)}
  <1>0. Len(q) \in Nat
    OBVIOUS
  <1>1. 0 \in Good
    BY <1>0, SeenNone
  <1>2. ASSUME NEW y \in 1 .. Len(q), y - 1 \in Good PROVE y \in Good
    BY <1>2, <1>0, CountNext
  <1> HIDE DEF Good
  <1>3. \A y \in 0 .. Len(q) : y \in Good
    BY <1>0, <1>1, <1>2, Rounds
  <1> QED
    BY <1>3 DEF Good

LEMMA SeenAll ==
    ASSUME NEW q \in Seq(All), NEW gs
    PROVE  /\ Seen(q, gs, Len(q)) = Neighbours(q, gs)
           /\ IsFiniteSet(Neighbours(q, gs)) /\ Cardinality(Neighbours(q, gs)) \in Nat
  <1>1. ASSUME NEW w \in Neighbours(q, gs) PROVE w[1] <= Len(q)
    <2>1. PICK y \in DOMAIN q : w \in {y} \X (1 .. Count[q[y]])
      BY NeighbourOf
    <2>2. w[1] = y /\ y <= Len(q)
      BY <2>1
    <2> QED
      BY <2>2
  <1>2. Seen(q, gs, Len(q)) = Neighbours(q, gs)
    BY <1>1 DEF Seen
  <1>3. Len(q) \in 0 .. Len(q)
    OBVIOUS
  <1>4. Counted(q, gs, Len(q))
    BY <1>3, AllCounted
  <1> QED
    BY <1>2, <1>4 DEF Counted

\* The counts grow with the records and with the gids.
LEMMA SeenGrows ==
    ASSUME NEW q \in Seq(All), NEW gs, NEW hs, gs \subseteq hs,
           NEW x \in 0 .. Len(q), NEW y \in 0 .. Len(q), x <= y
    PROVE  /\ Cardinality(Seen(q, gs, x)) <= Cardinality(Seen(q, hs, y))
           /\ Cardinality(Seen(q, hs, y)) <= Cardinality(Neighbours(q, hs))
  <1>1. ASSUME NEW w \in Neighbours(q, gs) PROVE w \in Neighbours(q, hs) /\ w[1] \in Int
    <2>1. PICK z \in DOMAIN q : Gid[q[z]] \in gs /\ w \in {z} \X (1 .. Count[q[z]])
      BY NeighbourOf
    <2>2. w[1] = z /\ z \in Int
      BY <2>1
    <2>3. w \in Neighbours(q, hs)
      BY <2>1, NeighbourOf
    <2> QED
      BY <2>2, <2>3
  <1>2. Seen(q, gs, x) \subseteq Seen(q, hs, y)
    BY <1>1 DEF Seen
  <1>3. IsFiniteSet(Seen(q, hs, y))
    BY AllCounted DEF Counted
  <1>4. Seen(q, hs, y) \subseteq Neighbours(q, hs) /\ IsFiniteSet(Neighbours(q, hs))
    BY SeenAll DEF Seen
  <1> QED
    BY <1>2, <1>3, <1>4, FS_Subset

\* Neighbours of disjoint sets of gids.
LEMMA NeighboursOfTwo ==
    ASSUME NEW q \in Seq(All), NEW gs, NEW hs, gs \cap hs = {}
    PROVE  Cardinality(Neighbours(q, gs \cup hs)) =
               Cardinality(Neighbours(q, gs)) + Cardinality(Neighbours(q, hs))
  <1>1. \A w : w \in Neighbours(q, gs \cup hs) <=> w \in Neighbours(q, gs) \/ w \in Neighbours(q, hs)
    BY NeighbourOf
  <1>2. ASSUME NEW w \in Neighbours(q, gs), w \in Neighbours(q, hs) PROVE FALSE
    <2>1. PICK z \in DOMAIN q : Gid[q[z]] \in gs /\ w \in {z} \X (1 .. Count[q[z]])
      BY NeighbourOf
    <2>2. PICK y \in DOMAIN q : Gid[q[y]] \in hs /\ w \in {y} \X (1 .. Count[q[y]])
      BY <1>2, NeighbourOf
    <2>3. w[1] = z /\ w[1] = y
      BY <2>1, <2>2
    <2> QED
      BY <2>1, <2>2, <2>3
  <1>3. IsFiniteSet(Neighbours(q, gs)) /\ IsFiniteSet(Neighbours(q, hs))
    BY SeenAll
  <1>4. /\ Neighbours(q, gs \cup hs) = Neighbours(q, gs) \cup Neighbours(q, hs)
        /\ Neighbours(q, gs) \cap Neighbours(q, hs) = {}
    BY <1>1, <1>2
  <1> QED
    BY <1>3, <1>4, DisjointCount

-----------------------------------------------------------------------------
(* A log and the records it was written for *)

\* The records found for the nodes gs, of rs.
Of(rs, gs) == {r \in rs : Gid[r] \in gs}

\* A log that is still to be compacted has those of its nodes, each once.
Uncompacted(q, rs, gs) ==
    /\ q \in Seq(Of(rs, gs))
    /\ \A x, y \in DOMAIN q : q[x] = q[y] => x = y
    /\ \A r \in Of(rs, gs) : \E x \in DOMAIN q : q[x] = r

LEMMA UncompactedType ==
    ASSUME NEW rs, rs \subseteq Records, NEW gs, NEW q, Uncompacted(q, rs, gs)
    PROVE  /\ q \in Seq(All)
           /\ \A x \in 1 .. Len(q) : q[x] \in rs /\ q[x] \in All /\ Gid[q[x]] \in gs
                                     /\ Gid[q[x]] \in Nat /\ Count[q[x]] \in Nat /\ Count[q[x]] > 0
  <1>1. Of(rs, gs) \subseteq All
    BY DEF Of, All
  <1>2. q \in Seq(Of(rs, gs))
    BY DEF Uncompacted
  <1>3. q \in Seq(All)
    BY <1>1, <1>2
  <1>4. ASSUME NEW x \in 1 .. Len(q) PROVE q[x] \in Of(rs, gs)
    BY <1>2
  <1>5. ASSUME NEW r \in All PROVE Gid[r] \in Nat /\ Count[r] \in Nat /\ Count[r] > 0
    BY RecordsAssumption DEF All
  <1>6. ASSUME NEW x \in 1 .. Len(q) PROVE q[x] \in rs /\ q[x] \in All /\ Gid[q[x]] \in gs
    BY <1>4, <1>1 DEF Of
  <1> QED
    BY <1>3, <1>5, <1>6

\* Pass 1 counts what was found.
LEMMA CountsAreFound ==
    ASSUME NEW rs, rs \subseteq Records, NEW gs, NEW hs, hs \subseteq gs, NEW q, Uncompacted(q, rs, gs)
    PROVE  /\ IsFiniteSet(Found(Of(rs, hs)))
           /\ Cardinality(Found(Of(rs, hs))) = Cardinality(Neighbours(q, hs))
  <1> DEFINE S == Neighbours(q, hs)
             T == Found(Of(rs, hs))
             f == [w \in S |-> <<q[w[1]], w[2]>>]
  <1>01. q \in Seq(All)
    BY UncompactedType
  <1>0. q \in Seq(All) /\ DOMAIN q = 1 .. Len(q)
    BY <1>01
  <1>1. ASSUME NEW w \in S
        PROVE  /\ w[1] \in DOMAIN q /\ Gid[q[w[1]]] \in hs /\ w[2] \in 1 .. Count[q[w[1]]]
               /\ w = <<w[1], w[2]>> /\ q[w[1]] \in Of(rs, hs)
    <2>1. PICK x \in DOMAIN q : Gid[q[x]] \in hs /\ w \in {x} \X (1 .. Count[q[x]])
      BY NeighbourOf
    <2>2. w[1] = x /\ w[2] \in 1 .. Count[q[x]] /\ w = <<w[1], w[2]>>
      BY <2>1
    <2>3. q[x] \in rs
      BY <1>0, UncompactedType
    <2> QED
      BY <2>1, <2>2, <2>3 DEF Of
  <1>2. ASSUME NEW w \in S PROVE f[w] \in T
    <2>1. f[w] = <<q[w[1]], w[2]>>
      OBVIOUS
    <2>2. <<q[w[1]], w[2]>> \in {q[w[1]]} \X (1 .. Count[q[w[1]]]) /\ q[w[1]] \in Of(rs, hs)
      BY <1>1
    <2> HIDE DEF f
    <2> QED
      BY <2>1, <2>2, FoundOf
  <1>3. ASSUME NEW w \in S, NEW v \in S, f[w] = f[v] PROVE w = v
    <2>1. q[w[1]] = q[v[1]] /\ w[2] = v[2]
      BY <1>3
    <2>2. w[1] = v[1]
      BY <2>1, <1>1 DEF Uncompacted
    <2> QED
      BY <2>1, <2>2, <1>1
  <1>4. ASSUME NEW v \in T PROVE \E w \in S : f[w] = v
    <2>1. PICK r \in Of(rs, hs) : v \in {r} \X (1 .. Count[r])
      BY FoundOf
    <2>2. r \in Of(rs, gs) /\ Gid[r] \in hs
      BY DEF Of
    <2>3. PICK x \in DOMAIN q : q[x] = r
      BY <2>2 DEF Uncompacted
    <2>4. v = <<r, v[2]>> /\ v[2] \in 1 .. Count[r]
      BY <2>1
    <2>5. <<x, v[2]>> \in S
      <3>1. <<x, v[2]>> \in {x} \X (1 .. Count[q[x]])
        BY <2>3, <2>4
      <3> QED
        BY <3>1, <2>2, <2>3, NeighbourOf
    <2>6. f[<<x, v[2]>>] = v
      BY <2>3, <2>4, <2>5
    <2> QED
      BY <2>5, <2>6
  <1>5. f \in [S -> T]
    BY <1>2
  <1> HIDE DEF f
  <1>6. f \in Bijection(S, T)
    BY <1>3, <1>4, <1>5 DEF Bijection, Injection, Surjection, IsInjective
  <1>7. ExistsBijection(S, T)
    BY <1>6 DEF ExistsBijection
  <1>8. IsFiniteSet(S)
    BY <1>0, SeenAll
  <1> HIDE DEF S, T
  <1>9. IsFiniteSet(T) /\ Cardinality(T) = Cardinality(S)
    BY <1>7, <1>8, FS_Bijection
  <1> QED
    BY <1>9 DEF S, T

\* What was found for other nodes adds up.
LEMMA FoundOfTwo ==
    ASSUME NEW rs, NEW gs, NEW hs, gs \cap hs = {},
           IsFiniteSet(Found(Of(rs, gs))), IsFiniteSet(Found(Of(rs, hs)))
    PROVE  /\ IsFiniteSet(Found(Of(rs, gs \cup hs)))
           /\ Cardinality(Found(Of(rs, gs \cup hs))) =
                Cardinality(Found(Of(rs, gs))) + Cardinality(Found(Of(rs, hs)))
  <1>1. \A r : r \in Of(rs, gs \cup hs) <=> r \in Of(rs, gs) \/ r \in Of(rs, hs)
    BY DEF Of
  <1>2. \A w : w \in Found(Of(rs, gs \cup hs)) <=>
                  w \in Found(Of(rs, gs)) \/ w \in Found(Of(rs, hs))
    BY <1>1, FoundOf
  <1>3. ASSUME NEW w \in Found(Of(rs, gs)), w \in Found(Of(rs, hs)) PROVE FALSE
    <2>1. PICK r \in Of(rs, gs) : w \in {r} \X (1 .. Count[r])
      BY FoundOf
    <2>2. PICK s \in Of(rs, hs) : w \in {s} \X (1 .. Count[s])
      BY <1>3, FoundOf
    <2>3. w[1] = r /\ w[1] = s
      BY <2>1, <2>2
    <2> QED
      BY <2>3 DEF Of
  <1>4. /\ Found(Of(rs, gs \cup hs)) = Found(Of(rs, gs)) \cup Found(Of(rs, hs))
        /\ Found(Of(rs, gs)) \cap Found(Of(rs, hs)) = {}
    BY <1>2, <1>3
  <1> QED
    BY <1>4, DisjointCount

-----------------------------------------------------------------------------
(* Where pass 2 puts a record *)

\* prefix, for the log q of the nodes from lo on.
Start(q, lo, g) == Cardinality(Neighbours(q, lo .. g - 1))
\* The cursor of g after x records, and the place of the record x.
Cursor(q, lo, g, x) == Start(q, lo, g) + Cardinality(Seen(q, {g}, x))
PlaceOfRecord(q, lo, x) == Cursor(q, lo, Gid[q[x]], x - 1)

LEMMA CursorType ==
    ASSUME NEW q \in Seq(All), NEW lo \in Nat, NEW g \in Nat, NEW x \in 0 .. Len(q)
    PROVE  /\ Start(q, lo, g) \in Nat /\ Cardinality(Seen(q, {g}, x)) \in Nat
           /\ Cardinality(Neighbours(q, {g})) \in Nat
           /\ Cursor(q, lo, g, x) \in Nat /\ Start(q, lo, g) <= Cursor(q, lo, g, x)
           /\ Start(q, lo, lo) = 0
  <1>1. Start(q, lo, g) \in Nat /\ Cardinality(Neighbours(q, {g})) \in Nat
    BY SeenAll DEF Start
  <1>2. Cardinality(Seen(q, {g}, x)) \in Nat
    BY AllCounted DEF Counted
  <1>3. Start(q, lo, lo) = 0
    <2>1. ASSUME NEW w \in Neighbours(q, lo .. lo - 1) PROVE FALSE
      <3>1. \E y \in DOMAIN q : Gid[q[y]] \in lo .. lo - 1
        BY NeighbourOf
      <3>2. lo .. lo - 1 = {}
        OBVIOUS
      <3> QED
        BY <3>1, <3>2
    <2>2. Neighbours(q, lo .. lo - 1) = {}
      BY <2>1
    <2> QED
      BY <2>2, FS_EmptySet DEF Start
  <1> QED
    BY <1>1, <1>2, <1>3 DEF Cursor

\* The segment of a gid ends where that of the next one begins.
LEMMA NextStart ==
    ASSUME NEW q \in Seq(All), NEW lo \in Nat, NEW g \in Nat, lo <= g
    PROVE  Start(q, lo, g + 1) = Start(q, lo, g) + Cardinality(Neighbours(q, {g}))
  <1>1. lo .. (g + 1) - 1 = (lo .. g - 1) \cup {g} /\ (lo .. g - 1) \cap {g} = {}
    OBVIOUS
  <1>2. Cardinality(Neighbours(q, (lo .. g - 1) \cup {g})) =
            Cardinality(Neighbours(q, lo .. g - 1)) + Cardinality(Neighbours(q, {g}))
    BY <1>1, NeighboursOfTwo
  <1> QED
    BY <1>1, <1>2 DEF Start

LEMMA StartGrows ==
    ASSUME NEW q \in Seq(All), NEW lo \in Nat, NEW g \in Nat, NEW h \in Nat, g <= h
    PROVE  Start(q, lo, g) <= Start(q, lo, h)
  <1>1. lo .. g - 1 \subseteq lo .. h - 1
    OBVIOUS
  <1>2. Len(q) \in 0 .. Len(q) /\ Len(q) <= Len(q)
    OBVIOUS
  <1>3. Cardinality(Seen(q, lo .. g - 1, Len(q))) <= Cardinality(Seen(q, lo .. h - 1, Len(q)))
    BY <1>1, <1>2, SeenGrows
  <1> QED
    BY <1>3, SeenAll DEF Start

\* A cursor stays in the segment of its gid.
LEMMA CursorInSegment ==
    ASSUME NEW q \in Seq(All), NEW lo \in Nat, NEW g \in Nat, NEW h \in Nat, lo <= g, g < h,
           NEW x \in 0 .. Len(q)
    PROVE  Cursor(q, lo, g, x) <= Start(q, lo, h)
  <1>1. Cardinality(Seen(q, {g}, x)) <= Cardinality(Neighbours(q, {g}))
    BY SeenGrows
  <1>2. Start(q, lo, g + 1) = Start(q, lo, g) + Cardinality(Neighbours(q, {g}))
    BY NextStart
  <1>3. Start(q, lo, g + 1) <= Start(q, lo, h)
    BY StartGrows
  <1>4. /\ Start(q, lo, g) \in Nat /\ Cardinality(Seen(q, {g}, x)) \in Nat
        /\ Cardinality(Neighbours(q, {g})) \in Nat
    BY CursorType
  <1>5. Start(q, lo, h) \in Nat /\ Start(q, lo, g + 1) \in Nat
    BY SeenAll DEF Start
  <1> QED
    BY <1>1, <1>2, <1>3, <1>4, <1>5 DEF Cursor

\* A record moves the cursor of its own gid, by its length.
LEMMA CursorMoves ==
    ASSUME NEW q \in Seq(All), NEW lo \in Nat, NEW g \in Nat, NEW x \in 1 .. Len(q)
    PROVE  Cursor(q, lo, g, x) =
               IF Gid[q[x]] = g THEN Cursor(q, lo, g, x - 1) + Count[q[x]] ELSE Cursor(q, lo, g, x - 1)
  <1>1. x - 1 \in 0 .. Len(q) /\ x \in 0 .. Len(q)
    OBVIOUS
  <1>2. Cardinality(Seen(q, {g}, x)) = Cardinality(Seen(q, {g}, x - 1)) +
                (IF Gid[q[x]] \in {g} THEN Count[q[x]] ELSE 0)
    BY <1>1, AllCounted, CountNext
  <1>3. Start(q, lo, g) \in Nat /\ Cardinality(Seen(q, {g}, x - 1)) \in Nat
    BY <1>1, CursorType
  <1>4. q[x] \in All
    OBVIOUS
  <1>5. Count[q[x]] \in Nat
    BY <1>4, RecordsAssumption DEF All
  <1> QED
    BY <1>2, <1>3, <1>5 DEF Cursor

\* Two records are put in different places: an earlier one of the same gid before,
\* one of another gid in another segment.
LEMMA PlacesApart ==
    ASSUME NEW q \in Seq(All), NEW lo \in Nat, NEW hi \in Nat,
           \A x \in 1 .. Len(q) : Gid[q[x]] \in lo .. hi - 1,
           NEW x \in 1 .. Len(q), NEW y \in 1 .. Len(q), y < x
    PROVE  \/ PlaceOfRecord(q, lo, y) + Count[q[y]] <= PlaceOfRecord(q, lo, x)
           \/ PlaceOfRecord(q, lo, x) + Count[q[x]] <= PlaceOfRecord(q, lo, y)
  <1> DEFINE g == Gid[q[x]]
             h == Gid[q[y]]
  <1>1. /\ g \in Nat /\ h \in Nat /\ lo <= g /\ lo <= h /\ x - 1 \in 0 .. Len(q) /\ y - 1 \in 0 .. Len(q)
        /\ x \in 0 .. Len(q) /\ y \in 0 .. Len(q) /\ y <= x - 1
    OBVIOUS
  <1>2. PlaceOfRecord(q, lo, x) = Cursor(q, lo, g, x - 1) /\ PlaceOfRecord(q, lo, y) = Cursor(q, lo, h, y - 1)
    BY DEF PlaceOfRecord
  <1>3. /\ Cursor(q, lo, g, x - 1) + Count[q[x]] = Cursor(q, lo, g, x)
        /\ Cursor(q, lo, h, y - 1) + Count[q[y]] = Cursor(q, lo, h, y)
    BY <1>1, CursorMoves
  <1> HIDE DEF g, h
  <1>4. /\ Cursor(q, lo, g, x - 1) \in Nat /\ Cursor(q, lo, g, x) \in Nat
        /\ Cursor(q, lo, h, y - 1) \in Nat /\ Cursor(q, lo, h, y) \in Nat
        /\ Start(q, lo, g) <= Cursor(q, lo, g, x - 1) /\ Start(q, lo, h) <= Cursor(q, lo, h, y - 1)
        /\ Start(q, lo, g) \in Nat /\ Start(q, lo, h) \in Nat
    BY <1>1, CursorType
  <1>5. CASE g = h
    <2>1. Cardinality(Seen(q, {g}, y)) <= Cardinality(Seen(q, {g}, x - 1))
      BY <1>1, SeenGrows
    <2>2. Cardinality(Seen(q, {g}, y)) \in Nat /\ Cardinality(Seen(q, {g}, x - 1)) \in Nat
      BY <1>1, CursorType
    <2>3. Cursor(q, lo, h, y) <= Cursor(q, lo, g, x - 1)
      BY <2>1, <2>2, <1>5, <1>4 DEF Cursor
    <2> QED
      BY <2>3, <1>2, <1>3
  <1>6. CASE g < h
    <2>1. Cursor(q, lo, g, x) <= Start(q, lo, h)
      BY <1>1, <1>6, CursorInSegment
    <2> QED
      BY <2>1, <1>2, <1>3, <1>4
  <1>7. CASE h < g
    <2>1. Cursor(q, lo, h, y) <= Start(q, lo, g)
      BY <1>1, <1>7, CursorInSegment
    <2> QED
      BY <2>1, <1>2, <1>3, <1>4
  <1> QED
    BY <1>1, <1>5, <1>6, <1>7

-----------------------------------------------------------------------------
(* Pass 2 *)

\* It goes through the log record by record: the function that the fold chooses
\* exists, and its rounds are those of the loop.
CopyRound(g, base, q, S) == IF S = {} THEN base ELSE CopyRecord(g[S \ {Max(S)}], q[Max(S)])
CopiesAll(g, base, q, k) == g = [S \in SUBSET (1 .. k) |-> CopyRound(g, base, q, S)]

LEMMA CopiesAllExists == ASSUME NEW q, NEW base, NEW m \in Nat PROVE \E g : CopiesAll(g, base, q, m)
  <1> DEFINE Good == {k \in 0 .. m : \E g : CopiesAll(g, base, q, k)}
  <1>1. 0 \in Good
    <2> DEFINE g == [S \in SUBSET (1 .. 0) |-> base]
    <2>1. ASSUME NEW S \in SUBSET (1 .. 0) PROVE CopyRound(g, base, q, S) = base
      <3>1. S = {}
        OBVIOUS
      <3> QED
        BY <3>1 DEF CopyRound
    <2>2. CopiesAll(g, base, q, 0)
      BY <2>1 DEF CopiesAll
    <2>3. 0 \in 0 .. m
      OBVIOUS
    <2> HIDE DEF g
    <2> QED
      BY <2>2, <2>3
  <1>2. ASSUME NEW k \in 1 .. m, k - 1 \in Good PROVE k \in Good
    <2>1. PICK g : CopiesAll(g, base, q, k - 1)
      BY <1>2
    <2> DEFINE h == [S \in SUBSET (1 .. k) |-> IF k \in S THEN CopyRecord(g[S \ {k}], q[k]) ELSE g[S]]
    <2>2. ASSUME NEW S \in SUBSET (1 .. k), k \notin S PROVE S \in SUBSET (1 .. k - 1)
      BY <2>2
    <2>3. ASSUME NEW S \in SUBSET (1 .. k) PROVE h[S] = CopyRound(h, base, q, S)
      <3>1. CASE k \in S
        <4>0. k \in Nat /\ S \subseteq 1 .. k
          OBVIOUS
        <4>1. Max(S) = k /\ S # {}
          BY <3>1, <4>0, MaxOfInterval, Zenon
        <4>2. S \ {k} \in SUBSET (1 .. k) /\ k \notin S \ {k}
          OBVIOUS
        <4>3. h[S \ {k}] = g[S \ {k}]
          BY <4>2
        <4>4. h[S] = CopyRecord(g[S \ {k}], q[k])
          BY <3>1
        <4> HIDE DEF h
        <4> QED
          BY <4>1, <4>3, <4>4 DEF CopyRound
      <3>2. CASE k \notin S
        <4>1. S \in SUBSET (1 .. k - 1)
          BY <3>2, <2>2
        <4>2. g[S] = CopyRound(g, base, q, S)
          BY <4>1, <2>1 DEF CopiesAll
        <4>3. h[S] = g[S]
          BY <3>2
        <4>4. S \ {Max(S)} \in SUBSET (1 .. k) /\ k \notin S \ {Max(S)}
          BY <3>2
        <4>5. h[S \ {Max(S)}] = g[S \ {Max(S)}]
          BY <4>4
        <4> HIDE DEF h
        <4> QED
          BY <4>2, <4>3, <4>5 DEF CopyRound
      <3> QED
        BY <3>1, <3>2
    <2>4. CopiesAll(h, base, q, k)
      <3>1. h = [S \in SUBSET (1 .. k) |-> h[S]]
        OBVIOUS
      <3> HIDE DEF h
      <3> QED
        BY <3>1, <2>3 DEF CopiesAll
    <2> HIDE DEF h
    <2> QED
      BY <2>4
  <1> HIDE DEF Good
  <1>3. \A k \in 0 .. m : k \in Good
    BY <1>1, <1>2, Rounds
  <1>4. m \in Good
    BY <1>3
  <1> QED
    BY <1>4 DEF Good

\* The states of the pass.
Pass(d, base, q) ==
    /\ d[0] = base /\ FoldLeft(CopyRecord, base, q) = d[Len(q)]
    /\ \A x \in 1 .. Len(q) : d[x] = CopyRecord(d[x - 1], q[x])

LEMMA PassExists == ASSUME NEW D, NEW q \in Seq(D), NEW base PROVE \E d : Pass(d, base, q)
  <1> DEFINE m == Len(q)
             g == CHOOSE f : CopiesAll(f, base, q, m)
  <1>1. m \in Nat /\ DOMAIN q = 1 .. m
    OBVIOUS
  <1>2. FoldLeft(CopyRecord, base, q) = g[1 .. m]
    BY <1>1 DEF FoldLeft, MapThenFoldSet, CopiesAll, CopyRound
  <1>3. CopiesAll(g, base, q, m)
    <2>1. \E f : CopiesAll(f, base, q, m)
      BY <1>1, CopiesAllExists
    <2> QED
      BY <2>1
  <1> HIDE DEF g, m
  <1>4. ASSUME NEW S \in SUBSET (1 .. m) PROVE g[S] = CopyRound(g, base, q, S)
    BY <1>3 DEF CopiesAll
  <1> DEFINE d == [x \in 0 .. m |-> g[1 .. x]]
  <1>5. d[0] = base
    <2>1. 1 .. 0 \in SUBSET (1 .. m) /\ 1 .. 0 = {} /\ 0 \in 0 .. m
      BY <1>1
    <2> QED
      BY <2>1, <1>4 DEF CopyRound
  <1>6. ASSUME NEW k \in 1 .. m PROVE d[k] = CopyRecord(d[k - 1], q[k])
    <2>0. m \in Nat /\ k \in Nat /\ k <= m /\ 1 <= k
      BY <1>1
    <2>1. 1 .. k \in SUBSET (1 .. m) /\ 1 .. k # {} /\ k \in 1 .. k
      BY <2>0
    <2>2. (1 .. k) \ {k} = 1 .. k - 1
      BY <2>0
    <2>3. Max(1 .. k) = k
      BY <2>0, <2>1, MaxOfInterval
    <2>4. g[1 .. k] = CopyRecord(g[1 .. k - 1], q[k])
      BY <1>4, <2>1, <2>2, <2>3 DEF CopyRound
    <2>5. k \in 0 .. m /\ k - 1 \in 0 .. m
      BY <2>0
    <2> QED
      BY <2>4, <2>5
  <1>7. d[m] = g[1 .. m]
    <2>1. m \in 0 .. m
      BY <1>1
    <2> QED
      BY <2>1
  <1> HIDE DEF d
  <1>8. Pass(d, base, q)
    BY <1>2, <1>5, <1>6, <1>7 DEF Pass, m
  <1> QED
    BY <1>8

\* NoneCopied, for the log q of the nodes lo .. hi - 1.
Blank(q, lo, hi) == [cursor |-> [g \in lo .. hi - 1 |-> Start(q, lo, g)],
                     out |-> [p \in 0 .. Start(q, lo, hi) - 1 |-> <<Stale, 0>>]]

\* After x records the cursors are where the counts say, and the records copied so
\* far are at their places.
PassInv(s, q, lo, hi, x) ==
    /\ s.cursor = [g \in lo .. hi - 1 |-> Cursor(q, lo, g, x)]
    /\ DOMAIN s.out = 0 .. Start(q, lo, hi) - 1
    /\ \A p \in DOMAIN s.out : s.out[p] \in All \X Nat
    /\ \A y \in 1 .. Len(q) : y <= x =>
         \A c \in 1 .. Count[q[y]] : s.out[PlaceOfRecord(q, lo, y) + c - 1] = <<q[y], c>>

LEMMA PassFirst ==
    ASSUME NEW q \in Seq(All), NEW lo \in Nat, NEW hi \in Nat
    PROVE  PassInv(Blank(q, lo, hi), q, lo, hi, 0)
  <1>0. 0 \in 0 .. Len(q)
    OBVIOUS
  <1>1. ASSUME NEW g \in lo .. hi - 1 PROVE Cursor(q, lo, g, 0) = Start(q, lo, g)
    <2>1. Start(q, lo, g) \in Nat /\ Cardinality(Seen(q, {g}, 0)) = 0
      BY <1>0, SeenNone, SeenAll DEF Start
    <2> QED
      BY <2>1 DEF Cursor
  <1>2. [g \in lo .. hi - 1 |-> Start(q, lo, g)] = [g \in lo .. hi - 1 |-> Cursor(q, lo, g, 0)]
    BY <1>1
  <1>3. <<Stale, 0>> \in All \X Nat
    BY DEF All
  <1>4. ASSUME NEW y \in 1 .. Len(q) PROVE ~(y <= 0)
    OBVIOUS
  <1> QED
    BY <1>2, <1>3, <1>4 DEF Blank, PassInv

\* A position of one interval is not in another one.
LEMMA Outside ==
    ASSUME NEW a \in Nat, NEW k \in Nat, NEW c \in Nat, 1 <= c, c <= k, NEW p \in Nat, NEW m \in Nat,
           NEW lim \in Nat, a + k <= lim, a + k <= p \/ p + m <= a
    PROVE  a + c - 1 \in 0 .. lim - 1 /\ a + c - 1 \notin p .. p + m - 1
  OBVIOUS

LEMMA PassNext ==
    ASSUME NEW q \in Seq(All), NEW lo \in Nat, NEW hi \in Nat,
           \A x \in 1 .. Len(q) : Gid[q[x]] \in lo .. hi - 1,
           NEW x \in 1 .. Len(q), NEW s, PassInv(s, q, lo, hi, x - 1)
    PROVE  PassInv(CopyRecord(s, q[x]), q, lo, hi, x)
  <1> DEFINE r == q[x]
             g == Gid[r]
             p == Cursor(q, lo, g, x - 1)
             t == CopyRecord(s, r)
             lim == Start(q, lo, hi)
  <1>1. /\ g \in lo .. hi - 1 /\ g \in Nat /\ r \in All /\ x - 1 \in 0 .. Len(q) /\ x \in 0 .. Len(q)
        /\ Len(q) \in Nat
    OBVIOUS
  <1>2. \A y \in 1 .. Len(q) : q[y] \in All /\ Count[q[y]] \in Nat /\ Count[q[y]] > 0
    BY RecordsAssumption DEF All
  <1>3. s.cursor = [h \in lo .. hi - 1 |-> Cursor(q, lo, h, x - 1)] /\ s.cursor[g] = p
    BY <1>1 DEF PassInv
  <1>4. t.cursor = [s.cursor EXCEPT ![g] = @ + Count[r]] /\ t.out = Copied(s.out, p, r)
    BY <1>1, <1>3 DEF CopyRecord
  <1>5. p \in Nat /\ lim \in Nat /\ p + Count[r] <= lim
    <2>1. p \in Nat /\ lim \in Nat
      BY <1>1, CursorType
    <2>2. Cursor(q, lo, g, x) = p + Count[r]
      BY <1>1, CursorMoves
    <2>3. Cursor(q, lo, g, x) <= lim
      BY <1>1, CursorInSegment
    <2> QED
      BY <2>1, <2>2, <2>3
  <1>6. t.cursor = [h \in lo .. hi - 1 |-> Cursor(q, lo, h, x)]
    <2>1. ASSUME NEW h \in lo .. hi - 1 PROVE t.cursor[h] = Cursor(q, lo, h, x)
      <3>1. h \in Nat
        OBVIOUS
      <3>2. Cursor(q, lo, h, x) =
               IF Gid[q[x]] = h THEN Cursor(q, lo, h, x - 1) + Count[q[x]] ELSE Cursor(q, lo, h, x - 1)
        BY <3>1, CursorMoves
      <3>3. t.cursor[h] = IF h = g THEN s.cursor[g] + Count[r] ELSE s.cursor[h]
        BY <1>1, <1>3, <1>4
      <3> QED
        BY <3>2, <3>3, <1>3
    <2>2. DOMAIN t.cursor = lo .. hi - 1 /\ t.cursor = [h \in DOMAIN t.cursor |-> t.cursor[h]]
      BY <1>3, <1>4
    <2> HIDE DEF t
    <2> QED
      BY <2>1, <2>2
  <1>7. DOMAIN s.out = 0 .. lim - 1 /\ \A z \in DOMAIN s.out : s.out[z] \in All \X Nat
    BY DEF PassInv
  <1> HIDE DEF lim, t, p
  <1>8. /\ DOMAIN t.out = 0 .. lim - 1
        /\ \A z \in 0 .. lim - 1 :
             t.out[z] = IF z \in p .. p + Count[r] - 1 THEN <<r, z - p + 1>> ELSE s.out[z]
    BY <1>4, <1>7 DEF Copied
  <1>9. ASSUME NEW z \in DOMAIN t.out PROVE t.out[z] \in All \X Nat
    <2>0. z \in 0 .. lim - 1
      BY <1>8
    <2>1. CASE z \in p .. p + Count[r] - 1
      <3>1. z - p + 1 \in Nat
        BY <2>1, <1>5, <1>1, <1>2
      <3>2. t.out[z] = <<r, z - p + 1>>
        BY <2>0, <2>1, <1>8
      <3> QED
        BY <3>1, <3>2, <1>1
    <2>2. CASE z \notin p .. p + Count[r] - 1
      BY <2>2, <1>7, <1>8
    <2> QED
      BY <2>1, <2>2
  <1>10. ASSUME NEW y \in 1 .. Len(q), y <= x, NEW c \in 1 .. Count[q[y]]
         PROVE  t.out[PlaceOfRecord(q, lo, y) + c - 1] = <<q[y], c>>
    <2> DEFINE z == PlaceOfRecord(q, lo, y) + c - 1
    <2>1. CASE y = x
      <3>1. PlaceOfRecord(q, lo, y) = p
        BY <2>1 DEF PlaceOfRecord, p
      <3>2. z = p + c - 1 /\ c \in 1 .. Count[r] /\ c \in Nat /\ Count[r] \in Nat
        BY <3>1, <2>1, <1>2
      <3>3. z \in p .. p + Count[r] - 1 /\ z \in 0 .. lim - 1 /\ z - p + 1 = c
        <4>1. \A a, c1, c2, u, v \in Nat : u = a + c1 - 1 /\ c1 >= 1 /\ c1 <= c2 /\ a + c2 <= v =>
                u \in a .. a + c2 - 1 /\ u \in 0 .. v - 1 /\ u - a + 1 = c1
          OBVIOUS
        <4>2. z \in Nat
          BY <3>1, <1>5
        <4>3. c >= 1 /\ c <= Count[r]
          BY <3>2
        <4> HIDE DEF z, r
        <4> QED
          BY <4>1, <4>2, <4>3, <3>2, <1>5
      <3> HIDE DEF z
      <3>4. t.out[z] = <<r, c>>
        BY <3>3, <1>8
      <3> QED
        BY <3>4, <2>1 DEF z
    <2>2. CASE y # x
      <3>1. y < x /\ y <= x - 1
        BY <1>10, <2>2
      <3>2. s.out[z] = <<q[y], c>>
        BY <3>1 DEF PassInv
      <3>3. PlaceOfRecord(q, lo, x) = p
        BY DEF PlaceOfRecord, p
      <3>4. \/ PlaceOfRecord(q, lo, y) + Count[q[y]] <= p
            \/ p + Count[r] <= PlaceOfRecord(q, lo, y)
        BY <3>1, <3>3, PlacesApart
      <3>5. PlaceOfRecord(q, lo, y) \in Nat /\ PlaceOfRecord(q, lo, y) + Count[q[y]] <= lim
        <4>1. /\ Gid[q[y]] \in Nat /\ lo <= Gid[q[y]] /\ Gid[q[y]] < hi
              /\ y - 1 \in 0 .. Len(q) /\ y \in 0 .. Len(q)
          OBVIOUS
        <4>2. Cursor(q, lo, Gid[q[y]], y - 1) \in Nat
          BY <4>1, CursorType
        <4>3. Cursor(q, lo, Gid[q[y]], y) = Cursor(q, lo, Gid[q[y]], y - 1) + Count[q[y]]
          BY <4>1, CursorMoves
        <4>4. Cursor(q, lo, Gid[q[y]], y) <= lim
          BY <4>1, CursorInSegment DEF lim
        <4> QED
          BY <4>2, <4>3, <4>4 DEF PlaceOfRecord
      <3>6. z \in 0 .. lim - 1 /\ z \notin p .. p + Count[r] - 1
        <4> PICK a \in Nat : a = PlaceOfRecord(q, lo, y)
          BY <3>5
        <4> PICK k \in Nat : k = Count[q[y]]
          BY <1>2
        <4> PICK m \in Nat : m = Count[r]
          BY <1>2
        <4>1. z = a + c - 1 /\ c \in 1 .. k /\ a + k <= lim /\ (a + k <= p \/ p + m <= a)
          BY <3>4, <3>5
        <4>2. z \in 0 .. lim - 1 /\ z \notin p .. p + m - 1
          <5>1. p \in Nat /\ lim \in Nat
            BY <1>5
          <5>2. c \in Nat /\ 1 <= c /\ c <= k
            BY <4>1
          <5> QED
            BY <4>1, <5>1, <5>2, Outside
        <4> QED
          BY <4>2
      <3> HIDE DEF z
      <3>7. t.out[z] = <<q[y], c>>
        BY <3>2, <3>6, <1>8
      <3> QED
        BY <3>7 DEF z
    <2> QED
      BY <2>1, <2>2
  <1> QED
    BY <1>6, <1>8, <1>9, <1>10 DEF PassInv, lim, t

\* So after the pass every record is in one piece, at its place.
LEMMA PassDone ==
    ASSUME NEW q \in Seq(All), NEW lo \in Nat, NEW hi \in Nat,
           \A x \in 1 .. Len(q) : Gid[q[x]] \in lo .. hi - 1
    PROVE  PassInv(FoldLeft(CopyRecord, Blank(q, lo, hi), q), q, lo, hi, Len(q))
  <1>1. PICK d : Pass(d, Blank(q, lo, hi), q)
    BY PassExists
  <1> DEFINE Good == {x \in 0 .. Len(q) : PassInv(d[x], q, lo, hi, x)}
  <1>2. Len(q) \in Nat
    OBVIOUS
  <1>3. 0 \in Good
    <2>1. d[0] = Blank(q, lo, hi)
      BY <1>1 DEF Pass
    <2> QED
      BY <2>1, <1>2, PassFirst
  <1>4. ASSUME NEW x \in 1 .. Len(q), x - 1 \in Good PROVE x \in Good
    <2>1. d[x] = CopyRecord(d[x - 1], q[x])
      BY <1>1 DEF Pass
    <2>2. PassInv(d[x - 1], q, lo, hi, x - 1)
      BY <1>4
    <2>3. PassInv(d[x], q, lo, hi, x)
      BY <2>1, <2>2, PassNext
    <2> QED
      BY <2>3, <1>2
  <1> HIDE DEF Good
  <1>5. \A x \in 0 .. Len(q) : x \in Good
    BY <1>2, <1>3, <1>4, Rounds
  <1>6. PassInv(d[Len(q)], q, lo, hi, Len(q))
    BY <1>2, <1>5 DEF Good
  <1> QED
    BY <1>1, <1>6 DEF Pass

-----------------------------------------------------------------------------
(* The files after one more bucket *)

\* The list of a node, at the place its row gives: as long as what was found for
\* it, every record in one piece.
InOnePiece(row, out, r) ==
    \E p \in 0 .. row.cnt : /\ p + Count[r] <= row.cnt
                            /\ \A x \in 1 .. Count[r] : out[row.off + p + x] = <<r, x>>
Row(rs, row, out, g) ==
    /\ row.off + row.cnt <= Len(out) /\ row.cnt = Cardinality(Found(Of(rs, {g})))
    /\ \A r \in Of(rs, {g}) : InOnePiece(row, out, r)

\* cand.idx and cand.ids, for the nodes before m.
RowSet == [off : Nat, cnt : Nat]
Files(rs, rows, out, m) ==
    /\ rows \in Seq(RowSet) /\ out \in Seq(All \X Nat)
    /\ Len(rows) = m
    /\ IsFiniteSet(Found(Of(rs, 0 .. m - 1)))
    /\ Len(out) = Cardinality(Found(Of(rs, 0 .. m - 1)))
    /\ \A g \in 0 .. m - 1 : Row(rs, rows[g + 1], out, g)

\* What CompactBucket appends to them for the log q of the nodes lo .. hi - 1.
NewRows(q, lo, hi, acc) ==
    [x \in 1 .. hi - lo |-> [off |-> acc + Start(q, lo, lo + x - 1),
                             cnt |-> Cardinality(Neighbours(q, {lo + x - 1}))]]
NewIds(q, lo, hi) ==
    [x \in 1 .. Start(q, lo, hi) |-> FoldLeft(CopyRecord, Blank(q, lo, hi), q).out[x - 1]]

LEMMA WithinTheList ==
    ASSUME NEW st \in Nat, NEW c \in Nat, NEW lim \in Nat, NEW len \in Nat, st + c <= lim,
           NEW p \in Nat, NEW k \in Nat, p + k <= c, NEW x \in 1 .. k
    PROVE  /\ st + p + x \in 1 .. lim /\ (len + st) + p + x = len + (st + p + x)
           /\ (st + p + x) - 1 = st + p + x - 1
  OBVIOUS

LEMMA ListOfLength ==
    ASSUME NEW S, NEW m \in Nat, NEW f \in [1 .. m -> S] PROVE f \in Seq(S) /\ Len(f) = m
  OBVIOUS

\* The lists written before are not touched.
LEMMA OldRow ==
    ASSUME NEW rs, rs \subseteq Records, NEW row \in RowSet, NEW g,
           NEW out \in Seq(All \X Nat), NEW more \in Seq(All \X Nat), Row(rs, row, out, g)
    PROVE  Row(rs, row, out \o more, g)
  <1>1. row.off \in Nat /\ row.cnt \in Nat /\ row.off + row.cnt <= Len(out)
    BY DEF Row, RowSet
  <1>2. Len(out \o more) = Len(out) + Len(more) /\ Len(out) \in Nat /\ Len(more) \in Nat
    OBVIOUS
  <1>3. \A x \in 1 .. Len(out) : (out \o more)[x] = out[x]
    OBVIOUS
  <1>4. ASSUME NEW r \in Of(rs, {g}) PROVE InOnePiece(row, out \o more, r)
    <2>0. Count[r] \in Nat
      BY RecordsAssumption DEF Of
    <2>1. PICK p \in 0 .. row.cnt : /\ p + Count[r] <= row.cnt
                                    /\ \A x \in 1 .. Count[r] : out[row.off + p + x] = <<r, x>>
      BY DEF Row, InOnePiece
    <2>2. ASSUME NEW x \in 1 .. Count[r] PROVE (out \o more)[row.off + p + x] = <<r, x>>
      <3>1. row.off + p + x \in 1 .. Len(out)
        <4>1. p \in Nat
          BY <1>1
        <4> QED
          BY <4>1, <2>0, <2>1, <1>1, <1>2, WithinTheList
      <3> QED
        BY <3>1, <2>1, <1>3
    <2> QED
      BY <2>1, <2>2 DEF InOnePiece
  <1>5. row.off + row.cnt <= Len(out \o more)
    BY <1>1, <1>2
  <1> QED
    BY <1>4, <1>5 DEF Row

\* The row of a node of the bucket.
LEMMA NewRow ==
    ASSUME NEW rs, rs \subseteq Records, NEW lo \in Nat, NEW hi \in Nat, NEW q,
           Uncompacted(q, rs, lo .. hi - 1), NEW out \in Seq(All \X Nat),
           NEW g \in lo .. hi - 1, NEW row,
           row = [off |-> Len(out) + Start(q, lo, g), cnt |-> Cardinality(Neighbours(q, {g}))]
    PROVE  /\ row \in RowSet /\ NewIds(q, lo, hi) \in Seq(All \X Nat)
           /\ Row(rs, row, out \o NewIds(q, lo, hi), g)
  <1> DEFINE res == FoldLeft(CopyRecord, Blank(q, lo, hi), q)
             more == NewIds(q, lo, hi)
             lim == Start(q, lo, hi)
             c == Cardinality(Neighbours(q, {g}))
             st == Start(q, lo, g)
             len == Len(out)
  <1>0. /\ q \in Seq(All)
        /\ \A x \in 1 .. Len(q) : q[x] \in rs /\ q[x] \in All /\ Gid[q[x]] \in lo .. hi - 1
                                  /\ Gid[q[x]] \in Nat /\ Count[q[x]] \in Nat /\ Count[q[x]] > 0
    BY UncompactedType
  <1>1. DOMAIN q = 1 .. Len(q) /\ Len(q) \in Nat /\ g \in Nat /\ lo <= g /\ g < hi
    BY <1>0
  <1>2. PassInv(res, q, lo, hi, Len(q))
    BY <1>0, PassDone
  <1>3. lim \in Nat /\ st \in Nat /\ c \in Nat /\ len \in Nat
    <2>1. len \in Nat
      OBVIOUS
    <2> QED
      BY <1>0, <2>1, SeenAll DEF Start
  <1> HIDE DEF res
  <1>4. /\ DOMAIN res.out = 0 .. lim - 1 /\ \A p \in 0 .. lim - 1 : res.out[p] \in All \X Nat
        /\ \A y \in 1 .. Len(q) : \A x \in 1 .. Count[q[y]] :
             res.out[PlaceOfRecord(q, lo, y) + x - 1] = <<q[y], x>>
    BY <1>1, <1>2 DEF PassInv
  <1>5. more = [x \in 1 .. lim |-> res.out[x - 1]]
    BY DEF NewIds, res
  <1>6. more \in Seq(All \X Nat) /\ Len(more) = lim /\ \A x \in 1 .. lim : more[x] = res.out[x - 1]
    <2>1. ASSUME NEW x \in 1 .. lim PROVE x - 1 \in 0 .. lim - 1
      BY <1>3
    <2> HIDE DEF more, lim
    <2>2. more \in [1 .. lim -> All \X Nat]
      BY <2>1, <1>4, <1>5
    <2>3. more \in Seq(All \X Nat) /\ Len(more) = lim
      BY <2>2, <1>3, ListOfLength
    <2>4. \A x \in 1 .. lim : more[x] = res.out[x - 1]
      BY <1>5
    <2> QED
      BY <2>3, <2>4
  <1>7. st + c <= lim
    <2>0. Len(q) \in 0 .. Len(q)
      BY <1>1
    <2>1. Cursor(q, lo, g, Len(q)) <= lim
      BY <1>0, <1>1, <2>0, CursorInSegment
    <2>2. Cursor(q, lo, g, Len(q)) = st + c
      BY <1>0, SeenAll DEF Cursor
    <2> QED
      BY <2>1, <2>2
  <1>8. c = Cardinality(Found(Of(rs, {g})))
    <2>1. {g} \subseteq lo .. hi - 1
      OBVIOUS
    <2> QED
      BY <2>1, CountsAreFound
  <1>9. row.off = len + st /\ row.cnt = c /\ row \in RowSet
    BY <1>3 DEF RowSet
  <1> HIDE DEF more
  <1>10. Len(out \o more) = len + lim /\ \A x \in 1 .. lim : (out \o more)[len + x] = more[x]
    <2>1. /\ Len(out \o more) = Len(out) + Len(more)
          /\ \A x \in 1 .. Len(out) + Len(more) :
               (out \o more)[x] = IF x <= Len(out) THEN out[x] ELSE more[x - Len(out)]
      BY <1>6, ConcatProperties
    <2>2. Len(out) = len /\ Len(more) = lim
      BY <1>6
    <2> HIDE DEF len, lim
    <2>3. ASSUME NEW x \in 1 .. lim PROVE (out \o more)[len + x] = more[x]
      <3>1. len + x \in 1 .. len + lim /\ ~(len + x <= len) /\ (len + x) - len = x
        BY <1>3
      <3> QED
        BY <3>1, <2>1, <2>2
    <2> QED
      BY <2>1, <2>2, <2>3
  <1>11. ASSUME NEW r \in Of(rs, {g}) PROVE InOnePiece(row, out \o more, r)
    <2>1. r \in Of(rs, lo .. hi - 1) /\ Gid[r] = g
      BY DEF Of
    <2>2. PICK y \in 1 .. Len(q) : q[y] = r
      BY <2>1, <1>1 DEF Uncompacted
    <2> PICK k \in Nat : k = Count[r]
      BY <1>0, <2>2
    <2>3. y - 1 \in 0 .. Len(q) /\ y \in 0 .. Len(q)
      BY <1>1
    <2> PICK p \in Nat : p = Cardinality(Seen(q, {g}, y - 1))
      BY <2>3, <1>0, <1>1, AllCounted DEF Counted
    <2>4. p + k <= c
      <3>1. Cardinality(Seen(q, {g}, y)) = p + k
        BY <1>0, <2>1, <2>2, <2>3, AllCounted, CountNext
      <3>2. Cardinality(Seen(q, {g}, y)) <= c
        BY <1>0, <2>3, SeenGrows
      <3> QED
        BY <3>1, <3>2
    <2>5. PlaceOfRecord(q, lo, y) = st + p
      BY <2>1, <2>2 DEF PlaceOfRecord, Cursor
    <2>6. ASSUME NEW x \in 1 .. k PROVE (out \o more)[row.off + p + x] = <<r, x>>
      <3>1. st + p + x \in 1 .. lim /\ row.off + p + x = len + (st + p + x)
        <4> HIDE DEF st, lim, len, c
        <4>1. st + p + x \in 1 .. lim /\ (len + st) + p + x = len + (st + p + x)
          <5>1. x \in Nat /\ 1 <= x /\ x <= k
            OBVIOUS
          <5>2. st + p + x \in Nat /\ 1 <= st + p + x /\ st + p + x <= lim
            <6>1. p + x <= c
              BY <5>1, <2>4, <1>3
            <6>2. st + p + x <= st + c
              BY <6>1, <5>1, <1>3
            <6>3. st + p + x \in Nat /\ 1 <= st + p + x
              BY <5>1, <1>3
            <6> PICK z \in Nat : z = st + p + x
              BY <6>3
            <6>4. z <= lim
              BY <6>2, <1>3, <1>7
            <6> QED
              BY <6>3, <6>4
          <5>3. (len + st) + p + x = len + (st + p + x)
            BY <5>1, <1>3
          <5>4. st + p + x \in 1 .. lim
            <6> PICK z \in Nat : z = st + p + x
              BY <5>2
            <6>1. 1 <= z /\ z <= lim
              BY <5>2
            <6>2. z \in 1 .. lim
              BY <6>1, <1>3
            <6> QED
              BY <6>2
          <5> QED
            BY <5>3, <5>4
        <4> QED
          BY <4>1, <1>9
      <3>2. (out \o more)[row.off + p + x] = more[st + p + x]
        BY <3>1, <1>10
      <3>3. more[st + p + x] = res.out[st + p + x - 1]
        <4> HIDE DEF st, lim
        <4> PICK z \in 1 .. lim : z = st + p + x
          BY <3>1
        <4>1. more[z] = res.out[z - 1]
          BY <1>6
        <4>2. z - 1 = st + p + x - 1
          BY <1>3
        <4> QED
          BY <4>1, <4>2
      <3>4. res.out[PlaceOfRecord(q, lo, y) + x - 1] = <<q[y], x>>
        BY <1>4, <2>2
      <3> QED
        BY <3>2, <3>3, <3>4, <2>2, <2>5
    <2>7. p \in 0 .. row.cnt
      <3> HIDE DEF c
      <3> QED
        BY <2>4, <1>3, <1>9
    <2> QED
      BY <2>4, <2>6, <2>7, <1>9 DEF InOnePiece
  <1>12. row.off + row.cnt <= Len(out \o more)
    <2> HIDE DEF st, lim, len, c
    <2> QED
      BY <1>3, <1>7, <1>9, <1>10
  <1>13. Row(rs, row, out \o more, g)
    BY <1>8, <1>9, <1>11, <1>12 DEF Row
  <1> QED
    BY <1>6, <1>9, <1>13 DEF more

\* One bucket more.
LEMMA BucketDone ==
    ASSUME NEW rs, rs \subseteq Records, NEW lo \in Nat, NEW hi \in Nat, lo < hi, NEW q,
           Uncompacted(q, rs, lo .. hi - 1), NEW rows, NEW out, Files(rs, rows, out, lo)
    PROVE  /\ Files(rs, rows \o NewRows(q, lo, hi, Len(out)), out \o NewIds(q, lo, hi), hi)
           /\ Len(out \o NewIds(q, lo, hi)) = Len(out) + Start(q, lo, hi)
  <1> DEFINE more == NewIds(q, lo, hi)
             rest == NewRows(q, lo, hi, Len(out))
             S == Found(Of(rs, 0 .. lo - 1))
             T == Found(Of(rs, lo .. hi - 1))
  <1>1. rows \in Seq(RowSet) /\ out \in Seq(All \X Nat) /\ Len(rows) = lo /\ Len(out) \in Nat
    BY DEF Files
  <1>2. q \in Seq(All)
    BY UncompactedType
  <1>3. ASSUME NEW g \in lo .. hi - 1
        PROVE  \E row : /\ row = [off |-> Len(out) + Start(q, lo, g), cnt |-> Cardinality(Neighbours(q, {g}))]
                        /\ row \in RowSet /\ more \in Seq(All \X Nat) /\ Row(rs, row, out \o more, g)
    <2> PICK row : row = [off |-> Len(out) + Start(q, lo, g), cnt |-> Cardinality(Neighbours(q, {g}))]
      OBVIOUS
    <2>1. row \in RowSet /\ more \in Seq(All \X Nat) /\ Row(rs, row, out \o more, g)
      BY <1>1, NewRow
    <2> HIDE DEF more
    <2> QED
      BY <2>1
  <1>4. more \in Seq(All \X Nat) /\ Len(more) = Start(q, lo, hi) /\ Start(q, lo, hi) \in Nat
    <2>1. lo \in lo .. hi - 1
      OBVIOUS
    <2>2. more \in Seq(All \X Nat)
      BY <2>1, <1>3
    <2>3. DOMAIN more = 1 .. Start(q, lo, hi)
      BY DEF NewIds
    <2>4. Start(q, lo, hi) \in Nat
      BY <1>2, SeenAll DEF Start
    <2> HIDE DEF more
    <2> QED
      BY <2>2, <2>3, <2>4
  <1> HIDE DEF more
  <1>5. ASSUME NEW x \in 1 .. hi - lo
        PROVE  /\ rest[x] \in RowSet /\ Row(rs, rest[x], out \o more, lo + x - 1)
               /\ lo + x - 1 \in lo .. hi - 1
    <2> PICK g \in lo .. hi - 1 : g = lo + x - 1
      OBVIOUS
    <2>1. rest[x] = [off |-> Len(out) + Start(q, lo, g), cnt |-> Cardinality(Neighbours(q, {g}))]
      BY DEF NewRows
    <2> HIDE DEF rest
    <2> QED
      BY <2>1, <1>3
  <1>6. rest \in Seq(RowSet) /\ Len(rest) = hi - lo
    <2>1. DOMAIN rest = 1 .. hi - lo /\ rest = [x \in DOMAIN rest |-> rest[x]] /\ hi - lo \in Nat
      BY DEF NewRows
    <2> HIDE DEF rest
    <2>2. rest \in [1 .. hi - lo -> RowSet]
      BY <2>1, <1>5
    <2> QED
      BY <2>1, <2>2, ListOfLength
  <1> HIDE DEF rest
  <1>7. /\ rows \o rest \in Seq(RowSet) /\ Len(rows \o rest) = hi
        /\ \A x \in 1 .. hi : (rows \o rest)[x] = IF x <= lo THEN rows[x] ELSE rest[x - lo]
    <2>1. /\ rows \o rest \in Seq(RowSet) /\ Len(rows \o rest) = Len(rows) + Len(rest)
          /\ \A x \in 1 .. Len(rows) + Len(rest) :
               (rows \o rest)[x] = IF x <= Len(rows) THEN rows[x] ELSE rest[x - Len(rows)]
      BY <1>1, <1>6, ConcatProperties
    <2>2. Len(rows) + Len(rest) = hi /\ Len(rows) = lo
      BY <1>1, <1>6
    <2> QED
      BY <2>1, <2>2
  <1>8. out \o more \in Seq(All \X Nat) /\ Len(out \o more) = Len(out) + Start(q, lo, hi)
    BY <1>1, <1>4, ConcatProperties
  <1>9. /\ IsFiniteSet(Found(Of(rs, 0 .. hi - 1)))
        /\ Cardinality(Found(Of(rs, 0 .. hi - 1))) = Len(out) + Start(q, lo, hi)
    <2>1. IsFiniteSet(T) /\ Cardinality(T) = Start(q, lo, hi)
      BY CountsAreFound DEF Start
    <2>2. IsFiniteSet(S) /\ Cardinality(S) = Len(out)
      BY DEF Files
    <2>3. (0 .. lo - 1) \cap (lo .. hi - 1) = {} /\ (0 .. lo - 1) \cup (lo .. hi - 1) = 0 .. hi - 1
      OBVIOUS
    <2>4. /\ IsFiniteSet(Found(Of(rs, (0 .. lo - 1) \cup (lo .. hi - 1))))
          /\ Cardinality(Found(Of(rs, (0 .. lo - 1) \cup (lo .. hi - 1)))) = Cardinality(S) + Cardinality(T)
      BY <2>1, <2>2, <2>3, FoundOfTwo
    <2> HIDE DEF S, T
    <2> QED
      BY <2>1, <2>2, <2>3, <2>4
  <1>10. ASSUME NEW g \in 0 .. hi - 1 PROVE Row(rs, (rows \o rest)[g + 1], out \o more, g)
    <2>1. CASE g < lo
      <3>1. g \in 0 .. lo - 1 /\ g + 1 \in 1 .. hi /\ g + 1 <= lo /\ g + 1 \in 1 .. Len(rows)
        BY <2>1, <1>1
      <3>2. (rows \o rest)[g + 1] = rows[g + 1]
        BY <3>1, <1>7
      <3>3. rows[g + 1] \in RowSet /\ Row(rs, rows[g + 1], out, g)
        BY <3>1, <1>1 DEF Files
      <3>4. Row(rs, rows[g + 1], out \o more, g)
        BY <3>3, <1>1, <1>4, OldRow
      <3> QED
        BY <3>2, <3>4
    <2>2. CASE ~(g < lo)
      <3>1. g + 1 \in 1 .. hi /\ ~(g + 1 <= lo) /\ (g + 1) - lo \in 1 .. hi - lo
            /\ lo + ((g + 1) - lo) - 1 = g
        BY <2>2
      <3>2. (rows \o rest)[g + 1] = rest[(g + 1) - lo]
        BY <3>1, <1>7
      <3>3. Row(rs, rest[(g + 1) - lo], out \o more, g)
        <4> PICK x \in 1 .. hi - lo : x = (g + 1) - lo
          BY <3>1
        <4>1. Row(rs, rest[x], out \o more, lo + x - 1)
          BY <1>5
        <4> QED
          BY <4>1, <3>1
      <3> QED
        BY <3>2, <3>3
    <2> QED
      BY <2>1, <2>2
  <1>11. Files(rs, rows \o rest, out \o more, hi)
    BY <1>7, <1>8, <1>9, <1>10 DEF Files
  <1> QED
    BY <1>8, <1>11 DEF more, rest

-----------------------------------------------------------------------------
(* The buckets of the nodes *)

LEMMA Times == ASSUME NEW x \in Int, NEW y \in Int, NEW s \in Nat, x <= y PROVE x * s <= y * s
  OBVIOUS

\* There are buckets for all nodes.
LEMMA BucketsCover == ASSUME LogsTypeOK PROVE bucket_size \in Nat /\ bucket_size > 0 /\ N <= B * bucket_size
  <1>1. N \in Nat /\ N > 0 /\ B \in Nat /\ B > 0
    BY DEF LogsTypeOK
  <1> DEFINE a == N + B - 1
             s == a \div B
             r == a % B
  <1>2. a \in Nat /\ a >= B
    BY <1>1
  <1>3. a = B * s + r /\ r \in 0 .. B - 1 /\ s \in Int
    BY <1>1, <1>2
  <1>4. s \in Nat /\ s > 0
    BY <1>1, <1>2
  <1>5. N <= B * s
    <2> HIDE DEF s, r
    <2>1. \A z \in Int : N + B - 1 = z + r => N <= z
      BY <1>1, <1>3
    <2>2. B * s \in Int
      BY <1>1, <1>3
    <2> QED
      BY <2>1, <2>2, <1>3
  <1> QED
    BY <1>4, <1>5 DEF bucket_size

\* Quotients.
LEMMA Quotient ==
    ASSUME NEW g \in Nat, NEW s \in Nat, s > 0
    PROVE  g \div s \in Nat /\ (g \div s) * s <= g /\ g < (g \div s + 1) * s
  <1> DEFINE d == g \div s
             r == g % s
  <1>1. g = s * d + r /\ r \in 0 .. s - 1 /\ d \in Nat
    OBVIOUS
  <1> HIDE DEF d, r
  <1>2. s * d = d * s /\ d * s \in Int /\ (d + 1) * s = d * s + s
    BY <1>1
  <1>3. d * s <= g /\ g < d * s + s
    BY <1>1, <1>2
  <1> QED
    BY <1>1, <1>2, <1>3 DEF d

LEMMA QuotientIs ==
    ASSUME NEW g \in Nat, NEW s \in Nat, s > 0, NEW k \in Nat, k * s <= g, g < (k + 1) * s
    PROVE  g \div s = k
  <1> PICK d : d = g \div s
    OBVIOUS
  <1>1. d \in Nat /\ d * s <= g /\ g < (d + 1) * s
    BY Quotient
  <1>2. ~(d >= k + 1)
    <2> SUFFICES ASSUME d >= k + 1 PROVE FALSE
      OBVIOUS
    <2>1. (k + 1) * s <= d * s
      BY <1>1, Times
    <2>2. (k + 1) * s \in Int /\ d * s \in Int
      BY <1>1
    <2> QED
      BY <2>1, <2>2, <1>1
  <1>3. ~(k >= d + 1)
    <2> SUFFICES ASSUME k >= d + 1 PROVE FALSE
      OBVIOUS
    <2>1. (d + 1) * s <= k * s
      BY <1>1, Times
    <2>2. (d + 1) * s \in Int /\ k * s \in Int
      BY <1>1
    <2> QED
      BY <2>1, <2>2, <1>1
  <1> QED
    BY <1>1, <1>2, <1>3

\* A node is in the range of its bucket and of no other one.
LEMMA OwnRange ==
    ASSUME LogsTypeOK, NEW g \in Nat, g < N
    PROVE  /\ gid_to_bucket(g) \in 0 .. B - 1
           /\ \A k \in 0 .. B - 1 : g \in gids(k) <=> gid_to_bucket(g) = k
  <1> PICK s : s = bucket_size
    OBVIOUS
  <1>1. s \in Nat /\ s > 0 /\ N <= B * s /\ N \in Nat /\ B \in Nat /\ B > 0
    BY BucketsCover DEF LogsTypeOK
  <1> PICK d : d = g \div s
    OBVIOUS
  <1>2. d \in Nat /\ d * s <= g /\ g < (d + 1) * s
    BY <1>1, Quotient
  <1>3. d < B
    <2> SUFFICES ASSUME B <= d PROVE FALSE
      BY <1>1, <1>2
    <2>1. B * s <= d * s
      BY <1>1, <1>2, Times
    <2>2. B * s \in Int /\ d * s \in Int
      BY <1>1, <1>2
    <2> QED
      BY <2>1, <2>2, <1>1, <1>2
  <1>4. gid_to_bucket(g) = d /\ d \in 0 .. B - 1
    BY <1>1, <1>2, <1>3 DEF gid_to_bucket, Smaller
  <1>5. ASSUME NEW k \in 0 .. B - 1
        PROVE  g \in gids(k) <=> k * s <= g /\ g < (k + 1) * s
    <2> PICK x \in Int : x = k * s
      BY <1>1
    <2> PICK y \in Int : y = (k + 1) * s
      BY <1>1
    <2>1. gids(k) = Smaller(x, N) .. Smaller(y, N) - 1
      BY DEF gids, bucket_base, bucket_limit
    <2> QED
      BY <2>1, <1>1 DEF Smaller
  <1>6. ASSUME NEW k \in 0 .. B - 1 PROVE g \in gids(k) <=> d = k
    <2>1. CASE d = k
      BY <2>1, <1>2, <1>5
    <2>2. CASE d # k
      <3>1. k \in Nat
        OBVIOUS
      <3>2. ~(k * s <= g /\ g < (k + 1) * s)
        BY <2>2, <3>1, <1>1, QuotientIs
      <3> QED
        BY <2>2, <3>2, <1>5
    <2> QED
      BY <2>1, <2>2
  <1> QED
    BY <1>4, <1>6

\* The buckets follow each other from the first node to the last.
LEMMA BucketBounds ==
    ASSUME LogsTypeOK
    PROVE  /\ bucket_base(0) = 0 /\ bucket_base(B) = N
           /\ \A k \in 0 .. B : /\ bucket_base(k) \in Nat /\ bucket_limit(k) \in Nat
                                /\ bucket_base(k) <= bucket_limit(k)
                                /\ bucket_base(k + 1) = bucket_limit(k)
  <1> PICK s : s = bucket_size
    OBVIOUS
  <1>1. s \in Nat /\ s > 0 /\ N <= B * s /\ N \in Nat /\ B \in Nat /\ B > 0
    BY BucketsCover DEF LogsTypeOK
  <1>2. bucket_base(0) = 0
    <2>1. 0 * s = 0
      BY <1>1
    <2> QED
      BY <2>1, <1>1 DEF bucket_base, Smaller
  <1>3. bucket_base(B) = N
    <2> PICK x \in Int : x = B * s
      BY <1>1
    <2>1. bucket_base(B) = Smaller(x, N) /\ N <= x
      BY <1>1 DEF bucket_base
    <2> QED
      BY <2>1, <1>1 DEF Smaller
  <1>4. ASSUME NEW k \in 0 .. B
        PROVE  /\ bucket_base(k) \in Nat /\ bucket_limit(k) \in Nat
               /\ bucket_base(k) <= bucket_limit(k) /\ bucket_base(k + 1) = bucket_limit(k)
    <2>0. k \in Nat
      BY <1>1
    <2> PICK x : x = k * s
      OBVIOUS
    <2> PICK y : y = (k + 1) * s
      OBVIOUS
    <2>1. x \in Nat /\ y \in Nat /\ x <= y
      BY <2>0, <1>1, Times
    <2>2. bucket_base(k) = Smaller(x, N) /\ bucket_limit(k) = Smaller(y, N)
      BY DEF bucket_base, bucket_limit
    <2>3. bucket_base(k + 1) = bucket_limit(k)
      BY DEF bucket_base, bucket_limit
    <2> QED
      BY <2>1, <2>2, <2>3, <1>1 DEF Smaller
  <1> QED
    BY <1>2, <1>3, <1>4

-----------------------------------------------------------------------------
(* Every record is in the log of its bucket, or in a buffer for it *)

OwnBucket(q, k) == \A x \in DOMAIN q : gid_to_bucket(Gid[q[x]]) = k
Own(bufs, curs, logs) ==
    /\ \A t \in Threads : OwnBucket(bufs[t], curs[t])
    /\ \A k \in 0 .. B - 1 : OwnBucket(logs[k], k)
OwnLogs ==
    /\ \A r \in All : Gid[r] < N
    /\ Own(buf, cur_b, log)
    /\ stage # "compact" => b = 0 /\ acc_ids = 0 /\ idx = <<>> /\ ids = <<>>

LEMMA NoneOwn == ASSUME NEW k PROVE OwnBucket(<<>>, k)
  <1>1. \A x : x \notin DOMAIN <<>>
    OBVIOUS
  <1> QED
    BY <1>1 DEF OwnBucket

\* flush() writes a buffer to the log it is for.
LEMMA WrittenOwn ==
    ASSUME NEW logs \in [0 .. B - 1 -> Seq(All)], NEW q \in Seq(All), NEW k, q # <<>> => k \in 0 .. B - 1,
           \A m \in 0 .. B - 1 : OwnBucket(logs[m], m), OwnBucket(q, k)
    PROVE  \A m \in 0 .. B - 1 : OwnBucket(Written(logs, k, q)[m], m)
  <1>1. CASE q = <<>>
    BY <1>1 DEF Written
  <1>2. CASE q # <<>>
    <2>1. k \in 0 .. B - 1 /\ Written(logs, k, q) = [logs EXCEPT ![k] = logs[k] \o q]
      BY <1>2 DEF Written
    <2>2. OwnBucket(logs[k] \o q, k)
      <3>1. logs[k] \in Seq(All) /\ OwnBucket(logs[k], k)
        BY <2>1
      <3> PICK s : s = logs[k]
        OBVIOUS
      <3>2. /\ s \o q \in Seq(All) /\ Len(s \o q) = Len(s) + Len(q)
            /\ \A x \in 1 .. Len(s) + Len(q) : (s \o q)[x] = IF x <= Len(s) THEN s[x] ELSE q[x - Len(s)]
        BY <3>1, ConcatProperties
      <3>3. DOMAIN (s \o q) = 1 .. Len(s) + Len(q)
        BY <3>2
      <3>4. Len(s) \in Nat /\ Len(q) \in Nat /\ DOMAIN s = 1 .. Len(s) /\ DOMAIN q = 1 .. Len(q)
        BY <3>1
      <3>5. ASSUME NEW x \in 1 .. Len(s) + Len(q) PROVE gid_to_bucket(Gid[(s \o q)[x]]) = k
        <4>1. CASE x <= Len(s)
          <5>1. x \in DOMAIN s /\ (s \o q)[x] = s[x]
            BY <4>1, <3>2, <3>4
          <5> QED
            BY <5>1, <3>1 DEF OwnBucket
        <4>2. CASE ~(x <= Len(s))
          <5>1. x - Len(s) \in DOMAIN q /\ (s \o q)[x] = q[x - Len(s)]
            BY <4>2, <3>2, <3>4
          <5> QED
            BY <5>1 DEF OwnBucket
        <4> QED
          BY <4>1, <4>2
      <3> QED
        BY <3>3, <3>5 DEF OwnBucket
    <2> QED
      BY <2>1, <2>2
  <1> QED
    BY <1>1, <1>2

LEMMA AppendOwn ==
    ASSUME NEW q \in Seq(All), NEW r, NEW k, gid_to_bucket(Gid[r]) = k, OwnBucket(q, k)
    PROVE  OwnBucket(Append(q, r), k)
  <1>1. /\ DOMAIN Append(q, r) = 1 .. Len(q) + 1 /\ Len(q) \in Nat /\ DOMAIN q = 1 .. Len(q)
        /\ Append(q, r)[Len(q) + 1] = r /\ \A x \in 1 .. Len(q) : Append(q, r)[x] = q[x]
    OBVIOUS
  <1>2. ASSUME NEW x \in 1 .. Len(q) + 1 PROVE gid_to_bucket(Gid[Append(q, r)[x]]) = k
    <2>1. CASE x = Len(q) + 1
      BY <2>1, <1>1
    <2>2. CASE x # Len(q) + 1
      <3>1. x \in 1 .. Len(q)
        BY <2>2, <1>1
      <3> QED
        BY <3>1, <1>1 DEF OwnBucket
    <2> QED
      BY <2>1, <2>2
  <1> QED
    BY <1>1, <1>2 DEF OwnBucket

LEMMA LogTypes ==
    ASSUME StagesInv
    PROVE  /\ log \in [0 .. B - 1 -> Seq(All)] /\ buf \in [Threads -> Seq(All)]
           /\ cur_b \in [Threads -> Int]
           /\ \A t \in Threads : buf[t] \in Seq(All) /\ (buf[t] # <<>> => cur_b[t] \in 0 .. B - 1)
  BY BufferedRecords DEF StagesInv, LogsInv, LogsTypeOK, BuffersHaveLogs, All

LEMMA FlushOwn ==
    ASSUME StagesInv, Own(buf, cur_b, log), NEW t \in Threads
    PROVE  Own([buf EXCEPT ![t] = <<>>], cur_b, Written(log, cur_b[t], buf[t]))
  <1>1. /\ log \in [0 .. B - 1 -> Seq(All)] /\ buf \in [Threads -> Seq(All)]
        /\ buf[t] \in Seq(All) /\ (buf[t] # <<>> => cur_b[t] \in 0 .. B - 1)
    BY LogTypes
  <1>2. \A m \in 0 .. B - 1 : OwnBucket(Written(log, cur_b[t], buf[t])[m], m)
    BY <1>1, WrittenOwn DEF Own
  <1>3. \A u \in Threads : OwnBucket([buf EXCEPT ![t] = <<>>][u], cur_b[u])
    <2>1. \A u \in Threads : [buf EXCEPT ![t] = <<>>][u] = IF u = t THEN <<>> ELSE buf[u]
      BY <1>1
    <2> QED
      BY <2>1, NoneOwn DEF Own
  <1> QED
    BY <1>2, <1>3 DEF Own

\* The same, one step later.
LEMMA OwnNext ==
    ASSUME UNCHANGED <<N, B>>, Own(buf', cur_b', log'), \A r \in All : Gid[r] < N,
           stage' # "compact" => b' = 0 /\ acc_ids' = 0 /\ idx' = <<>> /\ ids' = <<>>
    PROVE  OwnLogs'
  <1>1. \A g : gid_to_bucket(g)' = gid_to_bucket(g)
    BY DEF gid_to_bucket, bucket_size
  <1> QED
    BY <1>1 DEF OwnLogs, Own, OwnBucket

LEMMA AppendRecordOwn ==
    ASSUME StagesInv, Own(buf, cur_b, log), NEW t \in Threads, NEW r \in Records, AppendRecord(t, r)
    PROVE  Own(buf', cur_b', log')
  <1> PICK k : k = gid_to_bucket(Gid[r])
    OBVIOUS
  <1>1. /\ cur_b' = [cur_b EXCEPT ![t] = k] /\ log' = SwitchTo(t, k).logs
        /\ buf' = [buf EXCEPT ![t] = Append(SwitchTo(t, k).rest, r)]
    BY DEF AppendRecord
  <1>2. /\ log \in [0 .. B - 1 -> Seq(All)] /\ buf \in [Threads -> Seq(All)]
        /\ cur_b \in [Threads -> Int] /\ buf[t] \in Seq(All)
    BY LogTypes
  <1>3. \A u \in Threads : /\ buf'[u] = IF u = t THEN Append(SwitchTo(t, k).rest, r) ELSE buf[u]
                           /\ cur_b'[u] = IF u = t THEN k ELSE cur_b[u]
    BY <1>1, <1>2
  <1>4. /\ SwitchTo(t, k).rest \in Seq(All) /\ OwnBucket(SwitchTo(t, k).rest, k)
        /\ \A m \in 0 .. B - 1 : OwnBucket(log'[m], m)
    <2>1. CASE cur_b[t] = k
      <3>1. SwitchTo(t, k).rest = buf[t] /\ log' = log
        BY <2>1, <1>1 DEF SwitchTo
      <3> QED
        BY <3>1, <2>1, <1>2 DEF Own
    <2>2. CASE cur_b[t] # k
      <3>1. SwitchTo(t, k).rest = <<>> /\ log' = Written(log, cur_b[t], buf[t])
        BY <2>2, <1>1 DEF SwitchTo
      <3>2. \A m \in 0 .. B - 1 : OwnBucket(log'[m], m)
        BY <3>1, FlushOwn DEF Own
      <3>3. <<>> \in Seq(All) /\ OwnBucket(<<>>, k)
        BY NoneOwn
      <3> QED
        BY <3>1, <3>2, <3>3
    <2> QED
      BY <2>1, <2>2
  <1>5. OwnBucket(Append(SwitchTo(t, k).rest, r), k)
    BY <1>4, AppendOwn
  <1> QED
    BY <1>3, <1>4, <1>5 DEF Own

LEMMA OpenOwn ==
    ASSUME StagesInv, Own(buf, cur_b, log), NEW d \in BOOLEAN, OpenLogs(d)
    PROVE  Own(buf', cur_b', log')
  <1>1. buf' = [t \in Threads |-> <<>>] /\ log' = OpenedLogs(d)
    BY DEF OpenLogs
  <1>2. \A t \in Threads : OwnBucket(buf'[t], cur_b'[t])
    BY <1>1, NoneOwn
  <1>3. \A k \in 0 .. B - 1 : OwnBucket(log'[k], k)
    BY <1>1, NoneOwn DEF OpenedLogs, Own
  <1> QED
    BY <1>2, <1>3 DEF Own

LEMMA InitOwn == ASSUME StagesInit PROVE OwnLogs
  <1>1. /\ \A r \in All : Gid[r] < N
        /\ buf = [t \in Threads |-> <<>>] /\ b = 0 /\ acc_ids = 0 /\ idx = <<>> /\ ids = <<>>
    BY DEF StagesInit, LogsInit, All
  <1>2. \A t \in Threads : OwnBucket(buf[t], cur_b[t])
    BY <1>1, NoneOwn
  <1>3. ASSUME NEW k \in 0 .. B - 1 PROVE OwnBucket(log[k], k)
    <2>1. log[k] = <<>> \/ (k = gid_to_bucket(Gid[Stale]) /\ log[k] = <<Stale>>)
      BY DEF StagesInit, LogsInit
    <2>2. k = gid_to_bucket(Gid[Stale]) => OwnBucket(<<Stale>>, k)
      BY DEF OwnBucket
    <2> QED
      BY <2>1, <2>2, NoneOwn
  <1> QED
    BY <1>1, <1>2, <1>3 DEF OwnLogs, Own

LEMMA NextOwn == ASSUME StagesInv, OwnLogs, [StagesNext]_allvars PROVE OwnLogs'
  <1> USE DEF OwnLogs
  <1>0. buf \in [Threads -> Seq(All)] /\ Own(buf, cur_b, log)
    BY LogTypes
  <1>1. UNCHANGED <<N, B>>
    BY DEF StagesNext, allvars, logvars, BeginDump, OpenLogs, EndDump, CloseLogs, BeginCross,
           MoveIndexes, BeginPair, Produce, EndPair, Write, LogStep, FlushIfFull, AppendRecord,
           Flush, BeginFlush, FlushThread, EndCross, EndStages, BeginCompaction, CompactStep,
           Compaction, SkipBucket, CompactBucket, FinishCompaction, sizes
  <1>2. CASE Write
    <2>1. PICK t \in Threads : FlushIfFull(t) \/ \E r \in Records : AppendRecord(t, r)
      BY <1>2 DEF Write, LogStep
    <2>2. stage' = stage /\ UNCHANGED <<b, acc_ids, idx, ids>>
      BY <1>2, <2>1 DEF Write, FlushIfFull, AppendRecord, output
    <2>3. CASE FlushIfFull(t)
      <3>1. CASE Used(buf[t]) + just[t] > cap[t]
        <4>1. /\ log' = Written(log, cur_b[t], buf[t]) /\ buf' = [buf EXCEPT ![t] = <<>>]
              /\ cur_b' = cur_b
          BY <2>3, <3>1 DEF FlushIfFull
        <4> QED
          BY <4>1, <2>2, <1>0, <1>1, FlushOwn, OwnNext
      <3>2. CASE ~(Used(buf[t]) + just[t] > cap[t])
        <4>1. log' = log /\ buf' = [buf EXCEPT ![t] = buf[t]] /\ cur_b' = cur_b
          BY <2>3, <3>2 DEF FlushIfFull
        <4>2. buf' = buf
          BY <4>1, <1>0
        <4> QED
          BY <4>1, <4>2, <2>2, <1>0, <1>1, OwnNext
      <3> QED
        BY <3>1, <3>2
    <2>4. CASE \E r \in Records : AppendRecord(t, r)
      <3>1. Own(buf', cur_b', log')
        BY <2>4, <1>0, AppendRecordOwn
      <3> QED
        BY <3>1, <2>2, <1>1, OwnNext
    <2> QED
      BY <2>1, <2>3, <2>4
  <1>3. CASE Flush
    <2>1. stage' = stage /\ UNCHANGED <<b, acc_ids, idx, ids, cur_b>>
      BY <1>3 DEF Flush, BeginFlush, FlushThread, output, staging
    <2>2. CASE BeginFlush
      BY <2>1, <2>2, <1>0, <1>1, OwnNext DEF BeginFlush, staging
    <2>3. ASSUME NEW t \in Threads, FlushThread(t) PROVE OwnLogs'
      <3>1. log' = Written(log, cur_b[t], buf[t]) /\ buf' = [buf EXCEPT ![t] = <<>>]
        BY <2>3 DEF FlushThread
      <3> QED
        BY <3>1, <2>1, <1>0, <1>1, FlushOwn, OwnNext
    <2> QED
      BY <2>2, <2>3, <1>3 DEF Flush
  <1>4. CASE BeginDump
    <2>1. Own(buf', cur_b', log')
      BY <1>4, <1>0, OpenOwn DEF BeginDump
    <2>2. UNCHANGED <<b, acc_ids, idx, ids>> /\ stage = "open"
      BY <1>4 DEF BeginDump, OpenLogs, output
    <2> QED
      BY <2>1, <2>2, <1>1, OwnNext
  <1>5. CASE BeginCross
    <2>1. UNCHANGED <<b, acc_ids, idx, ids, stage>>
      BY <1>5 DEF BeginCross, OpenLogs, output, logvars
    <2>2. Own(buf', cur_b', log')
      <3>1. CASE one_process
        BY <3>1, <1>5, <1>0 DEF BeginCross, logvars
      <3>2. CASE ~one_process
        BY <3>2, <1>5, <1>0, OpenOwn DEF BeginCross
      <3> QED
        BY <3>1, <3>2
    <2> QED
      BY <2>1, <2>2, <1>1, OwnNext
  <1>6. CASE EndDump \/ MoveIndexes \/ BeginPair \/ EndPair \/ EndCross \/ UNCHANGED allvars
    <2>1. /\ UNCHANGED <<b, acc_ids, idx, ids, buf, cur_b, log>>
          /\ stage # "compact" \/ stage' = stage
      BY <1>6 DEF EndDump, CloseLogs, MoveIndexes, BeginPair, Produce, EndPair, EndCross, allvars,
                  logvars, output, staging
    <2> QED
      BY <2>1, <1>0, <1>1, OwnNext
  <1>7. CASE EndStages
    BY <1>7, <1>0, <1>1, OwnNext DEF EndStages, BeginCompaction, staging
  <1>8. CASE CompactStep
    <2>1. stage' = "compact" /\ UNCHANGED <<buf, cur_b>> /\ (log' = log \/ log' = [log EXCEPT ![b] = <<>>])
      BY <1>8 DEF CompactStep, Compaction, SkipBucket, CompactBucket, FinishCompaction, staging
    <2>2. \A k \in 0 .. B - 1 : log'[k] = log[k] \/ log'[k] = <<>>
      BY <2>1, LogTypes
    <2>3. Own(buf', cur_b', log')
      BY <2>1, <2>2, <1>0, NoneOwn DEF Own
    <2> QED
      BY <2>1, <2>3, <1>1, OwnNext
  <1> QED
    BY <1>2, <1>3, <1>4, <1>5, <1>6, <1>7, <1>8 DEF StagesNext

-----------------------------------------------------------------------------
(* The compaction *)

\* The buckets before b are in the files, and the logs from b on have what was found
\* for their nodes.
Compacting ==
    /\ b \in 0 .. B /\ acc_ids = Len(ids)
    /\ Files(Produced, idx, ids, bucket_base(b))
    /\ \A k \in b .. B - 1 : Uncompacted(log[k], Produced, gids(k))
    /\ phase = "done" => b = B /\ total_ids = acc_ids
FilesInv == OwnLogs /\ (stage = "compact" => Compacting)

LEMMA ProducedAreRecords == Produced \subseteq Records
  BY DEF Produced

\* When the last process has closed the logs, every log has what was found for the
\* nodes of its bucket, each record once.
LEMMA LogsComplete ==
    ASSUME StagesInv, OwnLogs, stage = "cross", phase = "closed", NEW k \in 0 .. B - 1
    PROVE  Uncompacted(log[k], Produced, gids(k))
  <1>0. LogsTypeOK /\ log \in [0 .. B - 1 -> Seq(All)]
    BY LogTypes DEF StagesInv, LogsInv
  <1>1. /\ \A r \in Produced : \E p : Places(buf, log, r) = {p}
        /\ \A r \in All \ Produced : Places(buf, log, r) = {}
    BY DEF StagesInv, OnePlace, All
  <1>2. buf \in [Threads -> Seq(All)] /\ \A t \in Threads : buf[t] = <<>>
    BY LogTypes DEF StagesInv, LogsInv, LogPhases
  <1>3. \A r, p : p \in Places(buf, log, r) <=>
            \E m \in 0 .. B - 1 : \E x \in DOMAIN log[m] : log[m][x] = r /\ p = <<"log", m, x>>
    <2>1. \A x : x \notin DOMAIN <<>>
      OBVIOUS
    <2>2. DOMAIN log = 0 .. B - 1 /\ DOMAIN buf = Threads
      BY <1>0, <1>2
    <2> SUFFICES ASSUME NEW r, NEW p
                 PROVE  p \in Places(buf, log, r) <=>
                          \E m \in 0 .. B - 1 : \E x \in DOMAIN log[m] : log[m][x] = r /\ p = <<"log", m, x>>
      OBVIOUS
    <2>3. p \in Places(buf, log, r) <=>
               \/ \E t \in DOMAIN buf : \E x \in DOMAIN buf[t] :
                    buf[t][x] = r /\ p = <<"buffer", t, x>>
               \/ \E m \in DOMAIN log : \E x \in DOMAIN log[m] :
                    log[m][x] = r /\ p = <<"log", m, x>>
      BY PlaceOf
    <2>4. ~\E t \in DOMAIN buf : \E x \in DOMAIN buf[t] : buf[t][x] = r /\ p = <<"buffer", t, x>>
      BY <2>1, <2>2, <1>2
    <2> QED
      BY <2>2, <2>3, <2>4
  <1>4. \A r \in All : Gid[r] \in Nat /\ Gid[r] < N
    BY RecordsAssumption DEF All, OwnLogs
  <1>5. \A r \in All : \A m \in 0 .. B - 1 : Gid[r] \in gids(m) <=> gid_to_bucket(Gid[r]) = m
    BY <1>0, <1>4, OwnRange
  <1>6. ASSUME NEW x \in DOMAIN log[k] PROVE log[k][x] \in Of(Produced, gids(k))
    <2>1. log[k][x] \in All
      <3>1. log[k] \in Seq(All)
        BY <1>0
      <3> PICK q : q = log[k]
        OBVIOUS
      <3> QED
        BY <3>1
    <2>2. <<"log", k, x>> \in Places(buf, log, log[k][x])
      BY <1>3
    <2>3. log[k][x] \in Produced
      BY <2>1, <2>2, <1>1
    <2>4. gid_to_bucket(Gid[log[k][x]]) = k
      BY DEF OwnLogs, Own, OwnBucket
    <2> QED
      BY <2>1, <2>3, <2>4, <1>5 DEF Of
  <1>7. log[k] \in Seq(Of(Produced, gids(k)))
    <2>1. log[k] \in Seq(All)
      BY <1>0
    <2> PICK q : q = log[k]
      OBVIOUS
    <2>2. DOMAIN q = 1 .. Len(q) /\ Len(q) \in Nat /\ q = [x \in 1 .. Len(q) |-> q[x]]
      BY <2>1
    <2>3. q \in [1 .. Len(q) -> Of(Produced, gids(k))]
      BY <2>2, <1>6
    <2>4. q \in Seq(Of(Produced, gids(k)))
      BY <2>2, <2>3, ListOfLength
    <2> QED
      BY <2>4
  <1>8. ASSUME NEW x \in DOMAIN log[k], NEW y \in DOMAIN log[k], log[k][x] = log[k][y] PROVE x = y
    <2> PICK r : r = log[k][x]
      OBVIOUS
    <2>1. <<"log", k, x>> \in Places(buf, log, r) /\ <<"log", k, y>> \in Places(buf, log, r)
      BY <1>3, <1>8
    <2>2. r \in Produced
      BY <1>6 DEF Of
    <2>3. PICK p : Places(buf, log, r) = {p}
      BY <2>2, <1>1
    <2>4. <<"log", k, x>> = <<"log", k, y>>
      BY <2>1, <2>3
    <2> QED
      BY <2>4
  <1>9. ASSUME NEW r \in Of(Produced, gids(k)) PROVE \E x \in DOMAIN log[k] : log[k][x] = r
    <2>1. r \in Produced /\ Gid[r] \in gids(k) /\ r \in All
      BY ProducedAreRecords DEF Of, All
    <2>2. PICK p : p \in Places(buf, log, r)
      BY <2>1, <1>1
    <2>31. PICK m \in 0 .. B - 1 : \E x \in DOMAIN log[m] : log[m][x] = r
      BY <2>2, <1>3
    <2>3. PICK x \in DOMAIN log[m] : log[m][x] = r
      BY <2>31
    <2>4. gid_to_bucket(Gid[r]) = m
      BY <2>3 DEF OwnLogs, Own, OwnBucket
    <2>5. m = k
      BY <2>1, <2>4, <1>5
    <2> QED
      BY <2>3, <2>5
  <1> QED
    BY <1>7, <1>8, <1>9 DEF Uncompacted

\* Files without a node.
LEMMA NoFiles == ASSUME NEW rs PROVE Files(rs, <<>>, <<>>, 0)
  <1>1. 0 .. 0 - 1 = {}
    OBVIOUS
  <1>2. Of(rs, 0 .. 0 - 1) = {}
    BY <1>1 DEF Of
  <1>3. Found({}) = {}
    BY FoundOf
  <1>4. Len(<<>>) = 0 /\ <<>> \in Seq(RowSet) /\ <<>> \in Seq(All \X Nat)
    OBVIOUS
  <1> QED
    BY <1>1, <1>2, <1>3, <1>4, FS_EmptySet DEF Files

\* The compaction begins.
LEMMA EndStagesFiles == ASSUME StagesInv, OwnLogs, EndStages PROVE Compacting'
  <1>1. /\ stage = "cross" /\ stage' = "compact" /\ pc = "start" /\ pc' = "done"
        /\ phase = "closed" /\ phase' = "compact" /\ UNCHANGED <<P, processed, i, j, N, B, todo, log>>
        /\ UNCHANGED <<b, acc_ids, idx, ids>>
    BY DEF EndStages, EndPlan, BeginCompaction, inputs, sizes, output
  <1>2. Produced' = Produced
    BY <1>1 DEF Produced
  <1>3. b = 0 /\ acc_ids = 0 /\ idx = <<>> /\ ids = <<>>
    BY <1>1 DEF OwnLogs
  <1>4. \A k \in 0 .. B - 1 : Uncompacted(log[k], Produced, gids(k))
    BY <1>1, LogsComplete
  <1>5. \A k : gids(k)' = gids(k) /\ bucket_base(k)' = bucket_base(k)
    BY <1>1 DEF gids, bucket_base, bucket_limit, bucket_size
  <1>6. bucket_base(0) = 0 /\ B \in Nat
    BY BucketBounds DEF StagesInv, LogsInv, LogsTypeOK
  <1>7. Files(Produced, idx, ids, bucket_base(b)) /\ Len(ids) = 0
    BY <1>3, <1>6, NoFiles
  <1>8. /\ b' \in 0 .. B' /\ acc_ids' = Len(ids') /\ phase' # "done"
    BY <1>1, <1>3, <1>6, <1>7
  <1>9. Files(Produced', idx', ids', bucket_base(b'))
    BY <1>1, <1>2, <1>7
  <1>10. \A k \in b' .. B' - 1 : Uncompacted(log'[k], Produced', gids(k))
    BY <1>1, <1>2, <1>3, <1>4
  <1> QED
    BY <1>5, <1>8, <1>9, <1>10 DEF Compacting

\* One bucket more, empty or not.
LEMMA CompactStepFiles ==
    ASSUME StagesInv, OwnLogs, stage = "compact", Compacting, CompactStep PROVE Compacting'
  <1>1. UNCHANGED <<P, processed, i, j, pc, stage, N, B, todo>>
    BY SameLoop DEF CompactStep, Compaction, SkipBucket, CompactBucket, FinishCompaction, sizes
  <1>2. Produced' = Produced
    BY <1>1 DEF Produced
  <1>3. \A k : gids(k)' = gids(k) /\ bucket_base(k)' = bucket_base(k)
    BY <1>1 DEF gids, bucket_base, bucket_limit, bucket_size
  <1>4. b \in 0 .. B /\ B \in Nat /\ LogsTypeOK /\ log \in [0 .. B - 1 -> Seq(All)]
    BY LogTypes DEF Compacting, StagesInv, LogsInv, LogsTypeOK
  <1>5. /\ bucket_base(b) \in Nat /\ bucket_limit(b) \in Nat /\ bucket_base(b) <= bucket_limit(b)
        /\ bucket_base(b + 1) = bucket_limit(b)
    BY <1>4, BucketBounds
  <1>6. SUFFICES /\ b' \in 0 .. B /\ acc_ids' = Len(ids')
                 /\ Files(Produced, idx', ids', bucket_base(b'))
                 /\ \A k \in b' .. B - 1 : Uncompacted(log'[k], Produced, gids(k))
                 /\ phase' = "done" => b' = B /\ total_ids' = acc_ids'
    BY <1>1, <1>2, <1>3 DEF Compacting
  <1>7. CASE SkipBucket
    <2>1. /\ b < B /\ b' = b + 1 /\ bucket_base(b) >= bucket_limit(b) /\ phase' = "compact"
          /\ UNCHANGED <<log, acc_ids, idx, ids>>
      BY <1>7 DEF SkipBucket
    <2>2. bucket_base(b') = bucket_base(b)
      BY <2>1, <1>5
    <2>3. b' \in 0 .. B /\ \A k \in b' .. B - 1 : k \in b .. B - 1
      BY <2>1, <1>4
    <2> QED
      BY <2>1, <2>2, <2>3 DEF Compacting
  <1>8. CASE CompactBucket
    <2> PICK q : q = log[b]
      OBVIOUS
    <2> PICK lo \in Nat : lo = bucket_base(b)
      BY <1>5
    <2> PICK hi \in Nat : hi = bucket_limit(b)
      BY <1>5
    <2>1. /\ b < B /\ b' = b + 1 /\ lo < hi /\ phase' = "compact" /\ log' = [log EXCEPT ![b] = <<>>]
      BY <1>8 DEF CompactBucket
    <2>2. \A g : prefix(b, g) = Start(q, lo, g)
      BY DEF prefix, Start
    <2>3. NoneCopied(b) = Blank(q, lo, hi)
      BY <2>2 DEF NoneCopied, Blank, gids
    <2>4. out_ids(b) = FoldLeft(CopyRecord, Blank(q, lo, hi), q).out
      BY <2>3 DEF out_ids
    <2>5. ids' = ids \o NewIds(q, lo, hi)
      <3>1. ids' = ids \o [x \in 1 .. prefix(b, hi) |-> out_ids(b)[x - 1]]
        BY <1>8 DEF CompactBucket
      <3> QED
        BY <3>1, <2>2, <2>4 DEF NewIds
    <2>6. acc_ids = Len(ids) /\ acc_ids' = Len(ids) + Start(q, lo, hi)
      BY <1>8, <2>2 DEF CompactBucket, Compacting
    <2>7. idx' = idx \o NewRows(q, lo, hi, Len(ids))
      <3>1. idx' = idx \o [x \in 1 .. hi - lo |->
                             [off |-> acc_ids + prefix(b, lo + x - 1), cnt |-> counts(log[b], lo + x - 1)]]
        BY <1>8 DEF CompactBucket
      <3>2. [x \in 1 .. hi - lo |->
                [off |-> acc_ids + prefix(b, lo + x - 1), cnt |-> counts(log[b], lo + x - 1)]]
              = NewRows(q, lo, hi, Len(ids))
        BY <2>2, <2>6 DEF NewRows, counts
      <3> QED
        BY <3>1, <3>2
    <2>8. Uncompacted(q, Produced, lo .. hi - 1)
      <3>1. b \in b .. B - 1
        BY <2>1, <1>4
      <3>2. Uncompacted(log[b], Produced, gids(b))
        BY <3>1 DEF Compacting
      <3> QED
        BY <3>2 DEF gids
    <2>9. Files(Produced, idx, ids, lo)
      BY DEF Compacting
    <2>10. /\ Files(Produced, idx \o NewRows(q, lo, hi, Len(ids)), ids \o NewIds(q, lo, hi), hi)
           /\ Len(ids \o NewIds(q, lo, hi)) = Len(ids) + Start(q, lo, hi)
      <3> PICK rs : rs = Produced
        OBVIOUS
      <3> PICK rows : rows = idx
        OBVIOUS
      <3> PICK out : out = ids
        OBVIOUS
      <3>1. rs \subseteq Records /\ Uncompacted(q, rs, lo .. hi - 1) /\ Files(rs, rows, out, lo)
        BY <2>8, <2>9, ProducedAreRecords
      <3>2. /\ Files(rs, rows \o NewRows(q, lo, hi, Len(out)), out \o NewIds(q, lo, hi), hi)
            /\ Len(out \o NewIds(q, lo, hi)) = Len(out) + Start(q, lo, hi)
        BY <3>1, <2>1, BucketDone
      <3> QED
        BY <3>2
    <2>11. Files(Produced, idx', ids', bucket_base(b')) /\ acc_ids' = Len(ids')
      BY <2>1, <2>5, <2>6, <2>7, <2>10, <1>5
    <2>12. b' \in 0 .. B /\ \A k \in b' .. B - 1 : k \in b .. B - 1 /\ k \in 0 .. B - 1 /\ k # b
      BY <2>1, <1>4
    <2>13. \A k \in b' .. B - 1 : log'[k] = log[k]
      BY <2>1, <2>12, <1>4
    <2>14. \A k \in b' .. B - 1 : Uncompacted(log'[k], Produced, gids(k))
      BY <2>12, <2>13 DEF Compacting
    <2> QED
      BY <2>1, <2>11, <2>12, <2>14
  <1>9. CASE FinishCompaction
    BY <1>9 DEF FinishCompaction, Compacting
  <1> QED
    BY <1>7, <1>8, <1>9 DEF CompactStep, Compaction

LEMMA NextFiles == ASSUME StagesInv, FilesInv, [StagesNext]_allvars PROVE FilesInv'
  <1>1. OwnLogs'
    BY NextOwn DEF FilesInv
  <1>2. ASSUME stage' = "compact" PROVE Compacting'
    <2>1. CASE EndStages
      BY <2>1, EndStagesFiles DEF FilesInv
    <2>2. CASE CompactStep
      BY <2>2, CompactStepFiles DEF FilesInv, CompactStep
    <2>3. CASE UNCHANGED allvars
      <3>1. /\ UNCHANGED <<P, processed, i, j, pc, stage, N, B, todo, b>>
            /\ UNCHANGED <<acc_ids, idx, ids, log, phase, total_ids>>
        BY <2>3, SameLoop DEF allvars, logvars
      <3>2. Produced' = Produced /\ \A k : gids(k)' = gids(k) /\ bucket_base(k)' = bucket_base(k)
        BY <3>1 DEF Produced, gids, bucket_base, bucket_limit, bucket_size
      <3>3. Compacting
        BY <3>1, <1>2 DEF FilesInv
      <3> QED
        BY <3>1, <3>2, <3>3 DEF Compacting
    <2>4. CASE BeginDump \/ EndDump \/ BeginCross \/ MoveIndexes \/ BeginPair \/ EndPair
      BY <2>4, <1>2 DEF BeginDump, EndDump, BeginCross, MoveIndexes, BeginPair, EndPair
    <2>5. CASE EndCross
      BY <2>5, <1>2 DEF EndCross
    <2>6. CASE Flush
      BY <2>6, <1>2 DEF Flush
    <2>7. CASE Write
      <3>1. stage' = stage /\ (stage = "dump" \/ pc = "search")
        BY <2>7 DEF Write
      <3> QED
        BY <3>1, <1>2 DEF StagesInv, LogsInv, StageOrder
    <2> QED
      BY <2>1, <2>2, <2>3, <2>4, <2>5, <2>6, <2>7 DEF StagesNext
  <1> QED
    BY <1>1, <1>2 DEF FilesInv

\* After the whole plan the records produced are those of the dump and of the
\* selected pairs.
AllFound == From(Self) \cup UNION {From(q) : q \in selected}

LEMMA AllProduced ==
    ASSUME StagesInv, EveryPairOnce, stage = "compact", procs \in {OnePerAnchor(P), AllAtOnce}
    PROVE  Produced = AllFound
  <1>1. pc = "done" /\ selected \subseteq Pairs(P) /\ P \in Nat
    BY Types DEF StagesInv, LogsInv, StageOrder, Inv, TypeOK
  <1>2. \A q \in Pairs(P) : processed[q] = IF q \in selected THEN 1 ELSE 0
    BY <1>1 DEF EveryPairOnce
  <1>3. Self \notin Pairs(P)
    <2>1. Pairs(P) \subseteq Nat \X Nat
      BY <1>1 DEF Pairs
    <2> QED
      BY <2>1, OriginAssumption
  <1>4. ASSUME NEW r \in Records PROVE r \in Produced <=> r \in AllFound
    <2>0. r \in AllFound <=> Origin[r] = Self \/ \E q \in selected : Origin[r] = q
      BY DEF AllFound, From
    <2>1. CASE Origin[r] = Self
      BY <2>0, <2>1 DEF Produced
    <2>2. CASE Origin[r] # Self /\ Origin[r] \in Pairs(P)
      <3>1. processed[Origin[r]] > 0 <=> Origin[r] \in selected
        BY <2>2, <1>2
      <3> QED
        BY <2>0, <2>2, <3>1, <1>1 DEF Produced
    <2>3. CASE Origin[r] # Self /\ Origin[r] \notin Pairs(P)
      BY <2>0, <2>3, <1>1 DEF Produced
    <2> QED
      BY <2>1, <2>2, <2>3
  <1>5. AllFound \subseteq Records /\ Produced \subseteq Records
    BY DEF AllFound, From, Produced
  <1> QED
    BY <1>4, <1>5

\* The slice that the row of a node delimits.
Delimited(out, row) == SubSeq(out, row.off + 1, row.off + row.cnt)
HasPiece(s, r) ==
    \E p \in 0 .. Len(s) : \A x \in 1 .. Count[r] : p + x <= Len(s) /\ s[p + x] = <<r, x>>

LEMMA SliceLength ==
    ASSUME NEW out \in Seq(All \X Nat), NEW row \in RowSet, row.off + row.cnt <= Len(out),
           NEW s, s = SubSeq(out, row.off + 1, row.off + row.cnt)
    PROVE  Len(s) = row.cnt /\ \A x \in 1 .. row.cnt : s[x] = out[row.off + x]
  <1> PICK o : o = row.off
    OBVIOUS
  <1> PICK c : c = row.cnt
    OBVIOUS
  <1>1. o \in Nat /\ c \in Nat /\ o + c <= Len(out) /\ Len(out) \in Nat
    BY DEF RowSet
  <1>2. \A x \in o + 1 .. o + c : out[x] \in All \X Nat
    <2>1. \A x \in o + 1 .. o + c : x \in 1 .. Len(out)
      BY <1>1
    <2> QED
      BY <2>1
  <1>3. o + 1 \in Int /\ o + c \in Int
    BY <1>1
  <1>4. /\ Len(s) = IF o + 1 <= o + c THEN (o + c) - (o + 1) + 1 ELSE 0
        /\ \A x \in 1 .. (o + c) - (o + 1) + 1 : s[x] = out[(o + 1) + x - 1]
    BY <1>2, <1>3, SubSeqProperties
  <1>5. (o + c) - (o + 1) + 1 = c /\ (o + 1 <= o + c \/ c = 0)
        /\ \A x \in 1 .. c : (o + 1) + x - 1 = o + x
    <2>1. (o + c) - (o + 1) + 1 = c
      BY <1>1
    <2>2. o + 1 <= o + c \/ c = 0
      BY <1>1
    <2>3. ASSUME NEW x \in 1 .. c PROVE (o + 1) + x - 1 = o + x
      BY <1>1
    <2> QED
      BY <2>1, <2>2, <2>3
  <1>6. Len(s) = c
    BY <1>4, <1>5
  <1>7. \A x \in 1 .. c : s[x] = out[o + x]
    BY <1>4, <1>5
  <1> QED
    BY <1>6, <1>7

LEMMA SliceOf ==
    ASSUME NEW r, NEW s, Count[r] \in Nat, NEW out, NEW row \in RowSet, Len(s) = row.cnt,
           \A x \in 1 .. row.cnt : s[x] = out[row.off + x], InOnePiece(row, out, r)
    PROVE  HasPiece(s, r)
  <1> PICK o : o = row.off
    OBVIOUS
  <1> PICK c : c = row.cnt
    OBVIOUS
  <1> PICK m \in Nat : m = Count[r]
    OBVIOUS
  <1>1. o \in Nat /\ c \in Nat
    BY DEF RowSet
  <1>2. PICK p \in 0 .. c : p + m <= c /\ \A x \in 1 .. m : out[o + p + x] = <<r, x>>
    BY DEF InOnePiece
  <1>3. ASSUME NEW x \in 1 .. m PROVE p + x <= c /\ p + x \in 1 .. c /\ o + (p + x) = o + p + x
    BY <1>1, <1>2
  <1>4. ASSUME NEW x \in 1 .. m PROVE p + x <= c /\ s[p + x] = <<r, x>>
    BY <1>2, <1>3
  <1> QED
    BY <1>4 DEF HasPiece

LEMMA RowDelimits ==
    ASSUME NEW rs, rs \subseteq Records, NEW g, NEW out \in Seq(All \X Nat), NEW row \in RowSet,
           Row(rs, row, out, g)
    PROVE  /\ Len(Delimited(out, row)) = Cardinality(Found(Of(rs, {g})))
           /\ \A r \in Of(rs, {g}) : HasPiece(Delimited(out, row), r)
  <1> PICK s : s = Delimited(out, row)
    OBVIOUS
  <1>1. row.off + row.cnt <= Len(out) /\ row.cnt = Cardinality(Found(Of(rs, {g})))
    BY DEF Row
  <1>2. s = SubSeq(out, row.off + 1, row.off + row.cnt)
    BY DEF Delimited
  <1>3. Len(s) = row.cnt /\ \A x \in 1 .. row.cnt : s[x] = out[row.off + x]
    BY <1>1, <1>2, SliceLength
  <1>4. ASSUME NEW r \in Of(rs, {g}) PROVE HasPiece(s, r)
    <2>1. Count[r] \in Nat
      BY RecordsAssumption DEF Of
    <2>2. InOnePiece(row, out, r)
      BY DEF Row
    <2> QED
      BY <2>1, <2>2, <1>3, SliceOf
  <1> QED
    BY <1>1, <1>3, <1>4

\* After the runner's plan, or a single process, the entry of every node in cand.idx
\* delimits in cand.ids exactly what the dump and the selected pairs found for
\* it, each record in one piece, for every number of nodes, buckets and threads
\* and whatever the order in which the threads wrote.
THEOREM CandidateFilesExact == StagesSpec => []CandidatesExact
  <1>1. StagesInit => FilesInv
    <2> SUFFICES ASSUME StagesInit PROVE FilesInv
      OBVIOUS
    <2>1. stage = "open"
      BY DEF StagesInit
    <2> QED
      BY <2>1, InitOwn DEF FilesInv
  <1>2. StagesInv /\ FilesInv /\ EveryPairOnce => CandidatesExact
    <2> SUFFICES ASSUME StagesInv, FilesInv, EveryPairOnce, phase = "done",
                        procs \in {OnePerAnchor(P), AllAtOnce}
                 PROVE  /\ Len(idx) = N
                        /\ total_ids = Len(ids) /\ total_ids = Cardinality(Found(AllFound))
                        /\ \A g \in 0 .. N - 1 :
                             /\ Len(Slice(g)) = Cardinality(Found({r \in AllFound : Gid[r] = g}))
                             /\ \A r \in {r \in AllFound : Gid[r] = g} : \E p \in 0 .. Len(Slice(g)) :
                                  \A x \in 1 .. Count[r] :
                                    p + x <= Len(Slice(g)) /\ Slice(g)[p + x] = <<r, x>>
      BY DEF CandidatesExact, AllFound
    <2>1. stage = "compact"
      BY DEF StagesInv, LogsInv, StageOrder
    <2>2. Compacting
      BY <2>1 DEF FilesInv
    <2>3. Produced = AllFound
      BY <2>1, AllProduced
    <2>4. N \in Nat /\ b = B /\ bucket_base(B) = N
      BY <2>2, BucketBounds DEF Compacting, StagesInv, LogsInv, LogsTypeOK
    <2>5. Files(AllFound, idx, ids, N) /\ total_ids = Len(ids)
      BY <2>2, <2>3, <2>4 DEF Compacting
    <2>6. Of(AllFound, 0 .. N - 1) = AllFound
      <3>1. ASSUME NEW r \in AllFound PROVE Gid[r] \in 0 .. N - 1
        <4>1. r \in All
          BY <2>3, ProducedAreRecords DEF All
        <4>2. Gid[r] < N
          BY <4>1 DEF FilesInv, OwnLogs
        <4>3. Gid[r] \in Nat
          BY <4>1, RecordsAssumption DEF All
        <4> QED
          BY <4>2, <4>3, <2>4
      <3> QED
        BY <3>1 DEF Of
    <2>7. Len(idx) = N /\ total_ids = Cardinality(Found(AllFound))
      BY <2>5, <2>6 DEF Files
    <2>8. ASSUME NEW g \in 0 .. N - 1
          PROVE  /\ Len(Slice(g)) = Cardinality(Found(Of(AllFound, {g})))
                 /\ \A r \in Of(AllFound, {g}) : \E p \in 0 .. Len(Slice(g)) :
                      \A x \in 1 .. Count[r] : p + x <= Len(Slice(g)) /\ Slice(g)[p + x] = <<r, x>>
      <3>1. g + 1 \in 1 .. Len(idx)
        BY <2>4, <2>7
      <3> PICK row : row = idx[g + 1]
        OBVIOUS
      <3>2. row \in RowSet /\ ids \in Seq(All \X Nat) /\ Row(AllFound, row, ids, g)
        BY <3>1, <2>5 DEF Files
      <3>3. Slice(g) = Delimited(ids, row)
        BY DEF Slice, Delimited
      <3>4. /\ Len(Delimited(ids, row)) = Cardinality(Found(Of(AllFound, {g})))
            /\ \A r \in Of(AllFound, {g}) : HasPiece(Delimited(ids, row), r)
        BY <3>2, <2>3, ProducedAreRecords, RowDelimits
      <3> QED
        BY <3>3, <3>4 DEF HasPiece
    <2>9. \A g : {r \in AllFound : Gid[r] = g} = Of(AllFound, {g})
      BY DEF Of
    <2> QED
      BY <2>5, <2>7, <2>8, <2>9
  <1> QED
    BY <1>1, <1>2, NextFiles, StagesInvHolds, LoopInTheStages, PTL DEF StagesSpec
=============================================================================
