-------------------------- MODULE GraphStagesProofs --------------------------
(***************************************************************************)
(* Proofs about the steps that turn candidates into the final graph, for   *)
(* every input, budget and option.                                         *)
(*                                                                         *)
(* First reverse_edge_logic (ReverseEdges): no cursor leaves the segment   *)
(* of its node, stripes are as large as the memory allows, and at the end  *)
(* the candidate lists are the symmetric closure of the graph.             *)
(*                                                                         *)
(* The inductive invariant is ReverseInv: the counts are the degrees over  *)
(* the records read, the offsets their sums, every cursor stands behind    *)
(* what the records scanned have put into its segment, and the segments    *)
(* hold each id as often as these records name it.  The proof follows the  *)
(* program: loops and folds, counting of edges, prefix sums, the binary    *)
(* search, the filling of segments, one record of the scan, and then one   *)
(* lemma for every action.                                                 *)
(*                                                                         *)
(* Then the pruning (Pruning) and the composition of the three steps       *)
(* (GraphStages).  Its invariant is StagesInv: PruneInv says that the      *)
(* inputs are whole, that a batch is as large as the budget allows and     *)
(* holds the lists of its nodes, and that the lists written are well       *)
(* pruned; History ties what one step reads to what the one before it has  *)
(* written.  The proof again follows the program: the folds, the pool, the *)
(* two scans of it, the end of a batch, the reading of its lists, and then *)
(* one lemma for every action.                                             *)
(***************************************************************************)
EXTENDS GraphStages, FiniteSetTheorems, SequenceTheorems, TLAPS

-----------------------------------------------------------------------------
(* Loops *)

\* A set of naturals has a least element.
LEMMA LeastNatural == ASSUME NEW S, S \subseteq Nat, S # {}
                      PROVE  \E x \in S : \A y \in S : x <= y
  <1> DEFINE less == OpToRel(<, Nat)
  <1>1. IsWellFoundedOn(less, Nat)
    BY NatLessThanWellFounded
  <1>2. PICK x \in S : \A y \in S : ~(<<y, x>> \in less)
    BY <1>1, WFMin
  <1>3. \A y \in S : ~(y < x)
    BY <1>2 DEF OpToRel
  <1> QED
    BY <1>3

\* What holds before a loop and is kept by its rounds holds after each of them.
LEMMA Rounds ==
    ASSUME NEW n \in Nat, NEW S, 0 \in S, \A k \in 1 .. n : k - 1 \in S => k \in S
    PROVE  \A k \in 0 .. n : k \in S
  <1> DEFINE Bad == {k \in 0 .. n : k \notin S}
  <1>1. SUFFICES ASSUME Bad # {} PROVE FALSE
    OBVIOUS
  <1>2. PICK m \in Bad : \A k \in Bad : m <= k
    <2>1. Bad \subseteq Nat
      OBVIOUS
    <2> HIDE DEF Bad
    <2> QED
      BY <1>1, <2>1, LeastNatural
  <1>3. m \in 1 .. n /\ m - 1 \in 0 .. n /\ ~(m <= m - 1)
    OBVIOUS
  <1> QED
    BY <1>2, <1>3

\* The greatest element of a set of positions.
LEMMA MaxOfPositions ==
    ASSUME NEW n \in Nat, NEW S, S \subseteq 1 .. n, S # {}
    PROVE  Max(S) \in S /\ \A y \in S : y <= Max(S)
  <1> DEFINE Far == {n - x : x \in S}
  <1>0. \A x \in S : x \in 1 .. n
    OBVIOUS
  <1>1. Far \subseteq Nat /\ Far # {}
    <2>1. ASSUME NEW x \in S PROVE n - x \in Nat
      BY <1>0
    <2> QED
      BY <2>1
  <1>2. PICK d \in Far : \A y \in Far : d <= y
    <2> HIDE DEF Far
    <2> QED
      BY <1>1, LeastNatural
  <1>3. PICK x \in S : d = n - x
    OBVIOUS
  <1>4. ASSUME NEW y \in S PROVE x >= y
    <2>1. d <= n - y
      BY <1>2
    <2> QED
      BY <2>1, <1>3, <1>0
  <1> QED
    BY <1>3, <1>4 DEF Max

LEMMA MaxOfInterval ==
    ASSUME NEW n \in Nat, NEW k \in 1 .. n, NEW S, S \subseteq 1 .. k, k \in S
    PROVE  Max(S) = k
  <1>1. S \subseteq 1 .. n /\ S # {} /\ k \in Nat
    OBVIOUS
  <1>2. Max(S) \in S /\ \A y \in S : y <= Max(S)
    BY <1>1, MaxOfPositions, Zenon
  <1>3. Max(S) \in 1 .. k /\ k <= Max(S)
    BY <1>2
  <1> QED
    BY <1>3

\* A fold over positions, its rounds given by a function of the result so far and
\* the position: the recursive function that the definition of the fold chooses
\* exists.
FoldRound(g, base, F, S) == IF S = {} THEN base ELSE F[<<g[S \ {Max(S)}], Max(S)>>]

IsFold(g, n, X, base, F) ==
    /\ g \in [SUBSET (1 .. n) -> X]
    /\ \A S \in SUBSET (1 .. n) : g[S] = FoldRound(g, base, F, S)

LEMMA FoldExists ==
    ASSUME NEW n \in Nat, NEW X, NEW base \in X, NEW F \in [X \X (1 .. n) -> X]
    PROVE  \E g : IsFold(g, n, X, base, F)
  <1> DEFINE Is(g, m) == \A S \in SUBSET (1 .. m) : g[S] = FoldRound(g, base, F, S)
             Good == {m \in 0 .. n : \E g \in [SUBSET (1 .. m) -> X] : Is(g, m)}
  <1>1. 0 \in Good
    <2> DEFINE g == [S \in SUBSET (1 .. 0) |-> base]
    <2>1. g \in [SUBSET (1 .. 0) -> X]
      OBVIOUS
    <2>2. ASSUME NEW S \in SUBSET (1 .. 0) PROVE S = {}
      OBVIOUS
    <2>3. Is(g, 0)
      BY <2>2 DEF FoldRound
    <2>4. 0 \in 0 .. n
      OBVIOUS
    <2> HIDE DEF g, Is
    <2> QED
      BY <2>1, <2>3, <2>4
  <1>2. ASSUME NEW m \in 1 .. n, m - 1 \in Good PROVE m \in Good
    <2>1. PICK g \in [SUBSET (1 .. m - 1) -> X] : Is(g, m - 1)
      BY <1>2
    <2> DEFINE h == [S \in SUBSET (1 .. m) |-> IF m \in S THEN F[<<g[S \ {m}], m>>] ELSE g[S]]
    <2>2. ASSUME NEW S \in SUBSET (1 .. m), m \notin S PROVE S \in SUBSET (1 .. m - 1)
      BY <2>2
    <2>3. ASSUME NEW S \in SUBSET (1 .. m)
          PROVE  S \ {m} \in SUBSET (1 .. m - 1) /\ g[S \ {m}] \in X /\ F[<<g[S \ {m}], m>>] \in X
      OBVIOUS
    <2>4. h \in [SUBSET (1 .. m) -> X]
      BY <2>2, <2>3
    <2>5. ASSUME NEW S \in SUBSET (1 .. m) PROVE h[S] = FoldRound(h, base, F, S)
      <3>1. CASE m \in S
        <4>1. Max(S) = m /\ S # {}
          BY <3>1, MaxOfInterval
        <4>2. S \ {m} \in SUBSET (1 .. m) /\ m \notin S \ {m}
          OBVIOUS
        <4>3. h[S \ {m}] = g[S \ {m}]
          BY <4>2
        <4>4. h[S] = F[<<g[S \ {m}], m>>]
          BY <3>1
        <4> HIDE DEF h
        <4> QED
          BY <4>1, <4>3, <4>4 DEF FoldRound
      <3>2. CASE m \notin S
        <4>1. S \in SUBSET (1 .. m - 1)
          BY <3>2, <2>2
        <4>2. g[S] = FoldRound(g, base, F, S)
          BY <4>1, <2>1
        <4>3. h[S] = g[S]
          BY <3>2
        <4>4. S \ {Max(S)} \in SUBSET (1 .. m) /\ m \notin S \ {Max(S)}
          BY <3>2
        <4>5. h[S \ {Max(S)}] = g[S \ {Max(S)}]
          BY <4>4
        <4> HIDE DEF h
        <4> QED
          BY <4>2, <4>3, <4>5 DEF FoldRound
      <3> QED
        BY <3>1, <3>2
    <2> HIDE DEF h
    <2>6. Is(h, m)
      BY <2>5
    <2> HIDE DEF Is
    <2> QED
      BY <2>4, <2>6
  <1> HIDE DEF Good
  <1>3. \A k \in 0 .. n : k \in Good
    BY <1>1, <1>2, Rounds
  <1>4. n \in Good
    BY <1>3
  <1> QED
    BY <1>4 DEF Good, IsFold

\* What a fold computes: its rounds, one per position.
AddRound(g, base, s, S) == IF S = {} THEN base ELSE AddReverse(g[S \ {Max(S)}], s[Max(S)])

IsAdded(d, base, s) ==
    /\ d[0] = base /\ FoldLeft(AddReverse, base, s) = d[Len(s)]
    /\ \A k \in 1 .. Len(s) : d[k] = AddReverse(d[k - 1], s[k])

LEMMA AddFold ==
    ASSUME NEW X, NEW D, NEW s \in Seq(D), NEW base \in X,
           \A x \in X, y \in D : AddReverse(x, y) \in X
    PROVE  \E d \in [0 .. Len(s) -> X] : IsAdded(d, base, s)
  <1> DEFINE n == Len(s)
             F == [z \in X \X (1 .. n) |-> AddReverse(z[1], s[z[2]])]
             Is(g) == g = [S \in SUBSET (1 .. n) |-> AddRound(g, base, s, S)]
  <1>1. n \in Nat /\ DOMAIN s = 1 .. n /\ \A k \in 1 .. n : s[k] \in D
    OBVIOUS
  <1>2. F \in [X \X (1 .. n) -> X]
    BY <1>1
  <1>3. PICK g : IsFold(g, n, X, base, F)
    <2> HIDE DEF F, n
    <2> QED
      BY <1>1, <1>2, FoldExists
  <1>4. FoldLeft(AddReverse, base, s) = (CHOOSE h : Is(h))[1 .. n]
    BY <1>1 DEF FoldLeft, MapThenFoldSet, AddRound
  <1>5. g = [S \in SUBSET (1 .. n) |-> AddRound(g, base, s, S)]
    <2>1. g = [S \in SUBSET (1 .. n) |-> g[S]]
      BY <1>3 DEF IsFold
    <2>2. ASSUME NEW S \in SUBSET (1 .. n) PROVE g[S] = AddRound(g, base, s, S)
      <3>1. g[S] = FoldRound(g, base, F, S)
        BY <1>3 DEF IsFold
      <3>2. CASE S = {}
        BY <3>1, <3>2 DEF FoldRound, AddRound
      <3>3. CASE S # {}
        <4> DEFINE k == Max(S)
        <4>1. k \in 1 .. n
          BY <3>3, <1>1, MaxOfPositions
        <4>2. g[S \ {k}] \in X
          BY <1>3 DEF IsFold
        <4>3. F[<<g[S \ {k}], k>>] = AddReverse(g[S \ {k}], s[k])
          BY <4>1, <4>2
        <4> HIDE DEF F
        <4> QED
          BY <3>1, <3>3, <4>3 DEF FoldRound, AddRound
      <3> QED
        BY <3>2, <3>3
    <2> QED
      BY <2>1, <2>2
  <1> DEFINE c == CHOOSE h : Is(h)
  <1>6. Is(c)
    BY <1>5
  <1> HIDE DEF c
  <1>7. ASSUME NEW S \in SUBSET (1 .. n) PROVE c[S] = AddRound(c, base, s, S)
    BY <1>6
  <1> DEFINE d == [k \in 0 .. n |-> c[1 .. k]]
  <1>8. d[0] = base
    <2>1. 1 .. 0 = {} /\ 1 .. 0 \in SUBSET (1 .. n) /\ 0 \in 0 .. n
      BY <1>1
    <2> QED
      BY <1>7, <2>1 DEF AddRound
  <1>9. ASSUME NEW k \in 1 .. n PROVE d[k] = AddReverse(d[k - 1], s[k])
    <2>1. 1 .. k \in SUBSET (1 .. n) /\ 1 .. k # {} /\ k \in 1 .. k
      BY <1>1
    <2>0. (1 .. k) \ {k} = 1 .. k - 1
      BY <1>1
    <2>2. Max(1 .. k) = k
      BY <2>1, <1>1, MaxOfInterval
    <2>3. c[1 .. k] = AddReverse(c[1 .. k - 1], s[k])
      BY <1>7, <2>0, <2>1, <2>2 DEF AddRound
    <2>4. k \in 0 .. n /\ k - 1 \in 0 .. n
      BY <1>1
    <2> QED
      BY <2>3, <2>4
  <1> HIDE DEF d
  <1>10. \A k \in 0 .. n : d[k] \in X
    <2> DEFINE Good == {k \in 0 .. n : d[k] \in X}
    <2>1. 0 \in Good
      BY <1>8, <1>1
    <2>2. ASSUME NEW k \in 1 .. n, k - 1 \in Good PROVE k \in Good
      BY <2>2, <1>9, <1>1
    <2> HIDE DEF Good
    <2>3. \A k \in 0 .. n : k \in Good
      BY <2>1, <2>2, <1>1, Rounds
    <2> QED
      BY <2>3 DEF Good
  <1>11. d \in [0 .. n -> X] /\ d[n] = FoldLeft(AddReverse, base, s)
    <2>1. n \in 0 .. n
      BY <1>1
    <2> QED
      BY <2>1, <1>10, <1>4 DEF d, c
  <1> HIDE DEF n
  <1> QED
    BY <1>8, <1>9, <1>11 DEF n, IsAdded

-----------------------------------------------------------------------------
(* The reverse edges *)

\* The graph is a list of node ids for every node.
GraphOK ==
    /\ IsFiniteSet(DOMAIN graph) /\ DOMAIN graph = 0 .. N - 1
    /\ \A v \in DOMAIN graph : graph[v] \in Seq(Nat)
    /\ budget \in Nat /\ max_mib \in Nat

\* The edges into v from the nodes before k, and all edge ends that the records of
\* these nodes give to v.
Into(v, k) == {e \in (0 .. k - 1) \X Nat : e[2] \in DOMAIN graph[e[1]] /\ graph[e[1]][e[2]] = v}
Degree(v, k) == Cardinality(Into(v, k)) + (IF v < k THEN Len(graph[v]) ELSE 0)

\* How often these records put w among the candidates of v.
Found(v, w, k) == (IF v < k THEN Occurrences(w, graph[v]) ELSE 0)
                  + (IF w < k THEN Occurrences(v, graph[w]) ELSE 0)

InRange(k) == \A v \in 0 .. k - 1 : \A x \in DOMAIN graph[v] : graph[v][x] < N

\* Pass 0 has counted the records of the nodes before u.
CountPass ==
    /\ pc = "count" => /\ u \in 0 .. N /\ lo = 0 /\ N > 0
                       /\ cnt = [v \in 0 .. N - 1 |-> Degree(v, u)] /\ InRange(u)
    /\ pc \in {"offsets", "stripes", "scan", "done"} =>
         /\ cnt = [v \in 0 .. N - 1 |-> Degree(v, N)] /\ InRange(N) /\ N > 0
         /\ off_elems \in [0 .. N -> Nat] /\ off_elems[0] = 0
         /\ \A v \in 0 .. N - 1 : off_elems[v + 1] = off_elems[v] + cnt[v]
         /\ ids = [p \in 0 .. off_elems[N] - 1 |-> ids[p]]

\* The stripe, and the cursor of each of its nodes: it stands after the candidates
\* from the records before u.
StripeOK ==
    /\ pc = "offsets" => lo = 0
    /\ pc = "stripes" => lo \in 0 .. N
    /\ pc = "done" => lo = N
    /\ pc = "scan" =>
         /\ lo \in 0 .. N - 1 /\ hi \in lo + 1 .. N /\ hi = PickHi(lo) /\ u \in 0 .. N
         /\ IdsOf(lo, hi) > 0
         /\ buf = [p \in 0 .. IdsOf(lo, hi) - 1 |-> buf[p]]
         /\ cur = [v \in lo .. hi - 1 |-> IdsOf(lo, v) + Degree(v, u)]

\* The segments written, and those of the stripe as far as they have been filled,
\* hold every candidate as often as the records have it.
Holds(a, from, to, w) == {p \in from .. to - 1 : a[p] = w}
Filled ==
    /\ pc \in {"stripes", "scan", "done"} =>
         \A v \in 0 .. lo - 1, w \in 0 .. N - 1 :
             Cardinality(Holds(ids, off_elems[v], off_elems[v + 1], w)) = Found(v, w, N)
    /\ pc = "scan" =>
         \A v \in lo .. hi - 1, w \in 0 .. N - 1 :
             Cardinality(Holds(buf, IdsOf(lo, v), cur[v], w)) = Found(v, w, u)

Labels == {"start", "count", "offsets", "stripes", "scan", "done", "empty graph",
           "id out of range", "too little memory"}

ReverseInv == GraphOK /\ pc \in Labels /\ CountPass /\ StripeOK /\ Filled

-----------------------------------------------------------------------------
(* Counting edges *)

\* Sets with a one-to-one function from one onto the other have the same size.
LEMMA SameSize ==
    ASSUME NEW A, NEW Z, IsFiniteSet(A), NEW f \in [A -> Z],
           \A x, y \in A : f[x] = f[y] => x = y, \A z \in Z : \E x \in A : f[x] = z
    PROVE  IsFiniteSet(Z) /\ Cardinality(Z) = Cardinality(A)
  <1>1. DOMAIN f = A
    OBVIOUS
  <1>2. IsInjective(f)
    BY <1>1 DEF IsInjective
  <1>3. f \in Bijection(A, Z)
    BY <1>2 DEF Bijection, Injection, Surjection
  <1>4. ExistsBijection(A, Z)
    BY <1>3 DEF ExistsBijection
  <1> QED
    BY <1>4, FS_Bijection

LEMMA NodesNat == ASSUME GraphOK PROVE N \in Nat
  BY FS_CardinalityType DEF GraphOK, N

LEMMA ElementOf == ASSUME NEW D, NEW s \in Seq(D), NEW x \in 1 .. Len(s) PROVE s[x] \in D
  OBVIOUS

\* A sequence is one of its elements' set.
LEMMA Elements == ASSUME NEW D, NEW s \in Seq(D), NEW S, \A x \in 1 .. Len(s) : s[x] \in S
                  PROVE  s \in Seq(S) /\ Len(s) \in Nat
  <1>1. Len(s) \in Nat /\ s = [x \in 1 .. Len(s) |-> s[x]]
    OBVIOUS
  <1>2. [x \in 1 .. Len(s) |-> s[x]] \in Seq(S)
    BY <1>1
  <1> QED
    BY <1>1, <1>2

\* Positions of a value.
LEMMA OccurrencesType ==
    ASSUME NEW D, NEW s \in Seq(D), NEW v
    PROVE  /\ IsFiniteSet({x \in DOMAIN s : s[x] = v})
           /\ Occurrences(v, s) \in Nat /\ Occurrences(v, s) <= Len(s)
  <1> DEFINE P == {x \in DOMAIN s : s[x] = v}
  <1>1. Len(s) \in Nat /\ DOMAIN s = 1 .. Len(s)
    OBVIOUS
  <1>2. IsFiniteSet(1 .. Len(s)) /\ Cardinality(1 .. Len(s)) = Len(s)
    BY <1>1, FS_Interval
  <1>3. P \in SUBSET (1 .. Len(s))
    BY <1>1
  <1> HIDE DEF P
  <1>4. IsFiniteSet(P) /\ Cardinality(P) <= Cardinality(1 .. Len(s))
    BY <1>2, <1>3, FS_Subset
  <1>5. Cardinality(P) \in Nat
    BY <1>4, FS_CardinalityType
  <1> QED
    BY <1>2, <1>4, <1>5 DEF Occurrences, P

\* The record of node k adds one edge into v per occurrence of v.
LEMMA IntoGrows ==
    ASSUME GraphOK, NEW v, NEW k \in 0 .. N - 1, IsFiniteSet(Into(v, k))
    PROVE  /\ IsFiniteSet(Into(v, k + 1))
           /\ Cardinality(Into(v, k + 1)) = Cardinality(Into(v, k)) + Occurrences(v, graph[k])
  <1> DEFINE P == {x \in DOMAIN graph[k] : graph[k][x] = v}
             New == {e \in {k} \X Nat : e[2] \in DOMAIN graph[k] /\ graph[k][e[2]] = v}
  <1>1. N \in Nat /\ k \in DOMAIN graph /\ graph[k] \in Seq(Nat)
    BY NodesNat DEF GraphOK
  <1>2. IsFiniteSet(P) /\ Cardinality(P) = Occurrences(v, graph[k]) /\ P \subseteq Nat
    <2>1. IsFiniteSet(P)
      BY <1>1, OccurrencesType
    <2>2. DOMAIN graph[k] \subseteq Nat
      BY <1>1
    <2> QED
      BY <2>1, <2>2 DEF Occurrences
  <1>3. IsFiniteSet(New) /\ Cardinality(New) = Cardinality(P)
    <2> DEFINE f == [x \in P |-> <<k, x>>]
    <2>1. f \in [P -> New]
      BY <1>2
    <2>2. \A x, y \in P : f[x] = f[y] => x = y
      OBVIOUS
    <2>3. ASSUME NEW e \in New PROVE \E x \in P : f[x] = e
      <3>1. e[2] \in P /\ e = <<k, e[2]>>
        OBVIOUS
      <3> QED
        BY <3>1
    <2> HIDE DEF f, P, New
    <2> QED
      BY <1>2, <2>1, <2>2, <2>3, SameSize
  <1> HIDE DEF P
  <1>4. Into(v, k + 1) = Into(v, k) \cup New /\ Into(v, k) \cap New = {}
    BY <1>1 DEF Into
  <1> HIDE DEF New
  <1>6. /\ IsFiniteSet(Into(v, k) \cup New)
        /\ Cardinality(Into(v, k) \cup New) =
              Cardinality(Into(v, k)) + Cardinality(New) - Cardinality(Into(v, k) \cap New)
    BY <1>3, FS_Union
  <1>7. Cardinality({}) = 0 /\ Cardinality(New) \in Nat /\ Cardinality(Into(v, k)) \in Nat
    BY <1>3, FS_EmptySet, FS_CardinalityType
  <1>8. Cardinality(Into(v, k + 1)) = Cardinality(Into(v, k)) + Cardinality(New)
    <2>1. Cardinality(Into(v, k + 1)) = Cardinality(Into(v, k) \cup New)
      BY <1>4, Zenon
    <2>2. Cardinality(Into(v, k) \cap New) = 0
      BY <1>4, <1>7, Zenon
    <2> QED
      BY <2>1, <2>2, <1>6, <1>7
  <1> QED
    BY <1>2, <1>3, <1>4, <1>6, <1>8

\* Degrees grow from 0 with the records.
LEMMA IntoFinite ==
    ASSUME GraphOK, NEW v PROVE \A k \in 0 .. N : IsFiniteSet(Into(v, k))
  <1> DEFINE S == {k \in 0 .. N : IsFiniteSet(Into(v, k))}
  <1>1. N \in Nat
    BY NodesNat
  <1>2. Into(v, 0) = {}
    BY DEF Into
  <1>3. 0 \in S
    BY <1>1, <1>2, FS_EmptySet
  <1>4. ASSUME NEW k \in 1 .. N, k - 1 \in S PROVE k \in S
    <2>1. k - 1 \in 0 .. N - 1 /\ (k - 1) + 1 = k /\ IsFiniteSet(Into(v, k - 1))
      BY <1>1, <1>4
    <2>2. IsFiniteSet(Into(v, (k - 1) + 1))
      BY <2>1, IntoGrows
    <2> QED
      BY <2>1, <2>2, <1>1
  <1> HIDE DEF S
  <1>5. \A k \in 0 .. N : k \in S
    BY <1>1, <1>3, <1>4, Rounds
  <1> QED
    BY <1>5 DEF S

LEMMA DegreeGrows ==
    ASSUME GraphOK, NEW v \in 0 .. N - 1
    PROVE  /\ Degree(v, 0) = 0
           /\ \A k \in 0 .. N : Degree(v, k) \in Nat
           /\ \A k \in 0 .. N - 1 :
                Degree(v, k + 1) = Degree(v, k) + Occurrences(v, graph[k])
                                   + (IF v = k THEN Len(graph[k]) ELSE 0)
  <1>1. N \in Nat /\ DOMAIN graph = 0 .. N - 1
    BY NodesNat DEF GraphOK
  <1>2. \A k \in 0 .. N : Cardinality(Into(v, k)) \in Nat
    BY IntoFinite, FS_CardinalityType
  <1>3. \A k \in 0 .. N - 1 : Len(graph[k]) \in Nat
    BY <1>1 DEF GraphOK
  <1>4. Degree(v, 0) = 0
    <2>1. Into(v, 0) = {} /\ ~(v < 0)
      BY DEF Into
    <2> QED
      BY <2>1, FS_EmptySet DEF Degree
  <1>5. ASSUME NEW k \in 0 .. N PROVE Degree(v, k) \in Nat
    BY <1>1, <1>2, <1>3 DEF Degree
  <1>6. ASSUME NEW k \in 0 .. N - 1
        PROVE  Degree(v, k + 1) = Degree(v, k) + Occurrences(v, graph[k])
                                  + (IF v = k THEN Len(graph[k]) ELSE 0)
    <2>1. k \in 0 .. N /\ k + 1 \in 0 .. N
      BY <1>1
    <2>2. Cardinality(Into(v, k + 1)) = Cardinality(Into(v, k)) + Occurrences(v, graph[k])
      BY <2>1, IntoFinite, IntoGrows
    <2>3. Occurrences(v, graph[k]) \in Nat
      BY <1>1, OccurrencesType DEF GraphOK
    <2>4. v < k + 1 <=> v < k \/ v = k
      BY <1>1
    <2>5. Cardinality(Into(v, k)) \in Nat /\ Len(graph[k]) \in Nat /\ Len(graph[v]) \in Nat
      BY <1>2, <1>3, <2>1
    <2> QED
      BY <2>2, <2>3, <2>4, <2>5 DEF Degree
  <1> QED
    BY <1>4, <1>5, <1>6

LEMMA DegreeBound ==
    ASSUME GraphOK, NEW v \in 0 .. N - 1, NEW k \in 0 .. N PROVE Degree(v, k) <= Degree(v, N)
  <1> DEFINE S == {d \in 0 .. N - k : Degree(v, k) <= Degree(v, k + d)}
  <1>1. N \in Nat /\ N - k \in Nat /\ k \in Nat
    BY NodesNat
  <1>2. 0 \in S
    BY <1>1, DegreeGrows
  <1>3. ASSUME NEW d \in 1 .. N - k, d - 1 \in S PROVE d \in S
    <2> DEFINE m == k + (d - 1)
    <2>1. m \in 0 .. N - 1 /\ m + 1 = k + d /\ m \in 0 .. N /\ k + d \in 0 .. N
      BY <1>1
    <2>2. Degree(v, k) <= Degree(v, m)
      BY <1>3
    <2> HIDE DEF m
    <2>3. Degree(v, m + 1) = Degree(v, m) + Occurrences(v, graph[m])
                             + (IF v = m THEN Len(graph[m]) ELSE 0)
      BY <2>1, DegreeGrows
    <2>4. Occurrences(v, graph[m]) \in Nat /\ Len(graph[m]) \in Nat
      <3>1. graph[m] \in Seq(Nat)
        BY <2>1 DEF GraphOK
      <3>2. Occurrences(v, graph[m]) \in Nat
        BY <3>1, OccurrencesType, Zenon
      <3> QED
        BY <3>1, <3>2
    <2>5. Degree(v, m) \in Nat /\ Degree(v, k) \in Nat
      BY <2>1, DegreeGrows
    <2>6. Degree(v, k) <= Degree(v, k + d)
      BY <2>1, <2>2, <2>3, <2>4, <2>5
    <2> QED
      BY <2>6, <1>1
  <1> HIDE DEF S
  <1>4. \A d \in 0 .. N - k : d \in S
    BY <1>1, <1>2, <1>3, Rounds
  <1>5. N - k \in S
    BY <1>1, <1>4
  <1>6. k + (N - k) = N
    BY <1>1
  <1> QED
    BY <1>5, <1>6 DEF S

-----------------------------------------------------------------------------
(* Offsets *)

IsSum(f, n, c) == f = [v \in 0 .. n |-> IF v = 0 THEN 0 ELSE f[v - 1] + c[v - 1]]

LEMMA SumExists ==
    ASSUME NEW n \in Nat, NEW c
    PROVE  \E f : IsSum(f, n, c)
  <1> DEFINE Good == {m \in 0 .. n : \E f : IsSum(f, m, c)}
  <1>1. 0 \in Good
    <2> DEFINE f == [v \in 0 .. 0 |-> 0]
    <2>1. IsSum(f, 0, c)
      BY DEF IsSum
    <2> QED
      BY <2>1
  <1>2. ASSUME NEW m \in 1 .. n, m - 1 \in Good PROVE m \in Good
    <2>1. PICK f : IsSum(f, m - 1, c)
      BY <1>2
    <2> DEFINE h == [v \in 0 .. m |-> IF v = m THEN f[m - 1] + c[m - 1] ELSE f[v]]
    <2>2. ASSUME NEW v \in 0 .. m PROVE h[v] = IF v = 0 THEN 0 ELSE h[v - 1] + c[v - 1]
      <3>1. CASE v = m
        <4>1. v # 0 /\ m - 1 \in 0 .. m /\ m - 1 # m
          BY <3>1
        <4> QED
          BY <3>1, <4>1
      <3>2. CASE v # m /\ v # 0
        <4>1. v \in 0 .. m - 1 /\ v - 1 \in 0 .. m - 1 /\ v - 1 \in 0 .. m /\ v - 1 # m
          BY <3>2
        <4>2. f[v] = f[v - 1] + c[v - 1]
          BY <4>1, <3>2, <2>1 DEF IsSum
        <4> QED
          BY <4>1, <4>2, <3>2
      <3>3. CASE v = 0
        <4>1. f[0] = 0 /\ v # m
          BY <3>3, <2>1 DEF IsSum
        <4> QED
          BY <4>1, <3>3
      <3> QED
        BY <3>1, <3>2, <3>3
    <2>3. h = [v \in 0 .. m |-> h[v]]
      OBVIOUS
    <2> HIDE DEF h
    <2>4. IsSum(h, m, c)
      BY <2>2, <2>3 DEF IsSum
    <2> QED
      BY <2>4
  <1> HIDE DEF Good
  <1>3. \A k \in 0 .. n : k \in Good
    BY <1>1, <1>2, Rounds
  <1>4. n \in Good
    BY <1>3
  <1> QED
    BY <1>4 DEF Good

\* Lines 367-371 give every node a segment as long as its list.
LEMMA PrefixSumsAre ==
    ASSUME N \in Nat, cnt \in [0 .. N - 1 -> Nat]
    PROVE  /\ PrefixSums \in [0 .. N -> Nat] /\ PrefixSums[0] = 0
           /\ \A v \in 0 .. N - 1 : PrefixSums[v + 1] = PrefixSums[v] + cnt[v]
  <1> DEFINE f == CHOOSE f : IsSum(f, N, cnt)
  <1>1. PrefixSums = f
    BY DEF PrefixSums, IsSum
  <1>2. IsSum(f, N, cnt)
    BY SumExists
  <1> HIDE DEF f
  <1>3. f = [v \in 0 .. N |-> f[v]] /\ f[0] = 0
    BY <1>2 DEF IsSum
  <1>4. ASSUME NEW v \in 0 .. N - 1 PROVE f[v + 1] = f[v] + cnt[v]
    <2>1. v + 1 \in 0 .. N /\ v + 1 # 0 /\ (v + 1) - 1 = v
      OBVIOUS
    <2> QED
      BY <1>2, <2>1 DEF IsSum
  <1>5. \A v \in 0 .. N : f[v] \in Nat
    <2> DEFINE Good == {v \in 0 .. N : f[v] \in Nat}
    <2>1. 0 \in Good
      BY <1>3
    <2>2. ASSUME NEW v \in 1 .. N, v - 1 \in Good PROVE v \in Good
      <3>1. v - 1 \in 0 .. N - 1 /\ (v - 1) + 1 = v
        OBVIOUS
      <3>2. f[(v - 1) + 1] = f[v - 1] + cnt[v - 1]
        BY <3>1, <1>4
      <3> QED
        BY <2>2, <3>1, <3>2
    <2> HIDE DEF Good
    <2>3. \A v \in 0 .. N : v \in Good
      BY <2>1, <2>2, Rounds
    <2> QED
      BY <2>3 DEF Good
  <1> QED
    BY <1>1, <1>3, <1>4, <1>5

\* Offsets that grow by natural numbers grow.
LEMMA Monotone ==
    ASSUME NEW n \in Nat, NEW f \in [0 .. n -> Nat], \A v \in 0 .. n - 1 : f[v] <= f[v + 1],
           NEW a \in 0 .. n, NEW z \in a .. n
    PROVE  f[a] <= f[z]
  <1> DEFINE S == {d \in 0 .. n - a : f[a] <= f[a + d]}
  <1>1. 0 \in S /\ n - a \in Nat
    OBVIOUS
  <1>2. ASSUME NEW d \in 1 .. n - a, d - 1 \in S PROVE d \in S
    <2> DEFINE m == a + (d - 1)
    <2>1. m \in 0 .. n - 1 /\ m + 1 = a + d /\ m \in 0 .. n /\ a + d \in 0 .. n
      OBVIOUS
    <2>2. f[a] <= f[m]
      BY <1>2
    <2> HIDE DEF m
    <2>3. f[m] <= f[m + 1]
      BY <2>1
    <2>4. f[a] <= f[a + d]
      BY <2>1, <2>2, <2>3
    <2> QED
      BY <2>4
  <1> HIDE DEF S
  <1>3. \A d \in 0 .. n - a : d \in S
    BY <1>1, <1>2, Rounds
  <1>4. z - a \in S /\ a + (z - a) = z
    BY <1>3
  <1> QED
    BY <1>4 DEF S

-----------------------------------------------------------------------------
(* Binary search *)

\* A search for the greatest number in a + 1 .. n that fits, a + 1 if none does,
\* as the two programs write it.
SearchRange(a, n) == [L : a + 1 .. n + 1, R : a .. n, best : a + 1 .. n]
SearchStep(g, r, Fit) ==
    LET mid == (r.L + r.R) \div 2
    IN  IF r.L > r.R THEN r.best
        ELSE IF mid \in Fit THEN g[[r EXCEPT !.best = mid, !.L = mid + 1]]
        ELSE g[[r EXCEPT !.R = mid - 1]]
IsSearch(g, a, n, Fit) == g = [r \in SearchRange(a, n) |-> SearchStep(g, r, Fit)]
Width(r) == IF r.L > r.R THEN 0 ELSE r.R - r.L + 1

\* The two ways to go on from r, with the range halved.
Higher(r) == [r EXCEPT !.best = (r.L + r.R) \div 2, !.L = (r.L + r.R) \div 2 + 1]
Lower(r) == [r EXCEPT !.R = (r.L + r.R) \div 2 - 1]

LEMMA Halves ==
    ASSUME NEW a \in Nat, NEW n \in Nat, NEW r \in SearchRange(a, n)
    PROVE  /\ Width(r) \in 0 .. n
           /\ r.L <= r.R => LET mid == (r.L + r.R) \div 2
                            IN  /\ mid \in r.L .. r.R /\ mid \in a + 1 .. n
                                /\ Higher(r) \in SearchRange(a, n) /\ Width(Higher(r)) < Width(r)
                                /\ Lower(r) \in SearchRange(a, n) /\ Width(Lower(r)) < Width(r)
                                /\ Higher(r).L = mid + 1 /\ Higher(r).R = r.R
                                /\ Higher(r).best = mid
                                /\ Lower(r).L = r.L /\ Lower(r).R = mid - 1
                                /\ Lower(r).best = r.best
  <1>1. /\ r.L \in a + 1 .. n + 1 /\ r.R \in a .. n /\ r.best \in a + 1 .. n
        /\ r = [L |-> r.L, R |-> r.R, best |-> r.best]
    BY DEF SearchRange
  <1>2. Width(r) \in 0 .. n
    BY <1>1 DEF Width
  <1> DEFINE mid == (r.L + r.R) \div 2
  <1>3. ASSUME r.L <= r.R PROVE mid \in r.L .. r.R /\ mid \in a + 1 .. n
    BY <1>1, <1>3
  <1> HIDE DEF mid
  <1>4. Higher(r) = [L |-> mid + 1, R |-> r.R, best |-> mid]
    <2> DEFINE s == [r EXCEPT !.best = mid]
    <2>1. s = [L |-> r.L, R |-> r.R, best |-> mid]
      BY <1>1
    <2>2. Higher(r) = [s EXCEPT !.L = mid + 1]
      BY DEF Higher, mid
    <2> HIDE DEF s
    <2> QED
      BY <2>1, <2>2
  <1>5. Lower(r) = [L |-> r.L, R |-> mid - 1, best |-> r.best]
    BY <1>1 DEF Lower, mid
  <1>6. ASSUME r.L <= r.R
        PROVE  /\ Higher(r) \in SearchRange(a, n) /\ Lower(r) \in SearchRange(a, n)
               /\ Width(Higher(r)) < Width(r) /\ Width(Lower(r)) < Width(r)
    <2>1. mid \in r.L .. r.R /\ mid \in a + 1 .. n
      BY <1>3, <1>6
    <2>2. /\ mid + 1 \in a + 1 .. n + 1 /\ mid - 1 \in a .. n
      BY <2>1, <1>1
    <2>3. Higher(r) \in SearchRange(a, n) /\ Lower(r) \in SearchRange(a, n)
      BY <1>1, <1>4, <1>5, <2>1, <2>2 DEF SearchRange
    <2>4. Width(r) = r.R - r.L + 1
      BY <1>1, <1>6 DEF Width
    <2>5. Width(Higher(r)) = IF mid + 1 > r.R THEN 0 ELSE r.R - (mid + 1) + 1
      BY <1>4 DEF Width
    <2>6. Width(Lower(r)) = IF r.L > mid - 1 THEN 0 ELSE (mid - 1) - r.L + 1
      BY <1>5 DEF Width
    <2>7. r.L \in Int /\ r.R \in Int /\ mid \in Int /\ r.L <= mid /\ mid <= r.R
      BY <2>1, <1>1
    <2>8. Width(Higher(r)) < Width(r)
      BY <2>4, <2>5, <2>7
    <2>9. Width(Lower(r)) < Width(r)
      BY <2>4, <2>6, <2>7
    <2> QED
      BY <2>3, <2>8, <2>9
  <1>7. r.L <= r.R => /\ mid \in r.L .. r.R /\ mid \in a + 1 .. n
                      /\ Higher(r) \in SearchRange(a, n) /\ Width(Higher(r)) < Width(r)
                      /\ Lower(r) \in SearchRange(a, n) /\ Width(Lower(r)) < Width(r)
                      /\ Higher(r).L = mid + 1 /\ Higher(r).R = r.R /\ Higher(r).best = mid
                      /\ Lower(r).L = r.L /\ Lower(r).R = mid - 1 /\ Lower(r).best = r.best
    BY <1>3, <1>4, <1>5, <1>6
  <1> QED
    BY <1>2, <1>7 DEF mid

LEMMA StepOf ==
    ASSUME NEW g, NEW r, NEW Fit
    PROVE  SearchStep(g, r, Fit) = IF r.L > r.R THEN r.best
                                   ELSE IF (r.L + r.R) \div 2 \in Fit THEN g[Higher(r)]
                                   ELSE g[Lower(r)]
  BY DEF SearchStep, Higher, Lower

\* The recursive function that PickHi chooses exists.
LEMMA SearchExists ==
    ASSUME NEW a \in Nat, NEW n \in Nat, NEW Fit
    PROVE  \E g : IsSearch(g, a, n, Fit)
  <1> DEFINE D == SearchRange(a, n)
             Is(g, m) == /\ g = [r \in D |-> g[r]]
                         /\ \A r \in D : Width(r) <= m => g[r] = SearchStep(g, r, Fit)
             Good == {m \in 0 .. n : \E g : Is(g, m)}
  <1> HIDE DEF D
  <1>0. \A r \in D : Width(r) \in 0 .. n
    BY Halves DEF D
  <1>1. 0 \in Good
    <2> DEFINE g == [r \in D |-> r.best]
    <2>1. ASSUME NEW r \in D, Width(r) <= 0 PROVE g[r] = SearchStep(g, r, Fit)
      <3>1. r.L > r.R
        <4>1. Width(r) = 0 \/ r.L > r.R
          BY <1>0, <2>1
        <4>2. r.L \in Int /\ r.R \in Int
          BY DEF D, SearchRange
        <4> QED
          BY <4>1, <4>2 DEF Width
      <3> QED
        BY <3>1, StepOf
    <2>2. g = [r \in D |-> g[r]]
      OBVIOUS
    <2> HIDE DEF g
    <2>3. Is(g, 0)
      BY <2>1, <2>2
    <2> QED
      BY <2>3
  <1>2. ASSUME NEW m \in 1 .. n, m - 1 \in Good PROVE m \in Good
    <2>1. PICK g : Is(g, m - 1)
      BY <1>2
    <2> DEFINE h == [r \in D |-> IF Width(r) = m THEN SearchStep(g, r, Fit) ELSE g[r]]
    <2>2. ASSUME NEW r \in D, Width(r) < m PROVE h[r] = g[r]
      BY <2>2, <1>0
    <2>3. ASSUME NEW r \in D, Width(r) <= m PROVE h[r] = SearchStep(g, r, Fit)
      <3>1. CASE Width(r) = m
        BY <3>1
      <3>2. CASE Width(r) # m
        <4>1. Width(r) < m /\ Width(r) <= m - 1
          BY <3>2, <2>3, <1>0
        <4> QED
          BY <4>1, <2>1, <2>2
      <3> QED
        BY <3>1, <3>2
    <2>4. h = [r \in D |-> h[r]]
      OBVIOUS
    <2> HIDE DEF h
    <2>5. ASSUME NEW r \in D, Width(r) <= m PROVE SearchStep(h, r, Fit) = SearchStep(g, r, Fit)
      <3>1. CASE r.L > r.R
        BY <3>1, StepOf
      <3>2. CASE ~(r.L > r.R)
        <4>1. r.L <= r.R
          BY <3>2 DEF D, SearchRange
        <4>2. /\ Higher(r) \in D /\ Width(Higher(r)) < Width(r)
              /\ Lower(r) \in D /\ Width(Lower(r)) < Width(r)
          BY <4>1, Halves DEF D
        <4>3. Width(Higher(r)) < m /\ Width(Lower(r)) < m
          BY <4>2, <2>5, <1>0
        <4>4. h[Higher(r)] = g[Higher(r)] /\ h[Lower(r)] = g[Lower(r)]
          BY <4>2, <4>3, <2>2
        <4> QED
          BY <4>4, StepOf
      <3> QED
        BY <3>1, <3>2
    <2>6. Is(h, m)
      BY <2>3, <2>4, <2>5
    <2> QED
      BY <2>6
  <1> HIDE DEF Good
  <1>3. \A k \in 0 .. n : k \in Good
    BY <1>1, <1>2, Rounds
  <1>4. PICK g : Is(g, n)
    <2>1. n \in Good
      BY <1>3
    <2> QED
      BY <2>1 DEF Good
  <1>5. ASSUME NEW r \in D PROVE g[r] = SearchStep(g, r, Fit)
    BY <1>0, <1>4
  <1>6. IsSearch(g, a, n, Fit)
    BY <1>4, <1>5 DEF IsSearch, D
  <1> QED
    BY <1>6

\* What it finds, when every number below one that fits fits too.
Downward(a, n, Fit) == \A b \in a + 1 .. n : \A c \in a + 1 .. b : b \in Fit => c \in Fit
Greatest(x, a, n, Fit) == /\ x \in a + 1 .. n
                          /\ x \in Fit \/ x = a + 1
                          /\ \A b \in x + 1 .. n : b \notin Fit
Narrowed(r, a, n, Fit) == /\ r.L <= r.R + 1
                          /\ \/ r.best = r.L - 1 /\ r.best \in Fit
                             \/ r.best = a + 1 /\ r.L = a + 1
                          /\ \A b \in r.R + 1 .. n : b \notin Fit

LEMMA SearchFinds ==
    ASSUME NEW a \in Nat, NEW n \in Nat, a < n, NEW Fit, Downward(a, n, Fit),
           NEW g, IsSearch(g, a, n, Fit)
    PROVE  Greatest(g[[L |-> a + 1, R |-> n, best |-> a + 1]], a, n, Fit)
  <1> DEFINE D == SearchRange(a, n)
             Good == {m \in 0 .. n : \A r \in D : Width(r) <= m /\ Narrowed(r, a, n, Fit)
                                                  => Greatest(g[r], a, n, Fit)}
  <1>0. \A r \in D : g[r] = SearchStep(g, r, Fit)
    BY DEF IsSearch
  <1> HIDE DEF D
  <1>1. \A r \in D : /\ Width(r) \in 0 .. n /\ r.L \in a + 1 .. n + 1 /\ r.R \in a .. n
                     /\ r.best \in a + 1 .. n
    BY Halves DEF D, SearchRange
  <1>2. ASSUME NEW r \in D, r.L > r.R, Narrowed(r, a, n, Fit) PROVE Greatest(g[r], a, n, Fit)
    <2>1. g[r] = r.best
      BY <1>0, <1>2, StepOf
    <2>2. r.L = r.R + 1
      BY <1>1, <1>2 DEF Narrowed
    <2>3. CASE r.best = r.L - 1 /\ r.best \in Fit
      BY <2>1, <2>2, <2>3, <1>1, <1>2 DEF Narrowed, Greatest
    <2>4. CASE r.best = a + 1 /\ r.L = a + 1
      BY <2>1, <2>2, <2>4, <1>1, <1>2 DEF Narrowed, Greatest
    <2> QED
      BY <2>3, <2>4, <1>2 DEF Narrowed
  <1>3. 0 \in Good
    <2>1. ASSUME NEW r \in D, Width(r) <= 0 PROVE r.L > r.R
      BY <1>1, <2>1 DEF Width
    <2> QED
      BY <2>1, <1>2
  <1>4. ASSUME NEW m \in 1 .. n, m - 1 \in Good PROVE m \in Good
    <2>1. ASSUME NEW r \in D, Width(r) <= m, Narrowed(r, a, n, Fit)
          PROVE  Greatest(g[r], a, n, Fit)
      <3>1. CASE r.L > r.R
        BY <3>1, <2>1, <1>2
      <3>2. CASE r.L <= r.R
        <4> DEFINE mid == (r.L + r.R) \div 2
        <4>1. /\ mid \in r.L .. r.R /\ mid \in a + 1 .. n
              /\ Higher(r) \in D /\ Width(Higher(r)) < Width(r)
              /\ Lower(r) \in D /\ Width(Lower(r)) < Width(r)
              /\ Higher(r).L = mid + 1 /\ Higher(r).R = r.R /\ Higher(r).best = mid
              /\ Lower(r).L = r.L /\ Lower(r).R = mid - 1 /\ Lower(r).best = r.best
          BY <3>2, Halves DEF D
        <4>2. g[r] = IF mid \in Fit THEN g[Higher(r)] ELSE g[Lower(r)]
          <5>1. ~(r.L > r.R)
            BY <3>2, <1>1
          <5> QED
            BY <5>1, <1>0, StepOf
        <4> HIDE DEF mid
        <4>3. Width(Higher(r)) <= m - 1 /\ Width(Lower(r)) <= m - 1
          BY <4>1, <2>1, <1>1
        <4>4. CASE mid \in Fit
          <5>1. Narrowed(Higher(r), a, n, Fit)
            BY <4>1, <4>4, <2>1, <1>1 DEF Narrowed
          <5> QED
            BY <5>1, <4>1, <4>2, <4>3, <4>4, <1>4
        <4>5. CASE mid \notin Fit
          <5>1. ASSUME NEW b \in mid .. n PROVE b \notin Fit
            <6>1. b \in a + 1 .. n /\ mid \in a + 1 .. b
              BY <4>1
            <6> QED
              BY <6>1, <4>5 DEF Downward
          <5>2. Lower(r).R + 1 = mid
            BY <4>1, <1>1
          <5>3. Narrowed(Lower(r), a, n, Fit)
            BY <4>1, <5>1, <5>2, <2>1, <1>1 DEF Narrowed
          <5> QED
            BY <5>3, <4>1, <4>2, <4>3, <4>5, <1>4
        <4> QED
          BY <4>4, <4>5
      <3> QED
        BY <3>1, <3>2, <1>1
    <2> QED
      BY <2>1
  <1> HIDE DEF Good
  <1>5. \A k \in 0 .. n : k \in Good
    BY <1>3, <1>4, Rounds
  <1> DEFINE first == [L |-> a + 1, R |-> n, best |-> a + 1]
  <1>6. first \in D /\ Narrowed(first, a, n, Fit)
    BY DEF D, SearchRange, Narrowed
  <1> HIDE DEF first
  <1>7. n \in Good
    BY <1>5
  <1>8. Greatest(g[first], a, n, Fit)
    BY <1>1, <1>6, <1>7 DEF Good
  <1> QED
    BY <1>8 DEF first

-----------------------------------------------------------------------------
(* Stripes *)

\* What AvailForU() leaves room for, without the divisions.
Room(U, k) == LET left == budget - (N + 2 * (N + 1) + 2 * U + Slack)
              IN  left >= 2 /\ 4 * k <= 3 * left /\ (max_mib # 0 => k <= max_mib)

LEMMA AvailIs ==
    ASSUME GraphOK, NEW U \in Nat, NEW k \in Nat
    PROVE  AvailForU(U) # 0 /\ k <= AvailForU(U) <=> Room(U, k)
  <1>1. N \in Nat /\ Slack \in Nat /\ budget \in Nat /\ max_mib \in Nat
    BY NodesNat, OptionsAssumption DEF GraphOK
  <1> DEFINE left == budget - (N + 2 * (N + 1) + 2 * U + Slack)
             filled == (left * 3) \div 4
  <1>2. left \in Int /\ DynOverhead(U) = N + 2 * (N + 1) + 2 * U + Slack
    BY <1>1 DEF DynOverhead
  <1>3. budget <= DynOverhead(U) <=> left <= 0
    BY <1>1, <1>2
  <1>4. AvailForU(U) = IF left <= 0 THEN 0
                       ELSE IF max_mib # 0 /\ max_mib < filled THEN max_mib ELSE filled
    BY <1>2, <1>3 DEF AvailForU
  <1> HIDE DEF left
  <1>5. filled \in Int /\ (left >= 2 => filled >= 1) /\ (left <= 1 => filled <= 0)
        /\ (left >= 0 => filled >= 0)
    BY <1>2
  <1>6. k <= filled <=> 4 * k <= 3 * left
    BY <1>2
  <1> HIDE DEF filled
  <1>7. Room(U, k) <=> left >= 2 /\ k <= filled /\ (max_mib # 0 => k <= max_mib)
    BY <1>6 DEF Room, left
  <1>8. CASE left <= 0
    BY <1>8, <1>4, <1>7, <1>2
  <1>9. CASE left = 1
    BY <1>9, <1>4, <1>5, <1>7, <1>2, <1>1
  <1>10. CASE left >= 2
    BY <1>10, <1>4, <1>5, <1>7, <1>2, <1>1
  <1> QED
    BY <1>8, <1>9, <1>10, <1>2

\* Segments in the order of the nodes.
Segments == /\ N > 0 /\ off_elems \in [0 .. N -> Nat]
            /\ \A v \in 0 .. N - 1 : off_elems[v] <= off_elems[v + 1]

LEMMA IdsOfType ==
    ASSUME GraphOK, Segments, NEW a \in 0 .. N, NEW z \in a .. N
    PROVE  /\ IdsOf(a, z) \in Nat /\ off_elems[a] \in Nat /\ off_elems[z] \in Nat
           /\ IdsOf(a, z) = off_elems[z] - off_elems[a]
  <1>1. N \in Nat
    BY NodesNat
  <1>2. off_elems[a] <= off_elems[z]
    BY <1>1, Monotone DEF Segments
  <1>3. off_elems[a] \in Nat /\ off_elems[z] \in Nat
    BY <1>1 DEF Segments
  <1> QED
    BY <1>2, <1>3 DEF IdsOf

Fitting(a) == {z \in a + 1 .. N : Room(z - a, IdsOf(a, z))}

LEMMA FittingDownward ==
    ASSUME GraphOK, Segments, NEW a \in 0 .. N - 1 PROVE Downward(a, N, Fitting(a))
  <1>1. N \in Nat /\ Slack \in Nat /\ budget \in Nat /\ max_mib \in Nat
    BY NodesNat, OptionsAssumption DEF GraphOK
  <1>2. ASSUME NEW z \in a + 1 .. N, NEW y \in a + 1 .. z, Room(z - a, IdsOf(a, z))
        PROVE  Room(y - a, IdsOf(a, y))
    <2>1. /\ IdsOf(a, z) \in Nat /\ IdsOf(a, y) \in Nat /\ IdsOf(a, y) <= IdsOf(a, z)
      <3>1. a \in 0 .. N /\ z \in a .. N /\ y \in a .. N /\ y \in 0 .. N /\ z \in y .. N
        BY <1>1
      <3>2. IdsOf(a, z) = off_elems[z] - off_elems[a] /\ IdsOf(a, z) \in Nat
        BY <3>1, IdsOfType
      <3>3. IdsOf(a, y) = off_elems[y] - off_elems[a] /\ IdsOf(a, y) \in Nat
        BY <3>1, IdsOfType
      <3>4. IdsOf(y, z) = off_elems[z] - off_elems[y] /\ IdsOf(y, z) \in Nat
            /\ off_elems[z] \in Nat /\ off_elems[y] \in Nat
        BY <3>1, IdsOfType
      <3>5. off_elems[a] \in Nat
        BY <3>1, IdsOfType
      <3> QED
        BY <3>2, <3>3, <3>4, <3>5
    <2>2. z - a \in Nat /\ y - a \in Nat /\ y - a <= z - a
      BY <1>1
    <2> DEFINE m == IdsOf(a, z)
               k == IdsOf(a, y)
               U == z - a
               W == y - a
    <2> HIDE DEF m, k, U, W
    <2>3. m \in Nat /\ k \in Nat /\ k <= m /\ U \in Nat /\ W \in Nat /\ W <= U /\ Room(U, m)
      BY <2>1, <2>2, <1>2 DEF m, k, U, W
    <2>4. Room(W, k)
      BY <2>3, <1>1 DEF Room
    <2> QED
      BY <2>4 DEF k, W
  <1>3. ASSUME NEW z \in a + 1 .. N, NEW y \in a + 1 .. z, z \in Fitting(a) PROVE y \in Fitting(a)
    <2>1. y \in a + 1 .. N
      BY <1>1
    <2> QED
      BY <2>1, <1>2, <1>3 DEF Fitting
  <1> QED
    BY <1>3 DEF Downward

\* Lines 488-511: the greatest stripe that fits, or one node.
LEMMA PickHiIs ==
    ASSUME GraphOK, Segments, NEW a \in 0 .. N - 1
    PROVE  Greatest(PickHi(a), a, N, Fitting(a))
  <1> DEFINE Half(g, r) ==
                 LET mid == (r.L + r.R) \div 2
                     fits == AvailForU(mid - a) # 0 /\ IdsOf(a, mid) <= AvailForU(mid - a)
                 IN  IF r.L > r.R THEN r.best
                     ELSE IF fits THEN g[[r EXCEPT !.best = mid, !.L = mid + 1]]
                     ELSE g[[r EXCEPT !.R = mid - 1]]
             D == SearchRange(a, N)
             Is(g) == g = [r \in D |-> Half(g, r)]
             c == CHOOSE g : Is(g)
             first == [L |-> a + 1, R |-> N, best |-> a + 1]
  <1>1. N \in Nat /\ a \in Nat /\ a < N /\ a \in 0 .. N
    BY NodesNat
  <1>2. PickHi(a) = c[first]
    BY DEF PickHi, SearchRange
  <1>3. ASSUME NEW g, NEW r \in D PROVE Half(g, r) = SearchStep(g, r, Fitting(a))
    <2> DEFINE mid == (r.L + r.R) \div 2
    <2>1. CASE r.L > r.R
      BY <2>1 DEF SearchStep
    <2>2. CASE ~(r.L > r.R)
      <3>1. r.L <= r.R
        BY <2>2, <1>1 DEF SearchRange
      <3>2. mid \in a + 1 .. N
        BY <3>1, <1>1, Halves
      <3> HIDE DEF mid
      <3>3. mid - a \in Nat /\ mid \in a .. N
        BY <3>2, <1>1
      <3>4. IdsOf(a, mid) \in Nat
        BY <3>3, <1>1, IdsOfType
      <3>5. AvailForU(mid - a) # 0 /\ IdsOf(a, mid) <= AvailForU(mid - a) <=> mid \in Fitting(a)
        BY <3>2, <3>3, <3>4, AvailIs DEF Fitting
      <3> QED
        BY <3>5, <2>2 DEF SearchStep, mid
    <2> QED
      BY <2>1, <2>2
  <1> HIDE DEF Half
  <1>4. ASSUME NEW g PROVE Is(g) <=> IsSearch(g, a, N, Fitting(a))
    BY <1>3 DEF IsSearch
  <1> HIDE DEF Is, D
  <1>5. PICK g : IsSearch(g, a, N, Fitting(a))
    BY <1>1, SearchExists
  <1>6. Is(c)
    BY <1>4, <1>5
  <1> HIDE DEF c
  <1>7. IsSearch(c, a, N, Fitting(a))
    BY <1>4, <1>6
  <1>8. Greatest(c[first], a, N, Fitting(a))
    BY <1>1, <1>7, FittingDownward, SearchFinds
  <1> QED
    BY <1>2, <1>8

-----------------------------------------------------------------------------
(* Filling segments *)

\* Occurrences among the first k values.
Before(v, s, k) == Cardinality({x \in 1 .. k : s[x] = v})

BeforeNext(v, s, k) == Before(v, s, k) = Before(v, s, k - 1) + (IF s[k] = v THEN 1 ELSE 0)

LEMMA BeforeGrows ==
    ASSUME NEW D, NEW s \in Seq(D), NEW v
    PROVE  /\ Before(v, s, 0) = 0 /\ Before(v, s, Len(s)) = Occurrences(v, s)
           /\ \A k \in 0 .. Len(s) : Before(v, s, k) \in Nat /\ Before(v, s, k) <= Occurrences(v, s)
           /\ \A k \in 1 .. Len(s) : BeforeNext(v, s, k)
  <1> DEFINE P(k) == {x \in 1 .. k : s[x] = v}
  <1>1. Len(s) \in Nat /\ DOMAIN s = 1 .. Len(s)
    OBVIOUS
  <1>2. P(0) = {} /\ P(Len(s)) = {x \in DOMAIN s : s[x] = v}
    BY <1>1
  <1>3. Before(v, s, 0) = 0 /\ Before(v, s, Len(s)) = Occurrences(v, s)
    BY <1>2, FS_EmptySet, Zenon DEF Before, Occurrences
  <1>4. IsFiniteSet(P(Len(s)))
    BY <1>2, OccurrencesType, Zenon
  <1>5. ASSUME NEW k \in 0 .. Len(s)
        PROVE  IsFiniteSet(P(k)) /\ Cardinality(P(k)) \in Nat
               /\ Cardinality(P(k)) <= Cardinality(P(Len(s)))
    <2>1. P(k) \in SUBSET P(Len(s))
      BY <1>1
    <2> HIDE DEF P
    <2> QED
      BY <2>1, <1>4, FS_Subset, FS_CardinalityType
  <1>6. ASSUME NEW k \in 1 .. Len(s)
        PROVE  Cardinality(P(k)) = Cardinality(P(k - 1)) + (IF s[k] = v THEN 1 ELSE 0)
    <2>1. k - 1 \in 0 .. Len(s) /\ k \notin 1 .. k - 1
      BY <1>1
    <2>2. IsFiniteSet(P(k - 1)) /\ Cardinality(P(k - 1)) \in Nat
      BY <2>1, <1>5
    <2>3. CASE s[k] = v
      <3>1. P(k) = P(k - 1) \cup {k} /\ k \notin P(k - 1)
        BY <2>3, <1>1
      <3> HIDE DEF P
      <3>2. Cardinality(P(k - 1) \cup {k}) = Cardinality(P(k - 1)) + 1
        BY <3>1, <2>2, FS_AddElement
      <3> QED
        BY <3>1, <3>2, <2>3
    <2>4. CASE s[k] # v
      <3>1. P(k) = P(k - 1)
        BY <2>4, <1>1
      <3> HIDE DEF P
      <3> QED
        BY <3>1, <2>4, <2>2
    <2> QED
      BY <2>3, <2>4
  <1> HIDE DEF P
  <1>7. \A k : Before(v, s, k) = Cardinality(P(k))
    BY DEF Before, P
  <1> QED
    BY <1>3, <1>5, <1>6, <1>7 DEF BeforeNext

LEMMA HoldsFinite ==
    ASSUME NEW a, NEW from \in Int, NEW to \in Int, NEW w
    PROVE  IsFiniteSet(Holds(a, from, to, w)) /\ Cardinality(Holds(a, from, to, w)) \in Nat
  <1>1. Holds(a, from, to, w) \in SUBSET (from .. to - 1) /\ to - 1 \in Int
    BY DEF Holds
  <1>2. IsFiniteSet(from .. to - 1)
    BY <1>1, FS_Interval
  <1> QED
    BY <1>1, <1>2, FS_Subset, FS_CardinalityType

LEMMA HoldsNothing ==
    ASSUME NEW a, NEW from \in Int, NEW to \in Int, to <= from, NEW w
    PROVE  Cardinality(Holds(a, from, to, w)) = 0
  <1>1. Holds(a, from, to, w) = {}
    BY DEF Holds
  <1> QED
    BY <1>1, FS_EmptySet

\* Values that stay.
LEMMA HoldsSame ==
    ASSUME NEW a, NEW c, NEW from \in Int, NEW to \in Int, \A p \in from .. to - 1 : c[p] = a[p], NEW w
    PROVE  Holds(c, from, to, w) = Holds(a, from, to, w)
  BY DEF Holds

\* Values that are copied to another place.
ShiftedBy(a, c, from, to, d) == \A p \in from .. to - 1 : c[p + d] = a[p]

LEMMA HoldsShift ==
    ASSUME NEW a, NEW c, NEW from \in Int, NEW to \in Int, NEW d \in Int,
           ShiftedBy(a, c, from, to, d), NEW w
    PROVE  Cardinality(Holds(c, from + d, to + d, w)) = Cardinality(Holds(a, from, to, w))
  <1> DEFINE A == Holds(a, from, to, w)
             C == Holds(c, from + d, to + d, w)
             f == [p \in A |-> p + d]
  <1>1. A \subseteq from .. to - 1
    BY DEF Holds
  <1>2. ASSUME NEW p \in A PROVE p + d \in C
    BY <1>2 DEF Holds, ShiftedBy
  <1>3. ASSUME NEW q \in C PROVE q - d \in A /\ (q - d) + d = q
    BY <1>3 DEF Holds, ShiftedBy
  <1>4. IsFiniteSet(A)
    BY HoldsFinite
  <1> HIDE DEF A, C
  <1>5. f \in [A -> C]
    BY <1>2
  <1>6. \A p, q \in A : f[p] = f[q] => p = q
    BY <1>1
  <1>7. \A q \in C : \E p \in A : f[p] = q
    BY <1>3
  <1> HIDE DEF f
  <1>8. Cardinality(C) = Cardinality(A)
    BY <1>4, <1>5, <1>6, <1>7, SameSize
  <1> QED
    BY <1>8 DEF A, C

\* Values that are written behind others.
WrittenBehind(a, c, from, to, s) ==
    /\ from <= to
    /\ \A p \in from .. to - 1 : c[p] = a[p]
    /\ \A x \in 1 .. Len(s) : c[to + x - 1] = s[x]

LEMMA HoldsAppended ==
    ASSUME NEW a, NEW c, NEW from \in Int, NEW to \in Int, NEW D, NEW s \in Seq(D),
           WrittenBehind(a, c, from, to, s), NEW w
    PROVE  Cardinality(Holds(c, from, to + Len(s), w))
               = Cardinality(Holds(a, from, to, w)) + Occurrences(w, s)
  <1> DEFINE P == {x \in DOMAIN s : s[x] = w}
             Old == Holds(c, from, to, w)
             New == Holds(c, to, to + Len(s), w)
             f == [x \in P |-> to + x - 1]
  <1>1. Len(s) \in Nat /\ DOMAIN s = 1 .. Len(s)
    OBVIOUS
  <1> USE DEF WrittenBehind
  <1>2. ASSUME NEW x \in P PROVE to + x - 1 \in New
    BY <1>1 DEF Holds
  <1>3. ASSUME NEW q \in New PROVE q - to + 1 \in P /\ to + (q - to + 1) - 1 = q
    <2>1. q \in to .. to + Len(s) - 1 /\ c[q] = w
      BY <1>3 DEF Holds
    <2>2. q - to + 1 \in 1 .. Len(s) /\ to + (q - to + 1) - 1 = q
      BY <1>1, <2>1
    <2>3. c[to + (q - to + 1) - 1] = s[q - to + 1]
      BY <2>2
    <2> QED
      BY <2>1, <2>2, <2>3, <1>1
  <1>4. IsFiniteSet(P) /\ Cardinality(P) = Occurrences(w, s) /\ P \subseteq 1 .. Len(s)
    <2>1. IsFiniteSet(P)
      BY OccurrencesType
    <2> QED
      BY <2>1, <1>1 DEF Occurrences
  <1>5. Holds(c, from, to + Len(s), w) = Old \cup New /\ Old \cap New = {}
    BY <1>1 DEF Holds
  <1>6. Old = Holds(a, from, to, w)
    BY DEF Holds, Old
  <1>7. IsFiniteSet(Old) /\ Cardinality(Old) \in Nat
    BY HoldsFinite
  <1> HIDE DEF P, New, Old
  <1>8. f \in [P -> New]
    BY <1>2
  <1>9. \A x, y \in P : f[x] = f[y] => x = y
    BY <1>4
  <1>10. \A q \in New : \E x \in P : f[x] = q
    BY <1>3
  <1> HIDE DEF f
  <1>11. IsFiniteSet(New) /\ Cardinality(New) = Cardinality(P)
    BY <1>4, <1>8, <1>9, <1>10, SameSize
  <1>12. Cardinality(Old \cup New) = Cardinality(Old) + Cardinality(New) - Cardinality(Old \cap New)
    BY <1>7, <1>11, FS_Union
  <1>13. Cardinality(Old \cap New) = 0
    BY <1>5, FS_EmptySet, Zenon
  <1>14. Cardinality(New) \in Nat
    BY <1>11, FS_CardinalityType
  <1>15. Cardinality(Old \cup New) = Cardinality(Old) + Cardinality(New)
    BY <1>7, <1>12, <1>13, <1>14
  <1>16. Cardinality(Holds(c, from, to + Len(s), w)) = Cardinality(Old \cup New)
    BY <1>5, Zenon
  <1> QED
    BY <1>4, <1>6, <1>11, <1>15, <1>16

LEMMA OneOccurrence ==
    ASSUME NEW x, NEW w PROVE Occurrences(w, <<x>>) = IF x = w THEN 1 ELSE 0
  <1>1. DOMAIN <<x>> = {1} /\ <<x>>[1] = x
    OBVIOUS
  <1>2. CASE x = w
    <2>1. {i \in DOMAIN <<x>> : <<x>>[i] = w} = {1}
      BY <1>1, <1>2
    <2> QED
      BY <2>1, <1>2, FS_Singleton DEF Occurrences
  <1>3. CASE x # w
    <2>1. {i \in DOMAIN <<x>> : <<x>>[i] = w} = {}
      BY <1>1, <1>3
    <2> QED
      BY <2>1, <1>3, FS_EmptySet DEF Occurrences
  <1> QED
    BY <1>2, <1>3

-----------------------------------------------------------------------------
(* One record of the scan *)

\* The segments after the count pass.
Counting == {"offsets", "stripes", "scan", "done"}
LEMMA CountedSegments ==
    ASSUME ReverseInv, pc \in Counting
    PROVE  /\ N \in Nat /\ Segments
           /\ \A v \in 0 .. N - 1 : /\ cnt[v] = Degree(v, N) /\ cnt[v] \in Nat
                                    /\ off_elems[v + 1] = off_elems[v] + cnt[v]
  <1>1. GraphOK /\ CountPass /\ N \in Nat
    BY NodesNat DEF ReverseInv
  <1>2. /\ cnt = [v \in 0 .. N - 1 |-> Degree(v, N)] /\ N > 0
        /\ off_elems \in [0 .. N -> Nat]
        /\ \A v \in 0 .. N - 1 : off_elems[v + 1] = off_elems[v] + cnt[v]
    BY <1>1 DEF CountPass, Counting
  <1>3. ASSUME NEW v \in 0 .. N - 1 PROVE cnt[v] = Degree(v, N) /\ cnt[v] \in Nat
    BY <1>1, <1>2, DegreeGrows
  <1>4. ASSUME NEW v \in 0 .. N - 1 PROVE off_elems[v] <= off_elems[v + 1]
    <2>1. off_elems[v] \in Nat
      BY <1>2, <1>1
    <2> QED
      BY <2>1, <1>2, <1>3
  <1> QED
    BY <1>1, <1>2, <1>3, <1>4 DEF Segments

\* Where the segments of the stripe begin and end in the buffer.
Begins(v) == IdsOf(lo, v)
Ends(v) == IdsOf(lo, v + 1)

LEMMA StripeSegments ==
    ASSUME ReverseInv, pc \in Counting, lo \in 0 .. N - 1, NEW h \in lo + 1 .. N
    PROVE  /\ IdsOf(lo, h) \in Nat
           /\ \A v \in lo .. h - 1 : /\ Begins(v) \in Nat /\ Ends(v) \in Nat
                                     /\ Ends(v) = Begins(v) + cnt[v]
                                     /\ Begins(v) = off_elems[v] - off_elems[lo]
                                     /\ Ends(v) = off_elems[v + 1] - off_elems[lo]
                                     /\ Begins(v) <= Ends(v) /\ Ends(v) <= IdsOf(lo, h)
           /\ \A v, w \in lo .. h - 1 : v < w => Ends(v) <= Begins(w)
  <1>1. /\ N \in Nat /\ Segments /\ GraphOK
        /\ \A v \in 0 .. N - 1 : cnt[v] \in Nat /\ off_elems[v + 1] = off_elems[v] + cnt[v]
    BY CountedSegments DEF ReverseInv
  <1>2. lo \in 0 .. N /\ h \in lo .. N /\ lo \in Nat /\ h \in Nat
    BY <1>1
  <1>3. ASSUME NEW a \in lo .. N, NEW z \in a .. N
        PROVE  /\ IdsOf(lo, a) \in Nat /\ IdsOf(lo, z) \in Nat
               /\ IdsOf(lo, a) = off_elems[a] - off_elems[lo]
               /\ IdsOf(lo, a) <= IdsOf(lo, z) /\ off_elems[a] \in Nat /\ off_elems[lo] \in Nat
    <2>1. a \in 0 .. N /\ z \in lo .. N /\ a \in Nat /\ z \in Nat
      BY <1>2
    <2>2. /\ IdsOf(lo, a) \in Nat /\ IdsOf(lo, a) = off_elems[a] - off_elems[lo]
          /\ off_elems[a] \in Nat /\ off_elems[lo] \in Nat
      BY <1>1, <1>2, IdsOfType
    <2>3. IdsOf(lo, z) \in Nat /\ IdsOf(lo, z) = off_elems[z] - off_elems[lo] /\ off_elems[z] \in Nat
      BY <1>1, <1>2, <2>1, IdsOfType
    <2>4. IdsOf(a, z) \in Nat /\ IdsOf(a, z) = off_elems[z] - off_elems[a]
      BY <1>1, <2>1, IdsOfType
    <2> QED
      BY <2>2, <2>3, <2>4
  <1>4. ASSUME NEW v \in lo .. h - 1
        PROVE  /\ Begins(v) \in Nat /\ Ends(v) \in Nat
               /\ Ends(v) = Begins(v) + cnt[v]
               /\ Begins(v) = off_elems[v] - off_elems[lo]
               /\ Ends(v) = off_elems[v + 1] - off_elems[lo]
               /\ Begins(v) <= Ends(v) /\ Ends(v) <= IdsOf(lo, h)
    <2>1. v \in lo .. N /\ v + 1 \in v .. N /\ v + 1 \in lo .. N /\ h \in v + 1 .. N /\ v \in 0 .. N - 1
      BY <1>1, <1>2
    <2>2. /\ Begins(v) \in Nat /\ Ends(v) \in Nat /\ Begins(v) <= Ends(v)
          /\ Begins(v) = off_elems[v] - off_elems[lo] /\ off_elems[v] \in Nat /\ off_elems[lo] \in Nat
      BY <2>1, <1>3 DEF Begins, Ends
    <2>3. Ends(v) <= IdsOf(lo, h) /\ Ends(v) = off_elems[v + 1] - off_elems[lo]
          /\ off_elems[v + 1] \in Nat
      BY <2>1, <1>3 DEF Ends
    <2>4. off_elems[v + 1] = off_elems[v] + cnt[v] /\ cnt[v] \in Nat
      BY <2>1, <1>1
    <2> QED
      BY <2>2, <2>3, <2>4
  <1>5. ASSUME NEW v \in lo .. h - 1, NEW w \in lo .. h - 1, v < w PROVE Ends(v) <= Begins(w)
    <2>1. v + 1 \in lo .. N /\ w \in v + 1 .. N
      BY <1>1, <1>2, <1>5
    <2> QED
      BY <2>1, <1>3 DEF Begins, Ends
  <1>6. IdsOf(lo, h) \in Nat
    BY <1>1, <1>2, IdsOfType
  <1> QED
    BY <1>4, <1>5, <1>6

\* What is known of the scan at node u.
Scanning == ReverseInv /\ pc = "scan" /\ u < N
Cell == Nat \cup {buf[p] : p \in DOMAIN buf}
ScanStates == [buf : [0 .. IdsOf(lo, hi) - 1 -> Cell], cur : [lo .. hi - 1 -> Nat], ok : BOOLEAN]

\* The forward copy and the first k reverse edges of u are done.
Scanned(d, k) ==
    /\ d.ok
    /\ \A v \in lo .. hi - 1 :
         d.cur[v] = Begins(v) + Degree(v, u) + (IF v = u THEN Len(graph[u]) ELSE 0)
                    + Before(v, graph[u], k)
    /\ \A v \in lo .. hi - 1, w \in 0 .. N - 1 :
         Cardinality(Holds(d.buf, Begins(v), d.cur[v], w)) =
             Found(v, w, u) + (IF v = u THEN Occurrences(w, graph[u]) ELSE 0)
             + (IF w = u THEN Before(v, graph[u], k) ELSE 0)

LEMMA ScanFacts ==
    ASSUME Scanning
    PROVE  /\ N \in Nat /\ GraphOK /\ lo \in Nat /\ hi \in Nat /\ lo < hi /\ hi <= N
           /\ u \in 0 .. N - 1 /\ graph[u] \in Seq(0 .. N - 1) /\ Len(graph[u]) \in Nat
           /\ IdsOf(lo, hi) \in Nat
           /\ buf \in [0 .. IdsOf(lo, hi) - 1 -> Cell] /\ cur \in [lo .. hi - 1 -> Nat]
           /\ lo \in 0 .. N - 1 /\ hi \in lo + 1 .. N /\ pc \in Counting
  <1>1. GraphOK /\ CountPass /\ StripeOK /\ N \in Nat /\ pc = "scan" /\ u < N /\ pc \in Counting
    BY NodesNat DEF ReverseInv, Scanning, Counting
  <1>2. /\ lo \in 0 .. N - 1 /\ hi \in lo + 1 .. N /\ u \in 0 .. N
        /\ buf = [p \in 0 .. IdsOf(lo, hi) - 1 |-> buf[p]]
        /\ cur = [v \in lo .. hi - 1 |-> IdsOf(lo, v) + Degree(v, u)]
    BY <1>1 DEF StripeOK
  <1>3. u \in 0 .. N - 1
    BY <1>1, <1>2
  <1>4. graph[u] \in Seq(0 .. N - 1) /\ Len(graph[u]) \in Nat
    <2>1. graph[u] \in Seq(Nat)
      BY <1>1, <1>3 DEF GraphOK
    <2>2. \A x \in 1 .. Len(graph[u]) : graph[u][x] \in Nat /\ graph[u][x] < N
      BY <2>1, <1>1, <1>3 DEF CountPass, InRange
    <2>3. \A x \in 1 .. Len(graph[u]) : graph[u][x] \in 0 .. N - 1
      BY <2>2, <1>1
    <2> QED
      BY <2>1, <2>3, Elements
  <1>5. /\ IdsOf(lo, hi) \in Nat
        /\ \A v \in lo .. hi - 1 : Begins(v) \in Nat
    BY <1>1, <1>2, StripeSegments DEF Scanning
  <1>6. ASSUME NEW v \in lo .. hi - 1 PROVE IdsOf(lo, v) + Degree(v, u) \in Nat
    <2>1. v \in 0 .. N - 1 /\ u \in 0 .. N
      BY <1>1, <1>2
    <2>2. Degree(v, u) \in Nat
      BY <2>1, <1>1, DegreeGrows
    <2> QED
      BY <2>2, <1>5 DEF Begins
  <1>7. cur \in [lo .. hi - 1 -> Nat]
    BY <1>2, <1>6
  <1>8. buf \in [0 .. IdsOf(lo, hi) - 1 -> Cell]
    BY <1>2 DEF Cell
  <1> QED
    BY <1>1, <1>2, <1>3, <1>4, <1>5, <1>7, <1>8

\* A cursor never passes the end of its segment.
LEMMA RoomLeft ==
    ASSUME Scanning, NEW v \in lo .. hi - 1, NEW k \in 0 .. Len(graph[u])
    PROVE  /\ Begins(v) \in Nat /\ Degree(v, u) \in Nat /\ Before(v, graph[u], k) \in Nat
           /\ Begins(v) + Degree(v, u) + (IF v = u THEN Len(graph[u]) ELSE 0)
              + Before(v, graph[u], k) <= Ends(v)
           /\ Ends(v) <= IdsOf(lo, hi) /\ Ends(v) \in Nat
  <1>1. /\ N \in Nat /\ GraphOK /\ u \in 0 .. N - 1 /\ graph[u] \in Seq(0 .. N - 1)
        /\ lo \in 0 .. N - 1 /\ hi \in lo + 1 .. N /\ pc \in Counting /\ Len(graph[u]) \in Nat
    BY ScanFacts
  <1>2. v \in 0 .. N - 1 /\ u \in 0 .. N /\ u + 1 \in 0 .. N
    BY <1>1
  <1>3. /\ Begins(v) \in Nat /\ Ends(v) = Begins(v) + cnt[v] /\ Ends(v) <= IdsOf(lo, hi)
        /\ Ends(v) \in Nat
    BY <1>1, StripeSegments DEF Scanning
  <1>4. cnt[v] = Degree(v, N)
    BY <1>1, <1>2, CountedSegments DEF Scanning
  <1>5. Degree(v, u + 1) <= Degree(v, N) /\ Degree(v, u + 1) \in Nat /\ Degree(v, N) \in Nat
    <2>1. N \in 0 .. N
      BY <1>1
    <2> QED
      BY <2>1, <1>1, <1>2, DegreeBound, DegreeGrows, Zenon
  <1>6. Degree(v, u + 1) = Degree(v, u) + Occurrences(v, graph[u])
                           + (IF v = u THEN Len(graph[u]) ELSE 0)
        /\ Degree(v, u) \in Nat
    BY <1>1, <1>2, DegreeGrows
  <1>7. Before(v, graph[u], k) \in Nat /\ Before(v, graph[u], k) <= Occurrences(v, graph[u])
        /\ Occurrences(v, graph[u]) \in Nat
    BY <1>1, BeforeGrows, OccurrencesType
  <1> DEFINE own == IF v = u THEN Len(graph[u]) ELSE 0
  <1>8. own \in Nat
    BY <1>1
  <1> HIDE DEF own
  <1>9. Degree(v, u + 1) = Degree(v, u) + Occurrences(v, graph[u]) + own
    BY <1>6 DEF own
  <1>10. Begins(v) + Degree(v, u) + own + Before(v, graph[u], k) <= Ends(v)
    BY <1>3, <1>4, <1>5, <1>6, <1>7, <1>8, <1>9
  <1> QED
    BY <1>3, <1>6, <1>7, <1>10 DEF own

\* Lines 577-586: the forward copy.
LEMMA ForwardScanned == ASSUME Scanning PROVE Forward \in ScanStates /\ Scanned(Forward, 0)
  <1> DEFINE s == graph[u]
             M == IdsOf(lo, hi)
  <1>1. /\ N \in Nat /\ GraphOK /\ lo \in Nat /\ hi \in Nat /\ lo < hi /\ hi <= N
        /\ u \in 0 .. N - 1 /\ s \in Seq(0 .. N - 1) /\ Len(s) \in Nat /\ M \in Nat
        /\ buf \in [0 .. M - 1 -> Cell] /\ cur \in [lo .. hi - 1 -> Nat]
        /\ lo \in 0 .. N - 1 /\ hi \in lo + 1 .. N /\ pc \in Counting
    BY ScanFacts
  <1>2. /\ \A v \in lo .. hi - 1 : cur[v] = Begins(v) + Degree(v, u)
        /\ \A v \in lo .. hi - 1, w \in 0 .. N - 1 :
             Cardinality(Holds(buf, Begins(v), cur[v], w)) = Found(v, w, u)
    BY DEF Scanning, ReverseInv, StripeOK, Filled, Begins
  <1>3. ASSUME NEW v \in lo .. hi - 1
        PROVE  /\ Begins(v) \in Nat /\ Degree(v, u) \in Nat /\ Ends(v) \in Nat /\ Ends(v) <= M
               /\ Begins(v) + Degree(v, u) + (IF v = u THEN Len(s) ELSE 0) <= Ends(v)
               /\ Before(v, s, 0) = 0
    <2>1. 0 \in 0 .. Len(s) /\ Before(v, s, 0) = 0
      BY <1>1, BeforeGrows
    <2>2. /\ Begins(v) \in Nat /\ Degree(v, u) \in Nat /\ Ends(v) \in Nat /\ Ends(v) <= M
          /\ Begins(v) + Degree(v, u) + (IF v = u THEN Len(s) ELSE 0) + Before(v, s, 0) <= Ends(v)
      BY <2>1, RoomLeft
    <2> DEFINE own == IF v = u THEN Len(s) ELSE 0
    <2>3. own \in Nat
      BY <1>1
    <2> HIDE DEF own
    <2>4. Begins(v) + Degree(v, u) + own <= Ends(v)
      BY <2>1, <2>2, <2>3 DEF own
    <2> QED
      BY <2>1, <2>2, <2>4 DEF own
  <1>4. \A v, w \in lo .. hi - 1 : v < w => Ends(v) <= Begins(w)
    BY <1>1, StripeSegments DEF Scanning
  <1>5. ASSUME NEW v \in 0 .. N - 1, NEW w \in 0 .. N - 1
        PROVE  Found(v, w, u) \in Nat /\ Occurrences(v, graph[w]) \in Nat
    <2>1. graph[v] \in Seq(Nat) /\ graph[w] \in Seq(Nat)
      BY <1>1 DEF GraphOK
    <2>2. Occurrences(w, graph[v]) \in Nat /\ Occurrences(v, graph[w]) \in Nat
      BY <2>1, OccurrencesType
    <2> QED
      BY <2>2 DEF Found
  <1>6. \A v \in lo .. hi - 1 : v \in 0 .. N - 1
    BY <1>1
  <1>7. CASE ~InStripe(u)
    <2>1. Forward = [buf |-> buf, cur |-> cur, ok |-> TRUE]
      BY <1>7 DEF Forward
    <2>2. \A v \in lo .. hi - 1 : v # u
      BY <1>7, <1>1 DEF InStripe
    <2>3. Forward.buf = buf /\ Forward.cur = cur /\ Forward.ok /\ Forward \in ScanStates
      BY <2>1, <1>1 DEF ScanStates
    <2>4. ASSUME NEW v \in lo .. hi - 1
          PROVE  cur[v] = Begins(v) + Degree(v, u) + (IF v = u THEN Len(s) ELSE 0) + Before(v, s, 0)
      BY <1>2, <1>3, <2>2
    <2>5. ASSUME NEW v \in lo .. hi - 1, NEW w \in 0 .. N - 1
          PROVE  Cardinality(Holds(buf, Begins(v), cur[v], w)) =
                     Found(v, w, u) + (IF v = u THEN Occurrences(w, s) ELSE 0)
                     + (IF w = u THEN Before(v, s, 0) ELSE 0)
      BY <1>2, <1>3, <1>5, <1>6, <2>2
    <2> QED
      BY <2>3, <2>4, <2>5 DEF Scanned
  <1>8. CASE InStripe(u)
    <2> DEFINE c == CopiedForward(buf)
               r == ForwardCursor
               x0 == cur[u]
               n == Len(s)
    <2>1. Forward = [buf |-> c, cur |-> r, ok |-> TRUE] /\ u \in lo .. hi - 1
      BY <1>8, <1>1 DEF Forward, InStripe
    <2>3. c = [p \in 0 .. M - 1 |-> IF p - x0 \in 0 .. n - 1 THEN s[p - x0 + 1] ELSE buf[p]]
      BY <1>1 DEF CopiedForward
    <2>4. r \in [lo .. hi - 1 -> Nat] /\ r[u] = x0 + n
          /\ \A v \in lo .. hi - 1 : v # u => r[v] = cur[v]
      BY <2>1, <1>1 DEF ForwardCursor
    <2>20. x0 \in Nat /\ n \in Nat /\ M \in Nat /\ x0 = Begins(u) + Degree(u, u)
      BY <2>1, <1>1, <1>2
    <2>21. /\ Begins(u) \in Nat /\ Degree(u, u) \in Nat /\ Ends(u) \in Nat /\ Ends(u) <= M
           /\ Begins(u) + Degree(u, u) + n <= Ends(u)
      BY <2>1, <1>3
    <2> HIDE DEF c, r, x0, n, M
    <2>2. x0 + n <= M /\ Begins(u) <= x0 /\ x0 + n <= Ends(u)
      BY <2>20, <2>21
    <2>5. c \in [0 .. M - 1 -> Cell]
      <3>1. ASSUME NEW p \in 0 .. M - 1, p - x0 \in 0 .. n - 1
            PROVE  s[p - x0 + 1] \in Cell
        <4>1. p - x0 + 1 \in 1 .. n
          BY <3>1, <2>20
        <4>2. s[p - x0 + 1] \in 0 .. N - 1
          <5>1. s \in Seq(0 .. N - 1)
            BY <1>1
          <5> HIDE DEF s
          <5>2. \A y \in 1 .. Len(s) : s[y] \in 0 .. N - 1
            BY <5>1, ElementOf
          <5> QED
            BY <4>1, <5>2 DEF n
        <4> QED
          BY <4>2, <1>1 DEF Cell
      <3> QED
        BY <3>1, <2>3, <1>1
    <2>6. Forward.buf = c /\ Forward.cur = r /\ Forward.ok /\ Forward \in ScanStates
      BY <2>1, <2>4, <2>5 DEF ScanStates, M
    <2>7. ASSUME NEW v \in lo .. hi - 1
          PROVE  r[v] = Begins(v) + Degree(v, u) + (IF v = u THEN Len(s) ELSE 0) + Before(v, s, 0)
      <3>1. Begins(v) \in Nat /\ Degree(v, u) \in Nat /\ Before(v, s, 0) = 0
        BY <1>3
      <3>2. CASE v = u
        BY <3>1, <3>2, <2>4, <2>20 DEF n
      <3>3. CASE v # u
        <4>1. r[v] = Begins(v) + Degree(v, u)
          BY <3>3, <2>4, <1>2
        <4> QED
          BY <4>1, <3>1, <3>3
      <3> QED
        BY <3>2, <3>3
    <2>8. ASSUME NEW w \in 0 .. N - 1
          PROVE  Cardinality(Holds(c, Begins(u), r[u], w)) = Found(u, w, u) + Occurrences(w, s)
      <3>1. \A p \in Begins(u) .. x0 - 1 : c[p] = buf[p]
        <4>1. ASSUME NEW p \in Begins(u) .. x0 - 1
              PROVE  p \in 0 .. M - 1 /\ ~(p - x0 \in 0 .. n - 1)
          BY <2>2, <2>20, <2>21
        <4> QED
          BY <4>1, <2>3
      <3>2. \A x \in 1 .. n : c[x0 + x - 1] = s[x]
        <4>1. ASSUME NEW x \in 1 .. n
              PROVE  /\ x0 + x - 1 \in 0 .. M - 1 /\ (x0 + x - 1) - x0 \in 0 .. n - 1
                     /\ (x0 + x - 1) - x0 + 1 = x
          BY <2>2, <2>20
        <4> QED
          BY <4>1, <2>3
      <3>3. Begins(u) \in Int /\ x0 \in Int /\ Begins(u) <= x0
        BY <2>2, <2>20, <2>21
      <3>4. Cardinality(Holds(c, Begins(u), x0 + n, w))
                = Cardinality(Holds(buf, Begins(u), x0, w)) + Occurrences(w, s)
        <4>1. s \in Seq(0 .. N - 1)
          BY <1>1
        <4>2. \A x \in 1 .. Len(s) : c[x0 + x - 1] = s[x]
          BY <3>2 DEF n
        <4> HIDE DEF s
        <4>3. Cardinality(Holds(c, Begins(u), x0 + Len(s), w))
                  = Cardinality(Holds(buf, Begins(u), x0, w)) + Occurrences(w, s)
          <5>1. WrittenBehind(buf, c, Begins(u), x0, s)
            BY <3>1, <3>3, <4>2 DEF WrittenBehind
          <5> QED
            BY <3>3, <4>1, <5>1, HoldsAppended
        <4> QED
          BY <4>3 DEF n
      <3>5. Cardinality(Holds(buf, Begins(u), x0, w)) = Found(u, w, u)
        BY <2>1, <1>2 DEF x0
      <3> QED
        BY <3>4, <3>5, <2>4
    <2>9. ASSUME NEW v \in lo .. hi - 1, v # u, NEW w \in 0 .. N - 1
          PROVE  Cardinality(Holds(c, Begins(v), r[v], w)) = Found(v, w, u)
      <3> DEFINE y0 == cur[v]
      <3>1. Begins(v) \in Nat /\ y0 \in Nat /\ y0 <= Ends(v) /\ Ends(v) <= M /\ Ends(v) \in Nat
        <4>1. /\ Begins(v) \in Nat /\ Degree(v, u) \in Nat /\ Ends(v) \in Nat /\ Ends(v) <= M
              /\ Begins(v) + Degree(v, u) + 0 <= Ends(v)
          BY <1>3, <2>9
        <4>2. y0 = Begins(v) + Degree(v, u)
          BY <1>2
        <4> HIDE DEF y0
        <4> QED
          BY <4>1, <4>2
      <3>2. Ends(v) <= Begins(u) \/ Ends(u) <= Begins(v)
        <4>1. v < u \/ u < v
          BY <2>9, <1>1
        <4> QED
          BY <4>1, <1>4, <2>1
      <3> HIDE DEF y0
      <3>3. \A p \in Begins(v) .. y0 - 1 : c[p] = buf[p]
        <4>2. ASSUME NEW p \in Begins(v) .. y0 - 1
              PROVE  p \in 0 .. M - 1 /\ ~(p - x0 \in 0 .. n - 1)
          <5>1. p \in 0 .. M - 1
            BY <3>1, <2>20
          <5>2. p < x0 \/ p >= x0 + n
            BY <3>1, <3>2, <2>2, <2>20, <2>21
          <5> QED
            BY <5>1, <5>2, <2>20
        <4> QED
          BY <4>2, <2>3
      <3>4. Holds(c, Begins(v), y0, w) = Holds(buf, Begins(v), y0, w)
        BY <3>3 DEF Holds
      <3>5. r[v] = y0 /\ Cardinality(Holds(buf, Begins(v), y0, w)) = Found(v, w, u)
        BY <2>4, <2>9, <1>2 DEF y0
      <3> QED
        BY <3>4, <3>5
    <2>10. ASSUME NEW v \in lo .. hi - 1, NEW w \in 0 .. N - 1
           PROVE  Cardinality(Holds(c, Begins(v), r[v], w)) =
                      Found(v, w, u) + (IF v = u THEN Occurrences(w, s) ELSE 0)
                      + (IF w = u THEN Before(v, s, 0) ELSE 0)
      <3>1. /\ Found(v, w, u) \in Nat /\ Occurrences(w, s) \in Nat
        BY <1>1, <1>5, <1>6
      <3>2. Before(v, s, 0) = 0
        BY <1>3
      <3>3. CASE v = u
        BY <3>1, <3>2, <3>3, <2>8
      <3>4. CASE v # u
        BY <3>1, <3>2, <3>4, <2>9
      <3> QED
        BY <3>3, <3>4
    <2> QED
      BY <2>6, <2>7, <2>10 DEF Scanned
  <1> QED
    BY <1>7, <1>8

\* Lines 587-598 keep the types of the buffer and of the cursors.
LEMMA AddReverseType ==
    ASSUME Scanning, NEW d \in ScanStates, NEW v \in 0 .. N - 1
    PROVE  /\ AddReverse(d, v) \in ScanStates
           /\ d.ok /\ InStripe(v) /\ ~(d.cur[v] + 1 > IdsOf(lo, hi)) =>
                  AddReverse(d, v) = [buf |-> [d.buf EXCEPT ![d.cur[v]] = u],
                                      cur |-> [d.cur EXCEPT ![v] = @ + 1], ok |-> d.ok]
  <1> DEFINE b2 == [d.buf EXCEPT ![d.cur[v]] = u]
             c2 == [d.cur EXCEPT ![v] = @ + 1]
  <1>1. /\ d.buf \in [0 .. IdsOf(lo, hi) - 1 -> Cell] /\ d.cur \in [lo .. hi - 1 -> Nat]
        /\ d.ok \in BOOLEAN /\ d = [buf |-> d.buf, cur |-> d.cur, ok |-> d.ok]
    BY DEF ScanStates
  <1>2. u \in Cell
    BY ScanFacts DEF Cell
  <1>3. b2 \in [0 .. IdsOf(lo, hi) - 1 -> Cell] /\ c2 \in [lo .. hi - 1 -> Nat]
    <2>1. b2 \in [0 .. IdsOf(lo, hi) - 1 -> Cell]
      BY <1>1, <1>2
    <2>2. c2 \in [lo .. hi - 1 -> Nat]
      <3>1. ASSUME NEW x \in lo .. hi - 1 PROVE c2[x] \in Nat
        <4>1. d.cur[x] \in Nat /\ d.cur[x] + 1 \in Nat
          <5>1. d.cur \in [lo .. hi - 1 -> Nat]
            BY <1>1
          <5>2. d.cur[x] \in Nat
            BY <5>1
          <5> QED
            BY <5>2
        <4>2. c2[x] = IF x = v THEN d.cur[x] + 1 ELSE d.cur[x]
          BY <1>1
        <4> QED
          BY <4>1, <4>2
      <3>2. c2 = [x \in lo .. hi - 1 |-> c2[x]]
        BY <1>1
      <3> HIDE DEF c2
      <3> QED
        BY <3>1, <3>2
    <2> QED
      BY <2>1, <2>2
  <1>4. [d EXCEPT !.ok = FALSE] \in ScanStates
    BY DEF ScanStates
  <1>5. [d EXCEPT !.buf[d.cur[v]] = u, !.cur[v] = @ + 1] = [buf |-> b2, cur |-> c2, ok |-> d.ok]
    <2> DEFINE e == [d EXCEPT !.buf[d.cur[v]] = u]
    <2>1. e = [buf |-> b2, cur |-> d.cur, ok |-> d.ok]
      BY <1>1
    <2>2. [d EXCEPT !.buf[d.cur[v]] = u, !.cur[v] = @ + 1] = [e EXCEPT !.cur[v] = @ + 1]
      OBVIOUS
    <2> HIDE DEF e
    <2> QED
      BY <2>1, <2>2
  <1>6. [buf |-> b2, cur |-> c2, ok |-> d.ok] \in ScanStates
    BY <1>1, <1>3 DEF ScanStates
  <1> HIDE DEF b2, c2
  <1>7. AddReverse(d, v) \in ScanStates
    BY <1>4, <1>5, <1>6 DEF AddReverse
  <1>8. d.ok /\ InStripe(v) /\ ~(d.cur[v] + 1 > IdsOf(lo, hi)) =>
            AddReverse(d, v) = [buf |-> b2, cur |-> c2, ok |-> d.ok]
    BY <1>5 DEF AddReverse
  <1> QED
    BY <1>7, <1>8 DEF b2, c2

\* Lines 587-598: one reverse edge.  There is room for it in its own segment.
LEMMA AddScanned ==
    ASSUME Scanning, NEW d \in ScanStates, NEW k \in 1 .. Len(graph[u]), Scanned(d, k - 1)
    PROVE  Scanned(AddReverse(d, graph[u][k]), k)
  <1> DEFINE s == graph[u]
             x == s[k]
             M == IdsOf(lo, hi)
             e == AddReverse(d, x)
  <1>1. /\ N \in Nat /\ lo \in Nat /\ hi \in Nat /\ hi <= N
        /\ u \in 0 .. N - 1 /\ s \in Seq(0 .. N - 1) /\ Len(s) \in Nat /\ M \in Nat
        /\ lo \in 0 .. N - 1 /\ hi \in lo + 1 .. N /\ pc \in Counting /\ GraphOK
    BY ScanFacts
  <1>2. x \in 0 .. N - 1 /\ k \in 0 .. Len(s) /\ k - 1 \in 0 .. Len(s)
    BY <1>1, ElementOf
  <1>3. /\ d.buf \in [0 .. M - 1 -> Cell] /\ d.cur \in [lo .. hi - 1 -> Nat] /\ d.ok
    BY DEF ScanStates, Scanned
  <1>4. ASSUME NEW v \in lo .. hi - 1
        PROVE  /\ Before(v, s, k) = Before(v, s, k - 1) + (IF x = v THEN 1 ELSE 0)
               /\ Before(v, s, k) \in Nat /\ Before(v, s, k - 1) \in Nat
    <2>1. s \in Seq(0 .. N - 1) /\ k \in 1 .. Len(s) /\ k \in 0 .. Len(s) /\ k - 1 \in 0 .. Len(s)
      BY <1>1, <1>2
    <2> HIDE DEF s
    <2>2. \A z \in 0 .. Len(s) : Before(v, s, z) \in Nat /\ Before(v, s, z) <= Occurrences(v, s)
      BY <2>1, BeforeGrows, Zenon
    <2>3. \A z \in 1 .. Len(s) : BeforeNext(v, s, z)
      BY <2>1, BeforeGrows, Zenon
    <2> QED
      BY <2>1, <2>2, <2>3 DEF BeforeNext
  <1> DEFINE Own(v) == Begins(v) + Degree(v, u) + (IF v = u THEN Len(s) ELSE 0)
             Want(v, w) == Found(v, w, u) + (IF v = u THEN Occurrences(w, s) ELSE 0)
  <1>5. ASSUME NEW v \in lo .. hi - 1
        PROVE  d.cur[v] = Own(v) + Before(v, s, k - 1) /\ Own(v) \in Nat
    <2>1. Begins(v) \in Nat /\ Degree(v, u) \in Nat
      BY <1>2, RoomLeft
    <2>2. (IF v = u THEN Len(s) ELSE 0) \in Nat
      BY <1>1
    <2> QED
      BY <2>1, <2>2 DEF Scanned
  <1>6. ASSUME NEW v \in lo .. hi - 1, NEW w \in 0 .. N - 1
        PROVE  /\ Cardinality(Holds(d.buf, Begins(v), d.cur[v], w))
                      = Want(v, w) + (IF w = u THEN Before(v, s, k - 1) ELSE 0)
               /\ Want(v, w) \in Nat
    <2>0. v \in 0 .. N - 1
      BY <1>1
    <2>1. graph[v] \in Seq(Nat) /\ graph[w] \in Seq(Nat)
      BY <2>0, <1>1 DEF GraphOK
    <2>2. /\ Occurrences(w, graph[v]) \in Nat /\ Occurrences(v, graph[w]) \in Nat
          /\ Occurrences(w, s) \in Nat
      BY <2>1, <1>1, OccurrencesType
    <2>3. Found(v, w, u) \in Nat
      BY <2>2 DEF Found
    <2>4. Want(v, w) \in Nat
      BY <2>2, <2>3
    <2> QED
      BY <2>4 DEF Scanned
  <1>7. ASSUME NEW v \in lo .. hi - 1
        PROVE  /\ Begins(v) \in Nat /\ Ends(v) \in Nat /\ Ends(v) <= M
               /\ Own(v) + Before(v, s, k) <= Ends(v) /\ Begins(v) <= Own(v)
    <2>1. /\ Begins(v) \in Nat /\ Degree(v, u) \in Nat /\ Ends(v) \in Nat /\ Ends(v) <= M
          /\ Own(v) + Before(v, s, k) <= Ends(v)
      BY <1>2, RoomLeft
    <2>2. (IF v = u THEN Len(s) ELSE 0) \in Nat
      BY <1>1
    <2> QED
      BY <2>1, <2>2
  <1>8. \A v, w \in lo .. hi - 1 : v < w => Ends(v) <= Begins(w)
    BY <1>1, StripeSegments DEF Scanning
  <1> SUFFICES Scanned(e, k)
    OBVIOUS
  <1>9. Scanned(e, k) <=>
            /\ e.ok
            /\ \A v \in lo .. hi - 1 : e.cur[v] = Own(v) + Before(v, s, k)
            /\ \A v \in lo .. hi - 1, w \in 0 .. N - 1 :
                 Cardinality(Holds(e.buf, Begins(v), e.cur[v], w)) =
                     Want(v, w) + (IF w = u THEN Before(v, s, k) ELSE 0)
    BY DEF Scanned
  <1> HIDE DEF Own, Want, s, M
  <1>10. CASE ~InStripe(x)
    <2>1. e = d
      BY <1>10 DEF AddReverse
    <2>2. \A v \in lo .. hi - 1 : x # v
      BY <1>10, <1>1 DEF InStripe
    <2> HIDE DEF e, x
    <2>3. \A v \in lo .. hi - 1 : Before(v, s, k) = Before(v, s, k - 1)
      BY <2>2, <1>4
    <2>4. ASSUME NEW v \in lo .. hi - 1 PROVE e.cur[v] = Own(v) + Before(v, s, k)
      BY <2>1, <2>3, <1>5
    <2>5. ASSUME NEW v \in lo .. hi - 1, NEW w \in 0 .. N - 1
          PROVE  Cardinality(Holds(e.buf, Begins(v), e.cur[v], w))
                     = Want(v, w) + (IF w = u THEN Before(v, s, k) ELSE 0)
      BY <2>1, <2>3, <1>6
    <2> QED
      BY <2>1, <2>4, <2>5, <1>3, <1>9
  <1>11. CASE InStripe(x)
    <2> DEFINE y == d.cur[x]
    <2>1. x \in lo .. hi - 1
      BY <1>11, <1>1, <1>2 DEF InStripe
    <2>2. y \in Nat /\ y = Own(x) + Before(x, s, k - 1) /\ Before(x, s, k) = Before(x, s, k - 1) + 1
      BY <2>1, <1>3, <1>4, <1>5
    <2>3. /\ Begins(x) \in Nat /\ Ends(x) \in Nat /\ Ends(x) <= M /\ Begins(x) <= Own(x)
          /\ Own(x) + Before(x, s, k) <= Ends(x) /\ Own(x) \in Nat /\ Before(x, s, k - 1) \in Nat
          /\ M \in Nat
      BY <2>1, <1>1, <1>4, <1>5, <1>7
    <2>4. Begins(x) <= y /\ y + 1 <= Ends(x) /\ y \in 0 .. M - 1 /\ ~(y + 1 > M)
      <3> HIDE DEF y
      <3> QED
        BY <2>2, <2>3
    <2>5. e = [buf |-> [d.buf EXCEPT ![y] = u], cur |-> [d.cur EXCEPT ![x] = y + 1], ok |-> d.ok]
      <3>1. ~(d.cur[x] + 1 > IdsOf(lo, hi))
        BY <2>4 DEF M
      <3> QED
        BY <3>1, <1>2, <1>3, <1>11, AddReverseType
    <2> HIDE DEF y, e, x
    <2>6. /\ e.ok /\ e.cur[x] = y + 1 /\ \A v \in lo .. hi - 1 : v # x => e.cur[v] = d.cur[v]
          /\ e.buf[y] = u /\ \A p \in 0 .. M - 1 : p # y => e.buf[p] = d.buf[p]
      BY <2>1, <2>4, <2>5, <1>3
    <2>7. ASSUME NEW v \in lo .. hi - 1 PROVE e.cur[v] = Own(v) + Before(v, s, k)
      <3>1. CASE v = x
        BY <3>1, <2>2, <2>3, <2>6
      <3>2. CASE v # x
        BY <3>2, <2>6, <1>4, <1>5
      <3> QED
        BY <3>1, <3>2
    <2>8. ASSUME NEW w \in 0 .. N - 1
          PROVE  Cardinality(Holds(e.buf, Begins(x), e.cur[x], w))
                     = Want(x, w) + (IF w = u THEN Before(x, s, k) ELSE 0)
      <3> DEFINE one == <<u>>
      <3>1. one \in Seq(Nat) /\ Len(one) = 1 /\ one[1] = u
        BY <1>1
      <3>2. WrittenBehind(d.buf, e.buf, Begins(x), y, one)
        <4>1. \A p \in Begins(x) .. y - 1 : e.buf[p] = d.buf[p]
          <5>1. ASSUME NEW p \in Begins(x) .. y - 1 PROVE p \in 0 .. M - 1 /\ p # y
            BY <2>3, <2>4
          <5> QED
            BY <5>1, <2>6
        <4>2. \A z \in 1 .. Len(one) : e.buf[y + z - 1] = one[z]
          <5>1. \A z \in 1 .. Len(one) : z = 1
            BY <3>1
          <5>2. y + 1 - 1 = y
            BY <2>4
          <5> HIDE DEF one
          <5> QED
            BY <5>1, <5>2, <3>1, <2>6
        <4> QED
          BY <4>1, <4>2, <2>4 DEF WrittenBehind
      <3>3. Begins(x) \in Int /\ y \in Int
        BY <2>3, <2>4
      <3>4. Occurrences(w, one) = IF u = w THEN 1 ELSE 0
        BY OneOccurrence
      <3> HIDE DEF one
      <3>5. Cardinality(Holds(e.buf, Begins(x), y + Len(one), w))
                = Cardinality(Holds(d.buf, Begins(x), y, w)) + Occurrences(w, one)
        <4> DEFINE a0 == d.buf
                   c0 == e.buf
                   f0 == Begins(x)
        <4>1. WrittenBehind(a0, c0, f0, y, one) /\ f0 \in Int /\ y \in Int /\ one \in Seq(Nat)
          BY <3>1, <3>2, <3>3
        <4> HIDE DEF a0, c0, f0
        <4>2. Cardinality(Holds(c0, f0, y + Len(one), w))
                  = Cardinality(Holds(a0, f0, y, w)) + Occurrences(w, one)
          BY <4>1, HoldsAppended
        <4> QED
          BY <4>2 DEF a0, c0, f0
      <3>6. Cardinality(Holds(e.buf, Begins(x), e.cur[x], w))
                = Cardinality(Holds(d.buf, Begins(x), y, w)) + (IF u = w THEN 1 ELSE 0)
        BY <3>1, <3>4, <3>5, <2>6
      <3>7. /\ Cardinality(Holds(d.buf, Begins(x), y, w))
                   = Want(x, w) + (IF w = u THEN Before(x, s, k - 1) ELSE 0)
            /\ Want(x, w) \in Nat
        BY <2>1, <1>6 DEF y
      <3>8. CASE w = u
        BY <3>6, <3>7, <3>8, <2>2, <2>3
      <3>9. CASE w # u
        BY <3>6, <3>7, <3>9
      <3> QED
        BY <3>8, <3>9
    <2>9. ASSUME NEW v \in lo .. hi - 1, v # x, NEW w \in 0 .. N - 1
          PROVE  Cardinality(Holds(e.buf, Begins(v), e.cur[v], w))
                     = Want(v, w) + (IF w = u THEN Before(v, s, k) ELSE 0)
      <3> DEFINE z == d.cur[v]
      <3>1. /\ Begins(v) \in Nat /\ Ends(v) \in Nat /\ Ends(v) <= M /\ z \in Nat /\ z <= Ends(v)
        <4>1. /\ Begins(v) \in Nat /\ Ends(v) \in Nat /\ Ends(v) <= M
              /\ Own(v) + Before(v, s, k) <= Ends(v) /\ Own(v) \in Nat
          BY <1>5, <1>7
        <4>2. z = Own(v) + Before(v, s, k - 1) /\ Before(v, s, k) = Before(v, s, k - 1)
              /\ Before(v, s, k - 1) \in Nat
          BY <1>4, <1>5, <2>9
        <4> HIDE DEF z
        <4> QED
          BY <4>1, <4>2
      <3>2. Ends(v) <= Begins(x) \/ Ends(x) <= Begins(v)
        <4>1. v < x \/ x < v
          BY <2>1, <2>9, <1>1
        <4> QED
          BY <4>1, <1>8, <2>1
      <3> HIDE DEF z
      <3>3. \A p \in Begins(v) .. z - 1 : e.buf[p] = d.buf[p]
        <4>1. ASSUME NEW p \in Begins(v) .. z - 1 PROVE p \in 0 .. M - 1 /\ p # y
          BY <3>1, <3>2, <2>3, <2>4
        <4> QED
          BY <4>1, <2>6
      <3>4. Holds(e.buf, Begins(v), z, w) = Holds(d.buf, Begins(v), z, w)
        BY <3>3 DEF Holds
      <3>5. e.cur[v] = z
        BY <2>6, <2>9 DEF z
      <3>6. Cardinality(Holds(d.buf, Begins(v), z, w))
                = Want(v, w) + (IF w = u THEN Before(v, s, k - 1) ELSE 0)
        BY <1>6 DEF z
      <3>7. Before(v, s, k) = Before(v, s, k - 1)
        BY <1>4, <2>9
      <3> QED
        BY <3>4, <3>5, <3>6, <3>7
    <2>10. ASSUME NEW v \in lo .. hi - 1, NEW w \in 0 .. N - 1
           PROVE  Cardinality(Holds(e.buf, Begins(v), e.cur[v], w))
                      = Want(v, w) + (IF w = u THEN Before(v, s, k) ELSE 0)
      BY <2>8, <2>9
    <2> QED
      BY <2>6, <2>7, <2>10, <1>9
  <1> QED
    BY <1>10, <1>11

\* Lines 569-599: all of the record.
LEMMA RecordScanned ==
    ASSUME Scanning
    PROVE  \E d \in ScanStates : /\ d = FoldLeft(AddReverse, Forward, graph[u])
                                 /\ Scanned(d, Len(graph[u]))
  <1> DEFINE s == graph[u]
             base == Forward
             X == ScanStates
             D == 0 .. N - 1
  <1>1. s \in Seq(D) /\ Len(s) \in Nat
    BY ScanFacts
  <1>2. base \in X /\ Scanned(base, 0)
    BY ForwardScanned
  <1>3. \A x \in X, y \in D : AddReverse(x, y) \in X
    BY AddReverseType
  <1> HIDE DEF s, base, X, D
  <1>4. PICK d \in [0 .. Len(s) -> X] :
            /\ d[0] = base /\ FoldLeft(AddReverse, base, s) = d[Len(s)]
            /\ \A k \in 1 .. Len(s) : d[k] = AddReverse(d[k - 1], s[k])
    <2>1. \E d \in [0 .. Len(s) -> X] : IsAdded(d, base, s)
      BY <1>1, <1>2, <1>3, AddFold
    <2> QED
      BY <2>1 DEF IsAdded
  <1> DEFINE Good == {k \in 0 .. Len(s) : Scanned(d[k], k)}
  <1>5. 0 \in Good
    BY <1>1, <1>2, <1>4
  <1>6. ASSUME NEW k \in 1 .. Len(s), k - 1 \in Good PROVE k \in Good
    <2>1. k \in 0 .. Len(s) /\ k - 1 \in 0 .. Len(s)
      BY <1>1
    <2> DEFINE c == d[k - 1]
    <2>2. c \in ScanStates /\ Scanned(c, k - 1)
      BY <2>1, <1>4, <1>6 DEF X
    <2>3. d[k] = AddReverse(c, graph[u][k])
      BY <1>4 DEF s
    <2> HIDE DEF c
    <2>4. Scanned(AddReverse(c, graph[u][k]), k)
      BY <2>2, AddScanned DEF s
    <2> QED
      BY <2>1, <2>3, <2>4
  <1> HIDE DEF Good
  <1>7. \A k \in 0 .. Len(s) : k \in Good
    BY <1>1, <1>5, <1>6, Rounds
  <1>8. Scanned(d[Len(s)], Len(s)) /\ d[Len(s)] \in X
    BY <1>1, <1>4, <1>7 DEF Good
  <1> QED
    BY <1>4, <1>8 DEF s, base, X

\* Nothing but the graph decides these.
LEMMA SameGraph ==
    ASSUME UNCHANGED inputs
    PROVE  /\ N' = N /\ (GraphOK <=> GraphOK')
           /\ \A v, k : Degree(v, k)' = Degree(v, k)
           /\ \A v, w, k : Found(v, w, k)' = Found(v, w, k)
           /\ \A k : InRange(k)' <=> InRange(k)
  <1>1. graph' = graph /\ budget' = budget /\ max_mib' = max_mib
    BY DEF inputs
  <1>2. N' = N
    BY <1>1 DEF N
  <1>3. GraphOK <=> GraphOK'
    BY <1>1, <1>2 DEF GraphOK
  <1>4. \A v, k : Degree(v, k)' = Degree(v, k)
    BY <1>1 DEF Degree, Into
  <1>5. \A v, w, k : Found(v, w, k)' = Found(v, w, k)
    BY <1>1 DEF Found, Occurrences
  <1>6. \A k : InRange(k)' <=> InRange(k)
    BY <1>1, <1>2 DEF InRange
  <1> QED
    BY <1>2, <1>3, <1>4, <1>5, <1>6

LEMMA SameSegments ==
    ASSUME UNCHANGED <<inputs, off_elems>>
    PROVE  /\ \A a, z : IdsOf(a, z)' = IdsOf(a, z)
           /\ \A a : PickHi(a)' = PickHi(a)
  <1>1. graph' = graph /\ budget' = budget /\ max_mib' = max_mib /\ off_elems' = off_elems /\ N' = N
    BY DEF inputs, N
  <1>2. \A a, z : IdsOf(a, z)' = IdsOf(a, z)
    BY <1>1 DEF IdsOf
  <1>3. \A U : AvailForU(U)' = AvailForU(U)
    BY <1>1 DEF AvailForU, DynOverhead
  <1> DEFINE HiOf(a, g, b, m, o) ==
          LET n == Cardinality(DOMAIN g)
              room(U) == LET over == n + 2 * (n + 1) + 2 * U + Slack
                             filled == ((b - over) * 3) \div 4
                         IN  IF b <= over THEN 0 ELSE IF m # 0 /\ m < filled THEN m ELSE filled
              search[r \in [L : a + 1 .. n + 1, R : a .. n, best : a + 1 .. n]] ==
                LET mid == (r.L + r.R) \div 2
                    fits == room(mid - a) # 0 /\ o[mid] - o[a] <= room(mid - a)
                IN  IF r.L > r.R THEN r.best
                    ELSE IF fits THEN search[[r EXCEPT !.best = mid, !.L = mid + 1]]
                    ELSE search[[r EXCEPT !.R = mid - 1]]
          IN  search[[L |-> a + 1, R |-> n, best |-> a + 1]]
  <1>5. ASSUME NEW a PROVE PickHi(a) = HiOf(a, graph, budget, max_mib, off_elems)
    BY Zenon DEF PickHi, IdsOf, AvailForU, DynOverhead, N
  <1>6. ASSUME NEW a PROVE PickHi(a)' = HiOf(a, graph', budget', max_mib', off_elems')
    BY Zenon DEF PickHi, IdsOf, AvailForU, DynOverhead, N
  <1> HIDE DEF HiOf
  <1>4. \A a : PickHi(a)' = PickHi(a)
    BY <1>1, <1>5, <1>6
  <1> QED
    BY <1>2, <1>4

LEMMA ScanNodeKeeps == ASSUME ReverseInv, ScanNode PROVE ReverseInv'
  <1>1. Scanning
    BY DEF ScanNode, Scanning
  <1>2. PICK d \in ScanStates : /\ d = FoldLeft(AddReverse, Forward, graph[u])
                                /\ Scanned(d, Len(graph[u]))
    BY <1>1, RecordScanned
  <1>3. /\ buf' = d.buf /\ cur' = d.cur /\ pc' = pc /\ u' = u + 1 /\ pc = "scan"
        /\ UNCHANGED <<inputs, cnt, off_elems, ids, lo, hi>>
    BY <1>2 DEF ScanNode, Scanned
  <1>4. /\ N \in Nat /\ GraphOK /\ lo \in Nat /\ hi \in Nat /\ lo < hi /\ hi <= N
        /\ u \in 0 .. N - 1 /\ graph[u] \in Seq(0 .. N - 1) /\ Len(graph[u]) \in Nat
        /\ lo \in 0 .. N - 1 /\ hi \in lo + 1 .. N
    BY <1>1, ScanFacts
  <1>5. /\ N' = N /\ GraphOK'
        /\ \A v, k : Degree(v, k)' = Degree(v, k)
        /\ \A v, w, k : Found(v, w, k)' = Found(v, w, k)
        /\ \A k : InRange(k)' <=> InRange(k)
        /\ \A a, z : IdsOf(a, z)' = IdsOf(a, z)
        /\ \A a : PickHi(a)' = PickHi(a)
    BY <1>3, <1>4, SameGraph, SameSegments
  <1>6. /\ d.buf = [p \in 0 .. IdsOf(lo, hi) - 1 |-> d.buf[p]]
        /\ d.cur = [v \in lo .. hi - 1 |-> d.cur[v]]
    BY DEF ScanStates
  <1>7. ASSUME NEW v \in lo .. hi - 1
        PROVE  /\ d.cur[v] = IdsOf(lo, v) + Degree(v, u + 1)
               /\ \A w \in 0 .. N - 1 :
                    Cardinality(Holds(d.buf, IdsOf(lo, v), d.cur[v], w)) = Found(v, w, u + 1)
    <2> DEFINE n == Len(graph[u])
               own == IF v = u THEN n ELSE 0
    <2>1. v \in 0 .. N - 1 /\ n \in 0 .. n /\ n \in Nat /\ u \in 0 .. N /\ own \in Nat
      BY <1>4
    <2>2. Begins(v) \in Nat /\ Degree(v, u) \in Nat
      BY <1>1, <2>1, RoomLeft
    <2>3. Before(v, graph[u], n) = Occurrences(v, graph[u]) /\ Occurrences(v, graph[u]) \in Nat
      BY <1>4, BeforeGrows, OccurrencesType, Zenon
    <2>4. Degree(v, u + 1) = Degree(v, u) + Occurrences(v, graph[u]) + own
      BY <1>4, <2>1, DegreeGrows
    <2>5. d.cur[v] = Begins(v) + Degree(v, u) + own + Before(v, graph[u], n)
      BY <1>2 DEF Scanned
    <2>6. ASSUME NEW w \in 0 .. N - 1
          PROVE  Cardinality(Holds(d.buf, Begins(v), d.cur[v], w)) = Found(v, w, u + 1)
      <3>1. Cardinality(Holds(d.buf, Begins(v), d.cur[v], w)) =
                Found(v, w, u) + (IF v = u THEN Occurrences(w, graph[u]) ELSE 0)
                + (IF w = u THEN Before(v, graph[u], n) ELSE 0)
        BY <1>2 DEF Scanned
      <3>2. graph[v] \in Seq(Nat) /\ graph[w] \in Seq(Nat)
        BY <2>1, <1>4 DEF GraphOK
      <3> DEFINE a == Occurrences(w, graph[v])
                 b == Occurrences(v, graph[w])
      <3>3. a \in Nat /\ b \in Nat
        BY <3>2, OccurrencesType
      <3>4. /\ v = u => Occurrences(w, graph[u]) = a
            /\ w = u => Before(v, graph[u], n) = b
        BY <2>3
      <3>5. Found(v, w, u) = (IF v < u THEN a ELSE 0) + (IF w < u THEN b ELSE 0)
        BY DEF Found
      <3>6. Found(v, w, u + 1) = (IF v < u + 1 THEN a ELSE 0) + (IF w < u + 1 THEN b ELSE 0)
        BY DEF Found
      <3> DEFINE C == Cardinality(Holds(d.buf, Begins(v), d.cur[v], w))
      <3> HIDE DEF a, b
      <3>7. C = ((IF v < u THEN a ELSE 0) + (IF w < u THEN b ELSE 0))
                + (IF v = u THEN a ELSE 0) + (IF w = u THEN b ELSE 0)
        BY <3>1, <3>4, <3>5
      <3> HIDE DEF C
      <3>8. v \in Int /\ w \in Int /\ u \in Int
        BY <1>4, <2>1
      <3>9. C = (IF v < u + 1 THEN a ELSE 0) + (IF w < u + 1 THEN b ELSE 0)
        BY <3>3, <3>7, <3>8
      <3> QED
        BY <3>6, <3>9 DEF C
    <2> HIDE DEF n, own
    <2>7. d.cur[v] = Begins(v) + Degree(v, u + 1)
      BY <2>1, <2>2, <2>3, <2>4, <2>5
    <2> QED
      BY <2>6, <2>7 DEF Begins
  <1>8. CountPass'
    <2>1. /\ cnt = [v \in 0 .. N - 1 |-> Degree(v, N)] /\ InRange(N) /\ N > 0
          /\ off_elems \in [0 .. N -> Nat] /\ off_elems[0] = 0
          /\ \A v \in 0 .. N - 1 : off_elems[v + 1] = off_elems[v] + cnt[v]
          /\ ids = [p \in 0 .. off_elems[N] - 1 |-> ids[p]]
      BY <1>3 DEF ReverseInv, CountPass
    <2> QED
      BY <2>1, <1>3, <1>5 DEF CountPass
  <1>9. StripeOK'
    <2>1. hi = PickHi(lo) /\ IdsOf(lo, hi) > 0
      BY <1>3 DEF ReverseInv, StripeOK
    <2>2. cur' = [v \in lo .. hi - 1 |-> IdsOf(lo, v) + Degree(v, u + 1)]
      BY <1>3, <1>6, <1>7
    <2>3. u + 1 \in 0 .. N
      BY <1>4
    <2> QED
      BY <2>1, <2>2, <2>3, <1>3, <1>4, <1>5, <1>6 DEF StripeOK
  <1>10. Filled'
    <2>1. \A v \in 0 .. lo - 1, w \in 0 .. N - 1 :
              Cardinality(Holds(ids, off_elems[v], off_elems[v + 1], w)) = Found(v, w, N)
      BY <1>3 DEF ReverseInv, Filled
    <2>2. \A v \in lo .. hi - 1, w \in 0 .. N - 1 :
              Cardinality(Holds(d.buf, IdsOf(lo, v), d.cur[v], w)) = Found(v, w, u + 1)
      BY <1>7
    <2>3. /\ \A a, y, z, w : Holds(ids, y, z, w)' = Holds(ids, y, z, w)
          /\ \A y, z, w : Holds(buf, y, z, w)' = Holds(d.buf, y, z, w)
      BY <1>3
    <2> QED
      BY <2>1, <2>2, <1>3, <1>5 DEF Filled
  <1> QED
    BY <1>3, <1>5, <1>8, <1>9, <1>10 DEF ReverseInv, Labels

-----------------------------------------------------------------------------
(* The other steps *)

LEMMA InitKeeps == ASSUME Init PROVE ReverseInv
  <1>1. PICK g \in Graphs, o \in StripeOptions : Given(g, o)
    BY DEF Init
  <1>2. graph = g /\ budget = o.budget /\ max_mib = o.max_mib /\ pc = "start"
    BY <1>1 DEF Given
  <1>3. /\ IsFiniteSet(DOMAIN g) /\ DOMAIN g = 0 .. Cardinality(DOMAIN g) - 1
        /\ \A v \in DOMAIN g : g[v] \in Seq(Nat)
    BY GraphsAssumption
  <1>4. o.budget \in Nat /\ o.max_mib \in Nat
    BY OptionsAssumption
  <1> QED
    BY <1>2, <1>3, <1>4 DEF ReverseInv, GraphOK, N, Labels, CountPass, StripeOK, Filled

LEMMA OpenKeeps == ASSUME ReverseInv, Open PROVE ReverseInv'
  <1>1. /\ N' = N /\ GraphOK' /\ GraphOK /\ N \in Nat
        /\ \A v, k : Degree(v, k)' = Degree(v, k)
        /\ \A k : InRange(k)' <=> InRange(k)
    BY SameGraph, NodesNat DEF ReverseInv, Open
  <1>2. /\ pc' = IF N = 0 THEN "empty graph" ELSE "count"
        /\ u' = 0 /\ cnt' = [v \in 0 .. N - 1 |-> 0] /\ lo' = 0
    BY DEF Open
  <1>3. InRange(0)
    BY DEF InRange
  <1>4. \A v \in 0 .. N - 1 : Degree(v, 0) = 0
    BY <1>1, DegreeGrows
  <1>5. CASE N = 0
    BY <1>1, <1>2, <1>5 DEF ReverseInv, Labels, CountPass, StripeOK, Filled
  <1>6. CASE N # 0
    <2>1. pc' = "count" /\ N > 0 /\ 0 \in 0 .. N
      BY <1>1, <1>2, <1>6
    <2>2. cnt' = [v \in 0 .. N - 1 |-> Degree(v, 0)]
      BY <1>2, <1>4
    <2> QED
      BY <1>1, <1>2, <1>3, <2>1, <2>2 DEF ReverseInv, Labels, CountPass, StripeOK, Filled
  <1> QED
    BY <1>5, <1>6

LEMMA CountNodeKeeps == ASSUME ReverseInv, CountNode PROVE ReverseInv'
  <1>1. /\ N' = N /\ GraphOK' /\ GraphOK /\ N \in Nat
        /\ \A v, k : Degree(v, k)' = Degree(v, k)
        /\ \A k : InRange(k)' <=> InRange(k)
    BY SameGraph, NodesNat DEF ReverseInv, CountNode
  <1>2. /\ u \in 0 .. N /\ u < N /\ lo = 0 /\ N > 0 /\ pc = "count"
        /\ cnt = [v \in 0 .. N - 1 |-> Degree(v, u)] /\ InRange(u)
    BY DEF ReverseInv, CountPass, CountNode
  <1>3. u \in 0 .. N - 1 /\ u + 1 \in 0 .. N
    BY <1>1, <1>2
  <1>4. CASE \A i \in DOMAIN graph[u] : graph[u][i] < N
    <2>1. cnt' = Counted /\ u' = u + 1 /\ pc' = "count" /\ lo' = lo
      BY <1>2, <1>4 DEF CountNode
    <2>2. ASSUME NEW v \in 0 .. N - 1
          PROVE  cnt[v] + Occurrences(v, graph[u]) + (IF v = u THEN Len(graph[u]) ELSE 0)
                     = Degree(v, u + 1)
      <3>1. Degree(v, u + 1) = Degree(v, u) + Occurrences(v, graph[u])
                               + (IF v = u THEN Len(graph[u]) ELSE 0)
        BY <1>1, <1>3, DegreeGrows
      <3> QED
        BY <3>1, <1>2
    <2>3. Counted = [v \in 0 .. N - 1 |-> cnt[v] + Occurrences(v, graph[u])
                                          + (IF v = u THEN Len(graph[u]) ELSE 0)]
      BY <1>2 DEF Counted
    <2>4. cnt' = [v \in 0 .. N - 1 |-> Degree(v, u + 1)]
      BY <2>1, <2>2, <2>3
    <2>5. InRange(u + 1)
      <3>1. \A v \in 0 .. (u + 1) - 1 : v \in 0 .. u - 1 \/ v = u
        BY <1>3
      <3> QED
        BY <3>1, <1>2, <1>4 DEF InRange
    <2> QED
      BY <1>1, <1>2, <1>3, <2>1, <2>4, <2>5 DEF ReverseInv, Labels, CountPass, StripeOK, Filled
  <1>5. CASE ~\A i \in DOMAIN graph[u] : graph[u][i] < N
    <2>1. pc' = "id out of range"
      BY <1>5 DEF CountNode
    <2> QED
      BY <1>1, <2>1 DEF ReverseInv, Labels, CountPass, StripeOK, Filled
  <1> QED
    BY <1>4, <1>5

LEMMA WriteIndexKeeps == ASSUME ReverseInv, WriteIndex PROVE ReverseInv'
  <1>1. /\ N' = N /\ GraphOK' /\ GraphOK /\ N \in Nat
        /\ \A v, k : Degree(v, k)' = Degree(v, k)
        /\ \A k : InRange(k)' <=> InRange(k)
    BY SameGraph, NodesNat DEF ReverseInv, WriteIndex
  <1>2. /\ u = N /\ lo = 0 /\ N > 0
        /\ cnt = [v \in 0 .. N - 1 |-> Degree(v, N)] /\ InRange(N)
    BY DEF ReverseInv, CountPass, WriteIndex
  <1>3. /\ off_elems' = PrefixSums /\ ids' = [p \in 0 .. PrefixSums[N] - 1 |-> 0]
        /\ pc' = "offsets" /\ lo' = lo /\ cnt' = cnt
    BY DEF WriteIndex
  <1>4. cnt \in [0 .. N - 1 -> Nat]
    <2>1. N \in 0 .. N
      BY <1>1
    <2>2. \A v \in 0 .. N - 1 : Degree(v, N) \in Nat
      BY <1>1, <2>1, DegreeGrows
    <2> QED
      BY <1>2, <2>2
  <1>5. /\ PrefixSums \in [0 .. N -> Nat] /\ PrefixSums[0] = 0
        /\ \A v \in 0 .. N - 1 : PrefixSums[v + 1] = PrefixSums[v] + cnt[v]
    BY <1>1, <1>4, PrefixSumsAre
  <1>6. ids' = [p \in 0 .. off_elems'[N] - 1 |-> ids'[p]]
    BY <1>3
  <1> QED
    BY <1>1, <1>2, <1>3, <1>5, <1>6 DEF ReverseInv, Labels, CountPass, StripeOK, Filled

LEMMA CheckFeasibleKeeps == ASSUME ReverseInv, CheckFeasible PROVE ReverseInv'
  <1>1. /\ N' = N /\ GraphOK' /\ GraphOK /\ N \in Nat
        /\ \A v, k : Degree(v, k)' = Degree(v, k)
        /\ \A k : InRange(k)' <=> InRange(k)
    BY SameGraph, NodesNat DEF ReverseInv, CheckFeasible
  <1>2. /\ lo = 0 /\ cnt = [v \in 0 .. N - 1 |-> Degree(v, N)] /\ InRange(N) /\ N > 0
        /\ off_elems \in [0 .. N -> Nat] /\ off_elems[0] = 0
        /\ \A v \in 0 .. N - 1 : off_elems[v + 1] = off_elems[v] + cnt[v]
        /\ ids = [p \in 0 .. off_elems[N] - 1 |-> ids[p]]
    BY DEF ReverseInv, CountPass, StripeOK, CheckFeasible
  <1>3. /\ pc' = "too little memory" \/ pc' = "stripes"
        /\ lo' = lo /\ cnt' = cnt /\ off_elems' = off_elems /\ ids' = ids
    BY DEF CheckFeasible
  <1>4. CASE pc' = "stripes"
    <2>0. 0 \in 0 .. N
      BY <1>1
    <2>1. lo' = 0 /\ 0 \in 0 .. N
      BY <2>0, <1>2, <1>3, Zenon
    <2>2. CountPass'
      BY <1>1, <1>2, <1>3, <1>4 DEF CountPass
    <2>3. Filled'
      BY <2>1, <1>4 DEF Filled
    <2> QED
      BY <1>1, <1>4, <2>1, <2>2, <2>3 DEF ReverseInv, Labels, StripeOK
  <1>5. CASE pc' = "too little memory"
    BY <1>1, <1>5 DEF ReverseInv, Labels, CountPass, StripeOK, Filled
  <1> QED
    BY <1>3, <1>4, <1>5

\* What a step of the stripes leaves alone.
Later == {"stripes", "scan", "done"}
LEMMA CountsKept ==
    ASSUME ReverseInv, pc \in Later, pc' \in Later,
           UNCHANGED <<inputs, cnt, off_elems>>,
           ids' = [p \in DOMAIN ids |-> ids'[p]]
    PROVE  /\ N' = N /\ GraphOK' /\ N \in Nat /\ CountPass' /\ pc' \in Labels
           /\ \A v, k : Degree(v, k)' = Degree(v, k)
           /\ \A v, w, k : Found(v, w, k)' = Found(v, w, k)
           /\ \A a, z : IdsOf(a, z)' = IdsOf(a, z)
           /\ \A a : PickHi(a)' = PickHi(a)
  <1>1. /\ N' = N /\ GraphOK' /\ GraphOK /\ N \in Nat
        /\ \A v, k : Degree(v, k)' = Degree(v, k)
        /\ \A v, w, k : Found(v, w, k)' = Found(v, w, k)
        /\ \A k : InRange(k)' <=> InRange(k)
    BY SameGraph, NodesNat DEF ReverseInv
  <1>2. /\ cnt = [v \in 0 .. N - 1 |-> Degree(v, N)] /\ InRange(N) /\ N > 0
        /\ off_elems \in [0 .. N -> Nat] /\ off_elems[0] = 0
        /\ \A v \in 0 .. N - 1 : off_elems[v + 1] = off_elems[v] + cnt[v]
        /\ ids = [p \in 0 .. off_elems[N] - 1 |-> ids[p]]
    BY DEF ReverseInv, CountPass, Later
  <1>3. ids' = [p \in 0 .. off_elems[N] - 1 |-> ids'[p]]
    <2>1. DOMAIN ids = 0 .. off_elems[N] - 1
      BY <1>2
    <2> QED
      BY <2>1
  <1>4. CountPass'
    BY <1>1, <1>2, <1>3 DEF CountPass, Later
  <1>5. pc' \in Labels
    BY DEF Later, Labels
  <1> QED
    BY <1>1, <1>4, <1>5, SameSegments

LEMMA FinishKeeps == ASSUME ReverseInv, Finish PROVE ReverseInv'
  <1>1. /\ pc = "stripes" /\ lo = N /\ pc' = "done"
        /\ UNCHANGED <<inputs, u, cnt, off_elems, ids, lo, hi, buf, cur>>
    BY DEF Finish
  <1>2. ids' = [p \in DOMAIN ids |-> ids'[p]]
    BY <1>1 DEF ReverseInv, CountPass
  <1>3. pc \in Later /\ pc' \in Later
    BY <1>1 DEF Later
  <1>4. /\ N' = N /\ GraphOK' /\ CountPass' /\ pc' \in Labels
        /\ \A v, w, k : Found(v, w, k)' = Found(v, w, k)
    BY <1>1, <1>2, <1>3, CountsKept
  <1>5. StripeOK'
    BY <1>1, <1>4 DEF StripeOK
  <1>6. Filled'
    BY <1>1, <1>4 DEF ReverseInv, Filled
  <1> QED
    BY <1>4, <1>5, <1>6 DEF ReverseInv

\* A node without candidates.
LEMMA NothingFound ==
    ASSUME GraphOK, NEW v \in 0 .. N - 1, NEW w \in 0 .. N - 1, Degree(v, N) = 0
    PROVE  Found(v, w, N) = 0
  <1>1. N \in Nat /\ N \in 0 .. N /\ w + 1 \in 0 .. N /\ w \in 0 .. N
    BY NodesNat
  <1>2. graph[v] \in Seq(Nat) /\ graph[w] \in Seq(Nat)
    BY DEF GraphOK
  <1>0. ASSUME NEW s \in Seq(Nat), NEW x
        PROVE  Occurrences(x, s) \in Nat /\ Occurrences(x, s) <= Len(s) /\ Len(s) \in Nat
    <2>1. Occurrences(x, s) \in Nat /\ Occurrences(x, s) <= Len(s)
      BY OccurrencesType
    <2>2. Len(s) \in Nat
      OBVIOUS
    <2> QED
      BY <2>1, <2>2
  <1>3. /\ Occurrences(w, graph[v]) \in Nat /\ Occurrences(w, graph[v]) <= Len(graph[v])
        /\ Len(graph[v]) \in Nat
    BY <1>0, <1>2
  <1>4. Occurrences(v, graph[w]) \in Nat /\ Len(graph[w]) \in Nat
    BY <1>0, <1>2
  <1> DEFINE own(k) == IF v = k THEN Len(graph[k]) ELSE 0
  <1>5. ASSUME NEW k \in 0 .. N - 1
        PROVE  /\ Degree(v, k + 1) = Degree(v, k) + Occurrences(v, graph[k]) + own(k)
               /\ Degree(v, k) \in Nat /\ Degree(v, k + 1) \in Nat /\ Degree(v, k + 1) = 0
    <2>1. k \in 0 .. N /\ k + 1 \in 0 .. N
      BY <1>1
    <2>2. Degree(v, k + 1) <= Degree(v, N)
      BY <2>1, DegreeBound
    <2>3. Degree(v, k) \in Nat /\ Degree(v, k + 1) \in Nat
      BY <2>1, DegreeGrows
    <2>4. Degree(v, k + 1) = Degree(v, k) + Occurrences(v, graph[k]) + own(k)
      BY DegreeGrows
    <2> QED
      BY <2>2, <2>3, <2>4
  <1>6. own(w) \in Nat /\ own(v) = Len(graph[v]) /\ Occurrences(v, graph[v]) \in Nat
    BY <1>2, <1>3, <1>4, OccurrencesType
  <1> HIDE DEF own
  <1>7. Occurrences(v, graph[w]) = 0
    <2>1. /\ Degree(v, w + 1) = Degree(v, w) + Occurrences(v, graph[w]) + own(w)
          /\ Degree(v, w) \in Nat /\ Degree(v, w + 1) = 0
      BY <1>5
    <2> QED
      BY <2>1, <1>4, <1>6
  <1>8. Occurrences(w, graph[v]) = 0
    <2>1. /\ Degree(v, v + 1) = Degree(v, v) + Occurrences(v, graph[v]) + own(v)
          /\ Degree(v, v) \in Nat /\ Degree(v, v + 1) = 0
      BY <1>5
    <2>2. Len(graph[v]) = 0
      BY <2>1, <1>3, <1>6
    <2> QED
      BY <2>2, <1>3
  <1> QED
    BY <1>1, <1>7, <1>8 DEF Found

LEMMA PickedStripe ==
    ASSUME ReverseInv, pc = "stripes", lo < N
    PROVE  /\ lo \in 0 .. N - 1 /\ PickHi(lo) \in lo + 1 .. N /\ N \in Nat /\ GraphOK
           /\ pc \in Counting /\ pc \in Later
  <1>1. N \in Nat /\ GraphOK /\ pc \in Counting /\ pc \in Later
    BY NodesNat DEF ReverseInv, Counting, Later
  <1>2. lo \in 0 .. N
    BY DEF ReverseInv, StripeOK
  <1>3. lo \in 0 .. N - 1
    BY <1>1, <1>2
  <1>4. Greatest(PickHi(lo), lo, N, Fitting(lo))
    BY <1>1, <1>3, CountedSegments, PickHiIs
  <1> QED
    BY <1>1, <1>3, <1>4 DEF Greatest

LEMMA SkipStripeKeeps == ASSUME ReverseInv, SkipStripe PROVE ReverseInv'
  <1> DEFINE h == PickHi(lo)
  <1>1. /\ pc = "stripes" /\ lo < N /\ IdsOf(lo, h) = 0 /\ lo' = h
        /\ UNCHANGED <<inputs, pc, u, cnt, off_elems, ids, hi, buf, cur>>
    BY DEF SkipStripe
  <1>2. /\ lo \in 0 .. N - 1 /\ h \in lo + 1 .. N /\ N \in Nat /\ GraphOK
        /\ pc \in Counting /\ pc \in Later
    BY <1>1, PickedStripe
  <1> HIDE DEF h
  <1>3. ids' = [p \in DOMAIN ids |-> ids'[p]]
    BY <1>1 DEF ReverseInv, CountPass
  <1>4. /\ N' = N /\ GraphOK' /\ CountPass' /\ pc' \in Labels
        /\ \A v, w, k : Found(v, w, k)' = Found(v, w, k)
    BY <1>1, <1>2, <1>3, CountsKept
  <1>5. StripeOK'
    <2>1. h \in 0 .. N
      BY <1>2
    <2> QED
      BY <2>1, <1>1, <1>4 DEF StripeOK
  <1>6. ASSUME NEW v \in lo .. h - 1, NEW w \in 0 .. N - 1
        PROVE  Cardinality(Holds(ids, off_elems[v], off_elems[v + 1], w)) = Found(v, w, N)
    <2>1. /\ Begins(v) \in Nat /\ Ends(v) \in Nat /\ Ends(v) = Begins(v) + cnt[v]
          /\ Ends(v) <= IdsOf(lo, h)
      BY <1>2, StripeSegments
    <2>2. v \in 0 .. N - 1 /\ v + 1 \in 0 .. N /\ v \in 0 .. N
      BY <1>2
    <2>3. cnt[v] = Degree(v, N) /\ cnt[v] \in Nat /\ off_elems[v + 1] = off_elems[v] + cnt[v]
          /\ off_elems[v] \in Nat
      BY <1>2, <2>2, CountedSegments DEF Segments
    <2>4. cnt[v] = 0
      BY <1>1, <2>1, <2>3
    <2>5. Found(v, w, N) = 0
      BY <1>2, <2>2, <2>3, <2>4, NothingFound
    <2>6. off_elems[v] \in Int /\ off_elems[v + 1] = off_elems[v]
      BY <2>3, <2>4
    <2>7. Cardinality(Holds(ids, off_elems[v], off_elems[v], w)) = 0
      BY <2>6, HoldsNothing
    <2> QED
      BY <2>5, <2>6, <2>7
  <1>7. Filled'
    <2>1. \A v \in 0 .. lo - 1, w \in 0 .. N - 1 :
              Cardinality(Holds(ids, off_elems[v], off_elems[v + 1], w)) = Found(v, w, N)
      BY <1>1 DEF ReverseInv, Filled
    <2>2. \A v \in 0 .. h - 1 : v \in 0 .. lo - 1 \/ v \in lo .. h - 1
      BY <1>2
    <2>3. \A v \in 0 .. h - 1, w \in 0 .. N - 1 :
              Cardinality(Holds(ids, off_elems[v], off_elems[v + 1], w)) = Found(v, w, N)
      BY <2>1, <2>2, <1>6
    <2> QED
      BY <2>3, <1>1, <1>4 DEF Filled
  <1> QED
    BY <1>4, <1>5, <1>7 DEF ReverseInv

LEMMA BeginStripeKeeps == ASSUME ReverseInv, BeginStripe PROVE ReverseInv'
  <1> DEFINE h == PickHi(lo)
  <1>1. /\ pc = "stripes" /\ lo < N /\ IdsOf(lo, h) > 0 /\ hi' = h
        /\ buf' = [p \in 0 .. IdsOf(lo, h) - 1 |-> IF p \in DOMAIN buf THEN buf[p] ELSE 0]
        /\ cur' = [v \in lo .. h - 1 |-> IdsOf(lo, v)]
        /\ u' = 0 /\ pc' = "scan"
        /\ UNCHANGED <<inputs, cnt, off_elems, ids, lo>>
    BY DEF BeginStripe
  <1>2. /\ lo \in 0 .. N - 1 /\ h \in lo + 1 .. N /\ N \in Nat /\ GraphOK
        /\ pc \in Counting /\ pc \in Later
    BY <1>1, PickedStripe
  <1>3. ids' = [p \in DOMAIN ids |-> ids'[p]] /\ pc' \in Later
    BY <1>1 DEF ReverseInv, CountPass, Later
  <1>4. /\ N' = N /\ GraphOK' /\ CountPass' /\ pc' \in Labels
        /\ \A v, k : Degree(v, k)' = Degree(v, k)
        /\ \A v, w, k : Found(v, w, k)' = Found(v, w, k)
        /\ \A a, z : IdsOf(a, z)' = IdsOf(a, z)
        /\ \A a : PickHi(a)' = PickHi(a)
    BY <1>1, <1>2, <1>3, CountsKept
  <1>5. hi' = PickHi(lo)
    BY <1>1
  <1> HIDE DEF h
  <1>6. ASSUME NEW v \in lo .. h - 1
        PROVE  /\ IdsOf(lo, v) \in Nat /\ IdsOf(lo, v) = IdsOf(lo, v) + Degree(v, 0)
    <2>1. v \in 0 .. N - 1
      BY <1>2
    <2>2. Begins(v) \in Nat
      BY <1>2, StripeSegments
    <2>3. Degree(v, 0) = 0
      BY <1>2, <2>1, DegreeGrows
    <2> QED
      BY <2>2, <2>3 DEF Begins
  <1>7. StripeOK'
    <2>1. cur' = [v \in lo .. h - 1 |-> IdsOf(lo, v) + Degree(v, 0)]
      BY <1>1, <1>6
    <2>2. buf' = [p \in 0 .. IdsOf(lo, h) - 1 |-> buf'[p]] /\ 0 \in 0 .. N
      BY <1>1, <1>2
    <2> QED
      BY <2>1, <2>2, <1>1, <1>2, <1>4, <1>5 DEF StripeOK
  <1>8. Filled'
    <2>1. \A v \in 0 .. lo - 1, w \in 0 .. N - 1 :
              Cardinality(Holds(ids, off_elems[v], off_elems[v + 1], w)) = Found(v, w, N)
      BY <1>1 DEF ReverseInv, Filled
    <2>2. ASSUME NEW v \in lo .. h - 1, NEW w \in 0 .. N - 1
          PROVE  Cardinality(Holds(buf', IdsOf(lo, v), cur'[v], w)) = Found(v, w, 0)
      <3>1. cur'[v] = IdsOf(lo, v) /\ IdsOf(lo, v) \in Int
        BY <1>1, <1>6
      <3>2. Cardinality(Holds(buf', IdsOf(lo, v), IdsOf(lo, v), w)) = 0
        BY <3>1, HoldsNothing
      <3>3. v \in Nat /\ w \in Nat
        BY <1>2
      <3>4. Found(v, w, 0) = 0
        BY <3>3 DEF Found
      <3> QED
        BY <3>1, <3>2, <3>4
    <2> QED
      BY <2>1, <2>2, <1>1, <1>4 DEF Filled
  <1> QED
    BY <1>4, <1>7, <1>8 DEF ReverseInv

LEMMA WriteStripeKeeps == ASSUME ReverseInv, WriteStripe PROVE ReverseInv'
  <1> DEFINE M == IdsOf(lo, hi)
             b0 == off_elems[lo]
  <1>1. pc = "scan" /\ u = N /\ UNCHANGED <<inputs, u, cnt, off_elems, hi, buf, cur>>
    BY DEF WriteStripe
  <1>2. /\ N \in Nat /\ GraphOK /\ lo \in 0 .. N - 1 /\ hi \in lo + 1 .. N
        /\ buf = [p \in 0 .. M - 1 |-> buf[p]]
        /\ cur = [v \in lo .. hi - 1 |-> IdsOf(lo, v) + Degree(v, N)]
        /\ pc \in Counting /\ pc \in Later
    BY <1>1, NodesNat DEF ReverseInv, StripeOK, Counting, Later
  <1>3. ASSUME NEW v \in lo .. hi - 1
        PROVE  /\ v \in 0 .. N - 1 /\ cur[v] = Ends(v)
               /\ Begins(v) \in Nat /\ Ends(v) \in Nat /\ Ends(v) <= M
               /\ Begins(v) = off_elems[v] - b0 /\ Ends(v) = off_elems[v + 1] - b0
    <2>1. v \in 0 .. N - 1
      BY <1>2
    <2>2. /\ Begins(v) \in Nat /\ Ends(v) \in Nat /\ Ends(v) = Begins(v) + cnt[v] /\ Ends(v) <= M
          /\ Begins(v) = off_elems[v] - b0 /\ Ends(v) = off_elems[v + 1] - b0
      BY <1>2, StripeSegments
    <2>3. cnt[v] = Degree(v, N)
      BY <1>2, <2>1, CountedSegments
    <2>4. cur[v] = Begins(v) + Degree(v, N)
      BY <1>2 DEF Begins
    <2> QED
      BY <2>1, <2>2, <2>3, <2>4
  <1>4. AllFilled
    BY <1>2, <1>3 DEF AllFilled, Ends
  <1>5. /\ ids' = [p \in DOMAIN ids |-> IF p - b0 \in DOMAIN buf THEN buf[p - b0] ELSE ids[p]]
        /\ lo' = hi /\ pc' = "stripes"
    BY <1>4 DEF WriteStripe
  <1>6. ids' = [p \in DOMAIN ids |-> ids'[p]] /\ pc' \in Later
    BY <1>5 DEF Later
  <1>7. /\ N' = N /\ GraphOK' /\ CountPass' /\ pc' \in Labels
        /\ \A v, w, k : Found(v, w, k)' = Found(v, w, k)
    BY <1>1, <1>2, <1>6, CountsKept
  <1>8. StripeOK'
    <2>1. hi \in 0 .. N
      BY <1>2
    <2> QED
      BY <2>1, <1>5, <1>7 DEF StripeOK
  <1>9. /\ \A v \in 0 .. N : off_elems[v] \in Nat
        /\ \A v \in 0 .. N : \A z \in v .. N : off_elems[v] <= off_elems[z]
    <2>1. Segments
      BY <1>2, CountedSegments
    <2>2. ASSUME NEW v \in 0 .. N, NEW z \in v .. N PROVE off_elems[v] <= off_elems[z]
      BY <2>1, <1>2, Monotone DEF Segments
    <2>3. \A v \in 0 .. N : off_elems[v] \in Nat
      BY <2>1 DEF Segments
    <2> QED
      BY <2>2, <2>3
  <1>10. b0 \in Nat /\ M \in Nat /\ M + b0 = off_elems[hi] /\ off_elems[hi] <= off_elems[N]
         /\ off_elems[N] \in Nat
    <2>1. lo \in 0 .. N /\ hi \in 0 .. N /\ N \in 0 .. N /\ N \in hi .. N /\ hi \in lo .. N
      BY <1>2
    <2>2. /\ off_elems[lo] \in Nat /\ off_elems[hi] \in Nat /\ off_elems[N] \in Nat
          /\ off_elems[hi] <= off_elems[N] /\ off_elems[lo] <= off_elems[hi]
      BY <2>1, <1>9
    <2> QED
      BY <2>2 DEF IdsOf
  <1> HIDE DEF M, b0
  <1>11. DOMAIN ids = 0 .. off_elems[N] - 1 /\ DOMAIN buf = 0 .. M - 1
    BY <1>1, <1>2 DEF ReverseInv, CountPass
  <1>12. ASSUME NEW v \in lo .. hi - 1, NEW w \in 0 .. N - 1
         PROVE  Cardinality(Holds(ids', off_elems[v], off_elems[v + 1], w)) = Found(v, w, N)
    <2> DEFINE f0 == Begins(v)
               t0 == Ends(v)
               c0 == ids'
    <2>1. f0 \in Nat /\ t0 \in Nat /\ t0 <= M /\ cur[v] = t0
      BY <1>3
    <2>2. f0 + b0 = off_elems[v] /\ t0 + b0 = off_elems[v + 1]
      <3>1. v \in 0 .. N /\ v + 1 \in 0 .. N
        BY <1>2
      <3>2. off_elems[v] \in Nat /\ off_elems[v + 1] \in Nat
        BY <3>1, <1>9
      <3> QED
        BY <3>2, <1>3, <1>10
    <2>3. Cardinality(Holds(buf, f0, t0, w)) = Found(v, w, N)
      BY <2>1, <1>1 DEF ReverseInv, Filled, Begins
    <2> HIDE DEF f0, t0
    <2>4. \A p \in f0 .. t0 - 1 : c0[p + b0] = buf[p]
      <3>1. ASSUME NEW p \in f0 .. t0 - 1
            PROVE  /\ p + b0 \in 0 .. off_elems[N] - 1 /\ (p + b0) - b0 = p /\ p \in 0 .. M - 1
        <4>1. M + b0 <= off_elems[N]
          BY <1>10
        <4> QED
          BY <4>1, <2>1, <1>10
      <3> QED
        BY <3>1, <1>5, <1>11
    <2> HIDE DEF c0
    <2>5. f0 \in Int /\ t0 \in Int /\ b0 \in Int
      BY <2>1, <1>10
    <2>6. Cardinality(Holds(c0, f0 + b0, t0 + b0, w)) = Cardinality(Holds(buf, f0, t0, w))
      <3>1. ShiftedBy(buf, c0, f0, t0, b0)
        BY <2>4 DEF ShiftedBy
      <3> QED
        BY <3>1, <2>5, HoldsShift
    <2> QED
      BY <2>2, <2>3, <2>6 DEF c0
  <1>13. ASSUME NEW v \in 0 .. lo - 1, NEW w \in 0 .. N - 1
         PROVE  Cardinality(Holds(ids', off_elems[v], off_elems[v + 1], w)) = Found(v, w, N)
    <2> DEFINE f0 == off_elems[v]
               t0 == off_elems[v + 1]
               c0 == ids'
    <2>1. Cardinality(Holds(ids, f0, t0, w)) = Found(v, w, N)
      BY <1>1 DEF ReverseInv, Filled
    <2>2. f0 \in Nat /\ t0 \in Nat /\ t0 <= b0 /\ t0 <= off_elems[N]
      <3>1. v \in 0 .. N /\ v + 1 \in 0 .. N /\ lo \in v + 1 .. N /\ N \in v + 1 .. N
        BY <1>2
      <3> QED
        BY <3>1, <1>9 DEF b0
    <2> HIDE DEF f0, t0
    <2>3. \A p \in f0 .. t0 - 1 : c0[p] = ids[p]
      <3>1. ASSUME NEW p \in f0 .. t0 - 1
            PROVE  p \in 0 .. off_elems[N] - 1 /\ ~(p - b0 \in 0 .. M - 1)
        BY <2>2, <1>10
      <3> QED
        BY <3>1, <1>5, <1>11
    <2> HIDE DEF c0
    <2>4. f0 \in Int /\ t0 \in Int
      BY <2>2
    <2>5. Holds(c0, f0, t0, w) = Holds(ids, f0, t0, w)
      BY <2>3, <2>4, HoldsSame
    <2> QED
      BY <2>1, <2>5 DEF c0, f0, t0
  <1>14. Filled'
    <2>1. \A v \in 0 .. hi - 1 : v \in 0 .. lo - 1 \/ v \in lo .. hi - 1
      BY <1>2
    <2>2. \A v \in 0 .. hi - 1, w \in 0 .. N - 1 :
              Cardinality(Holds(ids', off_elems[v], off_elems[v + 1], w)) = Found(v, w, N)
      BY <2>1, <1>12, <1>13
    <2> QED
      BY <2>2, <1>1, <1>5, <1>7 DEF Filled
  <1> QED
    BY <1>7, <1>8, <1>14 DEF ReverseInv

LEMMA ReverseInvStutters == ASSUME ReverseInv, UNCHANGED vars PROVE ReverseInv'
  <1>1. UNCHANGED <<inputs, pc, u, cnt, off_elems, ids, lo, hi, buf, cur>>
    BY DEF vars, inputs
  <1>2. /\ N' = N /\ GraphOK' /\ \A v, k : Degree(v, k)' = Degree(v, k)
        /\ \A v, w, k : Found(v, w, k)' = Found(v, w, k)
        /\ \A k : InRange(k)' <=> InRange(k)
        /\ \A a, z : IdsOf(a, z)' = IdsOf(a, z)
        /\ \A a : PickHi(a)' = PickHi(a)
    BY <1>1, SameGraph, SameSegments DEF ReverseInv
  <1>3. CountPass'
    BY <1>1, <1>2 DEF ReverseInv, CountPass
  <1>4. StripeOK'
    BY <1>1, <1>2 DEF ReverseInv, StripeOK
  <1>5. Filled'
    BY <1>1, <1>2 DEF ReverseInv, Filled
  <1> QED
    BY <1>1, <1>2, <1>3, <1>4, <1>5 DEF ReverseInv

-----------------------------------------------------------------------------
(* The theorems *)

LEMMA ReverseInvInductive == ReverseInv /\ [Next]_vars => ReverseInv'
  <1> SUFFICES ASSUME ReverseInv, [Next]_vars PROVE ReverseInv'
    OBVIOUS
  <1>1. CASE Open
    BY <1>1, OpenKeeps
  <1>2. CASE CountNode
    BY <1>2, CountNodeKeeps
  <1>3. CASE WriteIndex
    BY <1>3, WriteIndexKeeps
  <1>4. CASE CheckFeasible
    BY <1>4, CheckFeasibleKeeps
  <1>5. CASE SkipStripe
    BY <1>5, SkipStripeKeeps
  <1>6. CASE BeginStripe
    BY <1>6, BeginStripeKeeps
  <1>7. CASE ScanNode
    BY <1>7, ScanNodeKeeps
  <1>8. CASE WriteStripe
    BY <1>8, WriteStripeKeeps
  <1>9. CASE Finish
    BY <1>9, FinishKeeps
  <1>10. CASE UNCHANGED vars
    BY <1>10, ReverseInvStutters
  <1> QED
    BY <1>1, <1>2, <1>3, <1>4, <1>5, <1>6, <1>7, <1>8, <1>9, <1>10 DEF Next

\* reverse_edge_logic keeps its invariant: counts, offsets, stripes, cursors and
\* segments agree with the records read so far.
THEOREM ReverseCorrect == Spec => []ReverseInv
  <1>1. Init => ReverseInv
    BY InitKeeps
  <1> QED
    BY <1>1, ReverseInvInductive, PTL DEF Spec

LEMMA InSegments == ReverseInv => CursorsStayInSegments
  <1> SUFFICES ASSUME ReverseInv PROVE CursorsStayInSegments
    OBVIOUS
  <1>1. pc \notin {"cursor overflow", "stripe fill mismatch"}
    BY DEF ReverseInv, Labels
  <1>2. ASSUME pc = "scan", NEW v \in DOMAIN cur
        PROVE  IdsOf(lo, v) <= cur[v] /\ cur[v] <= IdsOf(lo, v + 1)
    <2>1. /\ N \in Nat /\ GraphOK /\ lo \in 0 .. N - 1 /\ hi \in lo + 1 .. N /\ u \in 0 .. N
          /\ cur = [x \in lo .. hi - 1 |-> IdsOf(lo, x) + Degree(x, u)] /\ pc \in Counting
      BY <1>2, NodesNat DEF ReverseInv, StripeOK, Counting
    <2>2. v \in lo .. hi - 1 /\ v \in 0 .. N - 1 /\ N \in 0 .. N
      BY <2>1
    <2>3. Begins(v) \in Nat /\ Ends(v) = Begins(v) + cnt[v]
      BY <2>1, <2>2, StripeSegments
    <2>4. cnt[v] = Degree(v, N)
      BY <2>1, <2>2, CountedSegments
    <2>5. Degree(v, u) \in Nat /\ Degree(v, N) \in Nat /\ Degree(v, u) <= Degree(v, N)
      <3>1. \A k \in 0 .. N : Degree(v, k) \in Nat
        BY <2>1, <2>2, DegreeGrows
      <3>2. Degree(v, u) <= Degree(v, N)
        BY <2>1, <2>2, DegreeBound
      <3> QED
        BY <3>1, <3>2, <2>1, <2>2
    <2>6. cur[v] = Begins(v) + Degree(v, u)
      BY <2>1, <2>2 DEF Begins
    <2>7. Begins(v) <= cur[v] /\ cur[v] <= Ends(v)
      BY <2>3, <2>4, <2>5, <2>6
    <2> QED
      BY <2>7 DEF Begins, Ends
  <1> QED
    BY <1>1, <1>2 DEF CursorsStayInSegments

\* The unchecked copy of line 584 and the cursors of lines 587-598 never leave the
\* segment of their node, and neither fatal error of the fill can occur.
THEOREM ReverseCursors == Spec => []CursorsStayInSegments
  BY ReverseCorrect, InSegments, PTL

\* What fits has room, if there is something to fit.
LEMMA FitsRoom ==
    ASSUME GraphOK, NEW a \in Nat, NEW z \in Nat, a < z, IdsOf(a, z) \in Nat, IdsOf(a, z) > 0
    PROVE  Fits(a, z) <=> Room(z - a, IdsOf(a, z))
  <1> DEFINE k == IdsOf(a, z)
             left == budget - (N + 2 * (N + 1) + 2 * (z - a) + Slack)
  <1>1. N \in Nat /\ Slack \in Nat /\ budget \in Nat /\ max_mib \in Nat
    BY NodesNat, OptionsAssumption DEF GraphOK
  <1>2. left \in Int /\ (budget > N + 2 * (N + 1) + 2 * (z - a) + Slack <=> left > 0)
    BY <1>1
  <1>3. Room(z - a, k) <=> left >= 2 /\ 4 * k <= 3 * left /\ (max_mib # 0 => k <= max_mib)
    BY DEF Room
  <1>4. Fits(a, z) <=> left > 0 /\ 4 * k <= 3 * left /\ (max_mib # 0 => k <= max_mib)
    BY <1>2 DEF Fits
  <1> HIDE DEF k, left
  <1>5. k \in Nat /\ k > 0
    BY DEF k
  <1>6. left > 0 /\ 4 * k <= 3 * left => left >= 2
    BY <1>2, <1>5
  <1>7. Fits(a, z) <=> Room(z - a, k)
    BY <1>2, <1>3, <1>4, <1>6
  <1> QED
    BY <1>7 DEF k

LEMMA Maximal == ReverseInv => StripesFitAndAreMaximal
  <1> SUFFICES ASSUME ReverseInv, pc = "scan" PROVE /\ hi - lo > 1 => Fits(lo, hi)
                                                    /\ \A b \in hi + 1 .. N : ~Fits(lo, b)
    BY DEF StripesFitAndAreMaximal
  <1>1. /\ N \in Nat /\ GraphOK /\ lo \in 0 .. N - 1 /\ hi \in lo + 1 .. N /\ hi = PickHi(lo)
        /\ IdsOf(lo, hi) > 0 /\ pc \in Counting
    BY NodesNat DEF ReverseInv, StripeOK, Counting
  <1>2. Segments
    BY <1>1, CountedSegments
  <1>3. Greatest(hi, lo, N, Fitting(lo))
    BY <1>1, <1>2, PickHiIs
  <1>4. /\ hi # lo + 1 => hi \in Fitting(lo)
        /\ \A b \in hi + 1 .. N : b \notin Fitting(lo)
    BY <1>1, <1>3 DEF Greatest
  <1>5. lo \in Nat /\ hi \in Nat /\ lo < hi /\ lo \in 0 .. N /\ hi \in lo .. N /\ hi \in 0 .. N
    BY <1>1
  <1>6. ASSUME NEW b \in hi .. N
        PROVE  /\ IdsOf(lo, b) \in Nat /\ IdsOf(lo, b) > 0 /\ b \in Nat /\ lo < b /\ b \in lo + 1 .. N
    <2>1. b \in lo .. N /\ b \in Nat /\ lo < b /\ b \in lo + 1 .. N
      BY <1>1
    <2>2. IdsOf(lo, b) \in Nat /\ IdsOf(lo, b) = off_elems[b] - off_elems[lo]
          /\ off_elems[b] \in Nat /\ off_elems[lo] \in Nat
      BY <1>1, <1>2, <1>5, <2>1, IdsOfType
    <2>3. IdsOf(lo, hi) = off_elems[hi] - off_elems[lo] /\ off_elems[hi] \in Nat
      BY <1>1, <1>2, <1>5, IdsOfType
    <2>4. IdsOf(hi, b) = off_elems[b] - off_elems[hi] /\ IdsOf(hi, b) \in Nat
      BY <1>1, <1>2, <1>5, IdsOfType
    <2> QED
      BY <2>1, <2>2, <2>3, <2>4, <1>1
  <1>7. ASSUME NEW b \in hi .. N PROVE Fits(lo, b) <=> b \in Fitting(lo)
    <2>1. /\ IdsOf(lo, b) \in Nat /\ IdsOf(lo, b) > 0 /\ b \in Nat /\ lo < b /\ b \in lo + 1 .. N
      BY <1>6
    <2>2. Fits(lo, b) <=> Room(b - lo, IdsOf(lo, b))
      BY <2>1, <1>1, <1>5, FitsRoom
    <2> QED
      BY <2>1, <2>2 DEF Fitting
  <1>8. hi - lo > 1 => hi # lo + 1 /\ hi \in hi .. N
    BY <1>5, <1>1
  <1>9. \A b \in hi + 1 .. N : b \in hi .. N
    BY <1>5, <1>1
  <1> QED
    BY <1>4, <1>7, <1>8, <1>9

\* Lines 488-511: a stripe of several nodes keeps to the budget and to --max-mib,
\* and none that ends later would.
THEOREM ReverseStripes == Spec => []StripesFitAndAreMaximal
  BY ReverseCorrect, Maximal, PTL

LEMMA Symmetric == ReverseInv => CandidatesSymmetric
  <1> SUFFICES ASSUME ReverseInv, pc = "done", NEW v \in 0 .. N - 1, NEW w \in 0 .. N - 1
               PROVE  Occurrences(w, Slice(v)) = Occurrences(w, graph[v]) + Occurrences(v, graph[w])
    BY DEF CandidatesSymmetric
  <1>1. N \in Nat /\ GraphOK /\ lo = N /\ pc \in Counting
    BY NodesNat DEF ReverseInv, StripeOK, Counting
  <1> DEFINE from == off_elems[v]
             s == Slice(v)
             D == {ids[p] : p \in Int}
  <1>2. /\ from \in Nat /\ cnt[v] \in Nat /\ off_elems[v + 1] = from + cnt[v]
    <2>1. v \in 0 .. N
      BY <1>1
    <2> QED
      BY <2>1, <1>1, CountedSegments DEF Segments
  <1>3. Cardinality(Holds(ids, from, off_elems[v + 1], w)) = Found(v, w, N)
    BY <1>1 DEF ReverseInv, Filled
  <1>4. Found(v, w, N) = Occurrences(w, graph[v]) + Occurrences(v, graph[w])
    BY <1>1 DEF Found
  <1> HIDE DEF from
  <1>5. s = [i \in 1 .. cnt[v] |-> ids[from + i - 1]]
    BY DEF Slice, from
  <1> HIDE DEF s
  <1>6. s \in Seq(D) /\ Len(s) = cnt[v] /\ \A x \in 1 .. Len(s) : s[x] = ids[from + x - 1]
    <2>1. \A x \in 1 .. cnt[v] : ids[from + x - 1] \in D
      BY <1>2
    <2> HIDE DEF D
    <2>2. s \in [1 .. cnt[v] -> D]
      BY <2>1, <1>5
    <2>3. s \in Seq(D) /\ Len(s) = cnt[v]
      BY <2>2, <1>2
    <2> QED
      BY <2>3, <1>5
  <1> HIDE DEF D
  <1>7. WrittenBehind(ids, ids, from, from, s)
    BY <1>2, <1>6 DEF WrittenBehind
  <1>8. Cardinality(Holds(ids, from, from + Len(s), w))
            = Cardinality(Holds(ids, from, from, w)) + Occurrences(w, s)
    BY <1>2, <1>6, <1>7, HoldsAppended
  <1>9. Cardinality(Holds(ids, from, from, w)) = 0
    BY <1>2, HoldsNothing
  <1>10. Occurrences(w, s) \in Nat
    BY <1>6, OccurrencesType
  <1>11. Occurrences(w, s) = Found(v, w, N)
    BY <1>2, <1>3, <1>6, <1>8, <1>9, <1>10
  <1> QED
    BY <1>4, <1>11 DEF s

\* When the program ends, every node has each of its out- and in-neighbours in its
\* segment as often as the graph has the edge, and nothing else.
THEOREM ReverseSymmetric == Spec => []CandidatesSymmetric
  BY ReverseCorrect, Symmetric, PTL

-----------------------------------------------------------------------------
(* The folds of the pruning *)

\* The values of a fold, one per position.
IsRun(d, n, X, base, F) ==
    d \in [0 .. n -> X] /\ d[0] = base /\ \A k \in 1 .. n : d[k] = F[<<d[k - 1], k>>]

HasRounds(c, n, X, base, F) ==
    /\ c[{}] = base
    /\ \A S \in SUBSET (1 .. n) : S # {} /\ c[S \ {Max(S)}] \in X
                                  => c[S] = F[<<c[S \ {Max(S)}], Max(S)>>]

EndsAs(d, c, n, X, base, F) == IsRun(d, n, X, base, F) /\ d[n] = c[1 .. n]

LEMMA RunOfFold ==
    ASSUME NEW n \in Nat, NEW X, NEW base \in X, NEW F \in [X \X (1 .. n) -> X], NEW c,
           HasRounds(c, n, X, base, F)
    PROVE  \E d : EndsAs(d, c, n, X, base, F)
  <1> DEFINE d == [k \in 0 .. n |-> c[1 .. k]]
             Good == {k \in 0 .. n : d[k] \in X}
  <1>1. 1 .. 0 = {} /\ 0 \in 0 .. n /\ n \in 0 .. n
    OBVIOUS
  <1>2. d[0] = base /\ d[n] = c[1 .. n]
    BY <1>1 DEF HasRounds
  <1>3. ASSUME NEW k \in 1 .. n, k - 1 \in Good PROVE d[k] = F[<<d[k - 1], k>>]
    <2>1. 1 .. k \in SUBSET (1 .. n) /\ 1 .. k # {} /\ k \in 1 .. k
      OBVIOUS
    <2>2. (1 .. k) \ {k} = 1 .. k - 1
      OBVIOUS
    <2>3. Max(1 .. k) = k
      BY <2>1, MaxOfInterval
    <2>4. k \in 0 .. n /\ k - 1 \in 0 .. n
      OBVIOUS
    <2>5. c[1 .. k - 1] \in X /\ c[1 .. k - 1] = d[k - 1] /\ d[k] = c[1 .. k]
      BY <1>3, <2>4
    <2> HIDE DEF d
    <2>6. c[1 .. k] = F[<<c[1 .. k - 1], k>>]
      BY <2>1, <2>2, <2>3, <2>5 DEF HasRounds
    <2> QED
      BY <2>5, <2>6
  <1> HIDE DEF d
  <1>4. \A k \in 0 .. n : k \in Good
    <2>1. 0 \in Good
      BY <1>1, <1>2
    <2>2. ASSUME NEW k \in 1 .. n, k - 1 \in Good PROVE k \in Good
      <3>1. d[k - 1] \in X /\ d[k] = F[<<d[k - 1], k>>]
        BY <2>2, <1>3
      <3> QED
        BY <3>1
    <2> HIDE DEF Good
    <2> QED
      BY <2>1, <2>2, Rounds
  <1>5. d \in [0 .. n -> X]
    BY <1>4 DEF d
  <1>6. \A k \in 1 .. n : d[k] = F[<<d[k - 1], k>>]
    <2>1. ASSUME NEW k \in 1 .. n PROVE k - 1 \in 0 .. n
      OBVIOUS
    <2> QED
      BY <2>1, <1>3, <1>4
  <1> QED
    BY <1>2, <1>5, <1>6 DEF IsRun, EndsAs

\* Lines 654-668: the pool, candidate by candidate.
SortRound(v, g, s, S) == IF S = {} THEN <<>> ELSE Prune!Sorted(v, g[S \ {Max(S)}], s[Max(S)])
SortSteps(d, v, s) ==
    d[0] = <<>> /\ \A k \in 1 .. Len(s) : d[k] = Prune!Sorted(v, d[k - 1], s[k])

LEMMA SortRuns ==
    ASSUME NEW v, NEW X, NEW D, NEW s \in Seq(D), <<>> \in X,
           \A x \in X, y \in D : Prune!Sorted(v, x, y) \in X
    PROVE  \E d \in [0 .. Len(s) -> X] : SortSteps(d, v, s) /\ Prune!Pool(v, s) = d[Len(s)]
  <1> DEFINE n == Len(s)
             F == [z \in X \X (1 .. n) |-> Prune!Sorted(v, z[1], s[z[2]])]
             Is(g) == g = [S \in SUBSET (1 .. n) |-> SortRound(v, g, s, S)]
  <1>1. n \in Nat /\ DOMAIN s = 1 .. n /\ \A k \in 1 .. n : s[k] \in D
    OBVIOUS
  <1>2. F \in [X \X (1 .. n) -> X] /\ \A x \in X, k \in 1 .. n : F[<<x, k>>] = Prune!Sorted(v, x, s[k])
    BY <1>1
  <1>3. Prune!Pool(v, s) = (CHOOSE h : Is(h))[1 .. n]
    BY <1>1 DEF Prune!Pool, Prune!FoldLeft, Prune!MapThenFoldSet, Prune!Max, Max, SortRound
  <1> HIDE DEF F, n
  <1>4. PICK g : IsFold(g, n, X, <<>>, F)
    BY <1>1, <1>2, FoldExists
  <1>5. ASSUME NEW S \in SUBSET (1 .. n) PROVE g[S] = SortRound(v, g, s, S)
    <2>1. g[S] = FoldRound(g, <<>>, F, S)
      BY <1>4 DEF IsFold
    <2>2. CASE S = {}
      BY <2>1, <2>2 DEF FoldRound, SortRound
    <2>3. CASE S # {}
      <3>1. Max(S) \in 1 .. n /\ g[S \ {Max(S)}] \in X
        BY <2>3, <1>1, <1>4, MaxOfPositions DEF IsFold
      <3> QED
        BY <2>1, <2>3, <3>1, <1>2 DEF FoldRound, SortRound
    <2> QED
      BY <2>2, <2>3
  <1>6. Is(g)
    BY <1>4, <1>5 DEF IsFold
  <1> DEFINE c == CHOOSE h : Is(h)
  <1>7. Is(c)
    BY <1>6
  <1> HIDE DEF c
  <1>8. ASSUME NEW S \in SUBSET (1 .. n) PROVE c[S] = SortRound(v, c, s, S)
    BY <1>7
  <1>9. c[{}] = <<>>
    BY <1>8 DEF SortRound
  <1>10. ASSUME NEW S \in SUBSET (1 .. n), S # {}, c[S \ {Max(S)}] \in X
         PROVE  c[S] = F[<<c[S \ {Max(S)}], Max(S)>>]
    <2>1. Max(S) \in 1 .. n
      BY <1>10, <1>1, MaxOfPositions
    <2> QED
      BY <2>1, <1>2, <1>8, <1>10 DEF SortRound
  <1>11. PICK d : IsRun(d, n, X, <<>>, F) /\ d[n] = c[1 .. n]
    <2>1. HasRounds(c, n, X, <<>>, F)
      BY <1>9, <1>10 DEF HasRounds
    <2>2. n \in Nat /\ F \in [X \X (1 .. n) -> X]
      BY <1>1, <1>2
    <2>3. \E d : EndsAs(d, c, n, X, <<>>, F)
      BY <2>1, <2>2, RunOfFold
    <2> QED
      BY <2>3 DEF EndsAs
  <1>12. ASSUME NEW k \in 1 .. n PROVE d[k] = Prune!Sorted(v, d[k - 1], s[k])
    <2>1. k - 1 \in 0 .. n /\ k \in 0 .. n
      BY <1>1
    <2>2. d[k] = F[<<d[k - 1], k>>] /\ d[k - 1] \in X
      BY <2>1, <1>11 DEF IsRun
    <2> QED
      BY <2>2, <1>2
  <1>13. d \in [0 .. Len(s) -> X] /\ SortSteps(d, v, s)
    BY <1>11, <1>12 DEF n, IsRun, SortSteps
  <1> QED
    BY <1>13, <1>3, <1>11 DEF n, c

\* Lines 670-689: the unoccluded candidates.
KeepRound(v, g, s, S) == IF S = {} THEN <<>> ELSE Prune!KeptOrNot(v, g[S \ {Max(S)}], s[Max(S)])
KeepSteps(d, v, s) ==
    d[0] = <<>> /\ \A k \in 1 .. Len(s) : d[k] = Prune!KeptOrNot(v, d[k - 1], s[k])

LEMMA KeepRuns ==
    ASSUME NEW v, NEW X, NEW D, NEW s \in Seq(D), <<>> \in X,
           \A x \in X, y \in D : Prune!KeptOrNot(v, x, y) \in X
    PROVE  \E d \in [0 .. Len(s) -> X] : KeepSteps(d, v, s) /\ Prune!KeepUnoccluded(v, s) = d[Len(s)]
  <1> DEFINE n == Len(s)
             F == [z \in X \X (1 .. n) |-> Prune!KeptOrNot(v, z[1], s[z[2]])]
             Is(g) == g = [S \in SUBSET (1 .. n) |-> KeepRound(v, g, s, S)]
  <1>1. n \in Nat /\ DOMAIN s = 1 .. n /\ \A k \in 1 .. n : s[k] \in D
    OBVIOUS
  <1>2. F \in [X \X (1 .. n) -> X] /\ \A x \in X, k \in 1 .. n : F[<<x, k>>] = Prune!KeptOrNot(v, x, s[k])
    BY <1>1
  <1>3. Prune!KeepUnoccluded(v, s) = (CHOOSE h : Is(h))[1 .. n]
    BY <1>1 DEF Prune!KeepUnoccluded, Prune!FoldLeft, Prune!MapThenFoldSet, Prune!Max, Max, KeepRound
  <1> HIDE DEF F, n
  <1>4. PICK g : IsFold(g, n, X, <<>>, F)
    BY <1>1, <1>2, FoldExists
  <1>5. ASSUME NEW S \in SUBSET (1 .. n) PROVE g[S] = KeepRound(v, g, s, S)
    <2>1. g[S] = FoldRound(g, <<>>, F, S)
      BY <1>4 DEF IsFold
    <2>2. CASE S = {}
      BY <2>1, <2>2 DEF FoldRound, KeepRound
    <2>3. CASE S # {}
      <3>1. Max(S) \in 1 .. n /\ g[S \ {Max(S)}] \in X
        BY <2>3, <1>1, <1>4, MaxOfPositions DEF IsFold
      <3> QED
        BY <2>1, <2>3, <3>1, <1>2 DEF FoldRound, KeepRound
    <2> QED
      BY <2>2, <2>3
  <1>6. Is(g)
    BY <1>4, <1>5 DEF IsFold
  <1> DEFINE c == CHOOSE h : Is(h)
  <1>7. Is(c)
    BY <1>6
  <1> HIDE DEF c
  <1>8. ASSUME NEW S \in SUBSET (1 .. n) PROVE c[S] = KeepRound(v, c, s, S)
    BY <1>7
  <1>9. c[{}] = <<>>
    BY <1>8 DEF KeepRound
  <1>10. ASSUME NEW S \in SUBSET (1 .. n), S # {}, c[S \ {Max(S)}] \in X
         PROVE  c[S] = F[<<c[S \ {Max(S)}], Max(S)>>]
    <2>1. Max(S) \in 1 .. n
      BY <1>10, <1>1, MaxOfPositions
    <2> QED
      BY <2>1, <1>2, <1>8, <1>10 DEF KeepRound
  <1>11. PICK d : IsRun(d, n, X, <<>>, F) /\ d[n] = c[1 .. n]
    <2>1. HasRounds(c, n, X, <<>>, F)
      BY <1>9, <1>10 DEF HasRounds
    <2>2. n \in Nat /\ F \in [X \X (1 .. n) -> X]
      BY <1>1, <1>2
    <2>3. \E d : EndsAs(d, c, n, X, <<>>, F)
      BY <2>1, <2>2, RunOfFold
    <2> QED
      BY <2>3 DEF EndsAs
  <1>12. ASSUME NEW k \in 1 .. n PROVE d[k] = Prune!KeptOrNot(v, d[k - 1], s[k])
    <2>1. k - 1 \in 0 .. n /\ k \in 0 .. n
      BY <1>1
    <2>2. d[k] = F[<<d[k - 1], k>>] /\ d[k - 1] \in X
      BY <2>1, <1>11 DEF IsRun
    <2> QED
      BY <2>2, <1>2
  <1>13. d \in [0 .. Len(s) -> X] /\ KeepSteps(d, v, s)
    BY <1>11, <1>12 DEF n, IsRun, KeepSteps
  <1> QED
    BY <1>13, <1>3, <1>11 DEF n, c

\* Lines 690-700: the places left.
FillRound(g, base, s, S) == IF S = {} THEN base ELSE Prune!FilledOrNot(g[S \ {Max(S)}], s[Max(S)])
FillSteps(d, base, s) ==
    d[0] = base /\ \A k \in 1 .. Len(s) : d[k] = Prune!FilledOrNot(d[k - 1], s[k])

LEMMA FillRuns ==
    ASSUME NEW X, NEW D, NEW s \in Seq(D), NEW base \in X,
           \A x \in X, y \in D : Prune!FilledOrNot(x, y) \in X
    PROVE  \E d \in [0 .. Len(s) -> X] : FillSteps(d, base, s) /\ Prune!FillUp(base, s) = d[Len(s)]
  <1> DEFINE n == Len(s)
             F == [z \in X \X (1 .. n) |-> Prune!FilledOrNot(z[1], s[z[2]])]
             Is(g) == g = [S \in SUBSET (1 .. n) |-> FillRound(g, base, s, S)]
  <1>1. n \in Nat /\ DOMAIN s = 1 .. n /\ \A k \in 1 .. n : s[k] \in D
    OBVIOUS
  <1>2. F \in [X \X (1 .. n) -> X] /\ \A x \in X, k \in 1 .. n : F[<<x, k>>] = Prune!FilledOrNot(x, s[k])
    BY <1>1
  <1>3. Prune!FillUp(base, s) = (CHOOSE h : Is(h))[1 .. n]
    BY <1>1 DEF Prune!FillUp, Prune!FoldLeft, Prune!MapThenFoldSet, Prune!Max, Max, FillRound
  <1> HIDE DEF F, n
  <1>4. PICK g : IsFold(g, n, X, base, F)
    BY <1>1, <1>2, FoldExists
  <1>5. ASSUME NEW S \in SUBSET (1 .. n) PROVE g[S] = FillRound(g, base, s, S)
    <2>1. g[S] = FoldRound(g, base, F, S)
      BY <1>4 DEF IsFold
    <2>2. CASE S = {}
      BY <2>1, <2>2 DEF FoldRound, FillRound
    <2>3. CASE S # {}
      <3>1. Max(S) \in 1 .. n /\ g[S \ {Max(S)}] \in X
        BY <2>3, <1>1, <1>4, MaxOfPositions DEF IsFold
      <3> QED
        BY <2>1, <2>3, <3>1, <1>2 DEF FoldRound, FillRound
    <2> QED
      BY <2>2, <2>3
  <1>6. Is(g)
    BY <1>4, <1>5 DEF IsFold
  <1> DEFINE c == CHOOSE h : Is(h)
  <1>7. Is(c)
    BY <1>6
  <1> HIDE DEF c
  <1>8. ASSUME NEW S \in SUBSET (1 .. n) PROVE c[S] = FillRound(c, base, s, S)
    BY <1>7
  <1>9. c[{}] = base
    BY <1>8 DEF FillRound
  <1>10. ASSUME NEW S \in SUBSET (1 .. n), S # {}, c[S \ {Max(S)}] \in X
         PROVE  c[S] = F[<<c[S \ {Max(S)}], Max(S)>>]
    <2>1. Max(S) \in 1 .. n
      BY <1>10, <1>1, MaxOfPositions
    <2> QED
      BY <2>1, <1>2, <1>8, <1>10 DEF FillRound
  <1>11. PICK d : IsRun(d, n, X, base, F) /\ d[n] = c[1 .. n]
    <2>1. HasRounds(c, n, X, base, F)
      BY <1>9, <1>10 DEF HasRounds
    <2>2. n \in Nat /\ F \in [X \X (1 .. n) -> X]
      BY <1>1, <1>2
    <2>3. \E d : EndsAs(d, c, n, X, base, F)
      BY <2>1, <2>2, RunOfFold
    <2> QED
      BY <2>3 DEF EndsAs
  <1>12. ASSUME NEW k \in 1 .. n PROVE d[k] = Prune!FilledOrNot(d[k - 1], s[k])
    <2>1. k - 1 \in 0 .. n /\ k \in 0 .. n
      BY <1>1
    <2>2. d[k] = F[<<d[k - 1], k>>] /\ d[k - 1] \in X
      BY <2>1, <1>11 DEF IsRun
    <2> QED
      BY <2>2, <1>2
  <1>13. d \in [0 .. Len(s) -> X] /\ FillSteps(d, base, s)
    BY <1>11, <1>12 DEF n, IsRun, FillSteps
  <1> QED
    BY <1>13, <1>3, <1>11 DEF n, c

\* The length of the output.
SizeRound(g, base, s, S) == IF S = {} THEN base ELSE g[S \ {Max(S)}] + 1 + Len(s[Max(S)])
SizeSteps(d, base, s) ==
    d[0] = base /\ \A k \in 1 .. Len(s) : d[k] = d[k - 1] + 1 + Len(s[k])

LEMMA SizeRuns ==
    ASSUME NEW X, NEW D, NEW s \in Seq(D), NEW base \in X,
           \A x \in X, y \in D : x + 1 + Len(y) \in X
    PROVE  \E d \in [0 .. Len(s) -> X] : SizeSteps(d, base, s) /\ Prune!OutputSize(base, s) = d[Len(s)]
  <1> DEFINE n == Len(s)
             F == [z \in X \X (1 .. n) |-> z[1] + 1 + Len(s[z[2]])]
             Is(g) == g = [S \in SUBSET (1 .. n) |-> SizeRound(g, base, s, S)]
  <1>1. n \in Nat /\ DOMAIN s = 1 .. n /\ \A k \in 1 .. n : s[k] \in D
    OBVIOUS
  <1>2. F \in [X \X (1 .. n) -> X] /\ \A x \in X, k \in 1 .. n : F[<<x, k>>] = x + 1 + Len(s[k])
    BY <1>1
  <1>3. Prune!OutputSize(base, s) = (CHOOSE h : Is(h))[1 .. n]
    BY <1>1 DEF Prune!OutputSize, Prune!FoldLeft, Prune!MapThenFoldSet, Prune!Max, Max, SizeRound
  <1> HIDE DEF F, n
  <1>4. PICK g : IsFold(g, n, X, base, F)
    BY <1>1, <1>2, FoldExists
  <1>5. ASSUME NEW S \in SUBSET (1 .. n) PROVE g[S] = SizeRound(g, base, s, S)
    <2>1. g[S] = FoldRound(g, base, F, S)
      BY <1>4 DEF IsFold
    <2>2. CASE S = {}
      BY <2>1, <2>2 DEF FoldRound, SizeRound
    <2>3. CASE S # {}
      <3>1. Max(S) \in 1 .. n /\ g[S \ {Max(S)}] \in X
        BY <2>3, <1>1, <1>4, MaxOfPositions DEF IsFold
      <3> QED
        BY <2>1, <2>3, <3>1, <1>2 DEF FoldRound, SizeRound
    <2> QED
      BY <2>2, <2>3
  <1>6. Is(g)
    BY <1>4, <1>5 DEF IsFold
  <1> DEFINE c == CHOOSE h : Is(h)
  <1>7. Is(c)
    BY <1>6
  <1> HIDE DEF c
  <1>8. ASSUME NEW S \in SUBSET (1 .. n) PROVE c[S] = SizeRound(c, base, s, S)
    BY <1>7
  <1>9. c[{}] = base
    BY <1>8 DEF SizeRound
  <1>10. ASSUME NEW S \in SUBSET (1 .. n), S # {}, c[S \ {Max(S)}] \in X
         PROVE  c[S] = F[<<c[S \ {Max(S)}], Max(S)>>]
    <2>1. Max(S) \in 1 .. n
      BY <1>10, <1>1, MaxOfPositions
    <2> QED
      BY <2>1, <1>2, <1>8, <1>10 DEF SizeRound
  <1>11. PICK d : IsRun(d, n, X, base, F) /\ d[n] = c[1 .. n]
    <2>1. HasRounds(c, n, X, base, F)
      BY <1>9, <1>10 DEF HasRounds
    <2>2. n \in Nat /\ F \in [X \X (1 .. n) -> X]
      BY <1>1, <1>2
    <2>3. \E d : EndsAs(d, c, n, X, base, F)
      BY <2>1, <2>2, RunOfFold
    <2> QED
      BY <2>3 DEF EndsAs
  <1>12. ASSUME NEW k \in 1 .. n PROVE d[k] = d[k - 1] + 1 + Len(s[k])
    <2>1. k - 1 \in 0 .. n /\ k \in 0 .. n
      BY <1>1
    <2>2. d[k] = F[<<d[k - 1], k>>] /\ d[k - 1] \in X
      BY <2>1, <1>11 DEF IsRun
    <2> QED
      BY <2>2, <1>2
  <1>13. d \in [0 .. Len(s) -> X] /\ SizeSteps(d, base, s)
    BY <1>11, <1>12 DEF n, IsRun, SizeSteps
  <1> QED
    BY <1>13, <1>3, <1>11 DEF n, c

\* The largest degree.
WidestRound(g, base, s, S) == IF S = {} THEN base ELSE Prune!Larger(g[S \ {Max(S)}], Len(s[Max(S)]))
WidestSteps(d, base, s) ==
    d[0] = base /\ \A k \in 1 .. Len(s) : d[k] = Prune!Larger(d[k - 1], Len(s[k]))

LEMMA WidestRuns ==
    ASSUME NEW X, NEW D, NEW s \in Seq(D), NEW base \in X,
           \A x \in X, y \in D : Prune!Larger(x, Len(y)) \in X
    PROVE  \E d \in [0 .. Len(s) -> X] : WidestSteps(d, base, s) /\ Prune!LargestDegree(base, s) = d[Len(s)]
  <1> DEFINE n == Len(s)
             F == [z \in X \X (1 .. n) |-> Prune!Larger(z[1], Len(s[z[2]]))]
             Is(g) == g = [S \in SUBSET (1 .. n) |-> WidestRound(g, base, s, S)]
  <1>1. n \in Nat /\ DOMAIN s = 1 .. n /\ \A k \in 1 .. n : s[k] \in D
    OBVIOUS
  <1>2. F \in [X \X (1 .. n) -> X] /\ \A x \in X, k \in 1 .. n : F[<<x, k>>] = Prune!Larger(x, Len(s[k]))
    BY <1>1
  <1>3. Prune!LargestDegree(base, s) = (CHOOSE h : Is(h))[1 .. n]
    BY <1>1 DEF Prune!LargestDegree, Prune!FoldLeft, Prune!MapThenFoldSet, Prune!Max, Max, WidestRound
  <1> HIDE DEF F, n
  <1>4. PICK g : IsFold(g, n, X, base, F)
    BY <1>1, <1>2, FoldExists
  <1>5. ASSUME NEW S \in SUBSET (1 .. n) PROVE g[S] = WidestRound(g, base, s, S)
    <2>1. g[S] = FoldRound(g, base, F, S)
      BY <1>4 DEF IsFold
    <2>2. CASE S = {}
      BY <2>1, <2>2 DEF FoldRound, WidestRound
    <2>3. CASE S # {}
      <3>1. Max(S) \in 1 .. n /\ g[S \ {Max(S)}] \in X
        BY <2>3, <1>1, <1>4, MaxOfPositions DEF IsFold
      <3> QED
        BY <2>1, <2>3, <3>1, <1>2 DEF FoldRound, WidestRound
    <2> QED
      BY <2>2, <2>3
  <1>6. Is(g)
    BY <1>4, <1>5 DEF IsFold
  <1> DEFINE c == CHOOSE h : Is(h)
  <1>7. Is(c)
    BY <1>6
  <1> HIDE DEF c
  <1>8. ASSUME NEW S \in SUBSET (1 .. n) PROVE c[S] = WidestRound(c, base, s, S)
    BY <1>7
  <1>9. c[{}] = base
    BY <1>8 DEF WidestRound
  <1>10. ASSUME NEW S \in SUBSET (1 .. n), S # {}, c[S \ {Max(S)}] \in X
         PROVE  c[S] = F[<<c[S \ {Max(S)}], Max(S)>>]
    <2>1. Max(S) \in 1 .. n
      BY <1>10, <1>1, MaxOfPositions
    <2> QED
      BY <2>1, <1>2, <1>8, <1>10 DEF WidestRound
  <1>11. PICK d : IsRun(d, n, X, base, F) /\ d[n] = c[1 .. n]
    <2>1. HasRounds(c, n, X, base, F)
      BY <1>9, <1>10 DEF HasRounds
    <2>2. n \in Nat /\ F \in [X \X (1 .. n) -> X]
      BY <1>1, <1>2
    <2>3. \E d : EndsAs(d, c, n, X, base, F)
      BY <2>1, <2>2, RunOfFold
    <2> QED
      BY <2>3 DEF EndsAs
  <1>12. ASSUME NEW k \in 1 .. n PROVE d[k] = Prune!Larger(d[k - 1], Len(s[k]))
    <2>1. k - 1 \in 0 .. n /\ k \in 0 .. n
      BY <1>1
    <2>2. d[k] = F[<<d[k - 1], k>>] /\ d[k - 1] \in X
      BY <2>1, <1>11 DEF IsRun
    <2> QED
      BY <2>2, <1>2
  <1>13. d \in [0 .. Len(s) -> X] /\ WidestSteps(d, base, s)
    BY <1>11, <1>12 DEF n, IsRun, WidestSteps
  <1> QED
    BY <1>13, <1>3, <1>11 DEF n, c

-----------------------------------------------------------------------------
(* The pool of candidates *)

\* The library's operators, as the pruning has them.
LEMMA SameCardinality == ASSUME NEW S PROVE Prune!Cardinality(S) = Cardinality(S)
  BY DEF Prune!Cardinality, Cardinality
LEMMA SameInsert == ASSUME NEW s, NEW i, NEW w PROVE Prune!InsertAt(s, i, w) = InsertAt(s, i, w)
  BY DEF Prune!InsertAt, InsertAt
LEMMA SameToSet == ASSUME NEW s PROVE Prune!ToSet(s) = ToSet(s)
  BY DEF Prune!ToSet, ToSet
LEMMA SameMaxMin == ASSUME NEW S PROVE Prune!Max(S) = Max(S) /\ Prune!Min(S) = Min(S)
  BY DEF Prune!Max, Max, Prune!Min, Min

Nodes == Cardinality(DOMAIN code)
CodesOK ==
    /\ IsFiniteSet(DOMAIN code) /\ DOMAIN code = 0 .. Nodes - 1
    /\ \A v \in DOMAIN code : code[v] \in Nat
    /\ R \in Nat \ {0} /\ T \in Nat \ {0}

LEMMA NodesType == ASSUME CodesOK PROVE Nodes \in Nat
  BY FS_CardinalityType DEF CodesOK, Nodes

LEMMA SameNodes == Prune!N = Nodes
  BY SameCardinality DEF Prune!N, Nodes

LEMMA DistType ==
    ASSUME CodesOK, NEW a \in DOMAIN code, NEW b \in DOMAIN code
    PROVE  Prune!Dist(a, b) \in Nat /\ Prune!Dist(a, a) = 0
  <1>1. code[a] \in Nat /\ code[b] \in Nat
    BY DEF CodesOK
  <1> QED
    BY <1>1 DEF Prune!Dist

\* By distance and id: a total order.
LEMMA NearerOrder ==
    ASSUME CodesOK, NEW v \in DOMAIN code, NEW a \in DOMAIN code, NEW b \in DOMAIN code
    PROVE  /\ ~Prune!Nearer(v, a, a)
           /\ Prune!Nearer(v, a, b) => ~Prune!Nearer(v, b, a)
           /\ a # b => Prune!Nearer(v, a, b) \/ Prune!Nearer(v, b, a)
           /\ Prune!Nearer(v, a, b) => Prune!Dist(v, a) <= Prune!Dist(v, b)
  <1>1. a \in Nat /\ b \in Nat
    BY NodesType DEF CodesOK
  <1>2. Prune!Dist(v, a) \in Nat /\ Prune!Dist(v, b) \in Nat
    BY DistType
  <1> QED
    BY <1>1, <1>2 DEF Prune!Nearer

LEMMA NearerChain ==
    ASSUME CodesOK, NEW v \in DOMAIN code, NEW a \in DOMAIN code, NEW b \in DOMAIN code,
           NEW c \in DOMAIN code, Prune!Nearer(v, a, b), Prune!Nearer(v, b, c)
    PROVE  Prune!Nearer(v, a, c)
  <1>1. a \in Nat /\ b \in Nat /\ c \in Nat
    BY NodesType DEF CodesOK
  <1>2. Prune!Dist(v, a) \in Nat /\ Prune!Dist(v, b) \in Nat /\ Prune!Dist(v, c) \in Nat
    BY DistType
  <1> QED
    BY <1>1, <1>2 DEF Prune!Nearer

\* Positions of which all before one belong too are the first ones.
LEMMA FirstOnes ==
    ASSUME NEW n \in Nat, NEW S, S \subseteq 1 .. n, \A x \in S : \A y \in 1 .. x : y \in S
    PROVE  Cardinality(S) \in 0 .. n /\ S = 1 .. Cardinality(S)
  <1>1. CASE S = {}
    <2>1. Cardinality(S) = 0
      BY <1>1, FS_EmptySet
    <2> QED
      BY <1>1, <2>1
  <1>2. CASE S # {}
    <2>1. Max(S) \in S /\ \A y \in S : y <= Max(S)
      BY <1>2, MaxOfPositions
    <2> DEFINE m == Max(S)
    <2> HIDE DEF m
    <2>2. m \in 1 .. n /\ m \in S /\ \A y \in S : y <= m
      BY <2>1 DEF m
    <2>3. \A y \in S : y \in 1 .. n
      OBVIOUS
    <2>4. S = 1 .. m
      <3>1. \A y \in S : y \in 1 .. m
        BY <2>2, <2>3
      <3> QED
        BY <3>1, <2>2
    <2>5. Cardinality(1 .. m) = m
      <3>1. 1 \in Int /\ m \in Int /\ m - 1 + 1 = m /\ ~(1 > m)
        BY <2>2
      <3> QED
        BY <3>1, FS_Interval
    <2> QED
      BY <2>2, <2>4, <2>5
  <1> QED
    BY <1>1, <1>2

LEMMA Joined ==
    ASSUME NEW D, NEW a \in Seq(D), NEW b \in Seq(D)
    PROVE  /\ a \o b \in Seq(D) /\ Len(a \o b) = Len(a) + Len(b)
           /\ \A x \in 1 .. Len(a) : (a \o b)[x] = a[x]
           /\ \A x \in 1 .. Len(b) : (a \o b)[Len(a) + x] = b[x]
  OBVIOUS

IsInserted(t, s, p, w) ==
    /\ Len(t) = Len(s) + 1
    /\ \A x \in 1 .. p : t[x] = s[x]
    /\ t[p + 1] = w
    /\ \A x \in p + 2 .. Len(s) + 1 : t[x] = s[x - 1]

LEMMA InsertIs ==
    ASSUME NEW D, NEW s \in Seq(D), NEW p \in 0 .. Len(s), NEW w \in D
    PROVE  InsertAt(s, p + 1, w) \in Seq(D) /\ IsInserted(InsertAt(s, p + 1, w), s, p, w)
  <1> DEFINE a == SubSeq(s, 1, p)
             b == SubSeq(s, p + 1, Len(s))
  <1>1. Len(s) \in Nat /\ p \in Nat /\ p <= Len(s) /\ (p + 1) - 1 = p
    OBVIOUS
  <1>2. a \in Seq(D) /\ Len(a) = p /\ \A x \in 1 .. p : a[x] = s[x]
    BY <1>1
  <1>3. b \in Seq(D) /\ Len(b) = Len(s) - p /\ \A x \in 1 .. Len(s) - p : b[x] = s[p + x]
    BY <1>1
  <1>4. InsertAt(s, p + 1, w) = (a \o <<w>>) \o b
    BY <1>1 DEF InsertAt
  <1> HIDE DEF a, b
  <1> DEFINE e == a \o <<w>>
  <1>5. e \in Seq(D) /\ Len(e) = p + 1 /\ e[p + 1] = w /\ \A x \in 1 .. p : e[x] = s[x]
    BY <1>1, <1>2
  <1> HIDE DEF e
  <1> DEFINE t == e \o b
  <1>6. t \in Seq(D) /\ Len(t) = Len(s) + 1
    <2>1. t \in Seq(D) /\ Len(t) = Len(e) + Len(b)
      BY <1>3, <1>5, Joined
    <2> QED
      BY <2>1, <1>1, <1>3, <1>5
  <1>7. \A x \in 1 .. p : t[x] = s[x]
    BY <1>1, <1>3, <1>5
  <1>8. t[p + 1] = w
    BY <1>1, <1>3, <1>5
  <1>9. ASSUME NEW x \in p + 2 .. Len(s) + 1 PROVE t[x] = s[x - 1]
    <2>1. x - (p + 1) \in 1 .. Len(s) - p /\ p + (x - (p + 1)) = x - 1
      BY <1>1
    <2>2. t[x] = b[x - (p + 1)]
      BY <1>1, <1>3, <1>5, <2>1
    <2> QED
      BY <2>1, <2>2, <1>3
  <1> QED
    BY <1>4, <1>6, <1>7, <1>8, <1>9 DEF IsInserted, e

Others(v) == DOMAIN code \ {v}
InOrder(v, s) == \A x, y \in 1 .. Len(s) : x < y => ~Prune!Nearer(v, s[y], s[x])
Pools(v) == {s \in Seq(Others(v)) : InOrder(v, s)}

LEMMA SortedKeeps ==
    ASSUME CodesOK, NEW v \in DOMAIN code, NEW s \in Pools(v), NEW w \in Nat
    PROVE  /\ Prune!Sorted(v, s, w) \in Pools(v)
           /\ ToSet(Prune!Sorted(v, s, w)) = ToSet(s) \cup ({w} \cap Others(v))
  <1>1. s \in Seq(Others(v)) /\ InOrder(v, s) /\ Len(s) \in Nat /\ DOMAIN s = 1 .. Len(s)
    BY DEF Pools
  <1>2. w < Nodes <=> w \in DOMAIN code
    BY NodesType DEF CodesOK
  <1>3. CASE ~(w \in Others(v))
    <2>1. Prune!Sorted(v, s, w) = s /\ {w} \cap Others(v) = {}
      BY <1>2, <1>3, SameNodes DEF Prune!Sorted, Others
    <2> QED
      BY <2>1
  <1>4. CASE w \in Others(v)
    <2> DEFINE B == {i \in DOMAIN s : Prune!Nearer(v, s[i], w)}
               p == Cardinality(B)
               t == InsertAt(s, p + 1, w)
    <2>1. Prune!Sorted(v, s, w) = t
      BY <1>2, <1>4, SameNodes, SameInsert, SameCardinality DEF Prune!Sorted, Others
    <2>2. \A x \in 1 .. Len(s) : s[x] \in Others(v) /\ s[x] \in DOMAIN code
      BY <1>1 DEF Others
    <2>3. w \in DOMAIN code
      BY <1>4 DEF Others
    <2>4. ASSUME NEW x \in B, NEW y \in 1 .. x PROVE y \in B
      <3>1. x \in 1 .. Len(s) /\ y \in 1 .. Len(s) /\ (y < x \/ y = x) /\ Prune!Nearer(v, s[x], w)
        BY <1>1
      <3>2. CASE y = x
        BY <3>2
      <3>3. CASE y < x
        <4>1. ~Prune!Nearer(v, s[x], s[y])
          BY <3>1, <3>3, <1>1 DEF InOrder
        <4>2. s[y] = s[x] \/ Prune!Nearer(v, s[y], s[x])
          BY <4>1, <3>1, <2>2, NearerOrder
        <4>3. Prune!Nearer(v, s[y], w)
          BY <4>2, <3>1, <2>2, <2>3, NearerChain
        <4> QED
          BY <4>3, <3>1, <1>1
      <3> QED
        BY <3>1, <3>2, <3>3
    <2>5. B \subseteq 1 .. Len(s)
      BY <1>1
    <2> HIDE DEF B
    <2>6. p \in 0 .. Len(s) /\ B = 1 .. p
      BY <1>1, <2>4, <2>5, FirstOnes
    <2> HIDE DEF p
    <2>7. t \in Seq(Others(v)) /\ IsInserted(t, s, p, w)
      BY <1>1, <1>4, <2>6, InsertIs
    <2> HIDE DEF t
    <2>8. Len(t) = Len(s) + 1 /\ DOMAIN t = 1 .. Len(s) + 1
      BY <2>7 DEF IsInserted
    <2>9. ASSUME NEW x \in 1 .. Len(s) + 1
          PROVE  \/ x <= p /\ x \in 1 .. Len(s) /\ t[x] = s[x]
                 \/ x = p + 1 /\ t[x] = w
                 \/ x > p + 1 /\ x - 1 \in 1 .. Len(s) /\ t[x] = s[x - 1]
      <3>1. CASE x <= p
        BY <3>1, <2>6, <2>7, <1>1 DEF IsInserted
      <3>2. CASE x = p + 1
        BY <3>2, <2>7 DEF IsInserted
      <3>3. CASE x > p + 1
        <4>1. x \in p + 2 .. Len(s) + 1 /\ x - 1 \in 1 .. Len(s)
          BY <3>3, <2>6, <1>1
        <4> QED
          BY <4>1, <3>3, <2>7 DEF IsInserted
      <3> QED
        BY <3>1, <3>2, <3>3, <2>6, <1>1
    <2>10. \A x \in 1 .. p : x \in 1 .. Len(s) /\ Prune!Nearer(v, s[x], w)
      BY <2>6, <1>1 DEF B
    <2>11. ASSUME NEW x \in 1 .. Len(s), x > p PROVE ~Prune!Nearer(v, s[x], w)
      <3>1. x \notin B
        BY <2>6, <2>11
      <3> QED
        BY <3>1, <1>1 DEF B
    <2>12. ASSUME NEW x \in 1 .. Len(s) + 1, NEW y \in 1 .. Len(s) + 1, x < y
           PROVE  ~Prune!Nearer(v, t[y], t[x])
      <3>1. p \in Nat /\ x \in Nat /\ y \in Nat
        BY <2>6
      <3>2. CASE y <= p
        <4>1. x <= p
          BY <3>1, <3>2, <2>12
        <4>2. t[x] = s[x] /\ t[y] = s[y] /\ x \in 1 .. Len(s) /\ y \in 1 .. Len(s)
          BY <4>1, <3>1, <3>2, <2>9
        <4> QED
          BY <4>2, <2>12, <1>1 DEF InOrder
      <3>3. CASE y = p + 1
        <4>1. x \in 1 .. p
          BY <3>1, <3>3, <2>12
        <4>2. t[x] = s[x] /\ t[y] = w /\ x \in 1 .. Len(s)
          BY <4>1, <3>1, <3>3, <2>9
        <4>3. Prune!Nearer(v, s[x], w)
          BY <4>1, <2>10
        <4> QED
          BY <4>2, <4>3, <2>2, <2>3, NearerOrder
      <3>4. CASE y > p + 1
        <4>1. t[y] = s[y - 1] /\ y - 1 \in 1 .. Len(s) /\ y - 1 > p
          BY <3>1, <3>4, <2>9
        <4>2. CASE x <= p
          <5>1. t[x] = s[x] /\ x \in 1 .. Len(s) /\ x < y - 1
            BY <4>2, <3>1, <3>4, <2>9
          <5> QED
            BY <4>1, <5>1, <1>1 DEF InOrder
        <4>3. CASE x = p + 1
          <5>1. t[x] = w
            BY <4>3, <3>1, <2>9
          <5> QED
            BY <4>1, <5>1, <2>11
        <4>4. CASE x > p + 1
          <5>1. t[x] = s[x - 1] /\ x - 1 \in 1 .. Len(s) /\ x - 1 < y - 1
            BY <4>4, <3>1, <2>12, <2>9
          <5> QED
            BY <4>1, <5>1, <1>1 DEF InOrder
        <4> QED
          BY <4>2, <4>3, <4>4, <3>1
      <3> QED
        BY <3>1, <3>2, <3>3, <3>4
    <2>13. t \in Pools(v)
      BY <2>7, <2>8, <2>12 DEF Pools, InOrder
    <2>14. ToSet(t) = ToSet(s) \cup {w}
      <3>1. \A x \in DOMAIN t : t[x] \in ToSet(s) \cup {w}
        BY <2>8, <2>9, <1>1 DEF ToSet
      <3>2. ASSUME NEW x \in DOMAIN s PROVE s[x] \in ToSet(t)
        <4>1. CASE x <= p
          <5>1. x \in DOMAIN t /\ x \in 1 .. p
            BY <4>1, <2>8, <1>1, <2>6
          <5> QED
            BY <5>1, <2>7 DEF ToSet, IsInserted
        <4>2. CASE x > p
          <5>1. x + 1 \in DOMAIN t /\ x + 1 \in p + 2 .. Len(s) + 1 /\ (x + 1) - 1 = x
            BY <4>2, <2>8, <1>1, <2>6
          <5>2. t[x + 1] = s[x]
            BY <5>1, <2>7 DEF IsInserted
          <5> QED
            BY <5>1, <5>2 DEF ToSet
        <4> QED
          BY <4>1, <4>2, <1>1, <2>6
      <3>3. w \in ToSet(t)
        <4>1. p + 1 \in DOMAIN t
          BY <2>8, <1>1, <2>6
        <4> QED
          BY <4>1, <2>7 DEF ToSet, IsInserted
      <3> QED
        BY <3>1, <3>2, <3>3 DEF ToSet
    <2> QED
      BY <2>1, <2>13, <2>14, <1>4
  <1> QED
    BY <1>3, <1>4

\* The pool holds the valid candidates, in order.
LEMMA PoolIs ==
    ASSUME CodesOK, NEW v \in DOMAIN code, NEW cand \in Seq(Nat)
    PROVE  Prune!Pool(v, cand) \in Pools(v) /\ ToSet(Prune!Pool(v, cand)) = ToSet(cand) \cap Others(v)
  <1> DEFINE n == Len(cand)
  <1>1. n \in Nat /\ DOMAIN cand = 1 .. n /\ \A k \in 1 .. n : cand[k] \in Nat
    OBVIOUS
  <1>2. <<>> \in Pools(v) /\ ToSet(<<>>) = {}
    BY DEF Pools, InOrder, ToSet
  <1>3. \A x \in Pools(v), y \in Nat : Prune!Sorted(v, x, y) \in Pools(v)
    BY SortedKeeps
  <1>4. PICK d \in [0 .. n -> Pools(v)] : SortSteps(d, v, cand) /\ Prune!Pool(v, cand) = d[n]
    BY <1>2, <1>3, SortRuns
  <1> DEFINE First(k) == {cand[x] : x \in 1 .. k}
             Good == {k \in 0 .. n : ToSet(d[k]) = First(k) \cap Others(v)}
  <1>5. 0 \in Good
    <2>1. First(0) = {} /\ 0 \in 0 .. n /\ d[0] = <<>>
      BY <1>1, <1>4 DEF SortSteps
    <2> QED
      BY <2>1, <1>2
  <1>6. ASSUME NEW k \in 1 .. n, k - 1 \in Good PROVE k \in Good
    <2>1. k - 1 \in 0 .. n /\ k \in 0 .. n /\ cand[k] \in Nat /\ d[k - 1] \in Pools(v)
      BY <1>1, <1>4
    <2>2. d[k] = Prune!Sorted(v, d[k - 1], cand[k])
      BY <1>4 DEF SortSteps
    <2>3. ToSet(d[k]) = ToSet(d[k - 1]) \cup ({cand[k]} \cap Others(v))
      BY <2>1, <2>2, SortedKeeps
    <2>4. 1 .. k = (1 .. k - 1) \cup {k}
      BY <1>1
    <2>5. First(k) = First(k - 1) \cup {cand[k]}
      BY <2>4
    <2>6. ToSet(d[k - 1]) = First(k - 1) \cap Others(v)
      BY <1>6
    <2> HIDE DEF First, n
    <2> QED
      BY <2>1, <2>3, <2>5, <2>6
  <1> HIDE DEF Good
  <1>7. n \in Good
    <2>1. \A k \in 0 .. n : k \in Good
      BY <1>1, <1>5, <1>6, Rounds
    <2> QED
      BY <2>1, <1>1
  <1>8. First(n) = ToSet(cand)
    BY <1>1 DEF ToSet
  <1>9. n \in 0 .. n
    BY <1>1
  <1> HIDE DEF n, First
  <1> QED
    BY <1>4, <1>7, <1>8, <1>9 DEF Good

\* A candidate comes behind all before it in the pool, or is listed again.
LEMMA Behind ==
    ASSUME CodesOK, NEW v \in DOMAIN code, NEW pool \in Pools(v), NEW k \in 1 .. Len(pool),
           NEW i \in 1 .. k
    PROVE  /\ pool[i] \in Others(v) /\ pool[k] \in Others(v)
           /\ pool[i] = pool[k] \/ Prune!Nearer(v, pool[i], pool[k])
  <1>1. pool \in Seq(Others(v)) /\ InOrder(v, pool) /\ Len(pool) \in Nat
    BY DEF Pools
  <1>2. i \in 1 .. Len(pool) /\ (i = k \/ i < k)
    BY <1>1
  <1>3. pool[i] \in Others(v) /\ pool[k] \in Others(v)
    BY <1>1, <1>2
  <1>4. pool[i] \in DOMAIN code /\ pool[k] \in DOMAIN code
    BY <1>3 DEF Others
  <1>5. CASE i < k
    <2>1. ~Prune!Nearer(v, pool[k], pool[i])
      BY <1>1, <1>2, <1>5 DEF InOrder
    <2> QED
      BY <2>1, <1>3, <1>4, NearerOrder
  <1> QED
    BY <1>2, <1>3, <1>5

-----------------------------------------------------------------------------
(* Occlusion *)

Short(v) == {s \in Seq(Others(v)) : Len(s) <= R}
Covers(v, s, w) == Prune!Nearer(v, s, w) /\ Prune!Dist(s, w) <= Prune!Dist(v, w)
Has(s, w) == \E x \in 1 .. Len(s) : s[x] = w
FromPool(s, pool, k) == \A x \in 1 .. Len(s) : \E i \in 1 .. k : s[x] = pool[i]

Ascending(v, s) == \A x, y \in 1 .. Len(s) : x < y => Prune!Nearer(v, s[x], s[y])
Uncovered(v, s) == \A x, y \in 1 .. Len(s) : ~Covers(v, s[x], s[y])
LeftOut(v, s, w) == \/ \E x \in 1 .. Len(s) : Covers(v, s[x], w)
                    \/ Len(s) = R /\ \A x \in 1 .. Len(s) : Prune!Nearer(v, s[x], w)

\* What the first k candidates of the pool leave in the list.
KeptSoFar(v, s, pool, k) ==
    /\ FromPool(s, pool, k)
    /\ T = 1 => /\ Ascending(v, s) /\ Uncovered(v, s)
                /\ \A i \in 1 .. k : Has(s, pool[i]) \/ LeftOut(v, s, pool[i])

LEMMA Appended ==
    ASSUME NEW D, NEW s \in Seq(D), NEW w \in D
    PROVE  /\ Append(s, w) \in Seq(D) /\ Len(Append(s, w)) = Len(s) + 1
           /\ Append(s, w)[Len(s) + 1] = w
           /\ \A x \in 1 .. Len(s) : Append(s, w)[x] = s[x]
  OBVIOUS

LEMMA KeepType ==
    ASSUME CodesOK, NEW v, NEW s \in Short(v), NEW w \in Others(v)
    PROVE  Prune!KeptOrNot(v, s, w) \in Short(v)
  <1>1. s \in Seq(Others(v)) /\ Len(s) <= R /\ Len(s) \in Nat /\ R \in Nat
    BY DEF Short, CodesOK
  <1>2. CASE Prune!KeptOrNot(v, s, w) = s
    BY <1>2
  <1>3. CASE Prune!KeptOrNot(v, s, w) = Append(s, w) /\ Len(s) < R
    BY <1>1, <1>3, Appended DEF Short
  <1> QED
    BY <1>2, <1>3 DEF Prune!KeptOrNot

LEMMA NoOccluders ==
    ASSUME NEW v, NEW D, NEW s \in Seq(D), NEW w, T = 1
    PROVE  Prune!Cardinality(Prune!Occluders(v, s, w)) < T
           <=> \A x \in 1 .. Len(s) : ~(Prune!Dist(s[x], w) <= Prune!Dist(v, w))
  <1> DEFINE S == Prune!Occluders(v, s, w)
  <1>1. S \subseteq 1 .. Len(s) /\ Len(s) \in Nat
    BY DEF Prune!Occluders
  <1>2. IsFiniteSet(S)
    <2>1. IsFiniteSet(1 .. Len(s))
      BY <1>1, FS_Interval
    <2> QED
      BY <1>1, <2>1, FS_Subset
  <1>3. Cardinality(S) \in Nat /\ (Cardinality(S) = 0 <=> S = {})
    BY <1>2, FS_CardinalityType, FS_EmptySet
  <1>4. S = {} <=> \A x \in 1 .. Len(s) : ~(Prune!Dist(s[x], w) <= Prune!Dist(v, w))
    BY DEF Prune!Occluders
  <1> HIDE DEF S
  <1>5. Prune!Cardinality(S) < T <=> S = {}
    BY <1>3, SameCardinality
  <1> QED
    BY <1>4, <1>5 DEF S

LEMMA KeepStep ==
    ASSUME CodesOK, NEW v \in DOMAIN code, NEW pool \in Pools(v), NEW k \in 1 .. Len(pool),
           NEW s \in Short(v), KeptSoFar(v, s, pool, k - 1)
    PROVE  KeptSoFar(v, Prune!KeptOrNot(v, s, pool[k]), pool, k)
  <1> DEFINE w == pool[k]
             t == Prune!KeptOrNot(v, s, w)
             n == Len(s)
  <1>0. pool \in Seq(Others(v)) /\ Len(pool) \in Nat
    BY DEF Pools
  <1>1. s \in Seq(Others(v)) /\ n <= R /\ n \in Nat /\ R \in Nat /\ DOMAIN s = 1 .. n
    BY DEF Short, CodesOK
  <1>9. \A m \in Nat : m # m + 1 /\ (m <= R => m = R \/ m < R)
    BY DEF CodesOK
  <1>2. w \in Others(v) /\ k \in Nat /\ k >= 1 /\ 1 .. k = (1 .. k - 1) \cup {k}
    BY <1>0
  <1>3. \A x \in 1 .. n : s[x] \in Others(v) /\ s[x] \in DOMAIN code
    BY <1>1 DEF Others
  <1>4. w \in DOMAIN code /\ v \in DOMAIN code
    BY <1>2 DEF Others
  <1>5. \A x \in 1 .. n : \E i \in 1 .. k : s[x] = pool[i]
    BY <1>2 DEF KeptSoFar, FromPool
  <1>6. ASSUME NEW x \in 1 .. n PROVE s[x] = w \/ Prune!Nearer(v, s[x], w)
    BY <1>5, Behind
  <1>7. CASE t = s
    <2>1. FromPool(s, pool, k)
      BY <1>5 DEF FromPool
    <2>2. ASSUME T = 1 PROVE Has(s, w) \/ LeftOut(v, s, w)
      <3>1. CASE Has(s, w)
        BY <3>1
      <3>2. CASE ~Has(s, w)
        <4>1. \A x \in 1 .. n : Prune!Nearer(v, s[x], w)
          BY <3>2, <1>6 DEF Has
        <4>2. CASE n = R
          BY <4>1, <4>2 DEF LeftOut
        <4>3. CASE n # R
          <5>1. n < R
            BY <4>3, <1>1, <1>9
          <5>2. Append(s, w) # s
            <6>1. Len(Append(s, w)) = n + 1
              BY <1>1, <1>2, Appended
            <6>2. n # n + 1
              BY <1>1, <1>9
            <6> QED
              BY <6>1, <6>2
          <5>3. ~(Prune!Cardinality(Prune!Occluders(v, s, w)) < T)
            BY <5>1, <5>2, <1>7 DEF Prune!KeptOrNot
          <5>4. PICK x \in 1 .. n : Prune!Dist(s[x], w) <= Prune!Dist(v, w)
            BY <5>3, <2>2, <1>1, NoOccluders
          <5> QED
            BY <5>4, <4>1 DEF LeftOut, Covers
        <4> QED
          BY <4>2, <4>3
      <3> QED
        BY <3>1, <3>2
    <2>3. ASSUME T = 1, NEW i \in 1 .. k PROVE Has(s, pool[i]) \/ LeftOut(v, s, pool[i])
      <3>1. CASE i = k
        BY <3>1, <2>2, <2>3
      <3>2. CASE i \in 1 .. k - 1
        BY <3>2, <2>3 DEF KeptSoFar
      <3> QED
        BY <3>1, <3>2, <1>2
    <2> QED
      BY <1>7, <2>1, <2>3 DEF KeptSoFar
  <1>8. CASE t # s
    <2>1. t = Append(s, w) /\ n < R /\ Prune!Cardinality(Prune!Occluders(v, s, w)) < T
      BY <1>8 DEF Prune!KeptOrNot
    <2> HIDE DEF t, w
    <2>2. Len(t) = n + 1 /\ t[n + 1] = w /\ \A x \in 1 .. n : t[x] = s[x]
      BY <2>1, <1>1, <1>2, Appended
    <2>3. ASSUME NEW x \in 1 .. Len(t) PROVE (x \in 1 .. n /\ t[x] = s[x]) \/ (x = n + 1 /\ t[x] = w)
      BY <2>2, <1>1
    <2> HIDE DEF n
    <2>4. FromPool(t, pool, k)
      <3>1. k \in 1 .. k
        BY <1>2
      <3> QED
        BY <2>3, <1>5, <3>1 DEF FromPool, w
    <2>5. ASSUME T = 1
          PROVE  /\ Ascending(v, t) /\ Uncovered(v, t)
                 /\ \A i \in 1 .. k : Has(t, pool[i]) \/ LeftOut(v, t, pool[i])
      <3>1. \A x \in 1 .. n : ~(Prune!Dist(s[x], w) <= Prune!Dist(v, w))
        BY <2>1, <2>5, <1>1, NoOccluders DEF n
      <3>2. ASSUME NEW x \in 1 .. n PROVE Prune!Nearer(v, s[x], w) /\ ~Covers(v, s[x], w)
        <4>1. s[x] # w
          <5>1. Prune!Dist(w, w) = 0 /\ Prune!Dist(v, w) \in Nat
            BY <1>4, DistType
          <5>2. Prune!Dist(w, w) <= Prune!Dist(v, w)
            BY <5>1
          <5> QED
            BY <5>2, <3>1
        <4> QED
          BY <4>1, <3>1, <1>6 DEF Covers
      <3>3. Ascending(v, s) /\ Uncovered(v, s)
            /\ \A i \in 1 .. k - 1 : Has(s, pool[i]) \/ LeftOut(v, s, pool[i])
        BY <2>5 DEF KeptSoFar
      <3>4. ASSUME NEW x \in 1 .. Len(t), NEW y \in 1 .. Len(t), x < y
            PROVE  Prune!Nearer(v, t[x], t[y])
        <4>1. x \in 1 .. n /\ t[x] = s[x]
          BY <3>4, <2>2, <2>3, <1>1
        <4>2. CASE y = n + 1 /\ t[y] = w
          BY <4>1, <4>2, <3>2
        <4>3. CASE y \in 1 .. n /\ t[y] = s[y]
          BY <4>1, <4>3, <3>3, <3>4 DEF Ascending, n
        <4> QED
          BY <4>2, <4>3, <2>3
      <3>5. ASSUME NEW x \in 1 .. Len(t), NEW y \in 1 .. Len(t) PROVE ~Covers(v, t[x], t[y])
        <4>1. CASE x \in 1 .. n /\ t[x] = s[x] /\ y \in 1 .. n /\ t[y] = s[y]
          BY <4>1, <3>3 DEF Uncovered, n
        <4>2. CASE x \in 1 .. n /\ t[x] = s[x] /\ t[y] = w
          BY <4>2, <3>2
        <4>3. CASE t[x] = w /\ y \in 1 .. n /\ t[y] = s[y]
          <5>1. Prune!Nearer(v, s[y], w) /\ s[y] \in DOMAIN code
            BY <4>3, <3>2, <1>3
          <5> QED
            BY <5>1, <4>3, <1>4, NearerOrder DEF Covers
        <4>4. CASE t[x] = w /\ t[y] = w
          BY <4>4, <1>4, NearerOrder DEF Covers
        <4> QED
          BY <4>1, <4>2, <4>3, <4>4, <2>3
      <3>6. ASSUME NEW i \in 1 .. k PROVE Has(t, pool[i]) \/ LeftOut(v, t, pool[i])
        <4>0. 1 .. n \subseteq 1 .. Len(t) /\ n + 1 \in 1 .. Len(t) /\ n # R
          BY <2>1, <2>2, <1>1
        <4>1. CASE i = k
          BY <4>1, <4>0, <2>2 DEF Has, w
        <4>2. CASE i \in 1 .. k - 1
          <5>1. CASE Has(s, pool[i])
            BY <5>1, <4>0, <2>2 DEF Has, n
          <5>2. CASE LeftOut(v, s, pool[i])
            <6>1. PICK x \in 1 .. n : Covers(v, s[x], pool[i])
              BY <5>2, <4>0 DEF LeftOut, n
            <6> QED
              BY <6>1, <4>0, <2>2 DEF LeftOut
          <5> QED
            BY <5>1, <5>2, <4>2, <3>3
        <4> QED
          BY <4>1, <4>2, <1>2
      <3> QED
        BY <3>4, <3>5, <3>6 DEF Ascending, Uncovered
    <2> QED
      BY <2>4, <2>5 DEF KeptSoFar, t, w
  <1> QED
    BY <1>7, <1>8

LEMMA KeptIs ==
    ASSUME CodesOK, NEW v \in DOMAIN code, NEW pool \in Pools(v)
    PROVE  /\ Prune!KeepUnoccluded(v, pool) \in Short(v)
           /\ KeptSoFar(v, Prune!KeepUnoccluded(v, pool), pool, Len(pool))
  <1> DEFINE n == Len(pool)
  <1>1. n \in Nat /\ pool \in Seq(Others(v)) /\ n \in 0 .. n /\ 0 \in 0 .. n
    BY DEF Pools
  <1>2. <<>> \in Short(v)
    BY DEF Short, CodesOK
  <1>3. \A x \in Short(v), y \in Others(v) : Prune!KeptOrNot(v, x, y) \in Short(v)
    BY KeepType
  <1>4. PICK d \in [0 .. n -> Short(v)] :
            KeepSteps(d, v, pool) /\ Prune!KeepUnoccluded(v, pool) = d[n]
    BY <1>1, <1>2, <1>3, KeepRuns
  <1> DEFINE Good == {k \in 0 .. n : KeptSoFar(v, d[k], pool, k)}
  <1>5. 0 \in Good
    <2>1. d[0] = <<>>
      BY <1>4 DEF KeepSteps
    <2>2. KeptSoFar(v, <<>>, pool, 0)
      BY DEF KeptSoFar, FromPool, Ascending, Uncovered
    <2> QED
      BY <1>1, <2>1, <2>2
  <1>6. ASSUME NEW k \in 1 .. n, k - 1 \in Good PROVE k \in Good
    <2>1. k - 1 \in 0 .. n /\ k \in 0 .. n
      BY <1>1
    <2>2. d[k - 1] \in Short(v) /\ d[k] = Prune!KeptOrNot(v, d[k - 1], pool[k])
      BY <1>4, <2>1 DEF KeepSteps
    <2>3. KeptSoFar(v, d[k], pool, k)
      BY <2>2, <1>6, KeepStep
    <2> QED
      BY <2>1, <2>3
  <1> HIDE DEF Good
  <1>7. n \in Good
    <2>1. \A k \in 0 .. n : k \in Good
      BY <1>1, <1>5, <1>6, Rounds
    <2> QED
      BY <2>1, <1>1
  <1> QED
    BY <1>1, <1>4, <1>7 DEF Good

-----------------------------------------------------------------------------
(* The places left *)

\* What the first k candidates of the pool have added to the n that were kept.
Added(s, n) == {x \in 1 .. Len(s) : x > n}
FilledSoFar(v, s, kept, pool, k) ==
    /\ Len(kept) <= Len(s) /\ \A x \in 1 .. Len(kept) : s[x] = kept[x]
    /\ \A x \in Added(s, Len(kept)) : ~Has(kept, s[x]) /\ \E i \in 1 .. k : s[x] = pool[i]
    /\ \A x, y \in Added(s, Len(kept)) : x < y => Prune!Nearer(v, s[x], s[y])
    /\ \A i \in 1 .. k : \/ Has(s, pool[i])
                         \/ /\ Len(s) = R
                            /\ \A x \in Added(s, Len(kept)) : Prune!Nearer(v, s[x], pool[i])

LEMMA FillType ==
    ASSUME CodesOK, NEW v, NEW s \in Short(v), NEW w \in Others(v)
    PROVE  Prune!FilledOrNot(s, w) \in Short(v)
  <1>1. s \in Seq(Others(v)) /\ Len(s) <= R /\ Len(s) \in Nat /\ R \in Nat
    BY DEF Short, CodesOK
  <1>2. CASE Prune!FilledOrNot(s, w) = s
    BY <1>2
  <1>3. CASE Prune!FilledOrNot(s, w) = Append(s, w) /\ Len(s) < R
    BY <1>1, <1>3, Appended DEF Short
  <1> QED
    BY <1>2, <1>3 DEF Prune!FilledOrNot

LEMMA FillStep ==
    ASSUME CodesOK, NEW v \in DOMAIN code, NEW pool \in Pools(v), NEW k \in 1 .. Len(pool),
           NEW kept \in Short(v), NEW s \in Short(v), FilledSoFar(v, s, kept, pool, k - 1)
    PROVE  FilledSoFar(v, Prune!FilledOrNot(s, pool[k]), kept, pool, k)
  <1> DEFINE w == pool[k]
             t == Prune!FilledOrNot(s, w)
             n == Len(s)
             m == Len(kept)
             A == Added(s, m)
  <1>0. pool \in Seq(Others(v)) /\ Len(pool) \in Nat
    BY DEF Pools
  <1>1. /\ s \in Seq(Others(v)) /\ n <= R /\ n \in Nat /\ R \in Nat /\ DOMAIN s = 1 .. n
        /\ m \in Nat
    BY DEF Short, CodesOK
  <1>2. w \in Others(v) /\ k \in Nat /\ k >= 1 /\ 1 .. k = (1 .. k - 1) \cup {k}
    BY <1>0
  <1>3. /\ m <= n /\ \A x \in 1 .. m : s[x] = kept[x]
        /\ \A x \in A : ~Has(kept, s[x]) /\ \E i \in 1 .. k : s[x] = pool[i]
        /\ \A x, y \in A : x < y => Prune!Nearer(v, s[x], s[y])
    BY <1>2 DEF FilledSoFar
  <1>4. \A i \in 1 .. k - 1 : \/ Has(s, pool[i])
                              \/ n = R /\ \A x \in A : Prune!Nearer(v, s[x], pool[i])
    BY DEF FilledSoFar
  <1>5. ASSUME NEW x \in A PROVE s[x] = w \/ Prune!Nearer(v, s[x], w)
    BY <1>3, Behind
  <1>6. w \in ToSet(s) <=> Has(s, w)
    BY <1>1 DEF ToSet, Has
  <1>7. CASE ~(n < R /\ ~Has(s, w))
    <2>1. t = s
      BY <1>6, <1>7, SameToSet DEF Prune!FilledOrNot
    <2>2. ASSUME NEW i \in 1 .. k
          PROVE  Has(s, pool[i]) \/ (n = R /\ \A x \in A : Prune!Nearer(v, s[x], pool[i]))
      <3>1. CASE i \in 1 .. k - 1
        BY <3>1, <1>4
      <3>2. CASE i = k /\ ~Has(s, w)
        <4>1. n = R
          <5>1. ~(n < R) /\ n \in Nat /\ R \in Nat /\ n <= R
            BY <1>7, <3>2, <1>1
          <5> HIDE DEF n
          <5> QED
            BY <5>1
        <4>2. ASSUME NEW x \in A PROVE s[x] # w
          BY <3>2 DEF Has, Added
        <4> QED
          BY <4>1, <4>2, <1>5, <3>2
      <3> QED
        BY <3>1, <3>2, <1>2
    <2> QED
      BY <2>1, <2>2, <1>3 DEF FilledSoFar
  <1>8. CASE n < R /\ ~Has(s, w)
    <2>1. t = Append(s, w)
      BY <1>6, <1>8, SameToSet DEF Prune!FilledOrNot
    <2> HIDE DEF t, w
    <2>2. Len(t) = n + 1 /\ t[n + 1] = w /\ \A x \in 1 .. n : t[x] = s[x]
      BY <2>1, <1>1, <1>2, Appended
    <2>3. ASSUME NEW x \in Added(t, m) PROVE (x \in A /\ x \in 1 .. n /\ t[x] = s[x]) \/ (x = n + 1 /\ t[x] = w)
      <3>1. x \in 1 .. n + 1 /\ x > m
        BY <2>2 DEF Added
      <3>2. CASE x = n + 1
        BY <3>2, <2>2
      <3>3. CASE x # n + 1
        <4>1. x \in 1 .. n
          BY <3>1, <3>3, <1>1
        <4> QED
          BY <4>1, <3>1, <2>2 DEF Added
      <3> QED
        BY <3>2, <3>3
    <2>4. ASSUME NEW x \in A PROVE s[x] # w /\ Prune!Nearer(v, s[x], w)
      BY <1>5, <1>8 DEF Has, Added
    <2>5. m <= Len(t) /\ \A x \in 1 .. m : t[x] = kept[x]
      <3>1. m <= n + 1 /\ 1 .. m \subseteq 1 .. n
        BY <1>1, <1>3
      <3> QED
        BY <3>1, <2>2, <1>3
    <2>6. ~Has(kept, w)
      <3>1. 1 .. m \subseteq 1 .. n
        BY <1>1, <1>3
      <3> QED
        BY <3>1, <1>3, <1>8 DEF Has
    <2>7. ASSUME NEW x \in Added(t, m) PROVE ~Has(kept, t[x]) /\ \E i \in 1 .. k : t[x] = pool[i]
      <3>1. k \in 1 .. k
        BY <1>2
      <3> QED
        BY <3>1, <2>3, <2>6, <1>3 DEF w
    <2>8. ASSUME NEW x \in Added(t, m), NEW y \in Added(t, m), x < y
          PROVE  Prune!Nearer(v, t[x], t[y])
      <3>1. x \in 1 .. n + 1 /\ y \in 1 .. n + 1
        BY <2>2 DEF Added
      <3>2. x # n + 1
        BY <3>1, <2>8, <1>1
      <3>3. x \in A /\ t[x] = s[x]
        BY <3>2, <2>3
      <3> QED
        BY <3>3, <2>3, <2>4, <2>8, <1>3
    <2>9. ASSUME NEW i \in 1 .. k PROVE Has(t, pool[i])
      <3>1. 1 .. n \subseteq 1 .. Len(t) /\ n + 1 \in 1 .. Len(t) /\ n # R
        <4>1. n \in Nat /\ R \in Nat /\ n < R /\ Len(t) = n + 1
          BY <1>1, <1>8, <2>2
        <4> HIDE DEF n
        <4> QED
          BY <4>1
      <3>2. CASE i \in 1 .. k - 1
        <4>1. Has(s, pool[i])
          BY <3>1, <3>2, <1>4
        <4> QED
          BY <4>1, <3>1, <2>2 DEF Has
      <3>3. CASE i = k
        BY <3>3, <3>1, <2>2 DEF Has, w
      <3> QED
        BY <3>2, <3>3, <1>2
    <2> HIDE DEF m
    <2>10. FilledSoFar(v, t, kept, pool, k)
      BY <2>5, <2>7, <2>8, <2>9 DEF FilledSoFar, m
    <2> QED
      BY <2>10 DEF t, w
  <1> QED
    BY <1>7, <1>8

LEMMA FilledIs ==
    ASSUME CodesOK, NEW v \in DOMAIN code, NEW pool \in Pools(v), NEW kept \in Short(v)
    PROVE  /\ Prune!FillUp(kept, pool) \in Short(v)
           /\ FilledSoFar(v, Prune!FillUp(kept, pool), kept, pool, Len(pool))
  <1> DEFINE n == Len(pool)
  <1>1. n \in Nat /\ pool \in Seq(Others(v)) /\ n \in 0 .. n /\ 0 \in 0 .. n
    BY DEF Pools
  <1>2. Len(kept) \in Nat
    BY DEF Short
  <1>3. \A x \in Short(v), y \in Others(v) : Prune!FilledOrNot(x, y) \in Short(v)
    BY FillType
  <1>4. PICK d \in [0 .. n -> Short(v)] :
            FillSteps(d, kept, pool) /\ Prune!FillUp(kept, pool) = d[n]
    BY <1>1, <1>3, FillRuns
  <1> DEFINE Good == {k \in 0 .. n : FilledSoFar(v, d[k], kept, pool, k)}
  <1>5. 0 \in Good
    <2>1. d[0] = kept
      BY <1>4 DEF FillSteps
    <2>2. Added(kept, Len(kept)) = {} /\ Len(kept) <= Len(kept) /\ 1 .. 0 = {}
      BY <1>2 DEF Added
    <2>3. FilledSoFar(v, kept, kept, pool, 0)
      BY <2>2 DEF FilledSoFar
    <2> QED
      BY <1>1, <2>1, <2>3
  <1>6. ASSUME NEW k \in 1 .. n, k - 1 \in Good PROVE k \in Good
    <2>1. k - 1 \in 0 .. n /\ k \in 0 .. n
      BY <1>1
    <2>2. d[k - 1] \in Short(v) /\ d[k] = Prune!FilledOrNot(d[k - 1], pool[k])
      BY <1>4, <2>1 DEF FillSteps
    <2>3. FilledSoFar(v, d[k], kept, pool, k)
      BY <2>2, <1>6, FillStep
    <2> QED
      BY <2>1, <2>3
  <1> HIDE DEF Good
  <1>7. n \in Good
    <2>1. \A k \in 0 .. n : k \in Good
      BY <1>1, <1>5, <1>6, Rounds
    <2> QED
      BY <2>1, <1>1
  <1> QED
    BY <1>1, <1>4, <1>7 DEF Good

-----------------------------------------------------------------------------
(* The pruned list of a node *)

ListOK(v, C, l) ==
    /\ l \in Short(v) /\ ToSet(l) \subseteq C
    /\ T = 1 => /\ Prune!WellPruned(v, C, l)
                /\ Len(l) = Prune!Smaller(R, Cardinality(C))
                /\ Len(l) = Cardinality(ToSet(l))

\* A list without repetition has as many values as positions.
LEMMA Distinct ==
    ASSUME NEW D, NEW l \in Seq(D), \A x, y \in 1 .. Len(l) : x < y => l[x] # l[y]
    PROVE  IsFiniteSet(ToSet(l)) /\ Cardinality(ToSet(l)) = Len(l)
  <1> DEFINE n == Len(l)
  <1>1. n \in Nat /\ DOMAIN l = 1 .. n /\ l = [x \in 1 .. n |-> l[x]]
    OBVIOUS
  <1>2. IsFiniteSet(1 .. n) /\ Cardinality(1 .. n) = n
    <2>1. 1 \in Int /\ n \in Int /\ (1 > n => n = 0) /\ n - 1 + 1 = n
      BY <1>1
    <2> QED
      BY <2>1, FS_Interval
  <1>3. l \in [1 .. n -> ToSet(l)] /\ \A z \in ToSet(l) : \E x \in 1 .. n : l[x] = z
    BY <1>1 DEF ToSet
  <1>4. ASSUME NEW x \in 1 .. n, NEW y \in 1 .. n, l[x] = l[y] PROVE x = y
    <2>1. ~(x < y) /\ ~(y < x)
      BY <1>4
    <2> QED
      BY <2>1, <1>1
  <1> HIDE DEF n
  <1>5. IsFiniteSet(ToSet(l)) /\ Cardinality(ToSet(l)) = Cardinality(1 .. n)
    BY <1>2, <1>3, <1>4, SameSize
  <1> QED
    BY <1>5, <1>2 DEF n

LEMMA SmallerIs ==
    ASSUME NEW a \in Nat, NEW b \in Nat, NEW c \in Nat, c <= a, c <= b, c < a => c = b
    PROVE  c = Prune!Smaller(a, b)
  BY DEF Prune!Smaller

LEMMA PrunedIs ==
    ASSUME CodesOK, NEW v \in DOMAIN code, NEW cand \in Seq(Nat)
    PROVE  ListOK(v, ToSet(cand) \cap Others(v), Prune!Pruned(v, cand))
  <1> DEFINE pool == Prune!Pool(v, cand)
             kept == Prune!KeepUnoccluded(v, pool)
             l == Prune!FillUp(kept, pool)
             C == ToSet(cand) \cap Others(v)
             n == Len(kept)
  <1>1. Prune!Pruned(v, cand) = l
    BY DEF Prune!Pruned
  <1>2. pool \in Pools(v) /\ ToSet(pool) = C
    BY PoolIs
  <1> HIDE DEF pool
  <1>3. kept \in Short(v) /\ KeptSoFar(v, kept, pool, Len(pool))
    BY <1>2, KeptIs
  <1> HIDE DEF kept
  <1>4. l \in Short(v) /\ FilledSoFar(v, l, kept, pool, Len(pool))
    BY <1>2, <1>3, FilledIs
  <1> HIDE DEF l
  <1>5. /\ pool \in Seq(Others(v)) /\ Len(pool) \in Nat /\ DOMAIN pool = 1 .. Len(pool)
        /\ kept \in Seq(Others(v)) /\ n \in Nat /\ DOMAIN kept = 1 .. n
        /\ l \in Seq(Others(v)) /\ Len(l) \in Nat /\ Len(l) <= R /\ DOMAIN l = 1 .. Len(l)
        /\ n <= Len(l) /\ R \in Nat /\ R > 0
    BY <1>2, <1>3, <1>4 DEF Pools, Short, FilledSoFar, CodesOK
  <1>6. \A w \in C : \E i \in 1 .. Len(pool) : w = pool[i]
    BY <1>2, <1>5 DEF ToSet
  <1>7. \A i \in 1 .. Len(pool) : pool[i] \in C
    BY <1>2, <1>5 DEF ToSet
  <1>8. \A x \in 1 .. n : l[x] = kept[x] /\ x \in 1 .. Len(l) /\ \E i \in 1 .. Len(pool) : kept[x] = pool[i]
    <2>1. 1 .. n \subseteq 1 .. Len(l)
      BY <1>5
    <2> QED
      BY <2>1, <1>3, <1>4 DEF FilledSoFar, KeptSoFar, FromPool
  <1> HIDE DEF n
  <1>9. \A x \in n + 1 .. Len(l) : x \in 1 .. Len(l) /\ x > n
    BY <1>5
  <1>10. \A x \in n + 1 .. Len(l) : ~Has(kept, l[x]) /\ \E i \in 1 .. Len(pool) : l[x] = pool[i]
    BY <1>9, <1>4 DEF FilledSoFar, Added, n
  <1>11. \A x, y \in n + 1 .. Len(l) : x < y => Prune!Nearer(v, l[x], l[y])
    BY <1>9, <1>4 DEF FilledSoFar, Added, n
  <1>12. \A w \in C : Has(l, w) \/ (Len(l) = R /\ \A x \in n + 1 .. Len(l) : Prune!Nearer(v, l[x], w))
    BY <1>6, <1>9, <1>4 DEF FilledSoFar, Added, n
  <1>13. \A x \in 1 .. Len(l) : x \in 1 .. n \/ x \in n + 1 .. Len(l)
    BY <1>5
  <1>14. \A x \in 1 .. Len(l) : l[x] \in C
    BY <1>7, <1>8, <1>10, <1>13
  <1>15. ToSet(l) \subseteq C
    BY <1>14, <1>5 DEF ToSet
  <1>16. ASSUME T = 1
         PROVE  /\ Prune!WellPruned(v, C, l)
                /\ Len(l) = Prune!Smaller(R, Cardinality(C)) /\ Len(l) = Cardinality(ToSet(l))
    <2>1. /\ Ascending(v, kept) /\ Uncovered(v, kept)
          /\ \A i \in 1 .. Len(pool) : Has(kept, pool[i]) \/ LeftOut(v, kept, pool[i])
      BY <1>16, <1>3 DEF KeptSoFar
    <2>2. \A w \in C : Has(kept, w) \/ LeftOut(v, kept, w)
      BY <2>1, <1>6
    <2>3. \A x, y \in 1 .. n : x < y => Prune!Nearer(v, l[x], l[y])
      BY <2>1, <1>8 DEF Ascending, n
    <2>4. \A x, y \in 1 .. n : ~Covers(v, l[x], l[y])
      BY <2>1, <1>8 DEF Uncovered, n
    <2>5. ASSUME NEW w \in C, \A x \in 1 .. n : l[x] # w
          PROVE  \/ \E x \in 1 .. n : Covers(v, l[x], w)
                 \/ n = R /\ \A x \in 1 .. n : Prune!Nearer(v, l[x], w)
      <3>1. ~Has(kept, w)
        BY <2>5, <1>8 DEF Has, n
      <3>2. LeftOut(v, kept, w)
        BY <3>1, <2>2
      <3> QED
        BY <3>2, <1>8 DEF LeftOut, n
    <2>6. \A x \in 1 .. n, y \in n + 1 .. Len(l) : l[x] # l[y]
      BY <1>8, <1>10 DEF Has, n
    <2>7. Prune!WellPruned(v, C, l)
      <3> DEFINE K == {l[x] : x \in 1 .. n}
                 rest == {l[x] : x \in n + 1 .. Len(l)}
      <3>1. n \in 0 .. Len(l)
        BY <1>5
      <3>2. ASSUME NEW x \in 1 .. Len(l), NEW y \in 1 .. Len(l), x < y, y <= n \/ x > n
            PROVE  Prune!Nearer(v, l[x], l[y])
        <4>1. CASE y <= n
          <5>1. x \in 1 .. n /\ y \in 1 .. n
            BY <4>1, <3>2, <1>5
          <5> QED
            BY <5>1, <3>2, <2>3
        <4>2. CASE x > n
          <5>1. x \in n + 1 .. Len(l) /\ y \in n + 1 .. Len(l)
            BY <4>2, <3>2, <1>5
          <5> QED
            BY <5>1, <3>2, <1>11
        <4> QED
          BY <3>2, <4>1, <4>2
      <3>3. \A w \in K : ~(\E s \in K : Prune!Nearer(v, s, w) /\ Prune!Dist(s, w) <= Prune!Dist(v, w))
        BY <2>4 DEF Covers
      <3>4. \A w \in C \ K : \/ \E s \in K : Prune!Nearer(v, s, w) /\ Prune!Dist(s, w) <= Prune!Dist(v, w)
                             \/ n = R /\ \A s \in K : Prune!Nearer(v, s, w)
        BY <2>5 DEF Covers
      <3>5. \A w \in rest, x \in (C \ K) \ rest : Prune!Nearer(v, w, x)
        <4>1. ASSUME NEW x \in (C \ K) \ rest PROVE ~Has(l, x)
          BY <1>13 DEF Has
        <4> QED
          BY <4>1, <1>12
      <3>6. K \cap rest = {}
        BY <2>6
      <3> QED
        BY <3>1, <3>2, <3>3, <3>4, <3>5, <3>6 DEF Prune!WellPruned
    <2>8. \A x, y \in 1 .. Len(l) : x < y => l[x] # l[y]
      <3>1. ASSUME NEW x \in 1 .. Len(l), NEW y \in 1 .. Len(l), x < y PROVE l[x] # l[y]
        <4>1. l[x] \in DOMAIN code
          BY <1>14 DEF Others
        <4>2. CASE x \in 1 .. n /\ y \in n + 1 .. Len(l)
          BY <4>2, <2>6
        <4>3. CASE (x \in 1 .. n /\ y \in 1 .. n) \/ (x \in n + 1 .. Len(l) /\ y \in n + 1 .. Len(l))
          BY <3>1, <4>1, <4>3, <2>3, <1>11, NearerOrder
        <4>4. ~(x \in n + 1 .. Len(l) /\ y \in 1 .. n)
          BY <3>1, <1>5
        <4> QED
          BY <4>2, <4>3, <4>4, <1>13
      <3> QED
        BY <3>1
    <2>9. IsFiniteSet(ToSet(l)) /\ Cardinality(ToSet(l)) = Len(l)
      BY <2>8, <1>5, Distinct
    <2>10. IsFiniteSet(C) /\ Cardinality(C) \in Nat
      <3>1. C \subseteq DOMAIN code
        BY DEF Others
      <3> HIDE DEF C
      <3> QED
        BY <3>1, FS_Subset, FS_CardinalityType DEF CodesOK
    <2> HIDE DEF C
    <2>11. Len(l) <= Cardinality(C)
      BY <2>9, <2>10, <1>15, FS_Subset
    <2>12. ASSUME Len(l) < R PROVE Len(l) = Cardinality(C)
      <3>1. Len(l) # R
        <4>1. \A a, b \in Nat : a < b => a # b
          OBVIOUS
        <4> QED
          BY <4>1, <2>12, <1>5
      <3>2. \A w \in C : Has(l, w)
        BY <3>1, <1>12
      <3>3. C = ToSet(l)
        BY <3>2, <1>15, <1>5 DEF Has, ToSet
      <3> QED
        BY <3>3, <2>9
    <2>13. Len(l) = Prune!Smaller(R, Cardinality(C))
      BY <2>10, <2>11, <2>12, <1>5, SmallerIs
    <2> QED
      BY <2>7, <2>9, <2>13
  <1> QED
    BY <1>1, <1>4, <1>15, <1>16 DEF ListOK

-----------------------------------------------------------------------------
(* Batches of the pruning *)

\* cand.idx lists the parts of cand.ids in the order of the nodes.
Off(v) == idx[v].off
End(v) == idx[v].off + idx[v].cnt
RowsOK ==
    /\ DOMAIN idx = DOMAIN code /\ cand_ids \in Seq(Nat)
    /\ \A v \in DOMAIN code : /\ idx[v] \in [off : Nat, cnt : Nat] /\ End(v) <= Len(cand_ids)
                              /\ v + 1 \in DOMAIN code => Off(v + 1) = End(v)
ListOf(v) == SubSeq(cand_ids, Off(v) + 1, End(v))

LEMMA RowType ==
    ASSUME RowsOK, NEW v \in DOMAIN code
    PROVE  /\ Off(v) \in Nat /\ idx[v].cnt \in Nat /\ End(v) \in Nat /\ Off(v) <= End(v)
           /\ End(v) <= Len(cand_ids) /\ Len(cand_ids) \in Nat /\ End(v) = Off(v) + idx[v].cnt
  BY DEF RowsOK, Off, End

LEMMA RowsAscend ==
    ASSUME CodesOK, RowsOK, NEW v \in DOMAIN code, NEW w \in DOMAIN code, v <= w
    PROVE  Off(v) <= Off(w) /\ End(v) <= End(w)
  <1>1. Nodes \in Nat /\ DOMAIN code = 0 .. Nodes - 1
    BY NodesType DEF CodesOK
  <1> DEFINE n == Nodes - 1
             f == [x \in 0 .. n |-> Off(x)]
             g == [x \in 0 .. n |-> End(x)]
  <1>2. n \in Nat /\ DOMAIN code = 0 .. n /\ v \in 0 .. n /\ w \in v .. n /\ w \in 0 .. n
    BY <1>1
  <1>3. f \in [0 .. n -> Nat] /\ g \in [0 .. n -> Nat]
    BY <1>2, RowType
  <1>4. ASSUME NEW x \in 0 .. n - 1 PROVE f[x] <= f[x + 1] /\ g[x] <= g[x + 1]
    <2>1. x \in DOMAIN code /\ x + 1 \in DOMAIN code /\ x \in 0 .. n /\ x + 1 \in 0 .. n
      BY <1>2
    <2>2. Off(x + 1) = End(x)
      BY <2>1 DEF RowsOK
    <2>3. Off(x) <= End(x) /\ Off(x + 1) <= End(x + 1)
      BY <2>1, RowType
    <2> QED
      BY <2>1, <2>2, <2>3
  <1> HIDE DEF f, g, n
  <1>5. f[v] <= f[w]
    BY <1>2, <1>3, <1>4, Monotone
  <1>6. g[v] <= g[w]
    BY <1>2, <1>3, <1>4, Monotone
  <1> QED
    BY <1>2, <1>5, <1>6 DEF f, g

LEMMA SpanIs ==
    ASSUME CodesOK, RowsOK, NEW v \in Nat, NEW k \in Nat, k >= 1, v + k <= Nodes
    PROVE  /\ v \in DOMAIN code /\ v + k - 1 \in DOMAIN code /\ v <= v + k - 1
           /\ Prune!OffMin(v, k) = Off(v) /\ Prune!OffMax(v, k) = End(v + k - 1)
  <1>1. Nodes \in Nat /\ DOMAIN code = 0 .. Nodes - 1
    BY NodesType DEF CodesOK
  <1> DEFINE V == v .. v + k - 1
             z == v + k - 1
             S == {idx[w].off : w \in V}
             E == {idx[w].off + idx[w].cnt : w \in V}
  <1>2. v \in V /\ z \in V /\ v <= z /\ \A w \in V : w \in DOMAIN code /\ v <= w /\ w <= z
    BY <1>1
  <1>3. \A w \in V : Off(w) \in Nat /\ End(w) \in Nat /\ Off(v) <= Off(w) /\ End(w) <= End(z)
    BY <1>2, RowType, RowsAscend
  <1>4. Prune!OffMin(v, k) = Min(S) /\ Prune!OffMax(v, k) = Max(E)
    BY SameMaxMin DEF Prune!OffMin, Prune!OffMax
  <1> HIDE DEF V, z
  <1>5. Min(S) = Off(v)
    <2>1. Off(v) \in S /\ \A y \in S : y \in Nat /\ Off(v) <= y
      BY <1>2, <1>3 DEF Off
    <2> HIDE DEF S
    <2>2. Min(S) \in S /\ \A y \in S : Min(S) <= y
      BY <2>1 DEF Min
    <2> QED
      BY <2>1, <2>2
  <1>6. Max(E) = End(z)
    <2>1. End(z) \in E /\ \A y \in E : y \in Nat /\ End(z) >= y
      BY <1>2, <1>3 DEF End
    <2> HIDE DEF E
    <2>2. Max(E) \in E /\ \A y \in E : Max(E) >= y
      BY <2>1 DEF Max
    <2> QED
      BY <2>1, <2>2
  <1> QED
    BY <1>2, <1>4, <1>5, <1>6 DEF z

\* Lines 552-554: the memory that k nodes from v on need.
LEMMA NeedIs ==
    ASSUME CodesOK, RowsOK, NEW v \in Nat, NEW k \in Nat, k >= 1, v + k <= Nodes
    PROVE  /\ Prune!Need(v, k) = Prune!Footprint(v, k)
           /\ Prune!Footprint(v, k) = (End(v + k - 1) - Off(v)) + 2 * k * (R + 1)
           /\ Prune!Footprint(v, k) \in Nat
  <1>1. /\ v \in DOMAIN code /\ v + k - 1 \in DOMAIN code /\ v <= v + k - 1
        /\ Prune!OffMin(v, k) = Off(v) /\ Prune!OffMax(v, k) = End(v + k - 1)
    BY SpanIs
  <1>2. Prune!Need(v, k) = (End(v + k - 1) - Off(v)) + 2 * k * (R + 1)
    BY <1>1 DEF Prune!Need, Prune!Span
  <1>3. Prune!Footprint(v, k) = (End(v + k - 1) - Off(v)) + 2 * k * (R + 1)
    <2> DEFINE z == v + k - 1
    <2>1. End(z) = idx[z].off + idx[z].cnt /\ Off(v) = idx[v].off
      BY DEF Off, End
    <2>2. Prune!Footprint(v, k) = (idx[z].off + idx[z].cnt - idx[v].off) + 2 * k * (R + 1)
      BY DEF Prune!Footprint
    <2>3. idx[v].off \in Nat /\ idx[z].off \in Nat /\ idx[z].cnt \in Nat
      BY <1>1 DEF RowsOK
    <2> HIDE DEF z
    <2>4. idx[z].off + idx[z].cnt - idx[v].off = End(z) - Off(v)
      BY <2>1, <2>3
    <2>5. Prune!Footprint(v, k) = (End(z) - Off(v)) + 2 * k * (R + 1)
      BY <2>2, <2>4
    <2> QED
      BY <2>5 DEF z
  <1>4. Off(v) \in Nat /\ End(v + k - 1) \in Nat /\ Off(v) <= End(v + k - 1)
    <2>1. Off(v) \in Nat /\ Off(v + k - 1) \in Nat /\ End(v + k - 1) \in Nat
          /\ Off(v + k - 1) <= End(v + k - 1)
      BY <1>1, RowType
    <2>2. Off(v) <= Off(v + k - 1)
      BY <1>1, RowsAscend
    <2> QED
      BY <2>1, <2>2
  <1>5. 2 * k * (R + 1) \in Nat
    BY DEF CodesOK
  <1> QED
    BY <1>2, <1>3, <1>4, <1>5

FittingRows(v, m) == {k \in 1 .. m : Prune!Footprint(v, k) <= effective_batch_budget}

LEMMA FittingRowsDownward ==
    ASSUME CodesOK, RowsOK, effective_batch_budget \in Nat,
           NEW v \in Nat, NEW m \in Nat, m >= 1, v + m <= Nodes
    PROVE  Downward(0, m, FittingRows(v, m))
  <1>1. ASSUME NEW k \in 1 .. m, NEW j \in 1 .. k, k \in FittingRows(v, m)
        PROVE  j \in FittingRows(v, m)
    <2>1. Nodes \in Nat /\ R \in Nat /\ k \in Nat /\ j \in Nat /\ j <= k /\ j >= 1 /\ k >= 1
      BY NodesType DEF CodesOK
    <2>2. v + k <= Nodes /\ v + j <= Nodes /\ j \in 1 .. m
      BY <2>1
    <2>3. /\ v + k - 1 \in DOMAIN code /\ v + j - 1 \in DOMAIN code /\ v + j - 1 <= v + k - 1
          /\ v \in DOMAIN code
      BY <2>1, <2>2, SpanIs
    <2>4. End(v + j - 1) <= End(v + k - 1)
      BY <2>3, RowsAscend
    <2>5. 2 * j * (R + 1) <= 2 * k * (R + 1)
      BY <2>1
    <2>6. /\ Prune!Footprint(v, k) = (End(v + k - 1) - Off(v)) + 2 * k * (R + 1)
          /\ Prune!Footprint(v, k) \in Nat
      BY <2>1, <2>2, NeedIs
    <2>7. /\ Prune!Footprint(v, j) = (End(v + j - 1) - Off(v)) + 2 * j * (R + 1)
          /\ Prune!Footprint(v, j) \in Nat
      BY <2>1, <2>2, NeedIs
    <2>8. End(v + j - 1) \in Nat /\ End(v + k - 1) \in Nat /\ Off(v) \in Nat
      BY <2>3, RowType
    <2>9. 2 * j * (R + 1) \in Nat /\ 2 * k * (R + 1) \in Nat
      BY <2>1
    <2>10. Prune!Footprint(v, j) <= Prune!Footprint(v, k)
      BY <2>4, <2>5, <2>6, <2>7, <2>8, <2>9
    <2>11. Prune!Footprint(v, k) <= effective_batch_budget
      BY <1>1 DEF FittingRows
    <2>12. Prune!Footprint(v, j) <= effective_batch_budget
      BY <2>6, <2>7, <2>10, <2>11
    <2> QED
      BY <2>2, <2>12 DEF FittingRows
  <1> QED
    BY <1>1 DEF Downward

\* Lines 529-564: as many rows as fit, or one.
LEMMA PickBatchKIs ==
    ASSUME CodesOK, RowsOK, effective_batch_budget \in Nat,
           NEW v \in Nat, NEW m \in Nat, m >= 1, v + m <= Nodes
    PROVE  Greatest(Prune!PickBatchK(v, m), 0, m, FittingRows(v, m))
  <1> DEFINE Half(g, r) ==
                 LET k == (r.lo + r.hi) \div 2
                 IN  IF r.lo > r.hi THEN r.best
                     ELSE IF Prune!Need(v, k) <= effective_batch_budget
                          THEN g[[r EXCEPT !.best = k, !.lo = k + 1]]
                     ELSE g[[r EXCEPT !.hi = k - 1]]
             Q == [lo : 1 .. m + 1, hi : 0 .. m, best : 1 .. m]
             Is(g) == g = [r \in Q |-> Half(g, r)]
             c == CHOOSE g : Is(g)
             Fit == FittingRows(v, m)
             D == SearchRange(0, m)
             To(r) == [L |-> r.lo, R |-> r.hi, best |-> r.best]
             Fro(r) == [lo |-> r.L, hi |-> r.R, best |-> r.best]
  <1>1. Prune!PickBatchK(v, m) = c[[lo |-> 1, hi |-> m, best |-> 1]]
    BY DEF Prune!PickBatchK
  <1>2. \A r \in Q : To(r) \in D /\ Fro(To(r)) = r
    BY DEF SearchRange
  <1>3. \A r \in D : Fro(r) \in Q /\ To(Fro(r)) = r
    BY DEF SearchRange
  <1>4. ASSUME NEW r \in Q, ~(r.lo > r.hi)
        PROVE  /\ (r.lo + r.hi) \div 2 \in Fit
                  <=> Prune!Need(v, (r.lo + r.hi) \div 2) <= effective_batch_budget
               /\ To([r EXCEPT !.best = (r.lo + r.hi) \div 2, !.lo = (r.lo + r.hi) \div 2 + 1])
                  = Higher(To(r))
               /\ To([r EXCEPT !.hi = (r.lo + r.hi) \div 2 - 1]) = Lower(To(r))
               /\ [r EXCEPT !.best = (r.lo + r.hi) \div 2, !.lo = (r.lo + r.hi) \div 2 + 1] \in Q
               /\ [r EXCEPT !.hi = (r.lo + r.hi) \div 2 - 1] \in Q
    <2> DEFINE k == (r.lo + r.hi) \div 2
    <2>1. r.lo \in 1 .. m + 1 /\ r.hi \in 0 .. m /\ r.best \in 1 .. m
      OBVIOUS
    <2>2. k \in 1 .. m
      BY <2>1, <1>4
    <2>3. k \in Fit <=> Prune!Need(v, k) <= effective_batch_budget
      <3>1. k \in Nat /\ k >= 1 /\ v + k <= Nodes
        BY <2>2, NodesType
      <3> HIDE DEF k
      <3>2. Prune!Need(v, k) = Prune!Footprint(v, k)
        BY <3>1, NeedIs
      <3> QED
        BY <3>2, <2>2 DEF FittingRows
    <2> HIDE DEF k
    <2>4. /\ [r EXCEPT !.best = k, !.lo = k + 1] = [lo |-> k + 1, hi |-> r.hi, best |-> k]
          /\ [r EXCEPT !.hi = k - 1] = [lo |-> r.lo, hi |-> k - 1, best |-> r.best]
      <3>1. r = [lo |-> r.lo, hi |-> r.hi, best |-> r.best]
        OBVIOUS
      <3>2. [r EXCEPT !.best = k] = [lo |-> r.lo, hi |-> r.hi, best |-> k]
        BY <3>1
      <3>3. [r EXCEPT !.best = k, !.lo = k + 1] = [[r EXCEPT !.best = k] EXCEPT !.lo = k + 1]
        OBVIOUS
      <3>4. [[r EXCEPT !.best = k] EXCEPT !.lo = k + 1]
            = [lo |-> k + 1, hi |-> r.hi, best |-> k]
        <4> DEFINE s == [r EXCEPT !.best = k]
        <4> HIDE DEF s
        <4>1. s = [lo |-> r.lo, hi |-> r.hi, best |-> k]
          BY <3>2 DEF s
        <4>2. [s EXCEPT !.lo = k + 1] = [lo |-> k + 1, hi |-> r.hi, best |-> k]
          BY <4>1
        <4> QED
          BY <4>2 DEF s
      <3>5. [r EXCEPT !.hi = k - 1] = [lo |-> r.lo, hi |-> k - 1, best |-> r.best]
        BY <3>1
      <3> QED
        BY <3>3, <3>4, <3>5
    <2>5. k + 1 \in 1 .. m + 1 /\ k - 1 \in 0 .. m
      BY <2>2
    <2>6. /\ [r EXCEPT !.best = k, !.lo = k + 1] \in Q /\ [r EXCEPT !.hi = k - 1] \in Q
      BY <2>1, <2>2, <2>4, <2>5
    <2>7. /\ Higher(To(r)) = [L |-> k + 1, R |-> r.hi, best |-> k]
          /\ Lower(To(r)) = [L |-> r.lo, R |-> k - 1, best |-> r.best]
      <3> DEFINE t == [L |-> r.lo, R |-> r.hi, best |-> r.best]
      <3>1. t.L = r.lo /\ t.R = r.hi /\ t.best = r.best /\ To(r) = t
        OBVIOUS
      <3>2. (t.L + t.R) \div 2 = k
        BY <3>1 DEF k
      <3>3. [t EXCEPT !.best = k] = [L |-> r.lo, R |-> r.hi, best |-> k]
        OBVIOUS
      <3>4. [[t EXCEPT !.best = k] EXCEPT !.L = k + 1] = [L |-> k + 1, R |-> r.hi, best |-> k]
        <4> DEFINE s == [t EXCEPT !.best = k]
        <4> HIDE DEF s, t
        <4>1. s = [L |-> r.lo, R |-> r.hi, best |-> k]
          BY <3>3 DEF s
        <4>2. [s EXCEPT !.L = k + 1] = [L |-> k + 1, R |-> r.hi, best |-> k]
          BY <4>1
        <4> QED
          BY <4>2 DEF s
      <3>5. [t EXCEPT !.R = k - 1] = [L |-> r.lo, R |-> k - 1, best |-> r.best]
        OBVIOUS
      <3> HIDE DEF t, To
      <3>6. /\ Higher(t) = [[t EXCEPT !.best = k] EXCEPT !.L = k + 1]
            /\ Lower(t) = [t EXCEPT !.R = k - 1]
        BY <3>2 DEF Higher, Lower
      <3> QED
        BY <3>1, <3>4, <3>5, <3>6
    <2>8. /\ To([r EXCEPT !.best = k, !.lo = k + 1]) = [L |-> k + 1, R |-> r.hi, best |-> k]
          /\ To([r EXCEPT !.hi = k - 1]) = [L |-> r.lo, R |-> k - 1, best |-> r.best]
      BY <2>4
    <2> HIDE DEF To, Q, Fit
    <2> QED
      BY <2>3, <2>6, <2>7, <2>8 DEF k
  <1>5. ASSUME NEW g, NEW h, NEW r \in Q, \A q \in Q : h[q] = g[To(q)]
        PROVE  Half(h, r) = SearchStep(g, To(r), Fit)
    <2>1. To(r).L = r.lo /\ To(r).R = r.hi /\ To(r).best = r.best
      OBVIOUS
    <2>2. CASE r.lo > r.hi
      BY <2>1, <2>2 DEF SearchStep
    <2>3. CASE ~(r.lo > r.hi)
      <3> DEFINE k == (r.lo + r.hi) \div 2
                 up == [r EXCEPT !.best = k, !.lo = k + 1]
                 down == [r EXCEPT !.hi = k - 1]
      <3>1. /\ k \in Fit <=> Prune!Need(v, k) <= effective_batch_budget
            /\ To(up) = Higher(To(r)) /\ To(down) = Lower(To(r)) /\ up \in Q /\ down \in Q
        BY <2>3, <1>4
      <3>2. Half(h, r) = IF Prune!Need(v, k) <= effective_batch_budget THEN h[up] ELSE h[down]
        BY <2>3
      <3>3. SearchStep(g, To(r), Fit)
            = IF To(r).L > To(r).R THEN To(r).best
              ELSE IF (To(r).L + To(r).R) \div 2 \in Fit THEN g[Higher(To(r))]
              ELSE g[Lower(To(r))]
        BY StepOf
      <3>4. (To(r).L + To(r).R) \div 2 = k
        BY <2>1
      <3> HIDE DEF k, up, down, Q, To, Fit, Half
      <3>5. h[up] = g[Higher(To(r))] /\ h[down] = g[Lower(To(r))]
        BY <3>1, <1>5
      <3> QED
        BY <2>1, <2>3, <3>1, <3>2, <3>3, <3>4, <3>5
    <2> QED
      BY <2>2, <2>3
  <1> HIDE DEF Half
  <1>6. \E g : Is(g)
    <2>1. PICK g : IsSearch(g, 0, m, Fit)
      BY SearchExists
    <2> DEFINE h == [q \in Q |-> g[To(q)]]
    <2>2. \A q \in Q : h[q] = g[To(q)]
      OBVIOUS
    <2>3. ASSUME NEW r \in Q PROVE h[r] = Half(h, r)
      <3>1. g[To(r)] = SearchStep(g, To(r), Fit)
        BY <2>1, <1>2 DEF IsSearch
      <3> HIDE DEF h, Q, To, Fit
      <3> QED
        BY <3>1, <2>2, <1>5
    <2>4. h = [r \in Q |-> h[r]]
      OBVIOUS
    <2> HIDE DEF h, Q
    <2>5. Is(h)
      BY <2>3, <2>4
    <2> QED
      BY <2>5
  <1>7. Is(c)
    BY <1>6
  <1> HIDE DEF c
  <1> DEFINE g == [r \in D |-> c[Fro(r)]]
  <1>8. \A q \in Q : c[q] = g[To(q)]
    <2>1. ASSUME NEW q \in Q PROVE c[q] = g[To(q)]
      <3>1. To(q) \in D /\ Fro(To(q)) = q
        BY <1>2
      <3> HIDE DEF To, Fro, Q, D
      <3> QED
        BY <3>1
    <2> QED
      BY <2>1
  <1>9. IsSearch(g, 0, m, Fit)
    <2>1. ASSUME NEW r \in D PROVE g[r] = SearchStep(g, r, Fit)
      <3>1. Fro(r) \in Q /\ To(Fro(r)) = r
        BY <1>3
      <3>2. c[Fro(r)] = Half(c, Fro(r))
        BY <3>1, <1>7
      <3>3. g[r] = c[Fro(r)]
        OBVIOUS
      <3> HIDE DEF g, To, Fro, Q, Fit
      <3>4. Half(c, Fro(r)) = SearchStep(g, To(Fro(r)), Fit)
        BY <3>1, <1>8, <1>5
      <3> QED
        BY <3>1, <3>2, <3>3, <3>4
    <2>2. g = [r \in D |-> g[r]]
      OBVIOUS
    <2> HIDE DEF g
    <2> QED
      BY <2>1, <2>2 DEF IsSearch
  <1> HIDE DEF g
  <1>10. Greatest(g[[L |-> 1, R |-> m, best |-> 1]], 0, m, Fit)
    <2>1. 0 \in Nat /\ 0 < m /\ 0 + 1 = 1
      OBVIOUS
    <2>2. Downward(0, m, Fit)
      BY FittingRowsDownward
    <2> HIDE DEF Fit
    <2>3. Greatest(g[[L |-> 0 + 1, R |-> m, best |-> 0 + 1]], 0, m, Fit)
      BY <2>1, <2>2, <1>9, SearchFinds
    <2> QED
      BY <2>1, <2>3
  <1>11. c[[lo |-> 1, hi |-> m, best |-> 1]] = g[[L |-> 1, R |-> m, best |-> 1]]
    <2>1. [lo |-> 1, hi |-> m, best |-> 1] \in Q
      OBVIOUS
    <2> QED
      BY <2>1, <1>8
  <1> QED
    BY <1>1, <1>10, <1>11

\* Lines 647-652: what a node finds in the chunk of its batch is its own list.
LEMMA OwnList ==
    ASSUME CodesOK, RowsOK, NEW first \in Nat, NEW k \in Nat, k >= 1, first + k <= Nodes,
           NEW v \in first .. first + k - 1
    PROVE  v \in DOMAIN code /\ Prune!CandOf(v, first, k) = ListOf(v) /\ ListOf(v) \in Seq(Nat)
  <1>1. /\ first \in DOMAIN code /\ first + k - 1 \in DOMAIN code /\ Nodes \in Nat
        /\ Prune!OffMin(first, k) = Off(first) /\ Prune!OffMax(first, k) = End(first + k - 1)
    BY SpanIs, NodesType
  <1>2. v \in DOMAIN code /\ first <= v /\ v <= first + k - 1
    BY <1>1 DEF CodesOK
  <1> DEFINE z == first + k - 1
             a == Off(first)
             b == End(z)
             p == Off(v) - a
             q == p + idx[v].cnt
  <1>3. /\ a \in Nat /\ Off(v) \in Nat /\ End(v) \in Nat /\ b \in Nat /\ idx[v].cnt \in Nat
        /\ a <= Off(v) /\ End(v) <= b /\ b <= Len(cand_ids) /\ Off(v) <= End(v)
        /\ End(v) = Off(v) + idx[v].cnt /\ Len(cand_ids) \in Nat
    <2>1. z \in DOMAIN code /\ v <= z
      BY <1>1, <1>2
    <2>2. /\ Off(first) \in Nat /\ Off(v) \in Nat /\ End(v) \in Nat /\ End(z) \in Nat
          /\ idx[v].cnt \in Nat /\ End(z) <= Len(cand_ids) /\ Off(v) <= End(v)
          /\ End(v) = Off(v) + idx[v].cnt /\ Len(cand_ids) \in Nat
      BY <1>1, <1>2, <2>1, RowType
    <2>3. Off(first) <= Off(v) /\ End(v) <= End(z)
      BY <1>1, <1>2, <2>1, RowsAscend
    <2> QED
      BY <2>2, <2>3
  <1>4. cand_ids \in Seq(Nat)
    BY DEF RowsOK
  <1>5. Prune!CandOf(v, first, k) = SubSeq(SubSeq(cand_ids, a + 1, b), p + 1, q)
    BY <1>1 DEF Prune!CandOf, Prune!ChunkIds, Off
  <1> HIDE DEF a, b, z
  <1>6. p \in Nat /\ q \in Nat /\ a <= b /\ p <= q /\ q <= b - a /\ a + p + 1 = Off(v) + 1
        /\ a + q = End(v)
    <2>1. \A i, j, e, c, n \in Nat : i <= j /\ j + c <= e =>
              /\ j - i \in Nat /\ (j - i) + c \in Nat /\ i <= e /\ j - i <= (j - i) + c
              /\ (j - i) + c <= e - i /\ i + (j - i) + 1 = j + 1 /\ i + ((j - i) + c) = j + c
      OBVIOUS
    <2>2. a <= Off(v) /\ Off(v) + idx[v].cnt <= b
      BY <1>3
    <2> DEFINE j == Off(v)
               c == idx[v].cnt
               e == End(v)
    <2>3. e = j + c /\ p = j - a /\ q = (j - a) + c
      BY <1>3
    <2>4. a \in Nat /\ j \in Nat /\ b \in Nat /\ c \in Nat /\ a <= j /\ j + c <= b
      BY <1>3, <2>2
    <2> HIDE DEF j, c, e, p, q
    <2>5. p \in Nat /\ q \in Nat /\ a <= b /\ p <= q /\ q <= b - a /\ a + p + 1 = j + 1 /\ a + q = e
      BY <2>3, <2>4
    <2> QED
      BY <2>5 DEF j, e
  <1> HIDE DEF p, q
  <1>7. SubSeq(SubSeq(cand_ids, a + 1, b), p + 1, q) = SubSeq(cand_ids, a + p + 1, a + q)
    BY <1>3, <1>4, <1>6
  <1>8. ListOf(v) \in Seq(Nat)
    <2>1. \A s \in Seq(Nat) : \A i, j \in Nat : j <= Len(s) => SubSeq(s, i + 1, j) \in Seq(Nat)
      OBVIOUS
    <2> QED
      <3>1. Off(v) \in Nat /\ End(v) \in Nat /\ End(v) <= Len(cand_ids)
        BY <1>2, RowType
      <3>2. SubSeq(cand_ids, Off(v) + 1, End(v)) \in Seq(Nat)
        BY <1>4, <2>1, <3>1, Zenon
      <3> QED
        BY <3>2 DEF ListOf
  <1> QED
    BY <1>2, <1>5, <1>6, <1>7, <1>8 DEF ListOf

-----------------------------------------------------------------------------
(* Length and largest degree of the output *)

LEMMA SizeOf ==
    ASSUME NEW base \in Nat, NEW s \in Seq(Seq(Nat))
    PROVE  \E d \in [0 .. Len(s) -> Nat] : SizeSteps(d, base, s) /\ Prune!OutputSize(base, s) = d[Len(s)]
  <1>1. \A x \in Nat, y \in Seq(Nat) : x + 1 + Len(y) \in Nat
    OBVIOUS
  <1> QED
    BY <1>1, SizeRuns

LEMMA SizeType ==
    ASSUME NEW base \in Nat, NEW s \in Seq(Seq(Nat)) PROVE Prune!OutputSize(base, s) \in Nat
  <1>1. PICK d \in [0 .. Len(s) -> Nat] :
            SizeSteps(d, base, s) /\ Prune!OutputSize(base, s) = d[Len(s)]
    BY SizeOf
  <1>2. Len(s) \in 0 .. Len(s)
    OBVIOUS
  <1> QED
    BY <1>1, <1>2

\* Batch by batch or at once, the lists take the same place.
LEMMA SizeAppended ==
    ASSUME NEW base \in Nat, NEW s \in Seq(Seq(Nat)), NEW t \in Seq(Seq(Nat))
    PROVE  Prune!OutputSize(Prune!OutputSize(base, s), t) = Prune!OutputSize(base, s \o t)
  <1> DEFINE m == Len(s)
             n == Len(t)
             r == s \o t
             mid == Prune!OutputSize(base, s)
  <1>1. /\ m \in Nat /\ n \in Nat /\ r \in Seq(Seq(Nat)) /\ Len(r) = m + n
        /\ \A k \in 1 .. m : r[k] = s[k]
        /\ \A k \in 1 .. n : r[m + k] = t[k]
    OBVIOUS
  <1>2. mid \in Nat
    BY SizeType
  <1> HIDE DEF r, mid
  <1>3. PICK d \in [0 .. m -> Nat] : SizeSteps(d, base, s) /\ mid = d[m]
    BY SizeOf DEF mid
  <1>4. PICK e \in [0 .. n -> Nat] : SizeSteps(e, mid, t) /\ Prune!OutputSize(mid, t) = e[n]
    BY <1>2, SizeOf
  <1>5. PICK f \in [0 .. m + n -> Nat] :
            SizeSteps(f, base, r) /\ Prune!OutputSize(base, r) = f[m + n]
    BY <1>1, SizeOf
  <1> DEFINE A == {k \in 0 .. m : f[k] = d[k]}
             B == {k \in 0 .. n : f[m + k] = e[k]}
  <1> HIDE DEF m, n
  <1>6. \A k \in 0 .. m : k \in A
    <2>1. 0 \in A
      BY <1>1, <1>3, <1>5 DEF SizeSteps
    <2>2. ASSUME NEW k \in 1 .. m, k - 1 \in A PROVE k \in A
      <3>1. k \in 1 .. m + n /\ k \in 0 .. m /\ k - 1 \in 0 .. m
        BY <1>1
      <3>2. f[k] = f[k - 1] + 1 + Len(r[k]) /\ d[k] = d[k - 1] + 1 + Len(s[k])
        BY <1>1, <1>3, <1>5, <3>1 DEF SizeSteps, m
      <3> QED
        BY <2>2, <3>1, <3>2, <1>1
    <2> HIDE DEF A
    <2> QED
      BY <1>1, <2>1, <2>2, Rounds
  <1>7. \A k \in 0 .. n : k \in B
    <2>1. 0 \in B
      <3>1. m \in A /\ m + 0 = m /\ 0 \in 0 .. n
        BY <1>1, <1>6
      <3> QED
        BY <3>1, <1>3, <1>4 DEF SizeSteps
    <2>2. ASSUME NEW k \in 1 .. n, k - 1 \in B PROVE k \in B
      <3> DEFINE j == m + k
      <3>1. j \in 1 .. m + n /\ k \in 0 .. n /\ k - 1 \in 0 .. n /\ j - 1 = m + (k - 1)
        BY <1>1
      <3>2. f[j] = f[j - 1] + 1 + Len(r[j]) /\ e[k] = e[k - 1] + 1 + Len(t[k])
        <4>1. Len(r) = m + n /\ Len(t) = n
          BY <1>1 DEF n
        <4> HIDE DEF j
        <4> QED
          BY <1>4, <1>5, <3>1, <4>1 DEF SizeSteps
      <3>3. r[j] = t[k]
        BY <1>1
      <3>4. f[j - 1] = e[k - 1]
        BY <2>2, <3>1
      <3>5. f[j] = e[k]
        BY <3>2, <3>3, <3>4
      <3> QED
        BY <3>1, <3>5
    <2> HIDE DEF B
    <2> QED
      BY <1>1, <2>1, <2>2, Rounds
  <1>8. f[m + n] = e[n]
    BY <1>1, <1>7
  <1> QED
    BY <1>4, <1>5, <1>8 DEF r, mid

\* m is the largest of base and the lengths of s.
LargestIs(m, base, s) ==
    /\ m \in Nat /\ base <= m /\ \A i \in 1 .. Len(s) : Len(s[i]) <= m
    /\ m = base \/ \E i \in 1 .. Len(s) : Len(s[i]) = m

LEMMA WidestIs ==
    ASSUME NEW base \in Nat, NEW s \in Seq(Seq(Nat))
    PROVE  LargestIs(Prune!LargestDegree(base, s), base, s)
  <1>1. \A x \in Nat, y \in Seq(Nat) : Prune!Larger(x, Len(y)) \in Nat
    BY DEF Prune!Larger
  <1>2. PICK d \in [0 .. Len(s) -> Nat] :
            WidestSteps(d, base, s) /\ Prune!LargestDegree(base, s) = d[Len(s)]
    BY <1>1, WidestRuns
  <1> DEFINE n == Len(s)
             Is(k) == /\ base <= d[k] /\ \A i \in 1 .. k : Len(s[i]) <= d[k]
                      /\ d[k] = base \/ \E i \in 1 .. k : Len(s[i]) = d[k]
             A == {k \in 0 .. n : Is(k)}
  <1>3. n \in Nat /\ \A k \in 1 .. n : Len(s[k]) \in Nat
    OBVIOUS
  <1>4. d[0] = base /\ \A k \in 1 .. n : d[k] = Prune!Larger(d[k - 1], Len(s[k]))
    BY <1>2 DEF WidestSteps
  <1> HIDE DEF n
  <1>5. \A k \in 0 .. n : d[k] \in Nat
    BY <1>2 DEF n
  <1>6. 0 \in A
    BY <1>3, <1>4
  <1>7. ASSUME NEW k \in 1 .. n, k - 1 \in A PROVE k \in A
    <2>1. /\ k \in 0 .. n /\ k - 1 \in 0 .. n /\ k - 1 \in Nat /\ k \in Nat
          /\ \A i \in 1 .. k : i = k \/ i \in 1 .. k - 1
          /\ \A i \in 1 .. k - 1 : i \in 1 .. k
          /\ k \in 1 .. k
      BY <1>3
    <2>2. Is(k - 1)
      BY <1>7
    <2> DEFINE x == d[k - 1]
               y == Len(s[k])
    <2>3. x \in Nat /\ y \in Nat /\ d[k] = IF x > y THEN x ELSE y
      BY <1>3, <1>4, <1>5, <2>1 DEF Prune!Larger
    <2>4. \A i \in 1 .. k - 1 : Len(s[i]) \in Nat
      BY <1>3
    <2> HIDE DEF x
    <2>5. base <= d[k] /\ x <= d[k] /\ y <= d[k]
      BY <2>2, <2>3 DEF x
    <2>6. \A i \in 1 .. k : Len(s[i]) <= d[k]
      BY <2>1, <2>2, <2>3, <2>4, <2>5 DEF x
    <2>7. d[k] = base \/ \E i \in 1 .. k : Len(s[i]) = d[k]
      <3>1. CASE d[k] = x
        BY <3>1, <2>1, <2>2 DEF x
      <3>2. CASE d[k] = y
        BY <3>2, <2>1
      <3> QED
        BY <3>1, <3>2, <2>3
    <2> QED
      BY <2>1, <2>5, <2>6, <2>7
  <1> HIDE DEF A
  <1>8. \A k \in 0 .. n : k \in A
    BY <1>3, <1>6, <1>7, Rounds
  <1>9. Is(n) /\ d[n] \in Nat
    BY <1>3, <1>5, <1>8 DEF A
  <1> QED
    BY <1>2, <1>9 DEF n, LargestIs

LEMMA LargestGrows ==
    ASSUME NEW m \in Nat, NEW s \in Seq(Seq(Nat)), NEW t \in Seq(Seq(Nat)),
           LargestIs(m, 0, s)
    PROVE  LargestIs(Prune!LargestDegree(m, t), 0, s \o t)
  <1> DEFINE l == Prune!LargestDegree(m, t)
             r == s \o t
  <1>1. LargestIs(l, m, t)
    BY WidestIs
  <1>2. /\ Len(s) \in Nat /\ Len(t) \in Nat /\ Len(r) = Len(s) + Len(t)
        /\ \A k \in 1 .. Len(s) : r[k] = s[k] /\ Len(s[k]) \in Nat
        /\ \A k \in 1 .. Len(t) : r[Len(s) + k] = t[k] /\ Len(t[k]) \in Nat
    OBVIOUS
  <1> HIDE DEF l, r
  <1>3. l \in Nat /\ m <= l /\ 0 <= l
    BY <1>1 DEF LargestIs
  <1>4. ASSUME NEW i \in 1 .. Len(r) PROVE Len(r[i]) <= l
    <2>1. CASE i \in 1 .. Len(s)
      <3>1. r[i] = s[i] /\ Len(s[i]) \in Nat
        BY <2>1, <1>2
      <3>2. Len(s[i]) <= m
        BY <2>1 DEF LargestIs
      <3> QED
        BY <3>1, <3>2, <1>3
    <2>2. CASE i \notin 1 .. Len(s)
      <3>1. i - Len(s) \in 1 .. Len(t) /\ Len(s) + (i - Len(s)) = i
        BY <2>2, <1>2
      <3>2. r[i] = t[i - Len(s)]
        BY <3>1, <1>2
      <3> QED
        BY <3>1, <3>2, <1>1 DEF LargestIs
    <2> QED
      BY <2>1, <2>2
  <1>5. l = 0 \/ \E i \in 1 .. Len(r) : Len(r[i]) = l
    <2>1. CASE l = m
      <3>1. l = 0 \/ \E i \in 1 .. Len(s) : Len(s[i]) = l
        BY <2>1 DEF LargestIs
      <3> QED
        BY <3>1, <1>2
    <2>2. ASSUME NEW i \in 1 .. Len(t), Len(t[i]) = l PROVE \E j \in 1 .. Len(r) : Len(r[j]) = l
      <3>1. Len(s) + i \in 1 .. Len(r) /\ r[Len(s) + i] = t[i]
        BY <1>2
      <3> QED
        BY <2>2, <3>1
    <2> QED
      BY <2>1, <2>2, <1>1 DEF LargestIs
  <1>6. LargestIs(l, 0, r)
    BY <1>3, <1>4, <1>5 DEF LargestIs
  <1> QED
    BY <1>6 DEF l, r

LEMMA EmptyOutput ==
    ASSUME NEW base \in Nat
    PROVE  Prune!OutputSize(base, <<>>) = base /\ LargestIs(0, 0, <<>>)
  <1>1. <<>> \in Seq(Seq(Nat)) /\ Len(<<>>) = 0
    OBVIOUS
  <1>2. PICK d \in [0 .. 0 -> Nat] : SizeSteps(d, base, <<>>) /\ Prune!OutputSize(base, <<>>) = d[0]
    BY <1>1, SizeOf
  <1> QED
    BY <1>1, <1>2 DEF SizeSteps, LargestIs

-----------------------------------------------------------------------------
(* The invariant of the pruning *)

\* The candidates of v that are other nodes.
Own(v) == ToSet(ListOf(v)) \cap Others(v)

InputsOK == CodesOK /\ RowsOK /\ avail \in 0 .. Wrap - 1 /\ chunk_bytes \in Nat

Budgeted == prune_pc # "start" => /\ meta_batch_rows = Prune!MetaRows
                                  /\ effective_batch_budget = Prune!BatchBudget

\* The batch pruned last took all rows it could.
BatchOK == prune_pc # "start" /\ batch.k > 0 =>
    /\ batch.first \in Nat /\ batch.rows \in Nat \ {0} /\ batch.first + batch.rows <= Nodes
    /\ Greatest(batch.k, 0, batch.rows, FittingRows(batch.first, batch.rows))

\* The output so far is the lists of the first nodes.
Running == {"meta", "batch", "finish", "done"}
ListsOK == out \in Seq(Seq(Nat)) /\ \A v \in 0 .. Len(out) - 1 : ListOK(v, Own(v), out[v + 1])
Written == prune_pc \in Running => /\ ListsOK
                                   /\ out_off = Prune!OutputSize(Prune!HeaderWords, out)
                                   /\ LargestIs(max_observed_deg, 0, out)

Position ==
    /\ prune_pc = "meta" => u_global \in Nat /\ u_global < Nodes /\ Len(out) = u_global
    /\ prune_pc = "batch" => /\ u_global \in Nat /\ rows_to_read \in Nat /\ u_local \in Nat
                             /\ u_local <= rows_to_read /\ u_global + rows_to_read <= Nodes
                             /\ Len(out) = u_global + u_local
    /\ prune_pc \in {"finish", "done"} => Len(out) = Nodes
    /\ prune_pc = "done" => header = [isz |-> out_off, maxObs |-> max_observed_deg]

PruneLabels == {"start", "meta", "batch", "finish", "done", "die"}
PruneInv == prune_pc \in PruneLabels /\ InputsOK /\ Budgeted /\ BatchOK /\ Written /\ Position

-----------------------------------------------------------------------------
\* Nothing but the inputs decides these.
LEMMA SameLists ==
    ASSUME UNCHANGED <<idx, cand_ids, code, R, T>>
    PROVE  /\ Nodes' = Nodes /\ (CodesOK' <=> CodesOK) /\ (RowsOK' <=> RowsOK)
           /\ \A v : Own(v)' = Own(v)
           /\ \A v, C, l : ListOK(v, C, l)' <=> ListOK(v, C, l)
           /\ \A v, k : Prune!Footprint(v, k)' = Prune!Footprint(v, k)
  <1>1. Nodes' = Nodes
    BY DEF Nodes
  <1>2. CodesOK' <=> CodesOK
    BY <1>1 DEF CodesOK
  <1>3. RowsOK' <=> RowsOK
    BY DEF RowsOK, Off, End
  <1>4. \A v : Own(v)' = Own(v)
    BY DEF Own, ListOf, Off, End, Others
  <1>5. \A v, a, b : /\ Prune!Dist(a, b)' = Prune!Dist(a, b)
                     /\ Prune!Nearer(v, a, b)' <=> Prune!Nearer(v, a, b)
    BY DEF Prune!Nearer, Prune!Dist
  <1>6. \A v, C, l : Prune!WellPruned(v, C, l)' <=> Prune!WellPruned(v, C, l)
    BY DEF Prune!WellPruned, Prune!Nearer, Prune!Dist
  <1>7. \A v : Short(v)' = Short(v)
    BY DEF Short, Others
  <1>8. \A v, C, l : ListOK(v, C, l)' <=> ListOK(v, C, l)
    BY <1>6, <1>7 DEF ListOK
  <1>9. \A v, k : Prune!Footprint(v, k)' = Prune!Footprint(v, k)
    BY DEF Prune!Footprint
  <1> QED
    BY <1>1, <1>2, <1>3, <1>4, <1>8, <1>9

LEMMA SameInputs ==
    ASSUME UNCHANGED Prune!inputs
    PROVE  /\ UNCHANGED <<idx, cand_ids, code, R, T>>
           /\ (InputsOK' <=> InputsOK)
           /\ Prune!MetaRows' = Prune!MetaRows /\ Prune!BatchBudget' = Prune!BatchBudget
  <1>1. UNCHANGED <<idx, cand_ids, code, R, T>> /\ avail' = avail /\ chunk_bytes' = chunk_bytes
    BY DEF Prune!inputs
  <1>2. InputsOK' <=> InputsOK
    BY <1>1, SameLists DEF InputsOK
  <1>3. Prune!MetaRows' = Prune!MetaRows
    BY <1>1 DEF Prune!MetaRows
  <1>4. Prune!BatchBudget' = Prune!BatchBudget
    BY <1>1, <1>3 DEF Prune!BatchBudget, Prune!MemAvailForBatch
  <1> QED
    BY <1>1, <1>2, <1>3, <1>4

\* Lines 501-511.
LEMMA BudgetIs ==
    ASSUME InputsOK
    PROVE  /\ Prune!MetaRows \in Nat /\ Prune!BatchBudget \in Nat
           /\ Prune!BatchBudget <= BatchMax
           /\ chunk_bytes > 0 => Prune!BatchBudget <= chunk_bytes
           /\ avail >= Prune!MetaRows * Prune!RowWords
                  => 2 * Prune!BatchBudget <= avail - Prune!MetaRows * Prune!RowWords
  <1>1. /\ MetaMin \in Nat /\ MetaMax \in Nat /\ BatchMax \in Nat /\ Wrap \in Nat
        /\ MetaMax * 4 < Wrap /\ avail \in Nat /\ avail < Wrap /\ chunk_bytes \in Nat
    BY PruneSizesAssumption DEF InputsOK
  <1> DEFINE t == avail \div (10 * Prune!RowWords)
             m == Prune!MetaRows
             w == m * Prune!RowWords
             e == (avail - w + Wrap) % Wrap
             f == e \div 2
             c == IF chunk_bytes > 0 THEN (IF f < chunk_bytes THEN f ELSE chunk_bytes) ELSE f
  <1>2. t \in Nat
    BY <1>1 DEF Prune!RowWords
  <1>3. m \in Nat /\ m <= MetaMax
    <2> HIDE DEF t
    <2>1. m = IF (IF t > MetaMin THEN t ELSE MetaMin) < MetaMax
              THEN (IF t > MetaMin THEN t ELSE MetaMin) ELSE MetaMax
      BY DEF t, Prune!MetaRows, Prune!Smaller, Prune!Larger
    <2> HIDE DEF m
    <2> QED
      BY <1>1, <1>2, <2>1
  <1> HIDE DEF m
  <1>4. w \in Nat /\ w <= MetaMax * 4 /\ w < Wrap
    BY <1>1, <1>3 DEF Prune!RowWords
  <1>5. Prune!BatchBudget = IF c < BatchMax THEN c ELSE BatchMax
    BY DEF Prune!BatchBudget, Prune!MemAvailForBatch, Prune!Smaller, m
  <1> HIDE DEF w
  <1>6. e \in Nat /\ (avail >= w => e = avail - w)
    <2>1. avail - w + Wrap \in Nat
      BY <1>1, <1>4
    <2>2. \A a, z \in Nat : z > 0 => a % z \in Nat
      OBVIOUS
    <2>3. e \in Nat
      BY <2>1, <2>2, <1>1
    <2>4. \A a, z \in Nat : a < z => (a + z) % z = a
      OBVIOUS
    <2>5. ASSUME avail >= w PROVE e = avail - w
      <3>1. avail - w \in Nat /\ avail - w < Wrap /\ (avail - w) + Wrap = avail - w + Wrap
        BY <2>5, <1>1, <1>4
      <3> QED
        BY <3>1, <2>4, <1>1
    <2> QED
      BY <2>3, <2>5
  <1> HIDE DEF e
  <1>7. f \in Nat /\ 2 * f <= e
    BY <1>6
  <1> HIDE DEF f
  <1>8. c \in Nat /\ c <= f /\ (chunk_bytes > 0 => c <= chunk_bytes)
    BY <1>1, <1>7
  <1> HIDE DEF c
  <1>9. /\ Prune!BatchBudget \in Nat /\ Prune!BatchBudget <= BatchMax /\ Prune!BatchBudget <= c
    BY <1>1, <1>5, <1>8
  <1>10. avail >= w => 2 * Prune!BatchBudget <= avail - w
    BY <1>1, <1>4, <1>6, <1>7, <1>8, <1>9
  <1>11. chunk_bytes > 0 => Prune!BatchBudget <= chunk_bytes
    BY <1>1, <1>8, <1>9
  <1> QED
    BY <1>3, <1>9, <1>10, <1>11 DEF w, m

-----------------------------------------------------------------------------
\* What one batch appends to the output.
LEMMA BatchLists ==
    ASSUME CodesOK, RowsOK, NEW first \in Nat, NEW k \in Nat, k >= 1, first + k <= Nodes
    PROVE  /\ Prune!PrunedLists(first, k) \in Seq(Seq(Nat))
           /\ Len(Prune!PrunedLists(first, k)) = k
           /\ \A i \in 1 .. k : ListOK(first + i - 1, Own(first + i - 1),
                                       Prune!PrunedLists(first, k)[i])
  <1> DEFINE L(i) == Prune!Pruned(first + i - 1, Prune!CandOf(first + i - 1, first, k))
             s == [i \in 1 .. k |-> L(i)]
  <1>1. Prune!PrunedLists(first, k) = s
    BY DEF Prune!PrunedLists
  <1>2. ASSUME NEW i \in 1 .. k
        PROVE  ListOK(first + i - 1, Own(first + i - 1), L(i)) /\ L(i) \in Seq(Nat)
    <2> DEFINE v == first + i - 1
    <2>1. v \in first .. first + k - 1
      OBVIOUS
    <2> HIDE DEF v
    <2>2. v \in DOMAIN code /\ Prune!CandOf(v, first, k) = ListOf(v) /\ ListOf(v) \in Seq(Nat)
      BY <2>1, OwnList
    <2>3. ListOK(v, Own(v), Prune!Pruned(v, Prune!CandOf(v, first, k)))
      BY <2>2, PrunedIs DEF Own
    <2>4. ASSUME NEW l, ListOK(v, Own(v), l) PROVE l \in Seq(Nat)
      <3>1. l \in Seq(Others(v))
        BY <2>4 DEF ListOK, Short
      <3>2. Others(v) \subseteq Nat
        BY NodesType DEF Others, CodesOK
      <3> HIDE DEF v
      <3> QED
        BY <3>1, <3>2
    <2> QED
      BY <2>3, <2>4 DEF v
  <1> HIDE DEF L
  <1>3. s \in Seq(Seq(Nat)) /\ Len(s) = k
    BY <1>2
  <1> QED
    BY <1>1, <1>2, <1>3

\* Lists behind the lists of the first nodes.
LEMMA ListsAppended ==
    ASSUME CodesOK, ListsOK, NEW t \in Seq(Seq(Nat)),
           \A i \in 1 .. Len(t) : ListOK(Len(out) + i - 1, Own(Len(out) + i - 1), t[i])
    PROVE  /\ out \o t \in Seq(Seq(Nat)) /\ Len(out \o t) = Len(out) + Len(t)
           /\ \A v \in 0 .. Len(out \o t) - 1 : ListOK(v, Own(v), (out \o t)[v + 1])
  <1> DEFINE n == Len(out)
             m == Len(t)
             r == out \o t
  <1>1. out \in Seq(Seq(Nat))
    BY DEF ListsOK
  <1>2. /\ n \in Nat /\ m \in Nat /\ r \in Seq(Seq(Nat)) /\ Len(r) = n + m
        /\ \A i \in 1 .. n : r[i] = out[i] 
        /\ \A i \in 1 .. m : r[n + i] = t[i]
    BY <1>1
  <1>3. /\ \A v \in 0 .. n - 1 : ListOK(v, Own(v), out[v + 1])
        /\ \A i \in 1 .. m : ListOK(n + i - 1, Own(n + i - 1), t[i])
    BY DEF ListsOK
  <1> HIDE DEF n, m, r
  <1>4. ASSUME NEW v \in 0 .. n + m - 1 PROVE ListOK(v, Own(v), r[v + 1])
    <2>1. CASE v < n
      <3>1. v \in 0 .. n - 1 /\ v + 1 \in 1 .. n
        BY <2>1, <1>2
      <3> QED
        BY <3>1, <1>2, <1>3
    <2>2. CASE v >= n
      <3> DEFINE i == v + 1 - n
      <3>1. i \in 1 .. m /\ n + i - 1 = v /\ n + i = v + 1
        BY <2>2, <1>2
      <3> HIDE DEF i
      <3>2. ListOK(n + i - 1, Own(n + i - 1), t[i]) /\ r[n + i] = t[i]
        BY <3>1, <1>2, <1>3
      <3> QED
        BY <3>1, <3>2
    <2> QED
      BY <2>1, <2>2, <1>2
  <1> QED
    BY <1>2, <1>4 DEF n, m, r

-----------------------------------------------------------------------------
(* The steps of the pruning *)

LEMMA StartKeeps == ASSUME PruneInv, Prune!Start PROVE PruneInv'
  <1>1. UNCHANGED Prune!inputs
    BY DEF Prune!Start
  <1>2. /\ prune_pc' = IF avail = 0 \/ Prune!BatchBudget = 0 THEN "die"
                       ELSE IF Prune!N > 0 THEN "meta" ELSE "finish"
        /\ meta_batch_rows' = Prune!MetaRows /\ effective_batch_budget' = Prune!BatchBudget
        /\ u_global' = 0 /\ batch' = [first |-> 0, k |-> 0, rows |-> 0]
        /\ out' = <<>> /\ out_off' = Prune!HeaderWords /\ max_observed_deg' = 0
    BY DEF Prune!Start, Prune!NoBatch
  <1>3. /\ UNCHANGED <<idx, cand_ids, code, R, T>> /\ InputsOK' /\ InputsOK
        /\ Prune!MetaRows' = Prune!MetaRows /\ Prune!BatchBudget' = Prune!BatchBudget
    BY <1>1, SameInputs DEF PruneInv
  <1>4. Nodes' = Nodes /\ Nodes \in Nat /\ Prune!N = Nodes
    BY <1>3, SameLists, NodesType, SameNodes DEF InputsOK
  <1>5. prune_pc' \in {"die", "meta", "finish"} /\ prune_pc' \in PruneLabels
    BY <1>2 DEF PruneLabels
  <1>6. Budgeted'
    BY <1>2, <1>3 DEF Budgeted
  <1>7. BatchOK'
    <2>1. batch'.k = 0
      BY <1>2
    <2> QED
      BY <2>1 DEF BatchOK
  <1>8. Written'
    <2>1. out' \in Seq(Seq(Nat)) /\ Len(out') = 0
      BY <1>2
    <2>2. ListsOK'
      BY <2>1 DEF ListsOK
    <2>3. out_off' = Prune!OutputSize(Prune!HeaderWords, out') /\ LargestIs(max_observed_deg', 0, out')
      BY <1>2, EmptyOutput DEF Prune!HeaderWords
    <2> QED
      BY <2>2, <2>3 DEF Written
  <1>9. Position'
    <2>1. Len(out') = 0
      BY <1>2
    <2>2. prune_pc' = "meta" => Nodes > 0
      BY <1>2, <1>4
    <2>3. prune_pc' = "finish" => Nodes = 0
      BY <1>2, <1>4
    <2> QED
      BY <2>1, <2>2, <2>3, <1>2, <1>4, <1>5 DEF Position
  <1> QED
    BY <1>3, <1>5, <1>6, <1>7, <1>8, <1>9 DEF PruneInv

\* What the steps between two batches leave alone.
LEMMA PruneKept ==
    ASSUME PruneInv, UNCHANGED <<Prune!inputs, meta_batch_rows, effective_batch_budget>>,
           prune_pc # "start"
    PROVE  /\ InputsOK /\ InputsOK' /\ Nodes' = Nodes /\ Nodes \in Nat /\ Prune!N = Nodes /\ Budgeted'
           /\ UNCHANGED <<idx, cand_ids, code, R, T>>
           /\ meta_batch_rows \in Nat /\ effective_batch_budget \in Nat
           /\ \A v, m : FittingRows(v, m)' = FittingRows(v, m)
           /\ batch' = batch => BatchOK'
           /\ prune_pc \in Running /\ UNCHANGED <<out, out_off, max_observed_deg>> => Written'
  <1>1. /\ UNCHANGED <<idx, cand_ids, code, R, T>> /\ InputsOK' /\ InputsOK
        /\ Prune!MetaRows' = Prune!MetaRows /\ Prune!BatchBudget' = Prune!BatchBudget
    BY SameInputs DEF PruneInv
  <1>2. /\ Nodes' = Nodes /\ \A v : Own(v)' = Own(v)
        /\ \A v, C, l : ListOK(v, C, l)' <=> ListOK(v, C, l)
        /\ \A v, k : Prune!Footprint(v, k)' = Prune!Footprint(v, k)
    BY <1>1, SameLists
  <1>3. Nodes \in Nat /\ Prune!N = Nodes
    BY <1>1, NodesType, SameNodes DEF InputsOK
  <1>4. meta_batch_rows = Prune!MetaRows /\ effective_batch_budget = Prune!BatchBudget
    BY DEF PruneInv, Budgeted
  <1>5. Budgeted'
    BY <1>1, <1>4 DEF Budgeted
  <1>6. meta_batch_rows \in Nat /\ effective_batch_budget \in Nat
    BY <1>1, <1>4, BudgetIs
  <1>7. \A v, m : FittingRows(v, m)' = FittingRows(v, m)
    BY <1>2 DEF FittingRows
  <1>8. ASSUME batch' = batch PROVE BatchOK'
    BY <1>2, <1>7, <1>8 DEF PruneInv, BatchOK
  <1>9. ASSUME prune_pc \in Running, UNCHANGED <<out, out_off, max_observed_deg>> PROVE Written'
    <2>1. ListsOK /\ out_off = Prune!OutputSize(Prune!HeaderWords, out)
          /\ LargestIs(max_observed_deg, 0, out)
      BY <1>9 DEF PruneInv, Written
    <2>2. ListsOK'
      BY <2>1, <1>2, <1>9 DEF ListsOK
    <2>3. /\ out_off' = Prune!OutputSize(Prune!HeaderWords, out')
          /\ LargestIs(max_observed_deg', 0, out')
      BY <2>1, <1>9
    <2> QED
      BY <2>2, <2>3 DEF Written, Prune!HeaderWords
  <1> QED
    BY <1>1, <1>2, <1>3, <1>5, <1>6, <1>7, <1>8, <1>9

LEMMA ReadMetaKeeps == ASSUME PruneInv, Prune!ReadMeta PROVE PruneInv'
  <1>1. /\ UNCHANGED <<Prune!inputs, meta_batch_rows, effective_batch_budget>>
        /\ UNCHANGED <<u_global, batch, out, out_off, max_observed_deg, header>>
        /\ prune_pc = "meta" /\ prune_pc' = "batch" /\ u_local' = 0
        /\ rows_to_read' = Prune!Smaller(Prune!N - u_global, meta_batch_rows)
    BY DEF Prune!ReadMeta, Prune!budgets
  <1>2. prune_pc \in Running /\ prune_pc # "start" /\ prune_pc' \in PruneLabels
    BY <1>1 DEF Running, PruneLabels
  <1>3. /\ InputsOK' /\ Nodes' = Nodes /\ Nodes \in Nat /\ Prune!N = Nodes /\ Budgeted'
        /\ meta_batch_rows \in Nat /\ BatchOK' /\ Written'
    BY <1>1, <1>2, PruneKept
  <1>4. u_global \in Nat /\ u_global < Nodes /\ Len(out) = u_global
    BY <1>1 DEF PruneInv, Position
  <1>5. rows_to_read' \in Nat /\ u_global + rows_to_read' <= Nodes
    BY <1>1, <1>3, <1>4 DEF Prune!Smaller
  <1>6. Position'
    BY <1>1, <1>3, <1>4, <1>5 DEF Position
  <1> QED
    BY <1>2, <1>3, <1>6 DEF PruneInv

LEMMA EndMetaKeeps == ASSUME PruneInv, Prune!EndMeta PROVE PruneInv'
  <1>1. /\ UNCHANGED <<Prune!inputs, meta_batch_rows, effective_batch_budget>>
        /\ UNCHANGED <<batch, out, out_off, max_observed_deg>>
        /\ prune_pc = "batch" /\ u_local = rows_to_read /\ u_global' = u_global + rows_to_read
        /\ prune_pc' = IF u_global' < Prune!N THEN "meta" ELSE "finish"
    BY DEF Prune!EndMeta, Prune!budgets
  <1>2. prune_pc \in Running /\ prune_pc # "start" /\ prune_pc' \in PruneLabels
    BY <1>1 DEF Running, PruneLabels
  <1>3. /\ InputsOK' /\ Nodes' = Nodes /\ Nodes \in Nat /\ Prune!N = Nodes /\ Budgeted'
        /\ BatchOK' /\ Written'
    BY <1>1, <1>2, PruneKept
  <1>4. /\ u_global \in Nat /\ rows_to_read \in Nat /\ u_global + rows_to_read <= Nodes
        /\ Len(out) = u_global + u_local
    BY <1>1 DEF PruneInv, Position
  <1>5. Position'
    BY <1>1, <1>3, <1>4 DEF Position
  <1> QED
    BY <1>2, <1>3, <1>5 DEF PruneInv

LEMMA WriteHeaderKeeps == ASSUME PruneInv, Prune!WriteHeader PROVE PruneInv'
  <1>1. /\ UNCHANGED <<Prune!inputs, meta_batch_rows, effective_batch_budget>>
        /\ UNCHANGED <<batch, out, out_off, max_observed_deg>>
        /\ prune_pc = "finish" /\ prune_pc' = "done"
        /\ header' = [isz |-> out_off, maxObs |-> max_observed_deg]
    BY DEF Prune!WriteHeader, Prune!budgets
  <1>2. prune_pc \in Running /\ prune_pc # "start" /\ prune_pc' \in PruneLabels
    BY <1>1 DEF Running, PruneLabels
  <1>3. InputsOK' /\ Nodes' = Nodes /\ Budgeted' /\ BatchOK' /\ Written'
    BY <1>1, <1>2, PruneKept
  <1>4. Len(out) = Nodes
    BY <1>1 DEF PruneInv, Position
  <1>5. Position'
    BY <1>1, <1>3, <1>4 DEF Position
  <1> QED
    BY <1>2, <1>3, <1>5 DEF PruneInv

LEMMA PruneBatchKeeps == ASSUME PruneInv, Prune!PruneBatch PROVE PruneInv'
  <1> DEFINE first == u_global + u_local
             m == rows_to_read - u_local
             k == Prune!PickBatchK(first, m)
             t == Prune!PrunedLists(first, k)
  <1>1. /\ UNCHANGED <<Prune!inputs, meta_batch_rows, effective_batch_budget>>
        /\ UNCHANGED <<prune_pc, u_global, rows_to_read>>
        /\ prune_pc = "batch" /\ u_local < rows_to_read
        /\ batch' = [first |-> first, k |-> k, rows |-> m]
        /\ out' = out \o t /\ out_off' = Prune!OutputSize(out_off, t)
        /\ max_observed_deg' = Prune!LargestDegree(max_observed_deg, t)
        /\ u_local' = u_local + k
    BY DEF Prune!PruneBatch, Prune!budgets
  <1>2. prune_pc \in Running /\ prune_pc # "start" /\ prune_pc' \in PruneLabels
    BY <1>1 DEF Running, PruneLabels
  <1>3. /\ InputsOK /\ InputsOK' /\ Nodes' = Nodes /\ Nodes \in Nat /\ Budgeted'
        /\ UNCHANGED <<idx, cand_ids, code, R, T>> /\ effective_batch_budget \in Nat
        /\ \A v, n : FittingRows(v, n)' = FittingRows(v, n)
    BY <1>1, <1>2, PruneKept
  <1>4. /\ u_global \in Nat /\ rows_to_read \in Nat /\ u_local \in Nat
        /\ u_global + rows_to_read <= Nodes /\ Len(out) = u_global + u_local
    BY <1>1 DEF PruneInv, Position
  <1>5. first \in Nat /\ m \in Nat /\ m >= 1 /\ first + m <= Nodes /\ CodesOK /\ RowsOK
        /\ Len(out) = first
    BY <1>1, <1>3, <1>4 DEF InputsOK
  <1>6. /\ ListsOK /\ out_off = Prune!OutputSize(Prune!HeaderWords, out)
        /\ LargestIs(max_observed_deg, 0, out)
    BY <1>2 DEF PruneInv, Written
  <1>7. /\ \A v : Own(v)' = Own(v)
        /\ \A v, C, l : ListOK(v, C, l)' <=> ListOK(v, C, l)
    BY <1>3, SameLists
  <1> HIDE DEF first, m
  <1>8. Greatest(k, 0, m, FittingRows(first, m))
    BY <1>3, <1>5, PickBatchKIs
  <1>9. k \in Nat /\ k >= 1 /\ k <= m /\ first + k <= Nodes
    <2>1. k \in 1 .. m
      BY <1>8 DEF Greatest
    <2> HIDE DEF k
    <2> QED
      BY <2>1, <1>3, <1>5
  <1> HIDE DEF k
  <1>10. /\ t \in Seq(Seq(Nat)) /\ Len(t) = k
         /\ \A i \in 1 .. k : ListOK(first + i - 1, Own(first + i - 1), t[i])
    BY <1>5, <1>9, BatchLists
  <1> HIDE DEF t
  <1>11. /\ out' \in Seq(Seq(Nat)) /\ Len(out') = first + k
         /\ \A v \in 0 .. Len(out') - 1 : ListOK(v, Own(v), out'[v + 1])
    BY <1>1, <1>5, <1>6, <1>10, ListsAppended
  <1>12. ListsOK'
    BY <1>7, <1>11 DEF ListsOK
  <1>13. out_off' = Prune!OutputSize(Prune!HeaderWords, out') /\ LargestIs(max_observed_deg', 0, out')
    <2>1. out \in Seq(Seq(Nat)) /\ max_observed_deg \in Nat
      BY <1>6 DEF ListsOK, LargestIs
    <2>2. Prune!HeaderWords \in Nat
      BY DEF Prune!HeaderWords
    <2>3. Prune!OutputSize(Prune!OutputSize(Prune!HeaderWords, out), t)
              = Prune!OutputSize(Prune!HeaderWords, out \o t)
      BY <2>1, <2>2, <1>10, SizeAppended
    <2>4. LargestIs(Prune!LargestDegree(max_observed_deg, t), 0, out \o t)
      BY <2>1, <1>6, <1>10, LargestGrows
    <2> QED
      BY <2>3, <2>4, <1>1, <1>6
  <1>14. Written'
    BY <1>12, <1>13 DEF Written, Prune!HeaderWords
  <1>15. BatchOK'
    <2>1. batch'.first = first /\ batch'.k = k /\ batch'.rows = m /\ m \in Nat \ {0}
      BY <1>1, <1>5
    <2>2. /\ batch'.first \in Nat /\ batch'.rows \in Nat \ {0} /\ batch'.first + batch'.rows <= Nodes'
      BY <2>1, <1>3, <1>5
    <2>3. Greatest(batch'.k, 0, batch'.rows, FittingRows(batch.first, batch.rows)')
      BY <2>1, <1>8, <1>3 DEF FittingRows
    <2> QED
      BY <2>2, <2>3 DEF BatchOK
  <1>16. Position'
    <2>1. u_local' \in Nat /\ u_local' <= rows_to_read /\ Len(out') = u_global + u_local'
      BY <1>1, <1>4, <1>9, <1>11 DEF first, m
    <2> QED
      BY <2>1, <1>1, <1>3, <1>4 DEF Position
  <1> QED
    BY <1>2, <1>3, <1>14, <1>15, <1>16 DEF PruneInv

LEMMA PruneStutters == ASSUME PruneInv, UNCHANGED pruning PROVE PruneInv'
  <1>1. /\ UNCHANGED <<idx, cand_ids, code, R, T, avail, chunk_bytes, prune_pc, meta_batch_rows,
                       effective_batch_budget, u_global, rows_to_read, u_local, batch, out, out_off,
                       max_observed_deg, header>>
        /\ UNCHANGED Prune!inputs
    BY DEF pruning, Prune!inputs
  <1>2. InputsOK' /\ Nodes' = Nodes
    BY <1>1, SameInputs, SameLists DEF PruneInv
  <1>3. Position'
    BY <1>1, <1>2 DEF PruneInv, Position
  <1>4. CASE prune_pc = "start"
    BY <1>1, <1>2, <1>3, <1>4 DEF PruneInv, Budgeted, BatchOK, Written, Running
  <1>5. CASE prune_pc # "start"
    <2>1. Budgeted' /\ BatchOK' /\ (prune_pc \in Running => Written')
      BY <1>1, <1>5, PruneKept
    <2>2. Written'
      BY <2>1, <1>1 DEF Written
    <2> QED
      BY <1>1, <1>2, <1>3, <2>1, <2>2 DEF PruneInv
  <1> QED
    BY <1>4, <1>5

LEMMA PruneInvInductive == ASSUME PruneInv, Prune!Next PROVE PruneInv'
  BY StartKeeps, ReadMetaKeeps, PruneBatchKeeps, EndMetaKeeps, WriteHeaderKeeps DEF Prune!Next

-----------------------------------------------------------------------------
(* What the invariant of the pruning means *)

LEMMA CandidatesAre ==
    ASSUME NEW v PROVE Prune!Candidates(v) = Own(v)
  BY SameToSet DEF Prune!Candidates, Prune!ValidOf, Own, ListOf, Off, End, Others

LEMMA PruningExact == PruneInv => Prune!PrunedGraphExact
  <1> SUFFICES ASSUME PruneInv, prune_pc = "done"
               PROVE  /\ Len(out) = Prune!N
                      /\ \A v \in 0 .. Prune!N - 1 :
                           /\ Prune!ToSet(out[v + 1]) \subseteq Prune!Candidates(v)
                           /\ T = 1 => /\ Prune!WellPruned(v, Prune!Candidates(v), out[v + 1])
                                       /\ Len(out[v + 1]) = Prune!Smaller(R, Prune!Cardinality(Prune!Candidates(v)))
                      /\ header.isz = Prune!OutputSize(Prune!HeaderWords, out)
                      /\ \A i \in DOMAIN out : Len(out[i]) <= header.maxObs
                      /\ header.maxObs # 0 => \E i \in DOMAIN out : Len(out[i]) = header.maxObs
    BY DEF Prune!PrunedGraphExact
  <1>1. /\ Len(out) = Nodes /\ header = [isz |-> out_off, maxObs |-> max_observed_deg]
        /\ ListsOK /\ out_off = Prune!OutputSize(Prune!HeaderWords, out)
        /\ LargestIs(max_observed_deg, 0, out)
    BY DEF PruneInv, Position, Written, Running
  <1>2. DOMAIN out = 1 .. Len(out)
    BY <1>1 DEF ListsOK
  <1>3. header.isz = out_off /\ header.maxObs = max_observed_deg
    BY <1>1
  <1>4. ASSUME NEW v \in 0 .. Prune!N - 1
        PROVE  /\ Prune!ToSet(out[v + 1]) \subseteq Prune!Candidates(v)
               /\ T = 1 => /\ Prune!WellPruned(v, Prune!Candidates(v), out[v + 1])
                           /\ Len(out[v + 1])
                                = Prune!Smaller(R, Prune!Cardinality(Prune!Candidates(v)))
    <2>1. v \in 0 .. Len(out) - 1
      BY <1>1, SameNodes
    <2>2. ListOK(v, Own(v), out[v + 1])
      BY <2>1, <1>1 DEF ListsOK
    <2>3. Prune!Candidates(v) = Own(v)
      BY CandidatesAre
    <2>4. /\ Prune!ToSet(out[v + 1]) = ToSet(out[v + 1])
          /\ Prune!Cardinality(Own(v)) = Cardinality(Own(v))
      BY SameToSet, SameCardinality
    <2> QED
      BY <2>2, <2>3, <2>4 DEF ListOK
  <1> QED
    BY <1>1, <1>2, <1>3, <1>4, SameNodes DEF LargestIs

LEMMA PruningFits == PruneInv => Prune!BatchesFitAndAreMaximal
  <1> DEFINE a == batch.first
             k == batch.k
             n == batch.rows
             w == meta_batch_rows * Prune!RowWords
  <1> SUFFICES ASSUME PruneInv, prune_pc # "start", k > 0, avail >= w
               PROVE  /\ k > 1 => /\ 2 * Prune!Footprint(a, k) <= avail - w
                                  /\ chunk_bytes > 0 => Prune!Footprint(a, k) <= chunk_bytes
                                  /\ Prune!Footprint(a, k) <= BatchMax
                      /\ \A j \in k + 1 .. n : Prune!Footprint(a, j) > effective_batch_budget
    BY DEF Prune!BatchesFitAndAreMaximal
  <1>1. /\ a \in Nat /\ n \in Nat \ {0} /\ a + n <= Nodes
        /\ Greatest(k, 0, n, FittingRows(a, n))
    BY DEF PruneInv, BatchOK
  <1>2. /\ InputsOK /\ CodesOK /\ RowsOK /\ Nodes \in Nat
        /\ meta_batch_rows = Prune!MetaRows /\ effective_batch_budget = Prune!BatchBudget
    BY NodesType DEF PruneInv, InputsOK, Budgeted
  <1>3. /\ meta_batch_rows \in Nat /\ effective_batch_budget \in Nat
        /\ effective_batch_budget <= BatchMax
        /\ chunk_bytes > 0 => effective_batch_budget <= chunk_bytes
        /\ 2 * effective_batch_budget <= avail - w
    BY <1>2, BudgetIs
  <1>4. /\ avail \in Nat /\ chunk_bytes \in Nat /\ BatchMax \in Nat /\ w \in Nat
    BY <1>2, <1>3, PruneSizesAssumption DEF InputsOK, Prune!RowWords
  <1> HIDE DEF a, k, n, w
  <1>5. /\ k \in 1 .. n /\ (k \in FittingRows(a, n) \/ k = 1)
        /\ \A j \in k + 1 .. n : j \notin FittingRows(a, n)
    BY <1>1 DEF Greatest
  <1>6. ASSUME NEW j \in 1 .. n PROVE Prune!Footprint(a, j) \in Nat
    <2>1. j \in Nat /\ j >= 1 /\ a + j <= Nodes
      BY <1>1, <1>2
    <2> QED
      BY <2>1, <1>1, <1>2, NeedIs
  <1>7. ASSUME k > 1
        PROVE  /\ 2 * Prune!Footprint(a, k) <= avail - w
               /\ chunk_bytes > 0 => Prune!Footprint(a, k) <= chunk_bytes
               /\ Prune!Footprint(a, k) <= BatchMax
    <2>1. k # 1
      BY <1>7, <1>5
    <2>2. Prune!Footprint(a, k) <= effective_batch_budget /\ Prune!Footprint(a, k) \in Nat
      BY <2>1, <1>5, <1>6 DEF FittingRows
    <2> QED
      BY <2>2, <1>3, <1>4
  <1>8. ASSUME NEW j \in k + 1 .. n PROVE Prune!Footprint(a, j) > effective_batch_budget
    <2>1. j \in 1 .. n
      BY <1>5, <1>1
    <2>2. ~(Prune!Footprint(a, j) <= effective_batch_budget)
      BY <2>1, <1>5 DEF FittingRows
    <2> QED
      BY <2>1, <2>2, <1>3, <1>6
  <1> QED
    BY <1>7, <1>8

-----------------------------------------------------------------------------
(* The candidates from reverse_edge_logic are numbers *)

AreIds == (\A p \in DOMAIN buf : buf[p] \in Nat) /\ (\A p \in DOMAIN ids : ids[p] \in Nat)

LEMMA AreIdsKept == ASSUME ReverseInv, AreIds, Next PROVE AreIds'
  <1>1. CASE Open
    <2>1. buf' = <<>> /\ ids' = ids
      BY <1>1 DEF Open
    <2>2. Len(<<>>) = 0 /\ DOMAIN <<>> = 1 .. Len(<<>>)
      OBVIOUS
    <2>3. \A p \in DOMAIN buf' : FALSE
      BY <2>1, <2>2
    <2> QED
      BY <2>1, <2>3 DEF AreIds
  <1>2. CASE CountNode
    BY <1>2 DEF CountNode, AreIds
  <1>3. CASE WriteIndex
    BY <1>3 DEF WriteIndex, AreIds
  <1>4. CASE CheckFeasible
    BY <1>4 DEF CheckFeasible, AreIds
  <1>5. CASE SkipStripe
    BY <1>5 DEF SkipStripe, AreIds
  <1>6. CASE BeginStripe
    BY <1>6 DEF BeginStripe, AreIds
  <1>7. CASE ScanNode
    <2>1. Scanning
      BY <1>7 DEF ScanNode, Scanning
    <2>2. PICK d \in ScanStates : d = FoldLeft(AddReverse, Forward, graph[u])
      BY <2>1, RecordScanned
    <2>3. buf' = d.buf /\ ids' = ids
      BY <2>2, <1>7 DEF ScanNode
    <2>4. Cell = Nat
      BY DEF Cell, AreIds
    <2>5. d.buf \in [0 .. IdsOf(lo, hi) - 1 -> Nat]
      BY <2>2, <2>4 DEF ScanStates
    <2> QED
      BY <2>3, <2>5 DEF AreIds
  <1>8. CASE WriteStripe
    BY <1>8 DEF WriteStripe, AreIds
  <1>9. CASE Finish
    BY <1>9 DEF Finish, AreIds
  <1> QED
    BY <1>1, <1>2, <1>3, <1>4, <1>5, <1>6, <1>7, <1>8, <1>9 DEF Next

-----------------------------------------------------------------------------
(* The files of the first pruning *)

\* The library's FlattenSeq chooses such a function.
IsFlat(g, n, s) == g = [i \in 1 .. n |-> IF i = 1 THEN s[i] ELSE g[i - 1] \o s[i]]

LEMMA FlatExists ==
    ASSUME NEW n \in Nat, NEW s
    PROVE  \E g : IsFlat(g, n, s)
  <1> DEFINE Good == {m \in 0 .. n : \E g : IsFlat(g, m, s)}
  <1>1. 0 \in Good
    <2> DEFINE g == [i \in 1 .. 0 |-> 0]
    <2>1. IsFlat(g, 0, s)
      BY DEF IsFlat
    <2> QED
      BY <2>1
  <1>2. ASSUME NEW m \in 1 .. n, m - 1 \in Good PROVE m \in Good
    <2>1. PICK g : IsFlat(g, m - 1, s)
      BY <1>2
    <2> DEFINE h == [i \in 1 .. m |-> IF i = m THEN (IF m = 1 THEN s[m] ELSE g[m - 1] \o s[m])
                                      ELSE g[i]]
    <2>2. ASSUME NEW i \in 1 .. m PROVE h[i] = IF i = 1 THEN s[i] ELSE h[i - 1] \o s[i]
      <3>1. CASE i = m /\ i = 1
        BY <3>1
      <3>2. CASE i = m /\ i # 1
        <4>1. m - 1 \in 1 .. m /\ m - 1 # m
          BY <3>2
        <4> QED
          BY <3>2, <4>1
      <3>3. CASE i # m
        <4>1. i \in 1 .. m - 1 /\ (i # 1 => i - 1 \in 1 .. m /\ i - 1 # m)
          BY <3>3
        <4>2. g[i] = IF i = 1 THEN s[i] ELSE g[i - 1] \o s[i]
          BY <4>1, <2>1 DEF IsFlat
        <4> QED
          BY <3>3, <4>1, <4>2
      <3> QED
        BY <3>1, <3>2, <3>3
    <2>3. h = [i \in 1 .. m |-> h[i]]
      OBVIOUS
    <2> HIDE DEF h
    <2>4. IsFlat(h, m, s)
      BY <2>2, <2>3 DEF IsFlat
    <2> QED
      BY <2>4
  <1> HIDE DEF Good
  <1>3. \A k \in 0 .. n : k \in Good
    BY <1>1, <1>2, Rounds
  <1>4. n \in Good
    BY <1>3
  <1> QED
    BY <1>4 DEF Good

ListsOf(lists, n) == DOMAIN lists = 0 .. n - 1 /\ \A v \in 0 .. n - 1 : lists[v] \in Seq(Nat)

\* All lists one after another, list by list.
IsJoined(F, n, lists) ==
    /\ F \in [0 .. n -> Seq(Nat)] /\ F[0] = <<>>
    /\ \A v \in 0 .. n - 1 : F[v + 1] = F[v] \o lists[v]

LEMMA FlatIs ==
    ASSUME NEW n \in Nat, NEW lists, ListsOf(lists, n), Cardinality(DOMAIN lists) = n
    PROVE  \E F : IsJoined(F, n, lists) /\ Prune!IdsOf(lists) = F[n]
  <1> DEFINE s == [i \in 1 .. n |-> lists[i - 1]]
             g == CHOOSE g : IsFlat(g, n, s)
             F == [k \in 0 .. n |-> IF k = 0 THEN <<>> ELSE g[k]]
  <1>1. s \in Seq(Seq(Nat)) /\ Len(s) = n
    <2>1. \A i \in 1 .. n : lists[i - 1] \in Seq(Nat)
      BY DEF ListsOf
    <2> QED
      BY <2>1
  <1>2. Prune!IdsOf(lists) = Prune!FlattenSeq(s)
    BY SameCardinality DEF Prune!IdsOf
  <1>3. \A i \in 1 .. n : s[i] = lists[i - 1]
    OBVIOUS
  <1> HIDE DEF s
  <1>4. Prune!FlattenSeq(s) = IF n = 0 THEN s ELSE g[n]
    BY <1>1 DEF Prune!FlattenSeq, IsFlat
  <1>5. IsFlat(g, n, s)
    BY FlatExists
  <1> HIDE DEF g
  <1>6. \A i \in 1 .. n : g[i] = IF i = 1 THEN s[i] ELSE g[i - 1] \o s[i]
    BY <1>5 DEF IsFlat
  <1>7. Prune!IdsOf(lists) = F[n]
    <2>1. n = 0 => s = <<>>
      BY <1>1
    <2> QED
      BY <2>1, <1>2, <1>4
  <1>8. F[0] = <<>>
    OBVIOUS
  <1>9. ASSUME NEW v \in 0 .. n - 1 PROVE F[v + 1] = IF v = 0 THEN lists[0] ELSE F[v] \o lists[v]
    <2>1. v + 1 \in 1 .. n /\ v + 1 \in 0 .. n /\ v + 1 # 0 /\ (v + 1) - 1 = v /\ v \in 0 .. n
          /\ (v + 1 = 1 <=> v = 0)
      OBVIOUS
    <2>2. F[v + 1] = g[v + 1] /\ (v # 0 => F[v] = g[v])
      BY <2>1
    <2>3. g[v + 1] = IF v = 0 THEN s[v + 1] ELSE g[v] \o s[v + 1]
      BY <2>1, <1>6
    <2>4. s[v + 1] = lists[v]
      BY <2>1, <1>3
    <2> QED
      BY <2>2, <2>3, <2>4
  <1>10. F = [k \in 0 .. n |-> F[k]]
    OBVIOUS
  <1> HIDE DEF F
  <1>11. \A k \in 0 .. n : F[k] \in Seq(Nat)
    <2> DEFINE A == {k \in 0 .. n : F[k] \in Seq(Nat)}
    <2>1. 0 \in A
      <3>1. <<>> \in Seq(Nat) /\ 0 \in 0 .. n
        OBVIOUS
      <3> QED
        BY <3>1, <1>8
    <2>2. ASSUME NEW k \in 1 .. n, k - 1 \in A PROVE k \in A
      <3> DEFINE v == k - 1
      <3>1. v \in 0 .. n - 1 /\ v + 1 = k /\ k \in 0 .. n /\ F[v] \in Seq(Nat)
        BY <2>2
      <3>2. lists[v] \in Seq(Nat) /\ (v = 0 => lists[0] \in Seq(Nat))
        BY <3>1 DEF ListsOf
      <3> HIDE DEF v
      <3>3. F[v + 1] \in Seq(Nat)
        <4>1. F[v + 1] = IF v = 0 THEN lists[0] ELSE F[v] \o lists[v]
          BY <3>1, <1>9
        <4>2. F[v] \o lists[v] \in Seq(Nat)
          BY <3>1, <3>2
        <4> QED
          BY <3>2, <4>1, <4>2, Zenon
      <3> QED
        BY <3>1, <3>3
    <2> HIDE DEF A
    <2>3. \A k \in 0 .. n : k \in A
      BY <2>1, <2>2, Rounds
    <2> QED
      BY <2>3 DEF A
  <1>12. \A v \in 0 .. n - 1 : F[v + 1] = F[v] \o lists[v]
    <2>1. ASSUME NEW v \in 0 .. n - 1, v = 0 PROVE F[v + 1] = F[v] \o lists[v]
      <3>1. lists[0] \in Seq(Nat) /\ F[0] = <<>>
        BY <2>1, <1>8 DEF ListsOf
      <3>2. <<>> \o lists[0] = lists[0]
        BY <3>1
      <3> QED
        BY <2>1, <3>1, <3>2, <1>9
    <2> QED
      BY <2>1, <1>9
  <1> QED
    BY <1>7, <1>8, <1>10, <1>11, <1>12 DEF IsJoined

LEMMA LastPart ==
    ASSUME NEW s \in Seq(Nat), NEW t \in Seq(Nat)
    PROVE  SubSeq(s \o t, Len(s) + 1, Len(s) + Len(t)) = t
  <1> DEFINE r == SubSeq(s \o t, Len(s) + 1, Len(s) + Len(t))
  <1>1. s \o t \in Seq(Nat) /\ Len(s \o t) = Len(s) + Len(t) /\ Len(s) \in Nat /\ Len(t) \in Nat
    OBVIOUS
  <1>2. r \in Seq(Nat) /\ Len(r) = Len(t)
    BY <1>1
  <1>3. \A i \in 1 .. Len(t) : r[i] = (s \o t)[Len(s) + i]
    BY <1>1
  <1>4. \A i \in 1 .. Len(t) : (s \o t)[Len(s) + i] = t[i]
    OBVIOUS
  <1> HIDE DEF r
  <1>5. r = t
    <2>1. \A x \in Seq(Nat) : x = [i \in 1 .. Len(x) |-> x[i]]
      OBVIOUS
    <2>2. r = [i \in 1 .. Len(t) |-> r[i]] /\ t = [i \in 1 .. Len(t) |-> t[i]]
      BY <2>1, <1>2
    <2>3. \A i \in 1 .. Len(t) : r[i] = t[i]
      BY <1>3, <1>4
    <2> QED
      BY <2>2, <2>3
  <1> QED
    BY <1>5 DEF r

IsOffsets(o, n, lists) ==
    o \in [0 .. n -> Nat] /\ o[0] = 0 /\ \A v \in 0 .. n - 1 : o[v + 1] = o[v] + Len(lists[v])

\* Each list lies at its offset.
LEMMA JoinedAt ==
    ASSUME NEW n \in Nat, NEW lists, ListsOf(lists, n), NEW F, NEW o,
           IsJoined(F, n, lists), IsOffsets(o, n, lists)
    PROVE  /\ \A m \in 0 .. n : Len(F[m]) = o[m]
           /\ \A v \in 0 .. n - 1 : SubSeq(F[n], o[v] + 1, o[v + 1]) = lists[v]
  <1>1. /\ \A m \in 0 .. n : F[m] \in Seq(Nat) /\ o[m] \in Nat
        /\ F[0] = <<>> /\ o[0] = 0
        /\ \A v \in 0 .. n - 1 : /\ F[v + 1] = F[v] \o lists[v] /\ o[v + 1] = o[v] + Len(lists[v])
                                 /\ lists[v] \in Seq(Nat)
    BY DEF IsJoined, IsOffsets, ListsOf
  <1> DEFINE A == {m \in 0 .. n : Len(F[m]) = o[m]}
             B == {m \in 0 .. n : \A v \in 0 .. m - 1 : SubSeq(F[m], o[v] + 1, o[v + 1]) = lists[v]}
  <1>2. ASSUME NEW m \in 1 .. n
        PROVE  m \in 0 .. n /\ m - 1 \in 0 .. n - 1 /\ m - 1 \in 0 .. n /\ (m - 1) + 1 = m
    OBVIOUS
  <1>3. \A m \in 0 .. n : m \in A
    <2>1. 0 \in A
      BY <1>1
    <2>2. ASSUME NEW m \in 1 .. n, m - 1 \in A PROVE m \in A
      <3> DEFINE p == m - 1
      <3>1. p \in 0 .. n - 1 /\ p \in 0 .. n /\ m \in 0 .. n /\ p + 1 = m
        BY <1>2
      <3>2. F[p] \in Seq(Nat) /\ Len(F[p]) = o[p]
        BY <2>2, <3>1, <1>1
      <3> HIDE DEF p
      <3>3. Len(F[p + 1]) = o[p + 1]
        <4>1. /\ F[p + 1] = F[p] \o lists[p] /\ o[p + 1] = o[p] + Len(lists[p])
              /\ lists[p] \in Seq(Nat)
          BY <3>1, <1>1
        <4>2. Len(F[p] \o lists[p]) = Len(F[p]) + Len(lists[p])
          <5>1. \A s, t \in Seq(Nat) : Len(s \o t) = Len(s) + Len(t)
            OBVIOUS
          <5> QED
            BY <3>2, <4>1, <5>1, Zenon
        <4> QED
          BY <3>2, <4>1, <4>2
      <3> QED
        BY <3>1, <3>3
    <2> HIDE DEF A
    <2> QED
      BY <2>1, <2>2, Rounds
  <1>4. \A m \in 0 .. n : Len(F[m]) = o[m]
    BY <1>3
  <1>5. \A v \in 0 .. n - 1 : o[v] <= o[v + 1]
    <2>1. ASSUME NEW v \in 0 .. n - 1 PROVE o[v] <= o[v + 1]
      <3>1. v \in 0 .. n
        OBVIOUS
      <3>2. o[v] \in Nat /\ lists[v] \in Seq(Nat) /\ o[v + 1] = o[v] + Len(lists[v])
        BY <3>1, <1>1
      <3> QED
        BY <3>2
    <2> QED
      BY <2>1
  <1>6. \A m \in 0 .. n : m \in B
    <2>1. 0 \in B
      OBVIOUS
    <2>2. ASSUME NEW m \in 1 .. n, m - 1 \in B PROVE m \in B
      <3> DEFINE p == m - 1
      <3>1. /\ p \in 0 .. n - 1 /\ p \in 0 .. n /\ m \in 0 .. n /\ p + 1 = m
            /\ \A v \in 0 .. m - 1 : v = p \/ v \in 0 .. p - 1
            /\ \A v \in 0 .. p - 1 : v \in 0 .. n - 1 /\ v \in 0 .. n /\ v + 1 \in 0 .. n
            /\ \A v \in 0 .. p - 1 : p \in v + 1 .. n
        BY <1>2
      <3>2. \A v \in 0 .. p - 1 : SubSeq(F[p], o[v] + 1, o[v + 1]) = lists[v]
        BY <2>2
      <3> HIDE DEF p
      <3> DEFINE s == F[p]
                 t == lists[p]
      <3>3. s \in Seq(Nat) /\ t \in Seq(Nat) /\ Len(s) = o[p] /\ F[m] = s \o t /\ o[m] = o[p] + Len(t)
            /\ o[p] \in Nat
        BY <3>1, <1>1, <1>4
      <3> HIDE DEF s, t
      <3>4. SubSeq(s \o t, Len(s) + 1, Len(s) + Len(t)) = t
        BY <3>3, LastPart
      <3>5. ASSUME NEW v \in 0 .. p - 1
            PROVE  SubSeq(F[m], o[v] + 1, o[v + 1]) = lists[v]
        <4>1. o[v] \in Nat /\ o[v + 1] \in Nat /\ SubSeq(s, o[v] + 1, o[v + 1]) = lists[v]
          BY <3>1, <3>2, <1>1 DEF s
        <4>2. o[v + 1] <= o[p]
          <5>1. v + 1 \in 0 .. n /\ p \in v + 1 .. n
            BY <3>1
          <5>2. o \in [0 .. n -> Nat]
            BY DEF IsOffsets
          <5> QED
            BY <5>1, <5>2, <1>5, Monotone
        <4>3. \A a, b \in Nat : b <= Len(s) => SubSeq(s \o t, a + 1, b) = SubSeq(s, a + 1, b)
          BY <3>3
        <4>4. SubSeq(s \o t, o[v] + 1, o[v + 1]) = SubSeq(s, o[v] + 1, o[v + 1])
          BY <4>1, <4>2, <4>3, <3>3
        <4> QED
          BY <4>1, <4>4, <3>3
      <3>6. SubSeq(F[m], o[p] + 1, o[p + 1]) = lists[p]
        BY <3>1, <3>3, <3>4 DEF t
      <3> QED
        BY <3>1, <3>5, <3>6
    <2> HIDE DEF B
    <2> QED
      BY <2>1, <2>2, Rounds
  <1>7. n \in B
    BY <1>6
  <1> QED
    BY <1>4, <1>7

\* Lines 182-204.
LEMMA RowsAre ==
    ASSUME NEW n \in Nat, NEW lists, ListsOf(lists, n), Cardinality(DOMAIN lists) = n
    PROVE  \E o : /\ IsOffsets(o, n, lists)
                  /\ Prune!RowsOf(lists) = [v \in 0 .. n - 1 |-> [off |-> o[v], cnt |-> Len(lists[v])]]
  <1> DEFINE Is(o) == o = [v \in 0 .. n |-> IF v = 0 THEN 0 ELSE o[v - 1] + Len(lists[v - 1])]
             o == CHOOSE o : Is(o)
             c == [v \in 0 .. n - 1 |-> Len(lists[v])]
  <1>1. Prune!RowsOf(lists) = [v \in 0 .. n - 1 |-> [off |-> o[v], cnt |-> Len(lists[v])]]
    BY SameCardinality DEF Prune!RowsOf, ListsOf
  <1>2. \E f : Is(f)
    <2>1. PICK f : IsSum(f, n, c)
      BY SumExists
    <2>2. ASSUME NEW v \in 0 .. n PROVE f[v] = IF v = 0 THEN 0 ELSE f[v - 1] + Len(lists[v - 1])
      <3>1. f[v] = IF v = 0 THEN 0 ELSE f[v - 1] + c[v - 1]
        BY <2>1 DEF IsSum
      <3>2. v # 0 => v - 1 \in 0 .. n - 1
        OBVIOUS
      <3> QED
        BY <3>1, <3>2
    <2>3. f = [v \in 0 .. n |-> f[v]]
      BY <2>1 DEF IsSum
    <2>4. Is(f)
      BY <2>2, <2>3
    <2> QED
      BY <2>4
  <1>3. Is(o)
    BY <1>2
  <1> HIDE DEF o
  <1>4. o[0] = 0 /\ o = [v \in 0 .. n |-> o[v]]
    BY <1>3
  <1>5. ASSUME NEW v \in 0 .. n - 1 PROVE o[v + 1] = o[v] + Len(lists[v]) /\ Len(lists[v]) \in Nat
    <2>1. v + 1 \in 0 .. n /\ v + 1 # 0 /\ (v + 1) - 1 = v
      OBVIOUS
    <2>2. lists[v] \in Seq(Nat)
      BY DEF ListsOf
    <2> QED
      BY <1>3, <2>1, <2>2
  <1> HIDE DEF Is
  <1>6. \A v \in 0 .. n : o[v] \in Nat
    <2> DEFINE Good == {v \in 0 .. n : o[v] \in Nat}
    <2>1. 0 \in Good
      BY <1>4
    <2>2. ASSUME NEW v \in 1 .. n, v - 1 \in Good PROVE v \in Good
      <3>1. v - 1 \in 0 .. n - 1 /\ (v - 1) + 1 = v
        OBVIOUS
      <3>2. o[(v - 1) + 1] = o[v - 1] + Len(lists[v - 1]) /\ Len(lists[v - 1]) \in Nat
        BY <3>1, <1>5
      <3> QED
        BY <2>2, <3>1, <3>2
    <2> HIDE DEF Good
    <2>3. \A v \in 0 .. n : v \in Good
      BY <2>1, <2>2, Rounds
    <2> QED
      BY <2>3 DEF Good
  <1>7. IsOffsets(o, n, lists)
    BY <1>4, <1>5, <1>6 DEF IsOffsets
  <1> QED
    BY <1>1, <1>7

-----------------------------------------------------------------------------
(* The three steps together *)

\* In a pruned list nothing is nearer than the first.
LEMMA FirstNearest ==
    ASSUME CodesOK, T = 1, NEW v \in DOMAIN code, NEW C, C \subseteq Others(v), NEW l,
           ListOK(v, C, l), NEW w \in C
    PROVE  /\ Len(l) >= 1 /\ l[1] \in C /\ l[1] \in Others(v)
           /\ Prune!Dist(v, l[1]) <= Prune!Dist(v, w)
  <1>1. /\ l \in Seq(Others(v)) /\ Prune!ToSet(l) \subseteq C /\ Prune!WellPruned(v, C, l)
        /\ Len(l) \in Nat
    BY SameToSet DEF ListOK, Short
  <1>2. PICK n \in 0 .. Len(l) :
          LET kept == {l[i] : i \in 1 .. n}
              Occluded(x) == \E s \in kept : Prune!Nearer(v, s, x) /\ Prune!Dist(s, x) <= Prune!Dist(v, x)
          IN  /\ \A i, j \in 1 .. Len(l) : i < j /\ (j <= n \/ i > n) => Prune!Nearer(v, l[i], l[j])
              /\ \A x \in C \ kept : \/ Occluded(x)
                                     \/ n = R /\ \A s \in kept : Prune!Nearer(v, s, x)
    BY <1>1 DEF Prune!WellPruned
  <1> DEFINE kept == {l[i] : i \in 1 .. n}
  <1>3. \A i, j \in 1 .. n : i < j => Prune!Nearer(v, l[i], l[j])
    BY <1>1, <1>2
  <1>4. \A x \in C \ kept : \/ \E s \in kept : Prune!Nearer(v, s, x)
                            \/ n = R /\ \A s \in kept : Prune!Nearer(v, s, x)
    BY <1>2
  <1>5. n >= 1
    <2>1. ASSUME n = 0 PROVE FALSE
      <3>1. kept = {}
        BY <2>1
      <3> HIDE DEF kept
      <3>2. n = R
        BY <3>1, <1>4
      <3> QED
        BY <2>1, <3>2 DEF CodesOK
    <2> QED
      BY <2>1, <1>1
  <1>6. 1 \in 1 .. n /\ 1 \in 1 .. Len(l) /\ Len(l) >= 1 /\ n \in Nat
    BY <1>1, <1>5
  <1>7. /\ \A i \in 1 .. n : l[i] \in Others(v)
        /\ l[1] \in kept /\ l[1] \in C
    <2>1. \A i \in 1 .. Len(l) : l[i] \in Prune!ToSet(l)
      BY <1>1 DEF Prune!ToSet
    <2> QED
      BY <2>1, <1>1, <1>6
  <1>8. ASSUME NEW s \in kept
        PROVE  /\ s \in DOMAIN code
               /\ Prune!Dist(v, l[1]) <= Prune!Dist(v, s)
    <2>1. PICK i \in 1 .. n : s = l[i]
      OBVIOUS
    <2>2. l[1] \in DOMAIN code /\ s \in DOMAIN code
      BY <2>1, <1>6, <1>7 DEF Others
    <2>3. CASE i = 1
      <3>1. Prune!Dist(v, s) \in Nat /\ s = l[1]
        BY <2>1, <2>2, <2>3, DistType
      <3> QED
        BY <3>1, <2>2
    <2>4. CASE i # 1
      <3>1. Prune!Nearer(v, l[1], l[i])
        BY <2>4, <1>3, <1>6
      <3> QED
        BY <3>1, <2>1, <2>2, NearerOrder
    <2> QED
      BY <2>3, <2>4
  <1> HIDE DEF kept
  <1>9. Prune!Dist(v, l[1]) <= Prune!Dist(v, w)
    <2>1. CASE w \in kept
      BY <2>1, <1>8
    <2>2. CASE w \notin kept
      <3>1. PICK s \in kept : Prune!Nearer(v, s, w)
        BY <2>2, <1>4, <1>7
      <3>2. w \in DOMAIN code /\ s \in DOMAIN code /\ l[1] \in DOMAIN code
        BY <1>6, <1>7, <1>8 DEF Others
      <3>3. Prune!Dist(v, s) <= Prune!Dist(v, w) /\ Prune!Dist(v, l[1]) <= Prune!Dist(v, s)
        BY <3>1, <3>2, <1>8, NearerOrder
      <3>4. Prune!Dist(v, s) \in Nat /\ Prune!Dist(v, w) \in Nat /\ Prune!Dist(v, l[1]) \in Nat
        BY <3>2, DistType
      <3> QED
        BY <3>3, <3>4
    <2> QED
      BY <2>1, <2>2
  <1> QED
    BY <1>6, <1>7, <1>9

\* A node occurs in a list iff it is one of its values.
LEMMA OccursIff ==
    ASSUME NEW D, NEW s \in Seq(D), NEW w
    PROVE  Occurrences(w, s) \in Nat /\ (Occurrences(w, s) > 0 <=> w \in ToSet(s))
  <1> DEFINE S == {i \in DOMAIN s : s[i] = w}
  <1>1. Occurrences(w, s) = Cardinality(S)
    BY DEF Occurrences
  <1>2. IsFiniteSet(S)
    <2>1. IsFiniteSet(1 .. Len(s))
      BY FS_Interval
    <2>2. S \subseteq 1 .. Len(s)
      OBVIOUS
    <2> QED
      BY <2>1, <2>2, FS_Subset
  <1>3. S # {} <=> w \in ToSet(s)
    BY DEF ToSet
  <1> HIDE DEF S
  <1>4. Cardinality(S) \in Nat /\ (Cardinality(S) = 0 <=> S = {})
    BY <1>2, FS_CardinalityType, FS_EmptySet
  <1> QED
    BY <1>1, <1>3, <1>4

\* The first graph keeps a nearest one of the candidates found for a node.
FirstGraph ==
    T = 1 => \A v \in DOMAIN code : \A w \in offered[v] :
                 /\ Len(graph[v]) >= 1 /\ graph[v][1] \in Others(v)
                 /\ w \in DOMAIN code /\ Prune!Dist(v, graph[v][1]) <= Prune!Dist(v, w)

SecondCandidates == \A v \in DOMAIN code : Own(v) = Neighbours(v)

Phases == {"first", "reverse", "final", "ended"}
History ==
    /\ phase \in Phases
    /\ phase = "first" => pc = "start" /\ \A v \in DOMAIN code : offered[v] = Own(v)
    /\ phase \in {"reverse", "final"} => DOMAIN graph = DOMAIN code /\ FirstGraph
    /\ phase = "final" => pc = "done" /\ SecondCandidates
    /\ phase = "ended" /\ pc = "done" => DOMAIN graph = DOMAIN code /\ FirstGraph /\ SecondCandidates

StagesInv == ReverseInv /\ AreIds /\ PruneInv /\ History

-----------------------------------------------------------------------------
(* Initial states *)

LEMMA GivenReverse ==
    ASSUME NEW g, NEW o \in StripeOptions, Given(g, o), IsFiniteSet(DOMAIN g),
           DOMAIN g = 0 .. Cardinality(DOMAIN g) - 1, \A v \in DOMAIN g : g[v] \in Seq(Nat)
    PROVE  ReverseInv /\ AreIds
  <1>1. graph = g /\ budget = o.budget /\ max_mib = o.max_mib /\ pc = "start"
        /\ buf = <<>> /\ ids = <<>>
    BY DEF Given
  <1>2. GraphOK
    BY <1>1, OptionsAssumption DEF GraphOK, N
  <1>3. CountPass /\ StripeOK /\ Filled /\ pc \in Labels
    BY <1>1 DEF CountPass, StripeOK, Filled, Labels
  <1>4. AreIds
    <2>1. Len(<<>>) = 0 /\ DOMAIN <<>> = 1 .. Len(<<>>)
      OBVIOUS
    <2>2. \A p \in DOMAIN <<>> : FALSE
      BY <2>1
    <2> QED
      BY <1>1, <2>2 DEF AreIds
  <1> QED
    BY <1>2, <1>3, <1>4 DEF ReverseInv

LEMMA GivenPrune ==
    ASSUME NEW f \in Files, NEW o \in PruneOptions, Prune!Given(f, o)
    PROVE  PruneInv /\ DOMAIN code = DOMAIN f.lists /\ \A v \in DOMAIN code : ListOf(v) = f.lists[v]
  <1> DEFINE lists == f.lists
             n == Cardinality(DOMAIN lists)
  <1>1. /\ IsFiniteSet(DOMAIN lists) /\ DOMAIN lists = 0 .. n - 1 /\ DOMAIN f.code = DOMAIN lists
        /\ \A v \in DOMAIN lists : lists[v] \in Seq(Nat) /\ f.code[v] \in Nat
    BY FilesAssumption
  <1>2. /\ idx = Prune!RowsOf(lists) /\ cand_ids = Prune!IdsOf(lists) /\ code = f.code
        /\ R = o.R /\ T = o.T /\ avail = o.avail /\ chunk_bytes = o.chunk_bytes
        /\ prune_pc = "start"
    BY DEF Prune!Given
  <1> HIDE DEF lists
  <1>3. n \in Nat
    BY <1>1, FS_CardinalityType
  <1>4. CodesOK /\ DOMAIN code = 0 .. n - 1 /\ avail \in 0 .. Wrap - 1 /\ chunk_bytes \in Nat
    BY <1>1, <1>2, PruneOptionsAssumption DEF CodesOK, Nodes
  <1>5. ListsOf(lists, n)
    BY <1>1 DEF ListsOf
  <1>6. Cardinality(DOMAIN lists) = n
    OBVIOUS
  <1> HIDE DEF n
  <1>7. PICK F : IsJoined(F, n, lists) /\ Prune!IdsOf(lists) = F[n]
    BY <1>6, <1>3, <1>5, FlatIs
  <1>8. PICK off : /\ IsOffsets(off, n, lists)
                   /\ Prune!RowsOf(lists) = [v \in 0 .. n - 1 |-> [off |-> off[v], cnt |-> Len(lists[v])]]
    BY <1>6, <1>3, <1>5, RowsAre
  <1>9. /\ \A v \in 0 .. n : Len(F[v]) = off[v]
        /\ \A v \in 0 .. n - 1 : SubSeq(F[n], off[v] + 1, off[v + 1]) = lists[v]
    BY <1>3, <1>5, <1>7, <1>8, JoinedAt
  <1>10. /\ n \in 0 .. n /\ cand_ids = F[n] /\ cand_ids \in Seq(Nat) /\ Len(cand_ids) = off[n]
    BY <1>2, <1>3, <1>7, <1>9 DEF IsJoined
  <1>11. /\ off \in [0 .. n -> Nat]
         /\ \A v \in 0 .. n - 1 : off[v + 1] = off[v] + Len(lists[v]) /\ Len(lists[v]) \in Nat
    BY <1>5, <1>8 DEF IsOffsets, ListsOf
  <1>12. ASSUME NEW v \in 0 .. n - 1
         PROVE  /\ v \in 0 .. n /\ v + 1 \in 0 .. n
                /\ off[v] \in Nat /\ off[v + 1] \in Nat /\ off[v + 1] <= off[n] /\ off[v] <= off[v + 1]
                /\ idx[v] = [off |-> off[v], cnt |-> Len(lists[v])]
                /\ Off(v) = off[v] /\ End(v) = off[v + 1] /\ idx[v] \in [off : Nat, cnt : Nat]
    <2>1. v \in 0 .. n /\ v + 1 \in 0 .. n /\ n \in v + 1 .. n
      BY <1>3
    <2>2. off[v] \in Nat /\ off[v + 1] \in Nat /\ off[v] <= off[v + 1]
      <3>1. off[v] \in Nat /\ off[v + 1] \in Nat
        BY <2>1, <1>11
      <3>2. off[v + 1] = off[v] + Len(lists[v]) /\ Len(lists[v]) \in Nat
        BY <1>11
      <3> QED
        BY <3>1, <3>2
    <2>3. \A x \in 0 .. n - 1 : off[x] <= off[x + 1]
      <3>1. ASSUME NEW x \in 0 .. n - 1 PROVE off[x] <= off[x + 1]
        <4>1. x \in 0 .. n
          BY <1>3
        <4>2. off[x] \in Nat /\ Len(lists[x]) \in Nat /\ off[x + 1] = off[x] + Len(lists[x])
          BY <4>1, <1>11
        <4> QED
          BY <4>2
      <3> QED
        BY <3>1
    <2>4. off[v + 1] <= off[n]
      BY <2>1, <2>3, <1>3, <1>11, Monotone
    <2>5. idx[v] = [off |-> off[v], cnt |-> Len(lists[v])]
      BY <1>2, <1>8
    <2>6. Off(v) = off[v] /\ End(v) = off[v] + Len(lists[v])
      BY <2>5 DEF Off, End
    <2> QED
      BY <2>1, <2>2, <2>4, <2>5, <2>6, <1>11
  <1>13. RowsOK
    <2>1. DOMAIN idx = DOMAIN code
      BY <1>2, <1>4, <1>8
    <2>2. ASSUME NEW v \in DOMAIN code
          PROVE  /\ idx[v] \in [off : Nat, cnt : Nat] /\ End(v) <= Len(cand_ids)
                 /\ v + 1 \in DOMAIN code => Off(v + 1) = End(v)
      <3>1. v \in 0 .. n - 1
        BY <1>4
      <3>2. idx[v] \in [off : Nat, cnt : Nat] /\ End(v) = off[v + 1] /\ off[v + 1] <= off[n]
        BY <3>1, <1>12
      <3>3. v + 1 \in DOMAIN code => Off(v + 1) = off[v + 1]
        BY <1>4, <1>12
      <3> QED
        BY <3>2, <3>3, <1>10
    <2> QED
      BY <2>1, <2>2, <1>10 DEF RowsOK
  <1>14. ASSUME NEW v \in DOMAIN code PROVE ListOf(v) = lists[v]
    <2>1. v \in 0 .. n - 1
      BY <1>4
    <2>2. Off(v) = off[v] /\ End(v) = off[v + 1] /\ SubSeq(F[n], off[v] + 1, off[v + 1]) = lists[v]
      BY <2>1, <1>9, <1>12
    <2> QED
      BY <2>2, <1>10 DEF ListOf
  <1>15. PruneInv
    BY <1>2, <1>4, <1>13
       DEF PruneInv, PruneLabels, InputsOK, Budgeted, BatchOK, Written, Running, Position
  <1> QED
    BY <1>1, <1>2, <1>14, <1>15 DEF lists

LEMMA StagesInitOK == StagesInit => StagesInv
  <1> SUFFICES ASSUME StagesInit PROVE StagesInv
    OBVIOUS
  <1>1. PICK f \in Files, o \in PruneOptions, s \in StripeOptions :
          \/ /\ phase = "first"
             /\ offered = [v \in DOMAIN f.lists |-> Prune!ValidOf(v, f.lists[v], DOMAIN f.lists)]
             /\ Prune!Given(f, o) /\ Given(<<>>, s)
          \/ /\ phase = "reverse" /\ f \in NoCandidates
             /\ offered = [v \in DOMAIN f.lists |-> {}]
             /\ \E g \in Graphs : DOMAIN g = DOMAIN f.lists /\ Given(g, s)
             /\ Prune!Given(f, o)
    BY DEF StagesInit
  <1>2. /\ PruneInv /\ DOMAIN code = DOMAIN f.lists
        /\ \A v \in DOMAIN code : ListOf(v) = f.lists[v]
    BY <1>1, GivenPrune
  <1>3. CASE /\ phase = "first"
             /\ offered = [v \in DOMAIN f.lists |-> Prune!ValidOf(v, f.lists[v], DOMAIN f.lists)]
             /\ Given(<<>>, s)
    <2>1. ReverseInv /\ AreIds
      <3>1. Len(<<>>) = 0 /\ DOMAIN <<>> = 1 .. Len(<<>>)
        OBVIOUS
      <3>2. DOMAIN <<>> = {}
        BY <3>1
      <3>3. IsFiniteSet({}) /\ Cardinality({}) = 0
        BY FS_EmptySet
      <3>4. 0 .. 0 - 1 = {}
        OBVIOUS
      <3>5. /\ IsFiniteSet(DOMAIN <<>>) /\ DOMAIN <<>> = 0 .. Cardinality(DOMAIN <<>>) - 1
            /\ \A v \in DOMAIN <<>> : <<>>[v] \in Seq(Nat)
        BY <3>2, <3>3, <3>4
      <3> QED
        BY <3>5, <1>3, GivenReverse
    <2>2. pc = "start"
      BY <1>3 DEF Given
    <2>3. \A v \in DOMAIN code : offered[v] = Own(v)
      BY <1>2, <1>3, SameToSet DEF Prune!ValidOf, Own, Others
    <2> QED
      BY <1>2, <1>3, <2>1, <2>2, <2>3 DEF StagesInv, History, Phases
  <1>4. CASE /\ phase = "reverse" /\ offered = [v \in DOMAIN f.lists |-> {}]
             /\ \E g \in Graphs : DOMAIN g = DOMAIN f.lists /\ Given(g, s)
    <2>1. PICK g \in Graphs : DOMAIN g = DOMAIN f.lists /\ Given(g, s)
      BY <1>4
    <2>2. ReverseInv /\ AreIds
      BY <2>1, GivenReverse, GraphsAssumption
    <2>3. DOMAIN graph = DOMAIN code
      BY <1>2, <2>1 DEF Given
    <2>4. \A v \in DOMAIN code : offered[v] = {}
      BY <1>2, <1>4
    <2>5. FirstGraph
      BY <2>4 DEF FirstGraph
    <2> QED
      BY <1>2, <1>4, <2>2, <2>3, <2>5 DEF StagesInv, History, Phases
  <1> QED
    BY <1>1, <1>3, <1>4

-----------------------------------------------------------------------------
(* The steps *)

\* Nothing but these decides what the history says.
LEMMA SameHistory ==
    ASSUME UNCHANGED <<offered, graph, idx, cand_ids, code, R, T>>
    PROVE  (FirstGraph' <=> FirstGraph) /\ (SecondCandidates' <=> SecondCandidates)
  <1>1. \A v : Own(v)' = Own(v)
    BY SameLists
  <1>2. \A a, b : Prune!Dist(a, b)' = Prune!Dist(a, b)
    BY DEF Prune!Dist
  <1>3. \A v : Neighbours(v)' = Neighbours(v)
    BY DEF Neighbours
  <1>4. FirstGraph' <=> FirstGraph
    BY <1>2 DEF FirstGraph, Others, Prune!Dist
  <1>5. SecondCandidates' <=> SecondCandidates
    BY <1>1, <1>3 DEF SecondCandidates
  <1> QED
    BY <1>4, <1>5

LEMMA NextKeepsGraph == ASSUME Next PROVE UNCHANGED <<graph, budget, max_mib>> /\ pc # "done"
  BY DEF Next, Open, CountNode, WriteIndex, CheckFeasible, SkipStripe, BeginStripe, ScanNode,
         WriteStripe, Finish, inputs

LEMMA PruneKeepsInputs == ASSUME Prune!Next PROVE UNCHANGED Prune!inputs
  BY DEF Prune!Next, Prune!Start, Prune!ReadMeta, Prune!PruneBatch, Prune!EndMeta, Prune!WriteHeader

LEMMA PruneStepKeeps == ASSUME StagesInv, PruneStep PROVE StagesInv'
  <1>1. Prune!Next /\ UNCHANGED <<phase, offered>> /\ UNCHANGED vars
    BY DEF PruneStep
  <1>2. UNCHANGED <<idx, cand_ids, code, R, T>> /\ UNCHANGED <<graph, pc, buf, ids>>
    BY <1>1, PruneKeepsInputs DEF Prune!inputs, vars
  <1>3. PruneInv'
    BY <1>1, PruneInvInductive DEF StagesInv
  <1>4. ReverseInv' /\ AreIds'
    BY <1>1, <1>2, ReverseInvStutters DEF StagesInv, AreIds
  <1>5. (FirstGraph' <=> FirstGraph) /\ (SecondCandidates' <=> SecondCandidates)
        /\ \A v : Own(v)' = Own(v)
    BY <1>1, <1>2, SameHistory, SameLists
  <1>6. History'
    BY <1>1, <1>2, <1>5 DEF StagesInv, History
  <1> QED
    BY <1>3, <1>4, <1>6 DEF StagesInv

LEMMA ReverseStepKeeps == ASSUME StagesInv, ReverseStep PROVE StagesInv'
  <1>1. Next /\ phase = "reverse" /\ UNCHANGED <<phase, offered>> /\ UNCHANGED pruning
    BY DEF ReverseStep
  <1>2. UNCHANGED <<idx, cand_ids, code, R, T>> /\ graph' = graph
    BY <1>1, NextKeepsGraph DEF pruning
  <1>3. PruneInv'
    BY <1>1, PruneStutters DEF StagesInv
  <1>4. ReverseInv' /\ AreIds'
    BY <1>1, ReverseInvInductive, AreIdsKept DEF StagesInv
  <1>5. FirstGraph' <=> FirstGraph
    BY <1>1, <1>2, SameHistory
  <1>6. History'
    BY <1>1, <1>2, <1>5 DEF StagesInv, History
  <1> QED
    BY <1>3, <1>4, <1>6 DEF StagesInv

LEMMA EndPipelineKeeps == ASSUME StagesInv, EndPipeline PROVE StagesInv'
  <1>1. phase' = "ended" /\ UNCHANGED offered /\ UNCHANGED vars /\ UNCHANGED pruning
        /\ \/ phase = "final"
           \/ phase = "first"
           \/ phase = "reverse" /\ pc \in Failures
    BY DEF EndPipeline
  <1>2. UNCHANGED <<idx, cand_ids, code, R, T>> /\ UNCHANGED <<graph, pc, buf, ids>>
    BY <1>1 DEF pruning, vars
  <1>3. PruneInv' /\ ReverseInv' /\ AreIds'
    BY <1>1, <1>2, PruneStutters, ReverseInvStutters DEF StagesInv, AreIds
  <1>4. (FirstGraph' <=> FirstGraph) /\ (SecondCandidates' <=> SecondCandidates)
    BY <1>1, <1>2, SameHistory
  <1>5. pc = "done" => phase = "final"
    BY <1>1 DEF StagesInv, History, Failures
  <1>6. History'
    BY <1>1, <1>2, <1>4, <1>5 DEF StagesInv, History, Phases
  <1> QED
    BY <1>3, <1>6 DEF StagesInv

LEMMA GiveGraphKeeps == ASSUME StagesInv, GiveGraph PROVE StagesInv'
  <1>1. /\ phase = "first" /\ prune_pc = "done" /\ phase' = "reverse" /\ pc' = "start"
        /\ graph' = [v \in DOMAIN code |-> out[v + 1]]
        /\ UNCHANGED <<offered, budget, max_mib, buf, ids>> /\ UNCHANGED pruning
    BY DEF GiveGraph
  <1>2. UNCHANGED <<idx, cand_ids, code, R, T>>
    BY <1>1 DEF pruning
  <1>3. PruneInv' /\ AreIds'
    BY <1>1, PruneStutters DEF StagesInv, AreIds
  <1>4. /\ CodesOK /\ ListsOK /\ Len(out) = Nodes /\ Nodes \in Nat
        /\ IsFiniteSet(DOMAIN code) /\ DOMAIN code = 0 .. Nodes - 1
    BY <1>1, NodesType DEF StagesInv, PruneInv, InputsOK, Written, Running, Position, CodesOK
  <1>5. ASSUME NEW v \in DOMAIN code
        PROVE  v + 1 \in 1 .. Len(out) /\ out[v + 1] \in Seq(Nat) /\ ListOK(v, Own(v), out[v + 1])
    BY <1>4 DEF ListsOK
  <1>6. DOMAIN graph' = DOMAIN code /\ \A v \in DOMAIN code : graph'[v] = out[v + 1]
    BY <1>1
  <1>7. ReverseInv'
    <2>1. N' = Nodes
      BY <1>6 DEF N, Nodes
    <2>2. budget \in Nat /\ max_mib \in Nat
      BY DEF StagesInv, ReverseInv, GraphOK
    <2>3. GraphOK'
      BY <2>1, <2>2, <1>1, <1>4, <1>5, <1>6 DEF GraphOK
    <2>4. CountPass' /\ StripeOK' /\ Filled' /\ pc' \in Labels
      BY <1>1 DEF CountPass, StripeOK, Filled, Labels
    <2> QED
      BY <2>3, <2>4 DEF ReverseInv
  <1>8. ASSUME T = 1, NEW v \in DOMAIN code, NEW w \in offered[v]
        PROVE  /\ Len(out[v + 1]) >= 1 /\ out[v + 1][1] \in Others(v)
               /\ w \in DOMAIN code /\ Prune!Dist(v, out[v + 1][1]) <= Prune!Dist(v, w)
    <2>1. w \in Own(v) /\ Own(v) \subseteq Others(v)
      BY <1>1 DEF StagesInv, History, Own
    <2>2. w \in DOMAIN code
      BY <2>1 DEF Others
    <2> QED
      BY <2>1, <2>2, <1>4, <1>5, <1>8, FirstNearest
  <1>9. FirstGraph'
    <2>1. \A a, b : Prune!Dist(a, b)' = Prune!Dist(a, b)
      BY <1>2 DEF Prune!Dist
    <2>2. \A v : Others(v)' = Others(v)
      BY <1>2 DEF Others
    <2>3. T' = T /\ code' = code /\ offered' = offered
      BY <1>1, <1>2
    <2>4. ASSUME T' = 1, NEW v \in DOMAIN code', NEW w \in offered'[v]
          PROVE  /\ Len(graph'[v]) >= 1 /\ graph'[v][1] \in Others(v)'
                 /\ w \in DOMAIN code' /\ Prune!Dist(v, graph'[v][1]) <= Prune!Dist(v, w)
      <3>1. v \in DOMAIN code /\ w \in offered[v] /\ T = 1 /\ graph'[v] = out[v + 1]
        BY <2>3, <2>4, <1>6
      <3> QED
        BY <3>1, <2>2, <2>3, <1>8
    <2> QED
      BY <2>1, <2>2, <2>3, <2>4 DEF FirstGraph, Others, Prune!Dist
  <1>10. History'
    BY <1>1, <1>2, <1>6, <1>9 DEF History, Phases
  <1> QED
    BY <1>3, <1>7, <1>10 DEF StagesInv

LEMMA PartIs ==
    ASSUME NEW z \in Seq(Nat), NEW a \in Nat, NEW c \in Nat, a + c <= Len(z)
    PROVE  /\ SubSeq(z, a + 1, a + c) \in Seq(Nat) /\ Len(SubSeq(z, a + 1, a + c)) = c
           /\ \A i \in 1 .. c : SubSeq(z, a + 1, a + c)[i] = z[a + i]
  <1>1. Len(SubSeq(z, a + 1, a + c)) = c
    OBVIOUS
  <1>2. SubSeq(z, a + 1, a + c) \in Seq(Nat)
    OBVIOUS
  <1>3. ASSUME NEW i \in 1 .. c PROVE SubSeq(z, a + 1, a + c)[i] = z[a + i]
    <2> DEFINE m == a + 1
               e == a + c
               x == m + i - 1
    <2>1. m \in Nat /\ m >= 1 /\ e \in Nat /\ e <= Len(z) /\ i \in 1 .. e - m + 1 /\ x = a + i
      OBVIOUS
    <2> HIDE DEF m, e
    <2>2. SubSeq(z, m, e)[i] = z[x]
      <3>1. \A j \in m .. e : z[j] \in Nat
        BY <2>1
      <3> QED
        BY <2>1, <3>1, SubSeqProperties
    <2> HIDE DEF x
    <2>3. SubSeq(z, m, e)[i] = z[a + i]
      BY <2>1, <2>2
    <2> QED
      BY <2>3 DEF m, e
  <1> QED
    BY <1>1, <1>2, <1>3

\* What reverse_edge_logic wrote, read as cand.idx and cand.ids.
LEMMA GiveCandidatesKeeps == ASSUME StagesInv, GiveCandidates PROVE StagesInv'
  <1> DEFINE n == off_elems[N]
  <1>1. /\ phase = "reverse" /\ pc = "done" /\ phase' = "final" /\ prune_pc' = "start"
        /\ idx' = [v \in DOMAIN graph |-> [off |-> off_elems[v], cnt |-> cnt[v]]]
        /\ cand_ids' = [x \in 1 .. n |-> ids[x - 1]]
        /\ UNCHANGED <<offered, code, R, T, avail, chunk_bytes>> /\ UNCHANGED vars
    BY DEF GiveCandidates
  <1>2. UNCHANGED <<graph, pc, buf, ids>>
    BY <1>1 DEF vars
  <1>3. ReverseInv' /\ AreIds'
    BY <1>1, <1>2, ReverseInvStutters DEF StagesInv, AreIds
  <1>4. /\ DOMAIN graph = DOMAIN code /\ FirstGraph /\ CodesOK /\ GraphOK
        /\ avail \in 0 .. Wrap - 1 /\ chunk_bytes \in Nat
    BY <1>1 DEF StagesInv, History, PruneInv, InputsOK, ReverseInv
  <1>5. /\ N \in Nat /\ DOMAIN code = 0 .. N - 1 /\ pc \in Counting
    BY <1>1, <1>4, NodesNat DEF GraphOK, Counting
  <1>6. /\ off_elems \in [0 .. N -> Nat] /\ \A v \in 0 .. N - 1 : off_elems[v] <= off_elems[v + 1]
        /\ \A v \in 0 .. N - 1 : cnt[v] \in Nat /\ off_elems[v + 1] = off_elems[v] + cnt[v]
    BY <1>5, CountedSegments DEF StagesInv, Segments
  <1>7. n \in Nat /\ ids = [p \in 0 .. n - 1 |-> ids[p]]
    <2>1. N \in 0 .. N
      BY <1>5
    <2> QED
      BY <2>1, <1>1, <1>6 DEF StagesInv, ReverseInv, CountPass
  <1>8. \A x \in 1 .. n : x - 1 \in 0 .. n - 1 /\ ids[x - 1] \in Nat
    <2>1. \A p \in 0 .. n - 1 : ids[p] \in Nat
      BY <1>7 DEF StagesInv, AreIds
    <2>2. \A x \in 1 .. n : x - 1 \in 0 .. n - 1
      BY <1>7
    <2> QED
      BY <2>1, <2>2
  <1>9. CodesOK'
    BY <1>1, <1>4 DEF CodesOK, Nodes
  <1> HIDE DEF n
  <1>10. /\ cand_ids' \in Seq(Nat) /\ Len(cand_ids') = n
         /\ \A x \in 1 .. n : cand_ids'[x] = ids[x - 1]
    <2>1. cand_ids' \in [1 .. n -> Nat]
      BY <1>1, <1>8
    <2> QED
      BY <2>1, <1>1, <1>7
  <1>11. ASSUME NEW v \in 0 .. N - 1
         PROVE  /\ off_elems[v] \in Nat /\ off_elems[v + 1] \in Nat /\ cnt[v] \in Nat
                /\ off_elems[v + 1] = off_elems[v] + cnt[v] /\ off_elems[v + 1] <= n
                /\ idx'[v] = [off |-> off_elems[v], cnt |-> cnt[v]]
                /\ Off(v)' = off_elems[v] /\ End(v)' = off_elems[v + 1]
    <2>1. v \in 0 .. N /\ v + 1 \in 0 .. N /\ N \in v + 1 .. N
      BY <1>5
    <2>2. off_elems[v] \in Nat /\ off_elems[v + 1] \in Nat /\ off_elems[v + 1] <= off_elems[N]
      BY <2>1, <1>5, <1>6, Monotone
    <2>3. idx'[v] = [off |-> off_elems[v], cnt |-> cnt[v]]
      BY <1>1, <1>4, <1>5
    <2>4. Off(v)' = off_elems[v] /\ End(v)' = off_elems[v] + cnt[v]
      BY <2>3 DEF Off, End
    <2> QED
      BY <2>2, <2>3, <2>4, <1>6 DEF n
  <1>12. RowsOK'
    <2>1. DOMAIN idx' = DOMAIN code'
      BY <1>1, <1>4
    <2>2. ASSUME NEW v \in DOMAIN code'
          PROVE  /\ idx'[v] \in [off : Nat, cnt : Nat] /\ End(v)' <= Len(cand_ids')
                 /\ v + 1 \in DOMAIN code' => Off(v + 1)' = End(v)'
      <3>1. v \in 0 .. N - 1 /\ (v + 1 \in DOMAIN code' => v + 1 \in 0 .. N - 1)
        BY <1>1, <1>5
      <3>2. idx'[v] \in [off : Nat, cnt : Nat] /\ End(v)' = off_elems[v + 1] /\ off_elems[v + 1] <= n
        <4>1. /\ off_elems[v] \in Nat /\ cnt[v] \in Nat /\ off_elems[v + 1] <= n
              /\ idx'[v] = [off |-> off_elems[v], cnt |-> cnt[v]] /\ End(v)' = off_elems[v + 1]
          BY <3>1, <1>11
        <4> HIDE DEF n
        <4> QED
          BY <4>1
      <3>3. v + 1 \in DOMAIN code' => Off(v + 1)' = off_elems[v + 1]
        BY <3>1, <1>11
      <3> QED
        BY <3>2, <3>3, <1>10
    <2> QED
      BY <2>1, <2>2, <1>10 DEF RowsOK, Off, End
  <1>13. PruneInv'
    BY <1>1, <1>4, <1>9, <1>12
       DEF PruneInv, PruneLabels, InputsOK, Budgeted, BatchOK, Written, Running, Position
  <1>14. FirstGraph'
    BY <1>1, <1>2, <1>4 DEF FirstGraph, Others, Prune!Dist
  <1>15. ASSUME NEW v \in DOMAIN code, NEW w \in Others(v)
         PROVE  w \in ToSet(ListOf(v)') <=> (w \in ToSet(graph[v]) \/ v \in ToSet(graph[w]))
    <2>1. v \in 0 .. N - 1 /\ w \in 0 .. N - 1 /\ graph[v] \in Seq(Nat) /\ graph[w] \in Seq(Nat)
      BY <1>4, <1>5 DEF Others, GraphOK
    <2> DEFINE a == off_elems[v]
               c == cnt[v]
               s == Slice(v)
               l == ListOf(v)'
    <2>2. a \in Nat /\ c \in Nat /\ a + c <= n /\ off_elems[v + 1] = a + c
      BY <2>1, <1>11
    <2>3. l = SubSeq(cand_ids', a + 1, a + c)
      <3>1. Off(v)' = a /\ End(v)' = a + c
        BY <2>1, <2>2, <1>11
      <3> QED
        BY <3>1 DEF ListOf
    <2>4. s = [i \in 1 .. c |-> ids[a + i - 1]]
      BY DEF Slice
    <2>5. Occurrences(w, s) = Occurrences(w, graph[v]) + Occurrences(v, graph[w])
      BY <2>1, <1>1, Symmetric DEF StagesInv, CandidatesSymmetric
    <2> HIDE DEF a, c, s, l
    <2>6. l \in Seq(Nat) /\ Len(l) = c /\ \A i \in 1 .. c : l[i] = cand_ids'[a + i]
      <3> DEFINE z == cand_ids'
      <3>1. z \in Seq(Nat) /\ Len(z) = n
        BY <1>10
      <3> HIDE DEF z
      <3>2. l = SubSeq(z, a + 1, a + c)
        BY <2>3 DEF z
      <3>3. l \in Seq(Nat) /\ Len(l) = c /\ \A i \in 1 .. c : l[i] = z[a + i]
        BY <3>1, <3>2, <2>2, PartIs
      <3> QED
        BY <3>3 DEF z
    <2>7. \A i \in 1 .. c : a + i \in 1 .. n /\ a + i - 1 = (a + i) - 1
      BY <2>2, <1>7
    <2>8. \A i \in 1 .. c : l[i] = s[i]
      BY <2>4, <2>6, <2>7, <1>10
    <2>9. l = s
      <3>1. \A x \in Seq(Nat) : x = [i \in 1 .. Len(x) |-> x[i]]
        OBVIOUS
      <3>2. l = [i \in 1 .. c |-> l[i]]
        BY <3>1, <2>6
      <3>3. s = [i \in 1 .. c |-> s[i]]
        BY <2>4
      <3> QED
        BY <3>2, <3>3, <2>8
    <2>10. /\ Occurrences(w, s) \in Nat /\ (Occurrences(w, s) > 0 <=> w \in ToSet(s))
      BY <2>6, <2>9, OccursIff
    <2>11. /\ Occurrences(w, graph[v]) \in Nat
           /\ (Occurrences(w, graph[v]) > 0 <=> w \in ToSet(graph[v]))
           /\ Occurrences(v, graph[w]) \in Nat
           /\ (Occurrences(v, graph[w]) > 0 <=> v \in ToSet(graph[w]))
      BY <2>1, OccursIff
    <2>12. w \in ToSet(s) <=> (w \in ToSet(graph[v]) \/ v \in ToSet(graph[w]))
      BY <2>5, <2>10, <2>11
    <2> QED
      BY <2>9, <2>12 DEF l
  <1>16. SecondCandidates'
    <2>1. ASSUME NEW v \in DOMAIN code PROVE Own(v)' = Neighbours(v)'
      <3>1. Own(v)' = ToSet(ListOf(v)') \cap Others(v)
        BY <1>1 DEF Own, Others
      <3>2. Neighbours(v)' = {w \in DOMAIN graph \ {v} : w \in ToSet(graph[v]) \/ v \in ToSet(graph[w])}
        BY <1>2 DEF Neighbours
      <3>3. DOMAIN graph \ {v} = Others(v)
        BY <1>4 DEF Others
      <3> QED
        BY <3>1, <3>2, <3>3, <1>15
    <2> QED
      BY <2>1, <1>1 DEF SecondCandidates
  <1>17. History'
    BY <1>1, <1>2, <1>4, <1>14, <1>16 DEF History, Phases
  <1> QED
    BY <1>3, <1>13, <1>17 DEF StagesInv

LEMMA StagesInvInductive == StagesInv /\ [StagesNext]_stages => StagesInv'
  <1> SUFFICES ASSUME StagesInv, [StagesNext]_stages PROVE StagesInv'
    OBVIOUS
  <1>1. CASE PruneStep
    BY <1>1, PruneStepKeeps
  <1>2. CASE GiveGraph
    BY <1>2, GiveGraphKeeps
  <1>3. CASE ReverseStep
    BY <1>3, ReverseStepKeeps
  <1>4. CASE GiveCandidates
    BY <1>4, GiveCandidatesKeeps
  <1>5. CASE EndPipeline
    BY <1>5, EndPipelineKeeps
  <1>6. CASE UNCHANGED stages
    <2>1. UNCHANGED <<phase, offered>> /\ UNCHANGED vars /\ UNCHANGED pruning
      BY <1>6 DEF stages
    <2>2. UNCHANGED <<idx, cand_ids, code, R, T>> /\ UNCHANGED <<graph, pc, buf, ids>>
      BY <2>1 DEF pruning, vars
    <2>3. PruneInv' /\ ReverseInv' /\ AreIds'
      BY <2>1, <2>2, PruneStutters, ReverseInvStutters DEF StagesInv, AreIds
    <2>4. (FirstGraph' <=> FirstGraph) /\ (SecondCandidates' <=> SecondCandidates)
          /\ \A v : Own(v)' = Own(v)
      BY <2>1, <2>2, SameHistory, SameLists
    <2>5. History'
      BY <2>1, <2>2, <2>4 DEF StagesInv, History
    <2> QED
      BY <2>3, <2>5 DEF StagesInv
  <1> QED
    BY <1>1, <1>2, <1>3, <1>4, <1>5, <1>6 DEF StagesNext

-----------------------------------------------------------------------------
(* The theorems of the three steps *)

\* The three programs, run one after the other on each other's files, keep the
\* invariant: what one writes is what the next one needs.
THEOREM GraphStagesCorrect == StagesSpec => []StagesInv
  BY StagesInitOK, StagesInvInductive, PTL DEF StagesSpec

\* Each pruning of our_pruning writes, in the order of the nodes and whatever the
\* batches, lists that the candidates determine: distinct candidates, the kept ones
\* before those that fill the places left, none left out that could be kept.
THEOREM PruningWritesExactLists == StagesSpec => []PrunedGraphExact
  <1>1. StagesInv => PrunedGraphExact
    BY PruningExact DEF StagesInv, PrunedGraphExact
  <1> QED
    BY <1>1, GraphStagesCorrect, PTL

\* A batch of the pruning is never larger than the memory left after the codes,
\* unless a single node is, and never smaller than it could be: pick_batch_k's
\* binary search finds the largest number of rows that fits.
THEOREM PruningKeepsBudget == StagesSpec => []BatchesFitAndAreMaximal
  <1>1. StagesInv => BatchesFitAndAreMaximal
    BY PruningFits DEF StagesInv, BatchesFitAndAreMaximal
  <1> QED
    BY <1>1, GraphStagesCorrect, PTL

\* Between the two prunings too, on the graph that the first one has written, no
\* cursor of reverse_edge_logic leaves the segment of its node.
THEOREM StagesCursors == StagesSpec => []CursorsStayInSegments
  <1>1. StagesInv => CursorsStayInSegments
    BY InSegments DEF StagesInv
  <1> QED
    BY <1>1, GraphStagesCorrect, PTL

\* The stripes of the composed steps fit the memory and are as large as it allows.
THEOREM StagesStripes == StagesSpec => []StripesFitAndAreMaximal
  <1>1. StagesInv => StripesFitAndAreMaximal
    BY Maximal DEF StagesInv
  <1> QED
    BY <1>1, GraphStagesCorrect, PTL

\* The candidate lists that the second pruning is given are the symmetric closure
\* of the graph that the first one has written.
THEOREM StagesSymmetric == StagesSpec => []CandidatesSymmetric
  <1>1. StagesInv => CandidatesSymmetric
    BY Symmetric DEF StagesInv
  <1> QED
    BY <1>1, GraphStagesCorrect, PTL

LEMMA FinalSound == StagesInv => FinalGraphSound
  <1> SUFFICES ASSUME StagesInv, phase = "ended", prune_pc = "done", pc = "done", T = 1,
                      NEW v \in DOMAIN code
               PROVE  /\ ToSet(out[v + 1]) \subseteq Neighbours(v)
                      /\ Len(out[v + 1]) = Cardinality(ToSet(out[v + 1]))
                      /\ Len(out[v + 1]) = Prune!Smaller(R, Cardinality(Neighbours(v)))
                      /\ \A w \in offered[v] \cup Neighbours(v) :
                            Prune!Dist(v, out[v + 1][1]) <= Prune!Dist(v, w)
    BY DEF FinalGraphSound
  <1>1. DOMAIN graph = DOMAIN code /\ FirstGraph /\ SecondCandidates
    BY DEF StagesInv, History
  <1>2. /\ CodesOK /\ ListsOK /\ Len(out) = Nodes /\ Nodes \in Nat
        /\ IsFiniteSet(DOMAIN code) /\ DOMAIN code = 0 .. Nodes - 1
    BY NodesType DEF StagesInv, PruneInv, InputsOK, Written, Running, Position, CodesOK
  <1>3. ListOK(v, Own(v), out[v + 1])
    BY <1>2 DEF ListsOK
  <1>4. Own(v) = Neighbours(v) /\ Own(v) \subseteq Others(v)
    BY <1>1 DEF SecondCandidates, Own
  <1>5. /\ ToSet(out[v + 1]) \subseteq Neighbours(v)
        /\ Len(out[v + 1]) = Cardinality(ToSet(out[v + 1]))
        /\ Len(out[v + 1]) = Prune!Smaller(R, Cardinality(Neighbours(v)))
    BY <1>3, <1>4 DEF ListOK
  <1>6. ASSUME NEW w \in Neighbours(v)
        PROVE  /\ out[v + 1][1] \in DOMAIN code
               /\ Prune!Dist(v, out[v + 1][1]) <= Prune!Dist(v, w)
    <2>1. w \in Own(v)
      BY <1>4
    <2>2. out[v + 1][1] \in Others(v) /\ Prune!Dist(v, out[v + 1][1]) <= Prune!Dist(v, w)
      BY <2>1, <1>2, <1>3, <1>4, FirstNearest
    <2> QED
      BY <2>2 DEF Others
  <1>7. ASSUME NEW w \in offered[v] PROVE Prune!Dist(v, out[v + 1][1]) <= Prune!Dist(v, w)
    <2> DEFINE x == graph[v][1]
    <2>1. Len(graph[v]) >= 1 /\ x \in Others(v) /\ w \in DOMAIN code /\ Prune!Dist(v, x) <= Prune!Dist(v, w)
      BY <1>1 DEF FirstGraph
    <2>2. x \in ToSet(graph[v])
      <3>1. graph[v] \in Seq(Nat)
        BY <1>1 DEF StagesInv, ReverseInv, GraphOK
      <3>2. 1 \in DOMAIN graph[v]
        BY <2>1, <3>1
      <3> QED
        BY <3>2 DEF ToSet
    <2> HIDE DEF x
    <2>3. x \in Neighbours(v) /\ x \in DOMAIN code
      BY <2>1, <2>2, <1>1 DEF Neighbours, Others
    <2>4. out[v + 1][1] \in DOMAIN code /\ Prune!Dist(v, out[v + 1][1]) <= Prune!Dist(v, x)
      BY <2>3, <1>6
    <2>5. /\ Prune!Dist(v, out[v + 1][1]) \in Nat /\ Prune!Dist(v, x) \in Nat
          /\ Prune!Dist(v, w) \in Nat
      BY <2>1, <2>3, <2>4, <1>2, DistType
    <2> QED
      BY <2>1, <2>4, <2>5
  <1> QED
    BY <1>5, <1>6, <1>7

\* The graph at the end of the three steps: each list holds neighbours of its node
\* in the first graph, each once, as many as there are up to R, and begins with one
\* that is nearer than or as near as everything ever offered to the node.
THEOREM FinalGraph == StagesSpec => []FinalGraphSound
  BY GraphStagesCorrect, FinalSound, PTL
=============================================================================
