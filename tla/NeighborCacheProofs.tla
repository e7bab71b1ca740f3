-------------------------- MODULE NeighborCacheProofs --------------------------
(***************************************************************************)
(* The neighbour cache, from the choice of its nodes to a lookup, for      *)
(* every graph, limit, number of threads, hash function, batch size and    *)
(* queue depth:                                                            *)
(*                                                                         *)
(* - the list is the one asked for (CacheListExact, from ListInv: what the *)
(*   breadth-first search has listed when, which blocks of the scan are    *)
(*   counted and which are with a thread, and what the heap holds);        *)
(* - a lookup finds a node exactly if it was loaded, and leads to its      *)
(*   neighbour list, and loading never runs out of slots (LookupExact,     *)
(*   from CacheInv: the position in the list, the requests carried out,    *)
(*   the slots in use, and where the pool holds which list).               *)
(*                                                                         *)
(* The loops that the model writes as folds are shown first to be a round  *)
(* per position (ExtendedFold, HeapFold).                                  *)
(***************************************************************************)
EXTENDS NeighborCache, FiniteSetTheorems, SequenceTheorems, TLAPS

-----------------------------------------------------------------------------
(* Arithmetic of the probes *)

\* A set of naturals has a least element, which is the one Min chooses.
LEMMA LeastNatural == ASSUME NEW S, S \subseteq Nat, S # {}
                      PROVE  \E x \in S : \A y \in S : x <= y
  <1> DEFINE less == OpToRel(<, Nat)
  <1>1. IsWellFoundedOn(less, Nat)
    BY NatLessThanWellFounded
  <1>2. PICK x \in S : \A y \in S : ~(<<y, x>> \in less)
    BY <1>1, WFMin
  <1>3. \A y \in S : ~(y < x)
    BY <1>2 DEF OpToRel
  <1> QED
    BY <1>3

LEMMA MinIsLeast == ASSUME NEW S, S \subseteq Nat, S # {}
                    PROVE  Min(S) \in S /\ \A y \in S : Min(S) <= y
  BY LeastNatural DEF Min

LEMMA MinOfTwo == ASSUME NEW a \in Int, NEW c \in Int
                  PROVE  Min({a, c}) \in {a, c} /\ Min({a, c}) <= a /\ Min({a, c}) <= c
  <1>1. \E x \in {a, c} : \A y \in {a, c} : x <= y
    OBVIOUS
  <1> QED
    BY <1>1 DEF Min

LEMMA MaxOfTwo == ASSUME NEW a \in Int, NEW c \in Int
                  PROVE  Max({a, c}) \in {a, c} /\ Max({a, c}) >= a /\ Max({a, c}) >= c
  <1>1. \E x \in {a, c} : \A y \in {a, c} : x >= y
    OBVIOUS
  <1> QED
    BY <1>1 DEF Max

LEMMA Monotone == ASSUME NEW a \in Int, NEW b \in Int, NEW c \in Nat, a <= b PROVE a * c <= b * c
  OBVIOUS

LEMMA Remainder ==
    ASSUME NEW q \in Nat, NEW c \in Nat \ {0}, NEW s \in 0 .. c - 1
    PROVE  (q * c + s) % c = s
  <1> DEFINE a == q * c + s
             p == a \div c
             r == a % c
  <1>1. a \in Nat /\ c \in Nat /\ c > 0
    OBVIOUS
  <1>2. a = c * p + r /\ r \in 0 .. c - 1 /\ p \in Int
    BY <1>1
  <1>3. q * c + s = p * c + r /\ s >= 0 /\ s < c /\ r >= 0 /\ r < c
    BY <1>2
  <1> HIDE DEF p, r
  <1>4. ~(p >= q + 1)
    <2> SUFFICES ASSUME p >= q + 1 PROVE FALSE
      OBVIOUS
    <2>1. p * c >= (q + 1) * c
      BY <1>1, <1>2, Monotone
    <2>2. (q + 1) * c = q * c + c
      BY <1>1
    <2> QED
      BY <2>1, <2>2, <1>1, <1>2, <1>3
  <1>5. ~(q >= p + 1)
    <2> SUFFICES ASSUME q >= p + 1 PROVE FALSE
      OBVIOUS
    <2>1. q * c >= (p + 1) * c
      BY <1>1, <1>2, Monotone
    <2>2. (p + 1) * c = p * c + c
      BY <1>1, <1>2
    <2> QED
      BY <2>1, <2>2, <1>1, <1>2, <1>3
  <1>6. p = q
    BY <1>2, <1>4, <1>5
  <1>7. r = s
    BY <1>1, <1>2, <1>3, <1>6
  <1> QED
    BY <1>7 DEF r

\* Linear probing visits every slot.
LEMMA Reached ==
    ASSUME NEW h \in Nat, NEW c \in Nat \ {0}, NEW s \in 0 .. c - 1
    PROVE  \E n \in 0 .. c - 1 : (h + n) % c = s
  <1> DEFINE q == h \div c
             r == h % c
  <1>1. c \in Nat /\ c > 0 /\ h = c * q + r /\ r \in 0 .. c - 1 /\ q \in Nat
    OBVIOUS
  <1> HIDE DEF q, r
  <1>2. CASE r <= s
    <2>1. s - r \in 0 .. c - 1 /\ h + (s - r) = q * c + s
      BY <1>1, <1>2
    <2>2. (q * c + s) % c = s
      BY <1>1, Remainder
    <2> QED
      BY <2>1, <2>2
  <1>3. CASE r > s
    <2>1. s + c - r \in 0 .. c - 1 /\ h + (s + c - r) = q * c + c + s
      BY <1>1, <1>3
    <2>2. q + 1 \in Nat /\ (q + 1) * c = q * c + c
      BY <1>1
    <2>3. ((q + 1) * c + s) % c = s
      BY <1>1, <2>2, Remainder
    <2> QED
      BY <2>1, <2>2, <2>3
  <1> QED
    BY <1>1, <1>2, <1>3

\* A probe stays in the table.
LEMMA ProbeInTable ==
    ASSUME NEW h \in Nat, NEW c \in Nat \ {0}, NEW n \in 0 .. c - 1
    PROVE  (h + n) % c \in 0 .. c - 1
  OBVIOUS

-----------------------------------------------------------------------------
(* Loops *)

\* What holds before a loop and is kept by its rounds holds after each of them.
LEMMA Rounds ==
    ASSUME NEW n \in Nat, NEW S, 0 \in S, \A r \in 1 .. n : r - 1 \in S => r \in S
    PROVE  \A r \in 0 .. n : r \in S
  <1> DEFINE Bad == {r \in 0 .. n : r \notin S}
  <1>1. SUFFICES ASSUME Bad # {} PROVE FALSE
    OBVIOUS
  <1>2. PICK m \in Bad : \A r \in Bad : m <= r
    <2>1. Bad \subseteq Nat
      OBVIOUS
    <2> HIDE DEF Bad
    <2> QED
      BY <1>1, <2>1, LeastNatural
  <1>3. m \in 1 .. n /\ m - 1 \in 0 .. n /\ ~(m <= m - 1)
    OBVIOUS
  <1> QED
    BY <1>2, <1>3

\* The greatest element of a set of positions.
LEMMA MaxOfPositions ==
    ASSUME NEW n \in Nat, NEW S, S \subseteq 1 .. n, S # {}
    PROVE  Max(S) \in S /\ \A y \in S : y <= Max(S)
  <1> DEFINE Far == {n - x : x \in S}
  <1>0. \A x \in S : x \in 1 .. n
    OBVIOUS
  <1>1. Far \subseteq Nat /\ Far # {}
    <2>1. ASSUME NEW x \in S PROVE n - x \in Nat
      BY <1>0
    <2> QED
      BY <2>1
  <1>2. PICK d \in Far : \A y \in Far : d <= y
    <2> HIDE DEF Far
    <2> QED
      BY <1>1, LeastNatural
  <1>3. PICK x \in S : d = n - x
    OBVIOUS
  <1>4. ASSUME NEW y \in S PROVE x >= y
    <2>1. d <= n - y
      BY <1>2
    <2> QED
      BY <2>1, <1>3, <1>0
  <1> QED
    BY <1>3, <1>4 DEF Max

LEMMA MaxOfInterval ==
    ASSUME NEW n \in Nat, NEW r \in 1 .. n, NEW S, S \subseteq 1 .. r, r \in S
    PROVE  Max(S) = r
  <1>1. S \subseteq 1 .. n /\ S # {} /\ r \in Nat
    OBVIOUS
  <1>2. Max(S) \in S /\ \A y \in S : y <= Max(S)
    BY <1>1, MaxOfPositions, Zenon
  <1>3. Max(S) \in 1 .. r /\ r <= Max(S)
    BY <1>2
  <1> QED
    BY <1>3

\* A fold over positions, its rounds given by a function of the result so far and
\* the position: the recursive function that the definition of the fold chooses
\* exists.
FoldRound(g, base, F, S) == IF S = {} THEN base ELSE F[<<g[S \ {Max(S)}], Max(S)>>]

IsFold(g, n, X, base, F) ==
    /\ g \in [SUBSET (1 .. n) -> X]
    /\ \A S \in SUBSET (1 .. n) : g[S] = FoldRound(g, base, F, S)

LEMMA FoldExists ==
    ASSUME NEW n \in Nat, NEW X, NEW base \in X, NEW F \in [X \X (1 .. n) -> X]
    PROVE  \E g : IsFold(g, n, X, base, F)
  <1> DEFINE Is(g, m) == \A S \in SUBSET (1 .. m) : g[S] = FoldRound(g, base, F, S)
             Good == {m \in 0 .. n : \E g \in [SUBSET (1 .. m) -> X] : Is(g, m)}
  <1>1. 0 \in Good
    <2> DEFINE g == [S \in SUBSET (1 .. 0) |-> base]
    <2>1. g \in [SUBSET (1 .. 0) -> X]
      OBVIOUS
    <2>2. ASSUME NEW S \in SUBSET (1 .. 0) PROVE S = {}
      OBVIOUS
    <2>3. Is(g, 0)
      BY <2>2 DEF FoldRound
    <2>4. 0 \in 0 .. n
      OBVIOUS
    <2> HIDE DEF g, Is
    <2> QED
      BY <2>1, <2>3, <2>4
  <1>2. ASSUME NEW m \in 1 .. n, m - 1 \in Good PROVE m \in Good
    <2>1. PICK g \in [SUBSET (1 .. m - 1) -> X] : Is(g, m - 1)
      BY <1>2
    <2> DEFINE h == [S \in SUBSET (1 .. m) |-> IF m \in S THEN F[<<g[S \ {m}], m>>] ELSE g[S]]
    <2>2. ASSUME NEW S \in SUBSET (1 .. m), m \notin S PROVE S \in SUBSET (1 .. m - 1)
      BY <2>2
    <2>3. ASSUME NEW S \in SUBSET (1 .. m)
          PROVE  S \ {m} \in SUBSET (1 .. m - 1) /\ g[S \ {m}] \in X /\ F[<<g[S \ {m}], m>>] \in X
      OBVIOUS
    <2>4. h \in [SUBSET (1 .. m) -> X]
      BY <2>2, <2>3
    <2>5. ASSUME NEW S \in SUBSET (1 .. m) PROVE h[S] = FoldRound(h, base, F, S)
      <3>1. CASE m \in S
        <4>1. Max(S) = m /\ S # {}
          BY <3>1, MaxOfInterval
        <4>2. S \ {m} \in SUBSET (1 .. m) /\ m \notin S \ {m}
          OBVIOUS
        <4>3. h[S \ {m}] = g[S \ {m}]
          BY <4>2
        <4>4. h[S] = F[<<g[S \ {m}], m>>]
          BY <3>1
        <4> HIDE DEF h
        <4> QED
          BY <4>1, <4>3, <4>4 DEF FoldRound
      <3>2. CASE m \notin S
        <4>1. S \in SUBSET (1 .. m - 1)
          BY <3>2, <2>2
        <4>2. g[S] = FoldRound(g, base, F, S)
          BY <4>1, <2>1
        <4>3. h[S] = g[S]
          BY <3>2
        <4>4. S \ {Max(S)} \in SUBSET (1 .. m) /\ m \notin S \ {Max(S)}
          BY <3>2
        <4>5. h[S \ {Max(S)}] = g[S \ {Max(S)}]
          BY <4>4
        <4> HIDE DEF h
        <4> QED
          BY <4>2, <4>3, <4>5 DEF FoldRound
      <3> QED
        BY <3>1, <3>2
    <2> HIDE DEF h
    <2>6. Is(h, m)
      BY <2>5
    <2> HIDE DEF Is
    <2> QED
      BY <2>4, <2>6
  <1> HIDE DEF Good
  <1>3. \A r \in 0 .. n : r \in Good
    BY <1>1, <1>2, Rounds
  <1>4. n \in Good
    BY <1>3
  <1> QED
    BY <1>4 DEF Good, IsFold

\* What a fold computes: its rounds, one per position.
NewRound(g, base, s, S) == IF S = {} THEN base ELSE AppendNew(g[S \ {Max(S)}], s[Max(S)])

IsExtended(d, base, s) ==
    /\ d[0] = base /\ FoldLeft(AppendNew, base, s) = d[Len(s)]
    /\ \A r \in 1 .. Len(s) : d[r] = AppendNew(d[r - 1], s[r])

LEMMA ExtendedFold ==
    ASSUME NEW X, NEW D, NEW s \in Seq(D), NEW base \in X,
           \A x \in X, y \in D : AppendNew(x, y) \in X
    PROVE  \E d \in [0 .. Len(s) -> X] : IsExtended(d, base, s)
  <1> DEFINE n == Len(s)
             F == [z \in X \X (1 .. n) |-> AppendNew(z[1], s[z[2]])]
             Is(g) == g = [S \in SUBSET (1 .. n) |-> NewRound(g, base, s, S)]
  <1>1. n \in Nat /\ DOMAIN s = 1 .. n /\ \A r \in 1 .. n : s[r] \in D
    OBVIOUS
  <1>2. F \in [X \X (1 .. n) -> X]
    BY <1>1
  <1>3. PICK g : IsFold(g, n, X, base, F)
    <2> HIDE DEF F, n
    <2> QED
      BY <1>1, <1>2, FoldExists
  <1>4. FoldLeft(AppendNew, base, s) = (CHOOSE h : Is(h))[1 .. n]
    BY <1>1 DEF FoldLeft, MapThenFoldSet, NewRound
  <1>5. g = [S \in SUBSET (1 .. n) |-> NewRound(g, base, s, S)]
    <2>1. g = [S \in SUBSET (1 .. n) |-> g[S]]
      BY <1>3 DEF IsFold
    <2>2. ASSUME NEW S \in SUBSET (1 .. n) PROVE g[S] = NewRound(g, base, s, S)
      <3>1. g[S] = FoldRound(g, base, F, S)
        BY <1>3 DEF IsFold
      <3>2. CASE S = {}
        BY <3>1, <3>2 DEF FoldRound, NewRound
      <3>3. CASE S # {}
        <4> DEFINE r == Max(S)
        <4>1. r \in 1 .. n
          BY <3>3, <1>1, MaxOfPositions
        <4>2. g[S \ {r}] \in X
          BY <1>3 DEF IsFold
        <4>3. F[<<g[S \ {r}], r>>] = AppendNew(g[S \ {r}], s[r])
          BY <4>1, <4>2
        <4> HIDE DEF F
        <4> QED
          BY <3>1, <3>3, <4>3 DEF FoldRound, NewRound
      <3> QED
        BY <3>2, <3>3
    <2> QED
      BY <2>1, <2>2
  <1> DEFINE c == CHOOSE h : Is(h)
  <1>6. Is(c)
    BY <1>5
  <1> HIDE DEF c
  <1>7. ASSUME NEW S \in SUBSET (1 .. n) PROVE c[S] = NewRound(c, base, s, S)
    BY <1>6
  <1> DEFINE d == [r \in 0 .. n |-> c[1 .. r]]
  <1>8. d[0] = base
    <2>1. 1 .. 0 = {} /\ 1 .. 0 \in SUBSET (1 .. n) /\ 0 \in 0 .. n
      BY <1>1
    <2> QED
      BY <1>7, <2>1 DEF NewRound
  <1>9. ASSUME NEW r \in 1 .. n PROVE d[r] = AppendNew(d[r - 1], s[r])
    <2>1. 1 .. r \in SUBSET (1 .. n) /\ 1 .. r # {} /\ r \in 1 .. r
      BY <1>1
    <2>0. (1 .. r) \ {r} = 1 .. r - 1
      BY <1>1
    <2>2. Max(1 .. r) = r
      BY <2>1, <1>1, MaxOfInterval
    <2>3. c[1 .. r] = AppendNew(c[1 .. r - 1], s[r])
      BY <1>7, <2>0, <2>1, <2>2 DEF NewRound
    <2>4. r \in 0 .. n /\ r - 1 \in 0 .. n
      BY <1>1
    <2> QED
      BY <2>3, <2>4
  <1> HIDE DEF d
  <1>10. \A r \in 0 .. n : d[r] \in X
    <2> DEFINE Good == {r \in 0 .. n : d[r] \in X}
    <2>1. 0 \in Good
      BY <1>8, <1>1
    <2>2. ASSUME NEW r \in 1 .. n, r - 1 \in Good PROVE r \in Good
      BY <2>2, <1>9, <1>1
    <2> HIDE DEF Good
    <2>3. \A r \in 0 .. n : r \in Good
      BY <2>1, <2>2, <1>1, Rounds
    <2> QED
      BY <2>3 DEF Good
  <1>11. d \in [0 .. n -> X] /\ d[n] = FoldLeft(AppendNew, base, s)
    <2>1. n \in 0 .. n
      BY <1>1
    <2> QED
      BY <2>1, <1>10, <1>4 DEF d, c
  <1> HIDE DEF n
  <1> QED
    BY <1>8, <1>9, <1>11 DEF n, IsExtended

PushRound(g, base, s, S) == IF S = {} THEN base ELSE Push(g[S \ {Max(S)}], s[Max(S)])

IsHeap(d, base, s) ==
    /\ d[0] = base /\ FoldLeft(Push, base, s) = d[Len(s)]
    /\ \A r \in 1 .. Len(s) : d[r] = Push(d[r - 1], s[r])

LEMMA HeapFold ==
    ASSUME NEW X, NEW D, NEW s \in Seq(D), NEW base \in X,
           \A x \in X, y \in D : Push(x, y) \in X
    PROVE  \E d \in [0 .. Len(s) -> X] : IsHeap(d, base, s)
  <1> DEFINE n == Len(s)
             F == [z \in X \X (1 .. n) |-> Push(z[1], s[z[2]])]
             Is(g) == g = [S \in SUBSET (1 .. n) |-> PushRound(g, base, s, S)]
  <1>1. n \in Nat /\ DOMAIN s = 1 .. n /\ \A r \in 1 .. n : s[r] \in D
    OBVIOUS
  <1>2. F \in [X \X (1 .. n) -> X]
    BY <1>1
  <1>3. PICK g : IsFold(g, n, X, base, F)
    <2> HIDE DEF F, n
    <2> QED
      BY <1>1, <1>2, FoldExists
  <1>4. FoldLeft(Push, base, s) = (CHOOSE h : Is(h))[1 .. n]
    BY <1>1 DEF FoldLeft, MapThenFoldSet, PushRound
  <1>5. g = [S \in SUBSET (1 .. n) |-> PushRound(g, base, s, S)]
    <2>1. g = [S \in SUBSET (1 .. n) |-> g[S]]
      BY <1>3 DEF IsFold
    <2>2. ASSUME NEW S \in SUBSET (1 .. n) PROVE g[S] = PushRound(g, base, s, S)
      <3>1. g[S] = FoldRound(g, base, F, S)
        BY <1>3 DEF IsFold
      <3>2. CASE S = {}
        BY <3>1, <3>2 DEF FoldRound, PushRound
      <3>3. CASE S # {}
        <4> DEFINE r == Max(S)
        <4>1. r \in 1 .. n
          BY <3>3, <1>1, MaxOfPositions
        <4>2. g[S \ {r}] \in X
          BY <1>3 DEF IsFold
        <4>3. F[<<g[S \ {r}], r>>] = Push(g[S \ {r}], s[r])
          BY <4>1, <4>2
        <4> HIDE DEF F
        <4> QED
          BY <3>1, <3>3, <4>3 DEF FoldRound, PushRound
      <3> QED
        BY <3>2, <3>3
    <2> QED
      BY <2>1, <2>2
  <1> DEFINE c == CHOOSE h : Is(h)
  <1>6. Is(c)
    BY <1>5
  <1> HIDE DEF c
  <1>7. ASSUME NEW S \in SUBSET (1 .. n) PROVE c[S] = PushRound(c, base, s, S)
    BY <1>6
  <1> DEFINE d == [r \in 0 .. n |-> c[1 .. r]]
  <1>8. d[0] = base
    <2>1. 1 .. 0 = {} /\ 1 .. 0 \in SUBSET (1 .. n) /\ 0 \in 0 .. n
      BY <1>1
    <2> QED
      BY <1>7, <2>1 DEF PushRound
  <1>9. ASSUME NEW r \in 1 .. n PROVE d[r] = Push(d[r - 1], s[r])
    <2>1. 1 .. r \in SUBSET (1 .. n) /\ 1 .. r # {} /\ r \in 1 .. r
      BY <1>1
    <2>0. (1 .. r) \ {r} = 1 .. r - 1
      BY <1>1
    <2>2. Max(1 .. r) = r
      BY <2>1, <1>1, MaxOfInterval
    <2>3. c[1 .. r] = Push(c[1 .. r - 1], s[r])
      BY <1>7, <2>0, <2>1, <2>2 DEF PushRound
    <2>4. r \in 0 .. n /\ r - 1 \in 0 .. n
      BY <1>1
    <2> QED
      BY <2>3, <2>4
  <1> HIDE DEF d
  <1>10. \A r \in 0 .. n : d[r] \in X
    <2> DEFINE Good == {r \in 0 .. n : d[r] \in X}
    <2>1. 0 \in Good
      BY <1>8, <1>1
    <2>2. ASSUME NEW r \in 1 .. n, r - 1 \in Good PROVE r \in Good
      BY <2>2, <1>9, <1>1
    <2> HIDE DEF Good
    <2>3. \A r \in 0 .. n : r \in Good
      BY <2>1, <2>2, <1>1, Rounds
    <2> QED
      BY <2>3 DEF Good
  <1>11. d \in [0 .. n -> X] /\ d[n] = FoldLeft(Push, base, s)
    <2>1. n \in 0 .. n
      BY <1>1
    <2> QED
      BY <2>1, <1>10, <1>4 DEF d, c
  <1> HIDE DEF n
  <1> QED
    BY <1>8, <1>9, <1>11 DEF n, IsHeap

-----------------------------------------------------------------------------
(* The invariant of the choice of the nodes *)

Choosing == program \in {"generator", "search"}

ListTyped ==
    /\ program \in {"generator", "search", "file", "none"}
    /\ graph \in Graphs /\ limit \in Nat /\ hops \in Nat /\ mode \in {"hybrid", "bfs"}
    /\ medoids \in Seq(Ids) /\ (Choosing => medoids # <<>>)
    /\ step \in {"start", "hop", "visit", "listed", "scan", "select", "done", "failed", "over"}
    /\ Choosing => step # "over"
    /\ ~Choosing => step \in {"done", "over"}
    /\ chosen \in Seq(Ids) /\ frontier \in Seq(Ids) /\ next_frontier \in Seq(Ids) /\ list \in Seq(Ids)
    /\ pos \in Nat /\ hop \in Nat

\* The nodes first reached after h hops.
RingAt(h) == IF h = 0 THEN Within[0] ELSE Within[h] \ Within[h - 1]

\* The list reaches into the level h and holds every level before.
Reaches(c, h) == ToSet(c) \subseteq Within[h] /\ (h > 0 => Within[h - 1] \subseteq ToSet(c))
UpTo(h) == Reaches(chosen, h)

Chosen ==
    /\ IsInjective(chosen) /\ Len(chosen) <= Max({limit, 2, Len(medoids)})
    /\ program = "generator" => Len(medoids) = 1

AtHop ==
    /\ hop <= NumPoints /\ (program = "generator" => hop <= LimitHops)
    /\ \/ /\ ToSet(chosen) = Within[hop] /\ ToSet(frontier) = RingAt(hop)
          /\ frontier # <<>> => hop < Len(chosen)
          /\ hop = 0 => Len(chosen) <= Len(medoids)
       \/ /\ program = "search" /\ Full /\ hop > 0 /\ UpTo(hop)

AtVisit ==
    /\ hop < NumPoints /\ (program = "generator" => hop < LimitHops)
    /\ pos <= Len(frontier) /\ ToSet(frontier) = RingAt(hop)
    /\ ToSet(chosen) = Within[hop] \cup ToSet(next_frontier)
    /\ ToSet(next_frontier) \subseteq Within[hop + 1] \ Within[hop]
    /\ Len(chosen) >= hop + 1 + Len(next_frontier)
    /\ (program = "generator" /\ Full) => Len(chosen) = 1
    /\ \/ \A x \in 1 .. pos : ToSet(graph[frontier[x]]) \subseteq ToSet(chosen)
       \/ program = "search" /\ Full

Rings == IF program = "generator" THEN Min({LimitHops, NumPoints}) ELSE NumPoints
ByLevels(c) ==
    /\ ToSet(c) \subseteq Within[Rings]
    /\ \A d \in 0 .. Rings - 1 : ToSet(c) \subseteq Within[d] \/ Within[d] \subseteq ToSet(c)
    /\ Len(c) < limit => ToSet(c) = Within[Rings]
Listed == ByLevels(chosen)

Bfs ==
    Choosing =>
        /\ step = "start" => chosen = <<>> /\ frontier = <<>> /\ hop = 0 /\ list = <<>>
        /\ step = "start" /\ program = "generator" => Len(medoids) = 1
        /\ step \in {"hop", "visit", "listed", "scan", "select"} => Chosen
        /\ step = "hop" => AtHop
        /\ step = "visit" => AtVisit
        /\ step \in {"listed", "scan", "select"} => Listed
        /\ step \in {"scan", "select"} => program = "generator" /\ mode = "hybrid" /\ ~Full

-----------------------------------------------------------------------------
\* Each block is with one thread at a time, and what is not with a thread that has
\* yet to add its count is counted.
Before(n) == 0 .. Min({n, NumPoints}) - 1
Block(b) == b .. Min({b + IoBatch, NumPoints}) - 1
Adding == {t \in Threads : at[t] = "add"}
Pending(f, v) == UNION {Block(f[t]) : t \in {t \in Adding : v \in left[t]}}
Counted(f) ==
    /\ \A t \in Adding : Block(f[t]) \subseteq Before(next_i) /\ local[t] = BlockCounts(f[t])
    /\ \A t, u \in Adding : t # u => Block(f[t]) \cap Block(f[u]) = {}
    /\ \A v \in Ids : in_degrees[v] = Cardinality(Links(Before(next_i) \ Pending(f, v), v))

Scanning ==
    /\ in_degrees \in [Ids -> Nat] /\ next_i \in Nat
    /\ at \in [Threads -> {"register", "next", "add", "out", "failed"}]
    /\ local \in [Threads -> [Ids -> Nat]] /\ left \in [Threads -> SUBSET Ids]
    /\ scan_failed \in BOOLEAN
    /\ step \in {"start", "hop", "visit", "listed"} =>
          in_degrees = NoCounts /\ next_i = 0 /\ \A t \in Threads : at[t] = "register"
    /\ ~scan_failed => \A t \in Threads : at[t] # "failed"
    /\ step \notin {"scan", "failed"} => Adding = {}
    /\ \A t \in Threads : at[t] = "out" => next_i >= NumPoints
    /\ (step = "scan" /\ ~scan_failed) => \E f \in [Threads -> Ids] : Counted(f)
    /\ step = "select" => \A v \in Ids : in_degrees[v] = InDegree(v)

ListInv == ListTyped /\ Bfs /\ Scanning /\ CacheListExact

-----------------------------------------------------------------------------
(* The levels of the search *)

Around(S) == UNION {ToSet(graph[u]) : u \in S}

LEMMA AroundType ==
    ASSUME graph \in Graphs, NEW S, S \subseteq Ids PROVE Around(S) \subseteq Ids
  <1>1. ASSUME NEW u \in S PROVE ToSet(graph[u]) \subseteq Ids
    <2>1. u \in Ids
      OBVIOUS
    <2>2. graph[u] \in Seq(Ids)
      BY <2>1, GraphsAssumption
    <2> QED
      BY <2>2 DEF ToSet
  <1> QED
    BY <1>1 DEF Around

LEMMA PointsType == NumPoints \in Nat /\ NumPoints > 0 /\ IoBatch \in Nat /\ IoBatch > 0
  BY PointsAssumption

\* The recursive definition of the levels has a solution.
LEMMA WithinIs ==
    ASSUME graph \in Graphs, medoids \in Seq(Ids)
    PROVE  /\ Within \in [0 .. NumPoints -> SUBSET Ids] /\ Within[0] = ToSet(medoids)
           /\ \A d \in 1 .. NumPoints : Within[d] = Within[d - 1] \cup Around(Within[d - 1])
  <1> DEFINE n == NumPoints
             X == SUBSET Ids
             base == ToSet(medoids)
             F == [z \in X \X (1 .. n) |-> z[1] \cup Around(z[1])]
             Is(W) == W = [d \in 0 .. n |-> IF d = 0 THEN base ELSE W[d - 1] \cup Around(W[d - 1])]
  <1>1. n \in Nat /\ base \in X
    BY PointsAssumption DEF ToSet
  <1>2. F \in [X \X (1 .. n) -> X]
    <2>1. ASSUME NEW z \in X \X (1 .. n) PROVE z[1] \cup Around(z[1]) \in X
      BY AroundType
    <2> QED
      BY <2>1
  <1>3. PICK g : IsFold(g, n, X, base, F)
    <2> HIDE DEF F, n, X, base
    <2> QED
      BY <1>1, <1>2, FoldExists
  <1> DEFINE f == [d \in 0 .. n |-> g[1 .. d]]
  <1>4. Is(f)
    <2>1. ASSUME NEW d \in 0 .. n
          PROVE  f[d] = IF d = 0 THEN base ELSE f[d - 1] \cup Around(f[d - 1])
      <3>1. CASE d = 0
        <4>1. 1 .. 0 = {} /\ 1 .. 0 \in SUBSET (1 .. n)
          BY <1>1
        <4>2. g[1 .. 0] = base
          BY <4>1, <1>3 DEF IsFold, FoldRound
        <4> QED
          BY <3>1, <4>2
      <3>2. CASE d # 0
        <4>1. /\ d \in 1 .. n /\ 1 .. d \in SUBSET (1 .. n) /\ 1 .. d # {} /\ d \in 1 .. d
              /\ d - 1 \in 0 .. n /\ 1 .. d - 1 \in SUBSET (1 .. n)
          <5>1. d \in 1 .. n /\ d - 1 \in 0 .. n /\ d \in 1 .. d
            BY <3>2, <1>1
          <5>2. ASSUME NEW x \in 1 .. d PROVE x \in 1 .. n
            BY <1>1
          <5>3. ASSUME NEW x \in 1 .. d - 1 PROVE x \in 1 .. n
            BY <1>1
          <5> QED
            BY <5>1, <5>2, <5>3
        <4>2. (1 .. d) \ {d} = 1 .. d - 1
          BY <4>1, <1>1
        <4>3. Max(1 .. d) = d
          BY <4>1, <1>1, MaxOfInterval
        <4>4. g[1 .. d] = F[<<g[1 .. d - 1], d>>] /\ g[1 .. d - 1] \in X
          <5> DEFINE A == 1 .. d
                     C == 1 .. d - 1
          <5>1. A \in SUBSET (1 .. n) /\ C \in SUBSET (1 .. n) /\ A # {} /\ A \ {d} = C /\ Max(A) = d
            BY <4>1, <4>2, <4>3
          <5> HIDE DEF A, C, F, n, X, base
          <5>2. g[A] = FoldRound(g, base, F, A) /\ g[C] \in X
            BY <5>1, <1>3 DEF IsFold
          <5>3. g[A] = F[<<g[C], d>>]
            BY <5>1, <5>2 DEF FoldRound
          <5> QED
            BY <5>2, <5>3 DEF A, C
        <4>5. F[<<g[1 .. d - 1], d>>] = g[1 .. d - 1] \cup Around(g[1 .. d - 1])
          BY <4>1, <4>4
        <4> HIDE DEF F
        <4> QED
          BY <4>1, <4>4, <4>5, <3>2
      <3> QED
        BY <3>1, <3>2
    <2> QED
      BY <2>1
  <1>5. Within = CHOOSE W : Is(W)
    BY DEF Within, Around
  <1> HIDE DEF f
  <1>6. Is(Within)
    BY <1>4, <1>5
  <1>7. /\ DOMAIN Within = 0 .. n
        /\ \A d \in 0 .. n : Within[d] = IF d = 0 THEN base ELSE Within[d - 1] \cup Around(Within[d - 1])
    BY <1>6
  <1>8. Within[0] = base
    BY <1>7, <1>1
  <1>9. ASSUME NEW d \in 1 .. n PROVE Within[d] = Within[d - 1] \cup Around(Within[d - 1])
    BY <1>7, <1>1
  <1>10. \A d \in 0 .. n : Within[d] \in X
    <2> DEFINE Good == {d \in 0 .. n : Within[d] \in X}
    <2>1. 0 \in Good
      BY <1>1, <1>8
    <2>2. ASSUME NEW d \in 1 .. n, d - 1 \in Good PROVE d \in Good
      BY <2>2, <1>1, <1>9, AroundType
    <2> HIDE DEF Good
    <2>3. \A d \in 0 .. n : d \in Good
      BY <2>1, <2>2, <1>1, Rounds
    <2> QED
      BY <2>3 DEF Good
  <1>11. Within \in [0 .. n -> X]
    <2>1. Within = [d \in 0 .. n |-> Within[d]]
      BY <1>6
    <2> QED
      BY <2>1, <1>10
  <1> QED
    BY <1>8, <1>9, <1>11

\* A level holds the levels before it.
LEMMA WithinGrows ==
    ASSUME graph \in Graphs, medoids \in Seq(Ids), NEW b \in 0 .. NumPoints, NEW a \in 0 .. b
    PROVE  Within[a] \subseteq Within[b]
  <1> DEFINE n == NumPoints
             Good == {d \in 0 .. n : \A x \in 0 .. d : Within[x] \subseteq Within[d]}
  <1>1. n \in Nat
    BY PointsAssumption
  <1>2. 0 \in Good
    BY <1>1
  <1>3. ASSUME NEW d \in 1 .. n, d - 1 \in Good PROVE d \in Good
    <2>1. Within[d - 1] \subseteq Within[d]
      BY WithinIs
    <2>2. ASSUME NEW x \in 0 .. d PROVE Within[x] \subseteq Within[d]
      <3>1. x = d \/ x \in 0 .. d - 1
        BY <1>1
      <3> QED
        BY <3>1, <2>1, <1>3
    <2> QED
      BY <2>2, <1>1
  <1> HIDE DEF Good
  <1>4. \A d \in 0 .. n : d \in Good
    BY <1>1, <1>2, <1>3, Rounds
  <1> QED
    BY <1>4 DEF Good

\* A level that adds nothing is the last.
LEMMA WithinStays ==
    ASSUME graph \in Graphs, medoids \in Seq(Ids), NEW h \in 1 .. NumPoints, Within[h] = Within[h - 1],
           NEW b \in h .. NumPoints
    PROVE  Within[b] = Within[h]
  <1> DEFINE n == NumPoints
             Good == {d \in 0 .. n : d >= h => Within[d] = Within[h]}
  <1>1. n \in Nat
    BY PointsAssumption
  <1>2. 0 \in Good
    BY <1>1
  <1>3. ASSUME NEW d \in 1 .. n, d - 1 \in Good PROVE d \in Good
    <2>1. Within[d] = Within[d - 1] \cup Around(Within[d - 1]) /\ Within[h] = Within[h - 1] \cup Around(Within[h - 1])
      BY WithinIs
    <2>2. ASSUME d >= h PROVE Within[d] = Within[h]
      <3>1. d = h \/ d - 1 >= h
        BY <2>2, <1>1
      <3> QED
        BY <3>1, <2>1, <1>3
    <2> QED
      BY <2>2
  <1> HIDE DEF Good
  <1>4. \A d \in 0 .. n : d \in Good
    BY <1>1, <1>2, <1>3, Rounds
  <1> QED
    BY <1>1, <1>4 DEF Good

LEMMA SameWithin == ASSUME UNCHANGED <<graph, medoids>> PROVE Within' = Within
  BY DEF Within

-----------------------------------------------------------------------------
(* Lists without repetitions *)

\* What is in a list that is extended.
Extends(e, q, V) ==
    /\ e \in Seq(Ids) /\ IsInjective(e) /\ Len(q) <= Len(e)
    /\ \A x \in 1 .. Len(q) : e[x] = q[x]
    /\ ToSet(e) = ToSet(q) \cup V

LEMMA AppendNewIs ==
    ASSUME NEW q \in Seq(Ids), IsInjective(q), NEW v \in Ids
    PROVE  Extends(AppendNew(q, v), q, {v}) /\ Len(AppendNew(q, v)) <= Len(q) + 1
  <1> DEFINE n == Len(q)
             e == AppendNew(q, v)
  <1>1. n \in Nat /\ DOMAIN q = 1 .. n /\ (Contains(q, v) <=> v \in ToSet(q))
    BY DEF Contains, ToSet
  <1>2. CASE Contains(q, v)
    BY <1>1, <1>2 DEF Extends, AppendNew, ToSet
  <1>3. CASE ~Contains(q, v)
    <2>1. e = Append(q, v)
      BY <1>3 DEF AppendNew
    <2> HIDE DEF e
    <2>2. /\ e \in Seq(Ids) /\ Len(e) = n + 1 /\ DOMAIN e = 1 .. n + 1
          /\ e[n + 1] = v /\ \A x \in 1 .. n : e[x] = q[x]
      BY <2>1
    <2>3. v \notin ToSet(q)
      BY <1>1, <1>3
    <2> HIDE DEF n
    <2>4. ASSUME NEW x \in 1 .. n + 1 PROVE (x \in 1 .. n /\ e[x] = q[x]) \/ (x = n + 1 /\ e[x] = v)
      BY <1>1, <2>2
    <2>5. n + 1 \in 1 .. n + 1 /\ n <= n + 1 /\ \A x \in 1 .. n : x \in 1 .. n + 1 /\ x # n + 1
      BY <1>1
    <2>6. ToSet(e) = ToSet(q) \cup {v}
      BY <1>1, <2>2, <2>4, <2>5 DEF ToSet
    <2>7. IsInjective(e)
      <3> SUFFICES ASSUME NEW x \in 1 .. n + 1, NEW y \in 1 .. n + 1, e[x] = e[y] PROVE x = y
        BY <2>2 DEF IsInjective
      <3>1. \A z \in 1 .. n : q[z] # v
        BY <2>3, <1>1 DEF ToSet
      <3>2. \A a, b \in 1 .. n : q[a] = q[b] => a = b
        BY <1>1 DEF IsInjective
      <3> QED
        BY <2>4, <3>1, <3>2
    <2> QED
      BY <2>2, <2>5, <2>6, <2>7 DEF Extends, n, e
  <1> QED
    BY <1>2, <1>3

\* Extending a list appends the nodes that are new, each once.
LEMMA ExtendedIs ==
    ASSUME NEW q \in Seq(Ids), IsInjective(q), NEW s \in Seq(Ids)
    PROVE  Extends(Extended(q, s), q, ToSet(s)) /\ Len(Extended(q, s)) <= Len(q) + Len(s)
  <1> DEFINE X == {e \in Seq(Ids) : IsInjective(e)}
             n == Len(s)
             First(r) == {s[x] : x \in 1 .. r}
  <1>1. n \in Nat /\ Len(q) \in Nat /\ \A x \in 1 .. n : s[x] \in Ids
    OBVIOUS
  <1>2. \A x \in X, y \in Ids : AppendNew(x, y) \in X
    BY AppendNewIs DEF Extends
  <1>3. PICK d \in [0 .. n -> X] : IsExtended(d, q, s)
    <2>1. q \in X
      OBVIOUS
    <2> HIDE DEF X
    <2> QED
      BY <1>2, <2>1, ExtendedFold
  <1>4. /\ d[0] = q /\ Extended(q, s) = d[n]
        /\ \A r \in 1 .. n : d[r] = AppendNew(d[r - 1], s[r])
    BY <1>3 DEF IsExtended, Extended
  <1> DEFINE Good == {r \in 0 .. n : Extends(d[r], q, First(r)) /\ Len(d[r]) <= Len(q) + r}
  <1>5. 0 \in Good
    <2>1. First(0) = {}
      OBVIOUS
    <2> QED
      BY <2>1, <1>1, <1>4 DEF Extends
  <1>6. ASSUME NEW r \in 1 .. n, r - 1 \in Good PROVE r \in Good
    <2> DEFINE a == d[r - 1]
               b == d[r]
               v == s[r]
    <2>1. r - 1 \in 0 .. n /\ r \in 0 .. n /\ a \in X /\ b = AppendNew(a, v) /\ v \in Ids
      BY <1>1, <1>3, <1>4
    <2>2. Extends(a, q, First(r - 1)) /\ Len(a) <= Len(q) + (r - 1)
      BY <1>6
    <2> HIDE DEF a, b, v
    <2>3. Extends(b, a, {v}) /\ Len(b) <= Len(a) + 1
      BY <2>1, AppendNewIs
    <2>4. First(r) = First(r - 1) \cup {v}
      <3>1. 1 .. r = (1 .. r - 1) \cup {r}
        BY <1>1
      <3> QED
        BY <3>1 DEF v
    <2> HIDE DEF First
    <2>5. Len(a) \in Nat /\ Len(b) \in Nat
      BY <2>2, <2>3 DEF Extends
    <2>6. Len(q) <= Len(b) /\ Len(b) <= Len(q) + r
      <3>1. Len(q) <= Len(a) /\ Len(a) <= Len(b)
        BY <2>2, <2>3 DEF Extends
      <3> QED
        BY <3>1, <2>2, <2>3, <2>5, <1>1
    <2>7. ASSUME NEW x \in 1 .. Len(q) PROVE b[x] = q[x]
      <3>1. Len(q) <= Len(a)
        BY <2>2 DEF Extends
      <3>2. x \in 1 .. Len(a)
        BY <3>1, <2>5, <1>1
      <3> QED
        BY <3>2, <2>2, <2>3 DEF Extends
    <2>8. Extends(b, q, First(r))
      BY <2>2, <2>3, <2>4, <2>6, <2>7 DEF Extends
    <2> QED
      BY <2>1, <2>6, <2>8 DEF b
  <1> HIDE DEF Good
  <1>7. \A r \in 0 .. n : r \in Good
    BY <1>1, <1>5, <1>6, Rounds
  <1>8. n \in Good
    BY <1>1, <1>7
  <1>9. First(n) = ToSet(s)
    BY <1>1 DEF ToSet
  <1> QED
    BY <1>4, <1>8, <1>9 DEF Good

\* The neighbours that a visited node adds to the list.
LEMMA TakenIs ==
    ASSUME chosen \in Seq(Ids), IsInjective(chosen), graph \in Graphs, limit \in Nat, NEW u \in Ids,
           NEW new, new = Taken(u)
    PROVE  /\ new \in Seq(Ids) /\ chosen \o new \in Seq(Ids) /\ IsInjective(chosen \o new)
           /\ Len(chosen \o new) = Len(chosen) + Len(new)
           /\ ToSet(chosen \o new) = ToSet(chosen) \cup ToSet(new)
           /\ ToSet(new) \subseteq ToSet(graph[u]) \ ToSet(chosen)
           /\ Len(chosen \o new) <= limit \/ Len(new) <= 1
           /\ \/ ToSet(graph[u]) \subseteq ToSet(chosen \o new)
              \/ Len(chosen \o new) >= limit /\ new # <<>>
  <1> DEFINE all == Extended(chosen, graph[u])
             n == Len(chosen)
             top == Max({n + 1, limit})
             m == Min({Len(all), top})
  <1>1. graph[u] \in Seq(Ids)
    BY GraphsAssumption
  <1>2. Extends(all, chosen, ToSet(graph[u]))
    BY <1>1, ExtendedIs
  <1> HIDE DEF all
  <1>3. /\ all \in Seq(Ids) /\ IsInjective(all) /\ n <= Len(all) /\ n \in Nat /\ Len(all) \in Nat
        /\ \A x \in 1 .. n : all[x] = chosen[x]
        /\ ToSet(all) = ToSet(chosen) \cup ToSet(graph[u])
    BY <1>2 DEF Extends
  <1>4. top \in {n + 1, limit} /\ top >= n + 1 /\ top >= limit /\ top \in Nat
    <2>1. n + 1 \in Int /\ limit \in Int
      BY <1>3
    <2> HIDE DEF n
    <2>2. top \in {n + 1, limit} /\ top >= n + 1 /\ top >= limit
      BY <2>1, MaxOfTwo
    <2> QED
      BY <2>2, <1>3
  <1> HIDE DEF top
  <1>5. m \in {Len(all), top} /\ m <= Len(all) /\ m <= top /\ m \in Nat /\ n <= m
    <2>1. Len(all) \in Int /\ top \in Int
      BY <1>3, <1>4
    <2>2. m \in {Len(all), top} /\ m <= Len(all) /\ m <= top
      BY <2>1, MinOfTwo
    <2> HIDE DEF m
    <2> QED
      BY <2>2, <1>3, <1>4
  <1>6. new = SubSeq(all, n + 1, m)
    BY DEF Taken, all, top
  <1> HIDE DEF m, n
  <1>7. new \in Seq(Ids) /\ Len(new) = m - n /\ \A x \in 1 .. m - n : new[x] = all[n + x]
    <2>1. n + 1 \in Int /\ m \in Int /\ \A x \in n + 1 .. m : all[x] \in Ids
      BY <1>3, <1>5
    <2>2. /\ new \in Seq(Ids) /\ Len(new) = (IF n + 1 <= m THEN m - (n + 1) + 1 ELSE 0)
          /\ \A x \in 1 .. m - (n + 1) + 1 : new[x] = all[(n + 1) + x - 1]
      BY <1>6, <2>1, SubSeqProperties
    <2>3. Len(new) = m - n /\ m - (n + 1) + 1 = m - n
      BY <2>2, <1>3, <1>5
    <2>4. ASSUME NEW x \in 1 .. m - n PROVE new[x] = all[n + x]
      <3>1. (n + 1) + x - 1 = n + x
        BY <1>3, <1>5
      <3> QED
        BY <3>1, <2>2, <2>3
    <2> QED
      BY <2>2, <2>3, <2>4
  <1> DEFINE c == chosen \o new
  <1>8. /\ c \in Seq(Ids) /\ Len(c) = n + Len(new)
        /\ \A x \in 1 .. n + Len(new) : c[x] = IF x <= n THEN chosen[x] ELSE new[x - n]
    BY <1>7, ConcatProperties DEF n
  <1> HIDE DEF c
  <1>9. Len(c) = m /\ DOMAIN c = 1 .. m
    BY <1>7, <1>8, <1>3, <1>5
  <1>10. ASSUME NEW x \in 1 .. m PROVE c[x] = all[x]
    <2>1. CASE x <= n
      BY <2>1, <1>3, <1>8, <1>9
    <2>2. CASE ~(x <= n)
      <3>1. x - n \in 1 .. m - n /\ n + (x - n) = x
        BY <2>2, <1>3, <1>5
      <3>2. c[x] = new[x - n]
        BY <2>2, <1>8, <1>9
      <3> QED
        BY <3>1, <3>2, <1>7
    <2> QED
      BY <2>1, <2>2
  <1>11. DOMAIN all = 1 .. Len(all) /\ \A x \in 1 .. m : x \in 1 .. Len(all)
    BY <1>3, <1>5
  <1>12. IsInjective(c)
    BY <1>3, <1>9, <1>10, <1>11 DEF IsInjective
  <1>13. ToSet(c) = ToSet(chosen) \cup ToSet(new)
    <2>1. DOMAIN chosen = 1 .. n /\ DOMAIN new = 1 .. Len(new)
      BY <1>7 DEF n
    <2>2. ASSUME NEW x \in 1 .. m PROVE c[x] \in ToSet(chosen) \cup ToSet(new)
      <3>1. CASE x <= n
        BY <3>1, <2>1, <1>3, <1>8, <1>9 DEF ToSet
      <3>2. CASE ~(x <= n)
        <4>1. x - n \in 1 .. Len(new) /\ c[x] = new[x - n]
          BY <3>2, <1>3, <1>5, <1>7, <1>8, <1>9
        <4> QED
          BY <4>1, <2>1 DEF ToSet
      <3> QED
        BY <3>1, <3>2
    <2>3. ASSUME NEW x \in 1 .. n PROVE chosen[x] \in ToSet(c)
      <3>1. x \in 1 .. m /\ x <= n
        BY <1>3, <1>5
      <3> QED
        BY <3>1, <1>8, <1>9 DEF ToSet
    <2>4. ASSUME NEW x \in 1 .. Len(new) PROVE new[x] \in ToSet(c)
      <3>1. n + x \in 1 .. m /\ ~(n + x <= n) /\ (n + x) - n = x
        BY <1>3, <1>5, <1>7
      <3>2. c[n + x] = new[x]
        BY <3>1, <1>8, <1>9
      <3> QED
        BY <3>1, <3>2, <1>9 DEF ToSet
    <2> QED
      BY <2>1, <2>2, <2>3, <2>4, <1>9 DEF ToSet
  <1>14. ToSet(new) \subseteq ToSet(graph[u]) \ ToSet(chosen)
    <2> SUFFICES ASSUME NEW x \in 1 .. Len(new)
                 PROVE  new[x] \in ToSet(graph[u]) /\ new[x] \notin ToSet(chosen)
      BY <1>7 DEF ToSet
    <2>1. n + x \in 1 .. Len(all) /\ n + x > n /\ x \in 1 .. m - n
      BY <1>3, <1>5, <1>7
    <2>2. new[x] = all[n + x]
      BY <2>1, <1>7
    <2>3. all[n + x] \in ToSet(all)
      BY <2>1, <1>11 DEF ToSet
    <2>4. new[x] \notin ToSet(chosen)
      <3> SUFFICES ASSUME new[x] \in ToSet(chosen) PROVE FALSE
        OBVIOUS
      <3>1. PICK y \in 1 .. n : new[x] = chosen[y]
        BY DEF ToSet, n
      <3>2. all[y] = all[n + x] /\ y \in 1 .. Len(all)
        <4>1. y \in 1 .. Len(all)
          BY <1>3
        <4>2. all[y] = chosen[y]
          BY <1>3
        <4> QED
          BY <4>1, <4>2, <3>1, <2>2
      <3>3. y = n + x
        BY <3>2, <2>1, <1>3, <1>11 DEF IsInjective
      <3> QED
        BY <3>3, <2>1, <1>3
    <2> QED
      BY <2>2, <2>3, <2>4, <1>3
  <1>15. Len(c) <= limit \/ Len(new) <= 1
    BY <1>3, <1>4, <1>5, <1>7, <1>9
  <1>16. CASE m = Len(all)
    <2>1. ToSet(c) = ToSet(all)
      BY <1>16, <1>9, <1>10, <1>11 DEF ToSet
    <2> QED
      BY <2>1, <1>3, <1>7, <1>8, <1>9, <1>12, <1>13, <1>14, <1>15 DEF c, n
  <1>17. CASE m = top
    <2>1. Len(c) >= limit /\ Len(new) >= 1
      BY <1>17, <1>3, <1>4, <1>7, <1>9
    <2>2. new # <<>>
      BY <2>1, <1>7
    <2> QED
      BY <2>1, <2>2, <1>7, <1>8, <1>12, <1>13, <1>14, <1>15 DEF c, n
  <1> QED
    BY <1>5, <1>16, <1>17

LEMMA MaxOfThree ==
    ASSUME NEW a \in Nat, NEW b \in Nat, NEW c \in Nat
    PROVE  Max({a, b, c}) \in Nat /\ Max({a, b, c}) >= a /\ Max({a, b, c}) >= b /\ Max({a, b, c}) >= c
  <1>1. \E x \in {a, b, c} : \A y \in {a, b, c} : x >= y
    OBVIOUS
  <1> QED
    BY <1>1 DEF Max

LEMMA IdsFinite == IsFiniteSet(Ids) /\ Cardinality(Ids) = NumPoints
  <1>1. 0 \in Int /\ NumPoints - 1 \in Int /\ ~(0 > NumPoints - 1) /\ (NumPoints - 1) - 0 + 1 = NumPoints
    BY PointsType
  <1> QED
    BY <1>1, FS_Interval DEF Ids

\* A list without repetitions has as many nodes as positions.
LEMMA SizeOfList ==
    ASSUME NEW s, NEW n \in Nat, s \in [1 .. n -> Ids], IsInjective(s)
    PROVE  IsFiniteSet(ToSet(s)) /\ Cardinality(ToSet(s)) = n /\ n <= NumPoints
  <1>1. ToSet(s) \subseteq Ids /\ DOMAIN s = 1 .. n
    BY DEF ToSet
  <1>2. IsFiniteSet(1 .. n) /\ Cardinality(1 .. n) = n
    <2>1. 1 \in Int /\ n \in Int
      OBVIOUS
    <2>2. IsFiniteSet(1 .. n) /\ Cardinality(1 .. n) = IF 1 > n THEN 0 ELSE n - 1 + 1
      BY <2>1, FS_Interval
    <2> QED
      BY <2>2
  <1>3. s \in Bijection(1 .. n, ToSet(s))
    BY <1>1 DEF Bijection, Injection, Surjection, ToSet, IsInjective
  <1>4. ExistsBijection(1 .. n, ToSet(s))
    BY <1>3 DEF ExistsBijection
  <1>5. IsFiniteSet(ToSet(s)) /\ Cardinality(ToSet(s)) = n
    BY <1>2, <1>4, FS_Bijection
  <1>6. Cardinality(ToSet(s)) <= NumPoints
    BY <1>1, IdsFinite, FS_Subset
  <1> QED
    BY <1>5, <1>6

LEMMA SizeOfChosen ==
    ASSUME chosen \in Seq(Ids), IsInjective(chosen)
    PROVE  IsFiniteSet(ToSet(chosen)) /\ Cardinality(ToSet(chosen)) = Len(chosen) /\ Len(chosen) <= NumPoints
  <1>1. Len(chosen) \in Nat /\ chosen \in [1 .. Len(chosen) -> Ids]
    OBVIOUS
  <1> QED
    BY <1>1, SizeOfList

\* A list without repetitions of as many nodes has all of them.
LEMMA AllListed ==
    ASSUME NEW S, IsFiniteSet(S), S \subseteq Ids, NEW s, s \in [1 .. Cardinality(S) -> S], IsInjective(s)
    PROVE  /\ s \in Seq(Ids) /\ Len(s) = Cardinality(S) /\ Cardinality(S) \in Nat /\ ToSet(s) = S
  <1>1. Cardinality(S) \in Nat
    BY FS_CardinalityType
  <1> DEFINE n == Cardinality(S)
  <1> HIDE DEF n
  <1>2. s \in [1 .. n -> S] /\ n \in Nat /\ s \in [1 .. n -> Ids]
    BY <1>1 DEF n
  <1>3. s \in Seq(Ids) /\ Len(s) = n
    BY <1>2
  <1>4. ToSet(s) \subseteq S
    BY <1>2 DEF ToSet
  <1>5. Cardinality(ToSet(s)) = n
    BY <1>2, SizeOfList
  <1>6. ToSet(s) = S
    BY <1>4, <1>5, FS_Subset DEF n
  <1> QED
    BY <1>2, <1>3, <1>6 DEF n

LEMMA RingsType ==
    ASSUME ListTyped PROVE LimitHops \in Nat /\ Rings \in 0 .. NumPoints
                           /\ (program = "generator" => Rings <= LimitHops)
                           /\ \A h \in 0 .. NumPoints : (program = "generator" => h <= LimitHops) => h <= Rings
  <1>1. LimitHops \in Nat /\ NumPoints \in Nat
    BY PointsType DEF ListTyped, LimitHops
  <1> DEFINE l == LimitHops
             n == NumPoints
             m == Min({l, n})
  <1>2. l \in Int /\ n \in Int /\ l \in Nat /\ n \in Nat
    BY <1>1
  <1> HIDE DEF l, n
  <1>3. m \in {l, n} /\ m <= l /\ m <= n
    BY <1>2, MinOfTwo
  <1>4. Rings = IF program = "generator" THEN m ELSE n
    BY DEF Rings, l, n
  <1> HIDE DEF m
  <1> QED
    BY <1>2, <1>3, <1>4 DEF l, n

\* A list that holds every level but the last it reaches into is listed by levels.
LEMMA LevelsListed ==
    ASSUME ListTyped, NEW c, NEW h \in 0 .. NumPoints, h <= Rings, Reaches(c, h),
           Len(c) < limit => ToSet(c) = Within[Rings]
    PROVE  ByLevels(c)
  <1>1. Rings \in 0 .. NumPoints /\ NumPoints \in Nat /\ graph \in Graphs /\ medoids \in Seq(Ids)
    BY RingsType, PointsType DEF ListTyped
  <1>2. ToSet(c) \subseteq Within[Rings]
    <2>1. Within[h] \subseteq Within[Rings]
      BY <1>1, WithinGrows
    <2> QED
      BY <2>1 DEF Reaches
  <1>3. ASSUME NEW d \in 0 .. Rings - 1 PROVE ToSet(c) \subseteq Within[d] \/ Within[d] \subseteq ToSet(c)
    <2>1. CASE h <= d
      <3>1. d \in 0 .. NumPoints /\ h \in 0 .. d
        BY <1>1, <2>1
      <3> QED
        BY <1>1, <3>1, WithinGrows DEF Reaches
    <2>2. CASE ~(h <= d)
      <3>1. h > 0 /\ h - 1 \in 0 .. NumPoints /\ d \in 0 .. h - 1
        BY <1>1, <2>2
      <3>2. Within[d] \subseteq Within[h - 1]
        BY <1>1, <3>1, WithinGrows
      <3> QED
        BY <3>1, <3>2 DEF Reaches
    <2> QED
      BY <2>1, <2>2
  <1> QED
    BY <1>2, <1>3 DEF ByLevels

-----------------------------------------------------------------------------
(* The steps of the breadth-first search *)

LEMMA ScanIdle ==
    ASSUME Scanning, step \in {"start", "hop", "visit", "listed"}, UNCHANGED <<scan>>,
           step' \in {"start", "hop", "visit", "listed", "done"}
    PROVE  Scanning'
  <1>1. UNCHANGED <<in_degrees, next_i, at, local, left, scan_failed>>
    BY DEF scan
  <1>2. Adding' = Adding
    BY <1>1 DEF Adding
  <1> QED
    BY <1>1, <1>2 DEF Scanning, NoCounts, Ids

LEMMA ListInitInv == Init => ListInv
  <1> SUFFICES ASSUME Init PROVE ListInv
    OBVIOUS
  <1>0. <<>> \in Seq(Ids) /\ Len(<<>>) = 0
    OBVIOUS
  <1>1. ASSUME ListInit PROVE ListTyped /\ Bfs /\ CacheListExact
    <2>1. ListTyped
      BY <1>0, <1>1, LimitsAssumption, MedoidsAssumption DEF ListInit, ListTyped, Choosing
    <2>2. Bfs
      BY <1>1 DEF ListInit, Bfs
    <2>3. step # "done"
      BY <1>1 DEF ListInit
    <2> QED
      BY <2>1, <2>2, <2>3 DEF CacheListExact
  <1>2. ASSUME NEW s \in Files, FileInit(s) PROVE ListTyped /\ Bfs /\ CacheListExact
    <2>1. s \in Seq(Ids) /\ Len(s) \in Nat
      BY FilesAssumption
    <2>2. program = "file" /\ ~Choosing
      BY <1>2 DEF FileInit, Choosing
    <2>3. ListTyped
      BY <1>0, <1>2, <2>1, <2>2 DEF FileInit, ListTyped, Choosing
    <2> QED
      BY <2>2, <2>3 DEF Bfs, CacheListExact, Choosing
  <1>3. Scanning
    <2>1. /\ in_degrees = NoCounts /\ next_i = 0
          /\ at = [t \in Threads |-> "register"]
          /\ local = [t \in Threads |-> NoCounts] /\ left = [t \in Threads |-> {}]
          /\ scan_failed = FALSE /\ step \in {"start", "done"}
      BY DEF Init, ListInit, FileInit
    <2>2. NoCounts \in [Ids -> Nat]
      BY DEF NoCounts
    <2>3. at \in [Threads -> {"register", "next", "add", "out", "failed"}] /\ \A t \in Threads : at[t] = "register"
      BY <2>1
    <2>4. local \in [Threads -> [Ids -> Nat]] /\ left \in [Threads -> SUBSET Ids]
      BY <2>1, <2>2
    <2>5. Adding = {}
      BY <2>3 DEF Adding
    <2>6. \A t \in Threads : at[t] # "out" /\ at[t] # "failed"
      BY <2>3
    <2> QED
      BY <2>1, <2>2, <2>3, <2>4, <2>5, <2>6 DEF Scanning
  <1> QED
    BY <1>1, <1>2, <1>3 DEF Init, ListInv

LEMMA BeginKeeps == ASSUME ListInv, Begin PROVE ListInv'
  <1>1. /\ ListTyped /\ Bfs /\ Scanning /\ step = "start" /\ Choosing /\ medoids \in Seq(Ids) /\ medoids # <<>>
        /\ UNCHANGED <<program, graph, limit, medoids, hops, mode, next_frontier, pos, hop, scan, list>>
        /\ hop = 0 /\ limit \in Nat
    BY DEF ListInv, Begin, choice, ListTyped, Bfs
  <1>2. CASE program = "search" /\ limit = 0
    <2>1. step' = "done" /\ UNCHANGED <<chosen, frontier>>
      BY <1>2 DEF Begin
    <2>2. ListTyped'
      BY <1>1, <2>1 DEF ListTyped, Choosing
    <2>3. Scanning'
      BY <1>1, <2>1, ScanIdle
    <2>4. Bfs' /\ CacheListExact'
      <3>1. limit' = 0 /\ ~(limit' > 0)
        BY <1>1, <1>2
      <3> QED
        BY <2>1, <3>1 DEF Bfs, CacheListExact
    <2> QED
      BY <2>2, <2>3, <2>4 DEF ListInv
  <1>3. CASE ~(program = "search" /\ limit = 0)
    <2>1. step' = "hop" /\ chosen' = Extended(<<>>, medoids) /\ frontier' = chosen'
      BY <1>3 DEF Begin
    <2>2. <<>> \in Seq(Ids) /\ IsInjective(<<>>) /\ Len(<<>>) = 0 /\ ToSet(<<>>) = {}
      BY DEF IsInjective, ToSet
    <2>3. Extends(chosen', <<>>, ToSet(medoids)) /\ Len(chosen') <= 0 + Len(medoids)
      BY <2>1, <2>2, <1>1, ExtendedIs
    <2>4. /\ chosen' \in Seq(Ids) /\ IsInjective(chosen') /\ ToSet(chosen') = ToSet(medoids)
          /\ Len(chosen') <= Len(medoids) /\ Len(chosen') \in Nat /\ Len(medoids) \in Nat
      BY <2>2, <2>3, <1>1 DEF Extends
    <2>5. ListTyped'
      BY <1>1, <2>1, <2>4 DEF ListTyped, Choosing
    <2>6. Scanning'
      BY <1>1, <2>1, ScanIdle
    <2>7. Within' = Within /\ Within[0] = ToSet(medoids) /\ LimitHops' \in Nat /\ NumPoints \in Nat
      <3>1. Within' = Within
        BY <1>1, SameWithin
      <3>2. Within[0] = ToSet(medoids)
        BY <1>1, WithinIs DEF ListTyped
      <3>3. LimitHops' = LimitHops
        BY <1>1 DEF LimitHops
      <3> QED
        BY <3>1, <3>2, <3>3, <1>1, RingsType, PointsType
    <2>8. Chosen'
      <3>1. Len(medoids) <= Max({limit, 2, Len(medoids)}) /\ Max({limit, 2, Len(medoids)}) \in Nat
        BY <1>1, <2>4, MaxOfThree
      <3>2. Len(chosen') <= Max({limit, 2, Len(medoids)})
        BY <3>1, <2>4
      <3>3. program = "generator" => Len(medoids) = 1
        BY <1>1 DEF Bfs
      <3> QED
        BY <3>2, <3>3, <2>4, <1>1 DEF Chosen
    <2>9. AtHop'
      <3>1. hop' = 0 /\ 0 <= NumPoints /\ 0 <= LimitHops'
        BY <1>1, <2>7
      <3>2. ToSet(chosen') = Within[0] /\ ToSet(frontier') = Within[0] /\ RingAt(hop)' = Within[0]
        BY <2>1, <2>4, <2>7, <3>1 DEF RingAt
      <3>3. frontier' # <<>> => 0 < Len(chosen')
        BY <2>1, <2>4
      <3> QED
        BY <3>1, <3>2, <3>3, <2>4, <2>7, <1>1 DEF AtHop
    <2>10. Bfs'
      BY <2>1, <2>8, <2>9 DEF Bfs
    <2>11. CacheListExact'
      BY <2>1 DEF CacheListExact
    <2> QED
      BY <2>5, <2>6, <2>10, <2>11 DEF ListInv
  <1> QED
    BY <1>2, <1>3

LEMMA BeginHopKeeps == ASSUME ListInv, BeginHop PROVE ListInv'
  <1>1. /\ ListTyped /\ Bfs /\ Scanning /\ step = "hop" /\ Choosing /\ MoreHops
        /\ step' = "visit" /\ next_frontier' = <<>> /\ pos' = 0
        /\ UNCHANGED <<program, graph, limit, medoids, hops, mode, chosen, frontier, hop, scan, list>>
        /\ AtHop /\ Chosen /\ hop \in Nat /\ chosen \in Seq(Ids) /\ frontier \in Seq(Ids)
    BY DEF ListInv, BeginHop, choice, ListTyped, Bfs
  <1>2. ListTyped' /\ CacheListExact'
    BY <1>1 DEF ListTyped, Choosing, CacheListExact
  <1>3. Scanning'
    BY <1>1, ScanIdle
  <1>4. Within' = Within /\ LimitHops' = LimitHops /\ LimitHops \in Nat /\ NumPoints \in Nat
    BY <1>1, SameWithin, RingsType, PointsType DEF LimitHops
  <1>5. Chosen'
    BY <1>1 DEF Chosen
  <1>6. /\ ToSet(chosen) = Within[hop] /\ ToSet(frontier) = RingAt(hop) /\ frontier # <<>>
        /\ hop < Len(chosen) /\ (hop = 0 => Len(chosen) <= Len(medoids))
    BY <1>1 DEF AtHop, MoreHops
  <1>7. Len(chosen) <= NumPoints /\ Len(chosen) \in Nat
    BY <1>1, SizeOfChosen DEF Chosen
  <1>8. hop < NumPoints /\ Len(chosen) >= hop + 1 + 0 /\ 0 <= Len(frontier)
    BY <1>1, <1>4, <1>6, <1>7
  <1>9. program = "generator" => hop < LimitHops
    BY <1>1 DEF MoreHops
  <1>10. ASSUME program = "generator", Full PROVE Len(chosen) = 1
    <2>1. hop = 0 /\ Len(medoids) = 1
      BY <1>10, <1>1 DEF MoreHops, Chosen
    <2> QED
      BY <2>1, <1>6, <1>7
  <1>11. Full' = Full /\ RingAt(hop)' = RingAt(hop) /\ ToSet(<<>>) = {} /\ Len(<<>>) = 0
    BY <1>1, <1>4 DEF Full, RingAt, ToSet
  <1>12. AtVisit'
    <2>1. pos' <= Len(frontier') /\ ToSet(frontier') = RingAt(hop)' /\ ToSet(chosen') = Within'[hop']
      BY <1>1, <1>4, <1>6, <1>8, <1>11
    <2>2. ToSet(next_frontier') = {} /\ Len(next_frontier') = 0
      BY <1>1, <1>11
    <2>3. 1 .. pos' = {}
      BY <1>1
    <2>4. hop' < NumPoints /\ (program' = "generator" => hop' < LimitHops')
          /\ Len(chosen') >= hop' + 1 + Len(next_frontier')
      BY <1>1, <1>4, <1>8, <1>9, <2>2
    <2>5. (program' = "generator" /\ Full') => Len(chosen') = 1
      BY <1>1, <1>10, <1>11
    <2> QED
      BY <2>1, <2>2, <2>3, <2>4, <2>5 DEF AtVisit
  <1>13. Bfs'
    BY <1>1, <1>5, <1>12 DEF Bfs
  <1> QED
    BY <1>2, <1>3, <1>13 DEF ListInv

\* A node is visited: what it adds lies in the next level and was not listed before.
LEMMA VisitNodeKeeps == ASSUME ListInv, VisitNode PROVE ListInv'
  <1>0. PICK u, new : u = frontier[pos + 1] /\ new = Taken(u)
    OBVIOUS
  <1>1. /\ ListTyped /\ Bfs /\ Scanning /\ step = "visit" /\ Choosing
        /\ pos < Len(frontier) /\ ~(program = "search" /\ Full)
        /\ chosen' = chosen \o new /\ next_frontier' = next_frontier \o new /\ pos' = pos + 1
        /\ step' = IF program = "generator" /\ new # <<>> /\ Len(chosen \o new) >= limit
                   THEN "listed" ELSE "visit"
        /\ UNCHANGED <<program, graph, limit, medoids, hops, mode, frontier, hop, scan, list>>
        /\ AtVisit /\ Chosen
    BY <1>0 DEF ListInv, VisitNode, choice, ListTyped, Bfs
  <1>2. /\ hop \in Nat /\ pos \in Nat /\ limit \in Nat /\ chosen \in Seq(Ids) /\ frontier \in Seq(Ids)
        /\ next_frontier \in Seq(Ids) /\ graph \in Graphs /\ medoids \in Seq(Ids)
        /\ program \in {"generator", "search"}
    BY <1>1 DEF ListTyped, Choosing
  <1>3. /\ Within' = Within /\ LimitHops' = LimitHops /\ LimitHops \in Nat /\ NumPoints \in Nat
        /\ Rings' = Rings /\ RingAt(hop)' = RingAt(hop)
    <2>1. Within' = Within /\ LimitHops' = LimitHops
      BY <1>1, SameWithin DEF LimitHops
    <2> QED
      BY <2>1, <1>1, RingsType, PointsType DEF Rings, RingAt
  <1>4. pos + 1 \in 1 .. Len(frontier) /\ u \in Ids /\ u \in RingAt(hop)
    <2>1. pos + 1 \in 1 .. Len(frontier)
      BY <1>1, <1>2
    <2>2. u \in ToSet(frontier) /\ u \in Ids
      BY <2>1, <1>0, <1>2 DEF ToSet
    <2> QED
      BY <2>1, <2>2, <1>1 DEF AtVisit
  <1>5. /\ hop \in 0 .. NumPoints /\ hop + 1 \in 1 .. NumPoints
        /\ Within[hop] \subseteq Within[hop + 1] /\ ToSet(graph[u]) \subseteq Within[hop + 1]
    <2>1. hop \in 0 .. NumPoints /\ hop + 1 \in 1 .. NumPoints /\ (hop + 1) - 1 = hop
      BY <1>1, <1>2, <1>3 DEF AtVisit
    <2>2. Within[hop + 1] = Within[hop] \cup Around(Within[hop])
      BY <2>1, <1>2, WithinIs
    <2>3. u \in Within[hop]
      <3>1. hop = 0 \/ hop # 0
        OBVIOUS
      <3> QED
        BY <3>1, <1>4 DEF RingAt
    <2> QED
      BY <2>1, <2>2, <2>3 DEF Around
  <1>6. /\ new \in Seq(Ids) /\ chosen' \in Seq(Ids) /\ IsInjective(chosen')
        /\ Len(chosen') = Len(chosen) + Len(new) /\ Len(new) \in Nat /\ Len(chosen) \in Nat
        /\ ToSet(chosen') = ToSet(chosen) \cup ToSet(new)
        /\ ToSet(new) \subseteq ToSet(graph[u]) \ ToSet(chosen)
        /\ Len(chosen') <= limit \/ Len(new) <= 1
        /\ \/ ToSet(graph[u]) \subseteq ToSet(chosen')
           \/ Len(chosen') >= limit /\ new # <<>>
    <2>1. IsInjective(chosen)
      BY <1>1 DEF Chosen
    <2>2. /\ new \in Seq(Ids) /\ chosen \o new \in Seq(Ids) /\ IsInjective(chosen \o new)
          /\ Len(chosen \o new) = Len(chosen) + Len(new)
          /\ ToSet(chosen \o new) = ToSet(chosen) \cup ToSet(new)
          /\ ToSet(new) \subseteq ToSet(graph[u]) \ ToSet(chosen)
          /\ Len(chosen \o new) <= limit \/ Len(new) <= 1
          /\ \/ ToSet(graph[u]) \subseteq ToSet(chosen \o new)
             \/ Len(chosen \o new) >= limit /\ new # <<>>
      BY <2>1, <1>0, <1>2, <1>4, TakenIs
    <2> QED
      BY <2>2, <1>1, <1>2
  <1>7. /\ next_frontier' \in Seq(Ids) /\ Len(next_frontier') = Len(next_frontier) + Len(new)
        /\ Len(next_frontier) \in Nat /\ ToSet(next_frontier') = ToSet(next_frontier) \cup ToSet(new)
    <2> DEFINE a == next_frontier
               n == Len(a)
    <2>1. /\ a \o new \in Seq(Ids) /\ Len(a \o new) = n + Len(new) /\ n \in Nat
          /\ \A x \in 1 .. n + Len(new) : (a \o new)[x] = IF x <= n THEN a[x] ELSE new[x - n]
      BY <1>2, <1>6, ConcatProperties
    <2>2. DOMAIN (a \o new) = 1 .. n + Len(new) /\ DOMAIN a = 1 .. n /\ DOMAIN new = 1 .. Len(new)
      BY <2>1, <1>2, <1>6
    <2>3. ASSUME NEW x \in 1 .. n PROVE x \in 1 .. n + Len(new) /\ (a \o new)[x] = a[x]
      BY <2>1, <1>6
    <2>4. ASSUME NEW x \in 1 .. Len(new) PROVE n + x \in 1 .. n + Len(new) /\ (a \o new)[n + x] = new[x]
      <3>1. n + x \in 1 .. n + Len(new) /\ ~(n + x <= n) /\ (n + x) - n = x
        BY <2>1, <1>6
      <3> QED
        BY <3>1, <2>1
    <2>5. ASSUME NEW x \in 1 .. n + Len(new) PROVE (a \o new)[x] \in ToSet(a) \cup ToSet(new)
      <3>1. CASE x <= n
        <4>1. x \in 1 .. n /\ (a \o new)[x] = a[x]
          BY <3>1, <2>1
        <4> QED
          BY <4>1, <2>2 DEF ToSet
      <3>2. CASE ~(x <= n)
        <4>1. x - n \in 1 .. Len(new) /\ (a \o new)[x] = new[x - n]
          BY <3>2, <2>1, <1>6
        <4> QED
          BY <4>1, <2>2 DEF ToSet
      <3> QED
        BY <3>1, <3>2
    <2>6. ToSet(a \o new) = ToSet(a) \cup ToSet(new)
      <3> DEFINE w == a \o new
      <3>1. DOMAIN w = 1 .. n + Len(new) /\ DOMAIN a = 1 .. n /\ DOMAIN new = 1 .. Len(new)
        BY <2>2
      <3>2. /\ \A x \in 1 .. n : x \in 1 .. n + Len(new) /\ w[x] = a[x]
            /\ \A x \in 1 .. Len(new) : n + x \in 1 .. n + Len(new) /\ w[n + x] = new[x]
            /\ \A x \in 1 .. n + Len(new) : w[x] \in ToSet(a) \cup ToSet(new)
        BY <2>3, <2>4, <2>5
      <3> HIDE DEF w, a, n
      <3>3. ToSet(a) \subseteq ToSet(w)
        BY <3>1, <3>2 DEF ToSet
      <3>4. ToSet(new) \subseteq ToSet(w)
        BY <3>1, <3>2 DEF ToSet
      <3>5. ToSet(w) \subseteq ToSet(a) \cup ToSet(new)
        <4>1. ToSet(w) = {w[x] : x \in 1 .. n + Len(new)}
          BY <3>1 DEF ToSet
        <4> QED
          BY <4>1, <3>2
      <3> QED
        BY <3>3, <3>4, <3>5 DEF w
    <2> QED
      BY <2>1, <2>6, <1>1
  <1>8. ListTyped' /\ CacheListExact'
    <2>1. step' \in {"listed", "visit"} /\ pos' \in Nat
      BY <1>1, <1>2
    <2> QED
      BY <2>1, <1>1, <1>6, <1>7 DEF ListTyped, Choosing, CacheListExact
  <1>9. Scanning'
    <2>1. step' \in {"listed", "visit"}
      BY <1>1
    <2> QED
      BY <2>1, <1>1, ScanIdle
  <1>10. Chosen'
    <2> DEFINE top == Max({limit, 2, Len(medoids)})
    <2>1. top \in Nat /\ limit <= top /\ 2 <= top /\ Len(chosen) <= top
      <3>1. Len(medoids) \in Nat
        BY <1>2
      <3>2. top \in Nat /\ top >= limit /\ top >= 2
        BY <3>1, <1>2, MaxOfThree
      <3> QED
        BY <3>2, <1>1, <1>2 DEF Chosen
    <2> HIDE DEF top
    <2>2. Len(chosen) < limit \/ Len(chosen) = 1
      <3>1. CASE Full
        BY <3>1, <1>1, <1>2 DEF AtVisit
      <3>2. CASE ~Full
        BY <3>2, <1>2, <1>6 DEF Full
      <3> QED
        BY <3>1, <3>2
    <2>3. Len(chosen') <= top
      BY <2>1, <2>2, <1>2, <1>6
    <2> QED
      BY <2>3, <1>1, <1>6 DEF Chosen, top
  <1>11. /\ ToSet(chosen') = Within[hop] \cup ToSet(next_frontier')
         /\ ToSet(next_frontier') \subseteq Within[hop + 1] \ Within[hop]
         /\ Len(chosen') >= hop + 1 + Len(next_frontier')
    <2>1. ToSet(chosen') = Within[hop] \cup ToSet(next_frontier')
      BY <1>1, <1>6, <1>7 DEF AtVisit
    <2>2. ToSet(new) \subseteq Within[hop + 1] \ Within[hop]
      BY <1>1, <1>5, <1>6 DEF AtVisit
    <2>3. ToSet(next_frontier') \subseteq Within[hop + 1] \ Within[hop]
      BY <1>1, <1>7, <2>2 DEF AtVisit
    <2>4. Len(chosen) >= hop + 1 + Len(next_frontier)
      BY <1>1 DEF AtVisit
    <2>5. Len(chosen') >= hop + 1 + Len(next_frontier')
      BY <2>4, <1>2, <1>6, <1>7
    <2> QED
      BY <2>1, <2>3, <2>5
  <1>12. CASE program = "generator" /\ new # <<>> /\ Len(chosen') >= limit
    <2>1. step' = "listed" /\ ~(Len(chosen') < limit')
      BY <1>12, <1>1, <1>2, <1>6
    <2>2. Reaches(chosen', hop + 1)
      <3>1. hop + 1 > 0 /\ (hop + 1) - 1 = hop
        BY <1>1, <1>2
      <3>2. ToSet(chosen') \subseteq Within[hop + 1] /\ Within[hop] \subseteq ToSet(chosen')
        BY <1>5, <1>11
      <3> QED
        BY <3>1, <3>2 DEF Reaches
    <2>3. Listed'
      <3>1. PICK h : h = hop + 1
        OBVIOUS
      <3>2. h \in 0 .. NumPoints /\ h <= Rings
        <4>1. h \in 0 .. NumPoints /\ h <= LimitHops
          BY <3>1, <1>1, <1>2, <1>3, <1>5, <1>12 DEF AtVisit
        <4> QED
          BY <4>1, <1>1, RingsType
      <3>3. ByLevels(chosen')
        <4>1. PICK c : c = chosen'
          OBVIOUS
        <4>2. Reaches(c, h) /\ ~(Len(c) < limit)
          BY <2>1, <2>2, <3>1, <4>1, <1>1
        <4>3. ByLevels(c)
          BY <3>2, <4>2, <1>1, LevelsListed
        <4> QED
          BY <4>1, <4>3
      <3> QED
        BY <3>3, <1>1, <1>3 DEF Listed, ByLevels
    <2>4. Bfs'
      BY <2>1, <2>3, <1>10 DEF Bfs
    <2> QED
      BY <2>4, <1>8, <1>9 DEF ListInv
  <1>13. CASE ~(program = "generator" /\ new # <<>> /\ Len(chosen') >= limit)
    <2>1. step' = "visit"
      BY <1>13, <1>1
    <2>2. Full' <=> Len(chosen') >= limit
      BY <1>1 DEF Full
    <2>3. ASSUME program = "generator", Full' PROVE Len(chosen') = 1
      <3>1. new = <<>>
        BY <2>2, <2>3, <1>13
      <3>2. Len(new) = 0
        BY <3>1
      <3>3. Full
        BY <3>2, <2>2, <2>3, <1>6 DEF Full
      <3>4. Len(chosen) = 1
        BY <3>3, <2>3, <1>1 DEF AtVisit
      <3> QED
        BY <3>2, <3>4, <1>6
    <2>4. \/ \A x \in 1 .. pos + 1 : ToSet(graph[frontier[x]]) \subseteq ToSet(chosen')
          \/ program = "search" /\ Full'
      <3>1. \A x \in 1 .. pos : ToSet(graph[frontier[x]]) \subseteq ToSet(chosen)
        BY <1>1 DEF AtVisit
      <3>2. CASE ToSet(graph[u]) \subseteq ToSet(chosen')
        <4>1. ASSUME NEW x \in 1 .. pos + 1 PROVE ToSet(graph[frontier[x]]) \subseteq ToSet(chosen')
          <5>1. x \in 1 .. pos \/ x = pos + 1
            BY <1>2
          <5> QED
            BY <5>1, <3>1, <3>2, <1>0, <1>6
        <4> QED
          BY <4>1
      <3>3. CASE Len(chosen') >= limit /\ new # <<>>
        BY <3>3, <1>2, <1>13, <2>2
      <3> QED
        BY <3>2, <3>3, <1>6
    <2>5. AtVisit'
      <3>1. hop' = hop /\ hop < NumPoints /\ (program = "generator" => hop < LimitHops) /\ pos + 1 <= Len(frontier)
            /\ ToSet(frontier) = RingAt(hop)
        BY <1>1, <1>2 DEF AtVisit
      <3>2. ToSet(frontier') = RingAt(hop)' /\ pos' <= Len(frontier')
        BY <3>1, <1>1, <1>3
      <3>3. /\ ToSet(chosen') = Within'[hop'] \cup ToSet(next_frontier')
            /\ ToSet(next_frontier') \subseteq Within'[hop' + 1] \ Within'[hop']
            /\ Len(chosen') >= hop' + 1 + Len(next_frontier')
        BY <3>1, <1>3, <1>11
      <3>4. \/ \A x \in 1 .. pos' : ToSet(graph'[frontier'[x]]) \subseteq ToSet(chosen')
            \/ program' = "search" /\ Full'
        BY <2>4, <1>1
      <3>5. (program' = "generator" /\ Full') => Len(chosen') = 1
        BY <2>3, <1>1
      <3>6. hop' < NumPoints /\ (program' = "generator" => hop' < LimitHops')
        BY <3>1, <1>1, <1>3
      <3> QED
        BY <3>2, <3>3, <3>4, <3>5, <3>6 DEF AtVisit
    <2>6. Bfs'
      BY <2>1, <2>5, <1>10 DEF Bfs
    <2> QED
      BY <2>6, <1>8, <1>9 DEF ListInv
  <1> QED
    BY <1>12, <1>13

\* A hop ends: what it added is the next level, unless the list is full.
LEMMA EndHopKeeps == ASSUME ListInv, EndHop PROVE ListInv'
  <1>1. /\ ListTyped /\ Bfs /\ Scanning /\ step = "visit" /\ Choosing
        /\ (pos = Len(frontier) \/ (program = "search" /\ Full))
        /\ frontier' = next_frontier /\ hop' = hop + 1 /\ step' = "hop"
        /\ UNCHANGED <<program, graph, limit, medoids, hops, mode, chosen, next_frontier, pos, scan, list>>
        /\ AtVisit /\ Chosen
    BY DEF ListInv, EndHop, choice, ListTyped, Bfs
  <1>2. /\ hop \in Nat /\ pos \in Nat /\ chosen \in Seq(Ids) /\ frontier \in Seq(Ids)
        /\ next_frontier \in Seq(Ids) /\ graph \in Graphs /\ medoids \in Seq(Ids) /\ NumPoints \in Nat
    BY <1>1, PointsType DEF ListTyped
  <1>3. Within' = Within /\ LimitHops' = LimitHops /\ LimitHops \in Nat /\ Full' = Full
    BY <1>1, SameWithin, RingsType DEF LimitHops, Full
  <1>4. ListTyped' /\ CacheListExact'
    BY <1>1, <1>2 DEF ListTyped, Choosing, CacheListExact
  <1>5. Scanning'
    BY <1>1, ScanIdle
  <1>6. Chosen'
    BY <1>1 DEF Chosen
  <1>7. /\ hop \in 0 .. NumPoints /\ hop + 1 \in 1 .. NumPoints /\ (hop + 1) - 1 = hop
        /\ Within[hop + 1] = Within[hop] \cup Around(Within[hop])
    <2>0. hop < NumPoints
      BY <1>1 DEF AtVisit
    <2>1. hop \in 0 .. NumPoints /\ hop + 1 \in 1 .. NumPoints /\ (hop + 1) - 1 = hop
      BY <2>0, <1>2
    <2> QED
      BY <2>1, <1>2, WithinIs
  <1>8. /\ ToSet(chosen) = Within[hop] \cup ToSet(next_frontier)
        /\ ToSet(next_frontier) \subseteq Within[hop + 1] \ Within[hop]
        /\ Len(chosen) >= hop + 1 + Len(next_frontier) /\ Len(next_frontier) \in Nat /\ Len(chosen) \in Nat
    BY <1>1, <1>2 DEF AtVisit
  <1>9. hop' <= NumPoints /\ (program' = "generator" => hop' <= LimitHops')
    BY <1>1, <1>2, <1>3 DEF AtVisit
  <1>10. CASE program = "search" /\ Full
    <2>1. hop' > 0 /\ hop' - 1 = hop
      BY <1>1, <1>2
    <2>2. UpTo(hop)'
      BY <2>1, <1>1, <1>3, <1>7, <1>8 DEF UpTo, Reaches
    <2>3. AtHop'
      BY <2>1, <2>2, <1>1, <1>3, <1>9, <1>10 DEF AtHop
    <2> QED
      BY <2>3, <1>1, <1>4, <1>5, <1>6 DEF ListInv, Bfs
  <1>11. CASE ~(program = "search" /\ Full)
    <2>1. pos = Len(frontier) /\ \A x \in 1 .. pos : ToSet(graph[frontier[x]]) \subseteq ToSet(chosen)
      BY <1>11, <1>1 DEF AtVisit
    <2>2. ASSUME NEW v \in Within[hop] PROVE ToSet(graph[v]) \subseteq ToSet(chosen)
      <3>1. CASE v \in RingAt(hop)
        <4>1. v \in ToSet(frontier)
          BY <3>1, <1>1 DEF AtVisit
        <4>2. PICK x \in 1 .. Len(frontier) : v = frontier[x]
          BY <4>1, <1>2 DEF ToSet
        <4> QED
          BY <4>2, <2>1
      <3>2. CASE v \notin RingAt(hop)
        <4>1. hop # 0 /\ v \in Within[hop - 1]
          BY <3>2, <2>2 DEF RingAt
        <4>2. hop \in 1 .. NumPoints
          BY <4>1, <1>7
        <4>3. Within[hop] = Within[hop - 1] \cup Around(Within[hop - 1])
          BY <4>2, <1>2, WithinIs
        <4> QED
          BY <4>1, <4>3, <1>8 DEF Around
      <3> QED
        BY <3>1, <3>2
    <2>3. Within[hop + 1] \subseteq ToSet(chosen)
      BY <2>2, <1>7, <1>8 DEF Around
    <2>4. ToSet(chosen) = Within[hop + 1] /\ ToSet(next_frontier) = Within[hop + 1] \ Within[hop]
      BY <2>3, <1>7, <1>8
    <2>5. hop' # 0 /\ hop' - 1 = hop
      BY <1>1, <1>2
    <2>6. ToSet(chosen') = Within'[hop'] /\ ToSet(frontier') = RingAt(hop)'
      BY <2>4, <2>5, <1>1, <1>3 DEF RingAt
    <2>7. ASSUME frontier' # <<>> PROVE hop' < Len(chosen')
      <3>1. Len(next_frontier) > 0
        BY <2>7, <1>1, <1>2
      <3> QED
        BY <3>1, <1>1, <1>2, <1>8
    <2>8. AtHop'
      BY <2>5, <2>6, <2>7, <1>9 DEF AtHop
    <2> QED
      BY <2>8, <1>1, <1>4, <1>5, <1>6 DEF ListInv, Bfs
  <1> QED
    BY <1>10, <1>11

\* The search ends: the list is full, the hops are over, or no level is left.
LEMMA EndBfsKeeps == ASSUME ListInv, EndBfs PROVE ListInv'
  <1>1. /\ ListTyped /\ Bfs /\ Scanning /\ step = "hop" /\ Choosing /\ ~MoreHops /\ step' = "listed"
        /\ UNCHANGED <<program, graph, limit, medoids, hops, mode, chosen, frontier, next_frontier, pos, hop, scan, list>>
        /\ AtHop /\ Chosen
    BY DEF ListInv, EndBfs, choice, bfs, ListTyped, Bfs
  <1>2. /\ hop \in Nat /\ chosen \in Seq(Ids) /\ frontier \in Seq(Ids) /\ limit \in Nat
        /\ graph \in Graphs /\ medoids \in Seq(Ids) /\ medoids # <<>> /\ NumPoints \in Nat
        /\ program \in {"generator", "search"}
    BY <1>1, PointsType DEF ListTyped, Choosing
  <1>3. Within' = Within /\ LimitHops' = LimitHops /\ Rings' = Rings
    <2>1. Within' = Within /\ LimitHops' = LimitHops
      BY <1>1, SameWithin DEF LimitHops
    <2> QED
      BY <2>1, <1>1 DEF Rings
  <1>4. ListTyped' /\ CacheListExact'
    BY <1>1 DEF ListTyped, Choosing, CacheListExact
  <1>5. Scanning'
    BY <1>1, ScanIdle
  <1>6. /\ LimitHops \in Nat /\ Rings \in 0 .. NumPoints
        /\ hop \in 0 .. NumPoints /\ hop <= Rings /\ (program = "generator" => Rings <= LimitHops)
    <2>1. hop \in 0 .. NumPoints /\ (program = "generator" => hop <= LimitHops)
      BY <1>1, <1>2 DEF AtHop
    <2> QED
      BY <2>1, <1>1, RingsType
  <1>7. UpTo(hop)
    <2>1. CASE ToSet(chosen) = Within[hop]
      <3>1. ASSUME hop > 0 PROVE Within[hop - 1] \subseteq Within[hop]
        <4>1. hop - 1 \in 0 .. hop
          BY <3>1, <1>2
        <4> QED
          BY <4>1, <1>2, <1>6, WithinGrows
      <3> QED
        BY <2>1, <3>1 DEF UpTo, Reaches
    <2>2. CASE UpTo(hop)
      BY <2>2
    <2> QED
      BY <2>1, <2>2, <1>1 DEF AtHop
  <1>8. ASSUME Len(chosen) < limit PROVE ToSet(chosen) = Within[Rings]
    <2>1. ~Full
      BY <1>8, <1>2 DEF Full
    <2>2. ToSet(chosen) = Within[hop] /\ ToSet(frontier) = RingAt(hop)
      BY <2>1, <1>1 DEF AtHop
    <2>3. CASE frontier = <<>>
      <3>1. RingAt(hop) = {}
        BY <2>2, <2>3 DEF ToSet
      <3>2. hop # 0
        <4> SUFFICES ASSUME hop = 0 PROVE FALSE
          OBVIOUS
        <4>1. ToSet(medoids) = {}
          BY <3>1, <1>2, WithinIs DEF RingAt
        <4>2. 1 \in DOMAIN medoids
          BY <1>2
        <4> QED
          BY <4>1, <4>2 DEF ToSet
      <3>3. hop \in 1 .. NumPoints /\ hop - 1 \in 0 .. hop /\ Rings \in hop .. NumPoints
        BY <3>2, <1>2, <1>6
      <3>4. Within[hop - 1] \subseteq Within[hop]
        BY <3>3, <1>2, <1>6, WithinGrows
      <3>5. Within[hop] = Within[hop - 1]
        BY <3>1, <3>2, <3>4 DEF RingAt
      <3>6. Within[Rings] = Within[hop]
        BY <3>3, <3>5, <1>2, WithinStays
      <3> QED
        BY <2>2, <3>6
    <2>4. CASE frontier # <<>>
      <3>1. program = "generator" /\ ~(hop < LimitHops)
        BY <2>1, <2>4, <1>1, <1>2 DEF MoreHops
      <3>2. hop = Rings
        BY <3>1, <1>2, <1>6
      <3> QED
        BY <2>2, <3>2
    <2> QED
      BY <2>3, <2>4
  <1>9. ByLevels(chosen)
    BY <1>1, <1>6, <1>7, <1>8, LevelsListed DEF UpTo
  <1>10. Listed' /\ Chosen'
    BY <1>9, <1>1, <1>3 DEF Listed, ByLevels, Chosen
  <1>11. Bfs'
    BY <1>1, <1>10 DEF Bfs
  <1> QED
    BY <1>4, <1>5, <1>11 DEF ListInv

-----------------------------------------------------------------------------
(* Saving the list *)

\* What is left to show of a list with the nodes around the medoids in it.
WellFilled(l) ==
    /\ IsInjective(l) /\ Len(l) <= Max({limit, 2, Len(medoids)})
    /\ (program = "generator" /\ mode = "hybrid") => Len(l) >= Min({limit, NumPoints})
    /\ \A u \in ToSet(l) \ ToSet(chosen), v \in Ids \ ToSet(l) :
          InDegree(u) > InDegree(v) \/ (InDegree(u) = InDegree(v) /\ u < v)

LEMMA SameDegrees == ASSUME UNCHANGED graph PROVE \A v : InDegree(v)' = InDegree(v)
  BY DEF InDegree, Links

\* Such a list is the one that was asked for.
LEMMA ListIsExact ==
    ASSUME Listed, UNCHANGED <<choice, chosen>>, WellFilled(list') PROVE CacheListExact'
  <1>1. UNCHANGED <<program, graph, limit, medoids, hops, mode, chosen>>
    BY DEF choice
  <1>2. Within' = Within /\ LimitHops' = LimitHops /\ \A v : InDegree(v)' = InDegree(v)
    BY <1>1, SameWithin, SameDegrees DEF LimitHops
  <1> DEFINE near == ToSet(chosen')
             ring == IF program' = "generator" THEN Min({LimitHops', NumPoints}) ELSE NumPoints
  <1>3. ring = Rings /\ near = ToSet(chosen)
    BY <1>1, <1>2 DEF Rings
  <1>4. /\ near \subseteq Within'[ring]
        /\ \A d \in 0 .. ring - 1 : near \subseteq Within'[d] \/ Within'[d] \subseteq near
        /\ Len(chosen') < limit' => near = Within'[ring]
    BY <1>1, <1>2, <1>3 DEF Listed, ByLevels
  <1>5. /\ IsInjective(list') /\ Len(list') <= Max({limit', 2, Len(medoids')})
        /\ (program' = "generator" /\ mode' = "hybrid") => Len(list') >= Min({limit', NumPoints})
    BY <1>1 DEF WellFilled
  <1>6. ASSUME NEW u \in ToSet(list') \ near, NEW v \in Ids \ ToSet(list')
        PROVE InDegree(u)' > InDegree(v)' \/ (InDegree(u)' = InDegree(v)' /\ u < v)
    BY <1>2, <1>3, <1>6 DEF WellFilled
  <1> HIDE DEF near, ring
  <1>7. (step' = "done" /\ limit' > 0 /\ program' \in {"generator", "search"}) =>
        /\ IsInjective(list') /\ near \subseteq Within'[ring]
        /\ Len(list') <= Max({limit', 2, Len(medoids')})
        /\ \A d \in 0 .. ring - 1 : near \subseteq Within'[d] \/ Within'[d] \subseteq near
        /\ Len(chosen') < limit' => near = Within'[ring]
        /\ (program' = "generator" /\ mode' = "hybrid") => Len(list') >= Min({limit', NumPoints})
        /\ \A u \in ToSet(list') \ near, v \in Ids \ ToSet(list') :
             InDegree(u)' > InDegree(v)' \/ (InDegree(u)' = InDegree(v)' /\ u < v)
    BY <1>4, <1>5, <1>6
  <1> QED
    BY <1>7 DEF CacheListExact, near, ring

\* However the hash set is written, its nodes are the chosen ones, each once.
LEMMA OrderOfChosen ==
    ASSUME chosen \in Seq(Ids), IsInjective(chosen), NEW s \in Orders(chosen)
    PROVE  s \in Seq(Ids) /\ IsInjective(s) /\ Len(s) = Len(chosen) /\ ToSet(s) = ToSet(chosen)
  <1>1. IsFiniteSet(ToSet(chosen)) /\ Cardinality(ToSet(chosen)) = Len(chosen) /\ ToSet(chosen) \subseteq Ids
    BY SizeOfChosen DEF ToSet
  <1>2. s \in [1 .. Cardinality(ToSet(chosen)) -> ToSet(chosen)] /\ IsInjective(s)
    BY <1>1 DEF Orders
  <1> DEFINE S == ToSet(chosen)
  <1> HIDE DEF S
  <1>3. IsFiniteSet(S) /\ S \subseteq Ids /\ s \in [1 .. Cardinality(S) -> S] /\ Cardinality(S) = Len(chosen)
    BY <1>1, <1>2 DEF S
  <1>4. s \in Seq(Ids) /\ Len(s) = Cardinality(S) /\ ToSet(s) = S
    BY <1>2, <1>3, AllListed
  <1> QED
    BY <1>2, <1>3, <1>4 DEF S

LEMMA SaveBfsKeeps == ASSUME ListInv, SaveBfs PROVE ListInv'
  <1>1. /\ ListTyped /\ Bfs /\ Scanning /\ step = "listed" /\ step' = "done" /\ Choosing
        /\ (program = "search" \/ mode = "bfs" \/ Full)
        /\ list' \in IF program = "search" THEN {chosen} ELSE Orders(chosen)
        /\ UNCHANGED <<program, graph, limit, medoids, hops, mode, chosen, frontier, next_frontier, pos, hop, scan>>
        /\ UNCHANGED <<choice>>
        /\ Listed /\ Chosen /\ chosen \in Seq(Ids) /\ limit \in Nat /\ NumPoints \in Nat
    BY PointsType DEF ListInv, SaveBfs, choice, bfs, ListTyped, Bfs
  <1>2. list' \in Seq(Ids) /\ IsInjective(list') /\ Len(list') = Len(chosen) /\ ToSet(list') = ToSet(chosen)
    <2>1. IsInjective(chosen)
      BY <1>1 DEF Chosen
    <2> QED
      BY <2>1, <1>1, OrderOfChosen
  <1>3. WellFilled(list')
    <2>1. ASSUME program = "generator", mode = "hybrid" PROVE Len(list') >= Min({limit, NumPoints})
      <3>1. Len(chosen) >= limit /\ Len(chosen) \in Nat
        BY <2>1, <1>1 DEF Full
      <3>2. limit \in Int /\ NumPoints \in Int
        BY <1>1
      <3>3. Min({limit, NumPoints}) <= limit /\ Min({limit, NumPoints}) \in {limit, NumPoints}
        BY <3>2, MinOfTwo
      <3> QED
        BY <3>1, <3>3, <1>1, <1>2
    <2>2. Len(list') <= Max({limit, 2, Len(medoids)})
      BY <1>1, <1>2 DEF Chosen
    <2> QED
      BY <2>1, <2>2, <1>2 DEF WellFilled
  <1>4. CacheListExact'
    BY <1>1, <1>3, ListIsExact
  <1>5. ListTyped'
    BY <1>1, <1>2 DEF ListTyped, Choosing
  <1>6. Scanning'
    BY <1>1, ScanIdle
  <1>7. Bfs'
    BY <1>1 DEF Bfs
  <1> QED
    BY <1>4, <1>5, <1>6, <1>7 DEF ListInv

-----------------------------------------------------------------------------
(* Counting in-degrees *)

LEMMA LinksFinite ==
    ASSUME graph \in Graphs, NEW us, us \subseteq Ids, NEW v
    PROVE  IsFiniteSet(Links(us, v)) /\ Cardinality(Links(us, v)) \in Nat
  <1>1. IsFiniteSet(Ids) /\ IsFiniteSet(1 .. MaxDegree)
    <2>1. 1 \in Int /\ MaxDegree \in Int
      BY SizesAssumption
    <2> QED
      BY <2>1, IdsFinite, FS_Interval
  <1>2. IsFiniteSet(Ids \X (1 .. MaxDegree))
    BY <1>1, FS_Product
  <1>3. Links(us, v) \subseteq Ids \X (1 .. MaxDegree)
    <2> SUFFICES ASSUME NEW u \in us, NEW x \in DOMAIN graph[u] PROVE u \in Ids /\ x \in 1 .. MaxDegree
      BY DEF Links
    <2>1. u \in Ids
      OBVIOUS
    <2>2. graph[u] \in Seq(Ids) /\ Len(graph[u]) <= MaxDegree
      BY <2>1, GraphsAssumption, DegreesAssumption
    <2>3. x \in 1 .. Len(graph[u]) /\ Len(graph[u]) \in Nat
      BY <2>2
    <2> QED
      BY <2>1, <2>2, <2>3, SizesAssumption
  <1>4. IsFiniteSet(Links(us, v))
    BY <1>2, <1>3, FS_Subset
  <1> QED
    BY <1>4, FS_CardinalityType

\* Blocks without a common node are counted apart.
LEMMA LinksOfBoth ==
    ASSUME graph \in Graphs, NEW A, A \subseteq Ids, NEW B, B \subseteq Ids, A \cap B = {}, NEW v
    PROVE  Cardinality(Links(A \cup B, v)) = Cardinality(Links(A, v)) + Cardinality(Links(B, v))
  <1> DEFINE a == Links(A, v)
             b == Links(B, v)
  <1>1. IsFiniteSet(a) /\ IsFiniteSet(b) /\ Cardinality(a) \in Nat /\ Cardinality(b) \in Nat
    BY LinksFinite
  <1>2. Links(A \cup B, v) = a \cup b
    BY DEF Links
  <1>3. a \cap b = {}
    <2>1. ASSUME NEW e \in a PROVE e[1] \in A
      BY DEF Links
    <2>2. ASSUME NEW e \in b PROVE e[1] \in B
      BY DEF Links
    <2> QED
      BY <2>1, <2>2
  <1> HIDE DEF a, b
  <1>4. Cardinality(a \cup b) = Cardinality(a) + Cardinality(b) - Cardinality(a \cap b)
    BY <1>1, FS_Union
  <1>5. Cardinality(a \cap b) = 0
    BY <1>3, FS_EmptySet
  <1>6. Cardinality(a \cup b) = Cardinality(a) + Cardinality(b)
    BY <1>1, <1>4, <1>5
  <1> QED
    BY <1>2, <1>6 DEF a, b

LEMMA NoLinks ==
    ASSUME graph \in Graphs, NEW v PROVE Cardinality(Links({}, v)) = 0
  <1>1. Links({}, v) = {}
    BY DEF Links
  <1> QED
    BY <1>1, FS_EmptySet

\* The blocks of the scan.
LEMMA Blocks ==
    ASSUME NEW n \in Nat
    PROVE  /\ Before(n) \subseteq Ids
           /\ n >= NumPoints => Before(n) = Ids
           /\ n < NumPoints => /\ n \in Ids /\ Block(n) \subseteq Ids /\ Before(n) \cap Block(n) = {}
                               /\ Before(n + IoBatch) = Before(n) \cup Block(n)
           /\ Before(0) = {}
           /\ n <= n + IoBatch /\ n + IoBatch \in Nat
  <1> DEFINE p == NumPoints
             b == IoBatch
             m == Min({n, p})
             l == Min({n + b, p})
  <1>1. p \in Nat /\ b \in Nat /\ b > 0 /\ p > 0
    BY PointsType
  <1> HIDE DEF p, b
  <1>2. m \in {n, p} /\ m <= n /\ m <= p
    BY <1>1, MinOfTwo
  <1>3. l \in {n + b, p} /\ l <= n + b /\ l <= p
    <2>1. n + b \in Int /\ p \in Int
      BY <1>1
    <2> QED
      BY <2>1, MinOfTwo
  <1>4. Before(n) = 0 .. m - 1 /\ Block(n) = n .. l - 1 /\ Ids = 0 .. p - 1 /\ Before(n + IoBatch) = 0 .. l - 1
    BY DEF Before, Block, Ids, p, b
  <1>5. Before(0) = {}
    <2>1. Min({0, p}) \in {0, p} /\ Min({0, p}) <= 0
      BY <1>1, MinOfTwo
    <2>2. 0 .. Min({0, p}) - 1 = {}
      BY <2>1, <1>1
    <2> QED
      BY <2>2 DEF Before, p
  <1> HIDE DEF m, l
  <1>6. Before(n) \subseteq Ids
    BY <1>1, <1>2, <1>4
  <1>7. ASSUME n >= p PROVE Before(n) = Ids
    <2>1. m = p
      BY <1>7, <1>1, <1>2
    <2> QED
      BY <2>1, <1>4
  <1>8. ASSUME n < p PROVE /\ n \in Ids /\ Block(n) \subseteq Ids /\ Before(n) \cap Block(n) = {}
                           /\ Before(n + IoBatch) = Before(n) \cup Block(n)
    <2>1. m = n /\ l > n /\ l \in Nat
      BY <1>8, <1>1, <1>2, <1>3
    <2>2. n \in 0 .. p - 1 /\ n .. l - 1 \subseteq 0 .. p - 1
      BY <2>1, <1>8, <1>1, <1>3
    <2>3. (0 .. n - 1) \cap (n .. l - 1) = {} /\ 0 .. l - 1 = (0 .. n - 1) \cup (n .. l - 1)
      BY <2>1
    <2> QED
      BY <2>1, <2>2, <2>3, <1>4
  <1>9. n <= n + IoBatch /\ n + IoBatch \in Nat
    BY <1>1 DEF b
  <1> QED
    BY <1>5, <1>6, <1>7, <1>8, <1>9 DEF p

\* What a thread counts for a block.
LEMMA BlockCountsType ==
    ASSUME graph \in Graphs, NEW b, Block(b) \subseteq Ids
    PROVE  BlockCounts(b) \in [Ids -> Nat] /\ \A v \in Ids : BlockCounts(b)[v] = Cardinality(Links(Block(b), v))
  <1>1. BlockCounts(b) = [v \in Ids |-> Cardinality(Links(Block(b), v))]
    BY DEF BlockCounts, Block
  <1>2. \A v \in Ids : Cardinality(Links(Block(b), v)) \in Nat
    BY LinksFinite
  <1> QED
    BY <1>1, <1>2

\* The steps of the scan leave the rest alone.
LEMMA ScanFrame ==
    ASSUME ListTyped, Bfs, UNCHANGED <<choice, bfs, list>>,
           \/ step = "scan" /\ step' \in {"scan", "select", "failed"}
           \/ step = "failed" /\ step' = "failed"
    PROVE  ListTyped' /\ Bfs' /\ CacheListExact'
  <1>1. UNCHANGED <<program, graph, limit, medoids, hops, mode, chosen, frontier, next_frontier, pos, hop, list>>
    BY DEF choice, bfs
  <1>2. Choosing /\ Choosing' = Choosing
    BY <1>1 DEF ListTyped, Choosing
  <1>3. ListTyped' /\ CacheListExact'
    BY <1>1, <1>2 DEF ListTyped, Choosing, CacheListExact
  <1>4. Within' = Within /\ LimitHops' = LimitHops
    BY <1>1, SameWithin DEF LimitHops
  <1>5. (Chosen => Chosen') /\ (Listed => Listed') /\ (~Full => ~Full')
    BY <1>1, <1>4 DEF Chosen, Listed, ByLevels, Rings, Full
  <1>6. Bfs'
    <2>1. CASE step' = "failed"
      BY <2>1 DEF Bfs
    <2>2. CASE step = "scan" /\ step' \in {"scan", "select"}
      BY <2>2, <1>1, <1>2, <1>5 DEF Bfs
    <2> QED
      BY <2>1, <2>2
  <1> QED
    BY <1>3, <1>6

\* A step that changes neither counts nor blocks leaves the account as it is.
LEMMA CountedFrame ==
    ASSUME NEW f, Counted(f), Adding' = Adding, UNCHANGED <<graph, in_degrees, next_i, local, left>>
    PROVE  Counted(f)'
  <1>1. \A v : Pending(f, v)' = Pending(f, v)
    BY DEF Pending
  <1>2. \A S, v : Links(S, v)' = Links(S, v)
    BY DEF Links
  <1>3. \A b : BlockCounts(b)' = BlockCounts(b)
    BY DEF BlockCounts, Links
  <1>4. \A v : Links(Before(next_i) \ Pending(f, v), v)' = Links(Before(next_i) \ Pending(f, v), v)
    BY <1>1 DEF Links, Before
  <1> QED
    BY <1>1, <1>3, <1>4 DEF Counted, Before, Block

LEMMA BeginScanKeeps == ASSUME ListInv, BeginScan PROVE ListInv'
  <1>1. /\ ListTyped /\ Bfs /\ Scanning /\ step = "listed" /\ program = "generator" /\ mode = "hybrid"
        /\ ~Full /\ step' = "scan" /\ Choosing
        /\ UNCHANGED <<program, graph, limit, medoids, hops, mode, chosen, frontier, next_frontier, pos, hop, list>>
        /\ UNCHANGED <<in_degrees, next_i, at, local, left, scan_failed>>
        /\ Listed /\ Chosen /\ graph \in Graphs
    BY DEF ListInv, BeginScan, choice, bfs, scan, ListTyped, Bfs, Choosing
  <1>2. ListTyped' /\ CacheListExact'
    BY <1>1 DEF ListTyped, Choosing, CacheListExact
  <1>3. Bfs'
    <2>1. Within' = Within /\ LimitHops' = LimitHops
      BY <1>1, SameWithin DEF LimitHops
    <2>2. Chosen' /\ Listed' /\ ~Full'
      BY <1>1, <2>1 DEF Chosen, Listed, ByLevels, Rings, Full
    <2> QED
      BY <2>2, <1>1 DEF Bfs
  <1>4. Scanning'
    <2>1. in_degrees = NoCounts /\ next_i = 0 /\ \A t \in Threads : at[t] = "register"
      BY <1>1 DEF Scanning
    <2>2. Adding' = {}
      BY <2>1, <1>1 DEF Adding
    <2> DEFINE f == [t \in Threads |-> 0]
    <2>3. f \in [Threads -> Ids]
      BY PointsType DEF Ids
    <2> HIDE DEF f
    <2>4. Counted(f)'
      <3>1. ASSUME NEW v \in Ids PROVE in_degrees'[v] = Cardinality(Links(Before(next_i) \ Pending(f, v), v)')
        <4>1. Before(next_i') = {}
          BY <2>1, <1>1, Blocks
        <4>2. (Links(Before(next_i) \ Pending(f, v), v))' = {}
          BY <4>1 DEF Links, Before
        <4>3. in_degrees'[v] = 0
          BY <2>1, <1>1 DEF NoCounts
        <4> QED
          BY <4>2, <4>3, FS_EmptySet
      <3> QED
        BY <2>2, <3>1 DEF Counted
    <2> QED
      BY <1>1, <2>1, <2>2, <2>3, <2>4 DEF Scanning
  <1> QED
    BY <1>2, <1>3, <1>4 DEF ListInv

LEMMA RegisterKeeps == ASSUME ListInv, NEW t \in Threads, Register(t) PROVE ListInv'
  <1>1. /\ ListTyped /\ Bfs /\ Scanning /\ step = "scan" /\ step' = step /\ at[t] = "register"
        /\ UNCHANGED <<choice, bfs, list>> /\ graph' = graph
        /\ UNCHANGED <<in_degrees, next_i, local, left>>
    BY DEF ListInv, Register, choice
  <1>2. ListTyped' /\ Bfs' /\ CacheListExact'
    BY <1>1, ScanFrame
  <1>3. at \in [Threads -> {"register", "next", "add", "out", "failed"}]
    BY <1>1 DEF Scanning
  <1>4. CASE at' = [at EXCEPT ![t] = "next"] /\ UNCHANGED scan_failed
    <2>1. /\ at' \in [Threads -> {"register", "next", "add", "out", "failed"}]
          /\ at'[t] = "next" /\ \A x \in Threads : x # t => at'[x] = at[x]
      BY <1>3, <1>4
    <2>2. Adding' = Adding
      BY <1>1, <2>1 DEF Adding
    <2>3. \A f : Counted(f) => Counted(f)'
      BY <1>1, <2>2, CountedFrame
    <2>4. Scanning'
      BY <1>1, <1>4, <2>1, <2>2, <2>3 DEF Scanning
    <2> QED
      BY <2>4, <1>2 DEF ListInv
  <1>5. CASE at' = [at EXCEPT ![t] = "failed"] /\ scan_failed' = TRUE
    <2>1. /\ at' \in [Threads -> {"register", "next", "add", "out", "failed"}]
          /\ at'[t] = "failed" /\ \A x \in Threads : x # t => at'[x] = at[x]
      BY <1>3, <1>5
    <2>2. Scanning'
      BY <1>1, <1>5, <2>1 DEF Scanning
    <2> QED
      BY <2>2, <1>2 DEF ListInv
  <1> QED
    BY <1>4, <1>5 DEF Register

\* A block is taken and counted, its counts not yet added.
LEMMA TakenIsCounted ==
    ASSUME graph \in Graphs, graph' = graph, Scanning, NEW f \in [Threads -> Ids], Counted(f),
           NEW t \in Threads, at[t] = "next", next_i < NumPoints, next_i' = next_i + IoBatch,
           local' = [local EXCEPT ![t] = BlockCounts(next_i)],
           left' = [left EXCEPT ![t] = {v \in Ids : local'[t][v] > 0}],
           at' = [at EXCEPT ![t] = "add"], in_degrees' = in_degrees,
           NEW g, g = [f EXCEPT ![t] = next_i]
    PROVE  g \in [Threads -> Ids] /\ Counted(g)'
  <1>1. /\ next_i \in Nat /\ at \in [Threads -> {"register", "next", "add", "out", "failed"}]
        /\ local \in [Threads -> [Ids -> Nat]] /\ left \in [Threads -> SUBSET Ids]
    BY DEF Scanning
  <1>2. PICK n : n = next_i
    OBVIOUS
  <1> DEFINE B == Block(n)
             P == Before(n)
             Q == Before(n + IoBatch)
  <1>3. /\ n \in Ids /\ B \subseteq Ids /\ P \subseteq Ids /\ P \cap B = {} /\ Q = P \cup B /\ n \in Nat
        /\ Before(next_i) = P /\ Before(next_i') = Q
    BY <1>1, <1>2, Blocks
  <1>4. g \in [Threads -> Ids] /\ g[t] = n /\ \A u \in Threads : u # t => g[u] = f[u]
    BY <1>2, <1>3
  <1>5. Adding' = Adding \cup {t} /\ t \notin Adding /\ Adding \subseteq Threads
    BY <1>1 DEF Adding
  <1>6. /\ local'[t] = BlockCounts(n) /\ \A u \in Threads : u # t => local'[u] = local[u]
        /\ left'[t] = {v \in Ids : BlockCounts(n)[v] > 0} /\ \A u \in Threads : u # t => left'[u] = left[u]
    <2>1. local'[t] = BlockCounts(n) /\ \A u \in Threads : u # t => local'[u] = local[u]
      BY <1>1, <1>2
    <2> QED
      BY <2>1, <1>1
  <1>7. BlockCounts(n) \in [Ids -> Nat] /\ \A v \in Ids : BlockCounts(n)[v] = Cardinality(Links(B, v))
    BY <1>3, BlockCountsType
  <1>8. /\ \A u \in Adding : Block(f[u]) \subseteq P /\ local[u] = BlockCounts(f[u])
        /\ \A u, w \in Adding : u # w => Block(f[u]) \cap Block(f[w]) = {}
        /\ \A v \in Ids : in_degrees[v] = Cardinality(Links(P \ Pending(f, v), v))
    BY <1>3 DEF Counted
  <1>9. \A b : BlockCounts(b)' = BlockCounts(b)
    BY DEF BlockCounts, Links
  <1> HIDE DEF B, P, Q
  <1>10. ASSUME NEW u \in Adding' PROVE Block(g[u]) \subseteq Q /\ local'[u] = BlockCounts(g[u])
    <2>1. CASE u = t
      BY <2>1, <1>3, <1>4, <1>6 DEF B
    <2>2. CASE u # t
      <3>1. u \in Adding /\ u \in Threads
        BY <2>2, <1>5
      <3> QED
        BY <2>2, <3>1, <1>3, <1>4, <1>6, <1>8
    <2> QED
      BY <2>1, <2>2
  <1>11. ASSUME NEW u \in Adding', NEW w \in Adding', u # w PROVE Block(g[u]) \cap Block(g[w]) = {}
    <2>1. ASSUME NEW x \in Adding PROVE Block(g[x]) \cap Block(g[t]) = {}
      <3>1. x # t /\ x \in Threads
        BY <1>5
      <3>2. Block(g[x]) \subseteq P /\ Block(g[t]) = B
        BY <3>1, <1>4, <1>8 DEF B
      <3> QED
        BY <3>2, <1>3
    <2>2. CASE u # t /\ w # t
      <3>1. u \in Adding /\ w \in Adding /\ g[u] = f[u] /\ g[w] = f[w]
        BY <2>2, <1>4, <1>5
      <3> QED
        BY <3>1, <1>8, <1>11
    <2> QED
      BY <2>1, <2>2, <1>5, <1>11
  <1>12. ASSUME NEW v \in Ids PROVE in_degrees[v] = Cardinality(Links(Q \ Pending(g, v)', v))
    <2>1. Pending(f, v) \subseteq P
      BY <1>8 DEF Pending
    <2>2. Pending(g, v)' = Pending(f, v) \cup (IF v \in left'[t] THEN B ELSE {})
      <3>1. {u \in Adding' : v \in left'[u]} = {u \in Adding : v \in left[u]} \cup (IF v \in left'[t] THEN {t} ELSE {})
        BY <1>5, <1>6
      <3>2. \A u \in Adding : Block(g[u]) = Block(f[u])
        BY <1>4, <1>5
      <3>3. Block(g[t]) = B
        BY <1>4 DEF B
      <3>4. Pending(g, v)' = UNION {Block(g[u]) : u \in {u \in Adding' : v \in left'[u]}}
        BY DEF Pending, Block
      <3> QED
        BY <3>1, <3>2, <3>3, <3>4 DEF Pending
    <2>3. in_degrees[v] = Cardinality(Links(P \ Pending(f, v), v))
      BY <1>8
    <2>4. CASE v \in left'[t]
      <3>1. Q \ Pending(g, v)' = P \ Pending(f, v)
        BY <2>1, <2>2, <2>4, <1>3
      <3> QED
        BY <2>3, <3>1
    <2>5. CASE v \notin left'[t]
      <3>1. Q \ Pending(g, v)' = (P \ Pending(f, v)) \cup B
        BY <2>1, <2>2, <2>5, <1>3
      <3>2. Cardinality(Links(B, v)) = 0
        BY <2>5, <1>6, <1>7
      <3>3. IsFiniteSet(Links(B, v))
        BY <1>3, LinksFinite
      <3>4. Links(B, v) = {}
        BY <3>2, <3>3, FS_EmptySet
      <3>5. Links((P \ Pending(f, v)) \cup B, v) = Links(P \ Pending(f, v), v)
        BY <3>4 DEF Links
      <3> QED
        BY <2>3, <3>1, <3>5
    <2> QED
      BY <2>4, <2>5
  <1>13. Counted(g)'
    <2>1. \A S, v : Links(S, v)' = Links(S, v)
      BY DEF Links
    <2>2. \A b : Block(b)' = Block(b)
      BY DEF Block
    <2>3. ASSUME NEW v \in Ids
          PROVE  in_degrees'[v] = Cardinality((Links(Before(next_i) \ Pending(g, v), v))')
      <3>1. (Links(Before(next_i) \ Pending(g, v), v))' = Links(Q \ Pending(g, v)', v)
        <4>1. (Before(next_i) \ Pending(g, v))' = Q \ Pending(g, v)'
          BY <1>3 DEF Before
        <4>2. PICK Z : Z = Q \ Pending(g, v)'
          OBVIOUS
        <4>3. (Links(Before(next_i) \ Pending(g, v), v))'
                = UNION {{u} \X {x \in DOMAIN graph[u] : graph[u][x] = v} : u \in (Before(next_i) \ Pending(g, v))'}
          BY DEF Links
        <4>4. (Links(Before(next_i) \ Pending(g, v), v))' = Links(Z, v)
          <5>1. (Before(next_i) \ Pending(g, v))' = Z
            BY <4>1, <4>2
          <5> QED
            BY <5>1, <4>3, Zenon DEF Links
        <4> QED
          BY <4>2, <4>4
      <3> QED
        BY <3>1, <1>12
    <2>4. \A u \in Adding' : Block(g[u]) \subseteq (Before(next_i))' /\ local'[u] = (BlockCounts(g[u]))'
      BY <1>3, <1>9, <1>10 DEF Before
    <2> QED
      BY <2>3, <2>4, <1>11 DEF Counted, Block
  <1> QED
    BY <1>4, <1>13

\* A thread takes a block, skips one after a failure, or finds none left.
LEMMA TakeBlockKeeps == ASSUME ListInv, NEW t \in Threads, TakeBlock(t) PROVE ListInv'
  <1>1. /\ ListTyped /\ Bfs /\ Scanning /\ step = "scan" /\ step' = step /\ at[t] = "next"
        /\ UNCHANGED <<choice, bfs, list>> /\ graph' = graph /\ graph \in Graphs
        /\ UNCHANGED <<in_degrees, scan_failed>>
    BY DEF ListInv, TakeBlock, choice, ListTyped
  <1>2. ListTyped' /\ Bfs' /\ CacheListExact'
    BY <1>1, ScanFrame
  <1>3. /\ at \in [Threads -> {"register", "next", "add", "out", "failed"}] /\ next_i \in Nat
        /\ local \in [Threads -> [Ids -> Nat]] /\ left \in [Threads -> SUBSET Ids]
    BY <1>1 DEF Scanning
  <1>4. /\ next_i <= next_i + IoBatch /\ next_i + IoBatch \in Nat /\ NumPoints \in Nat
        /\ next_i < NumPoints => Block(next_i) \subseteq Ids
    BY <1>3, Blocks, PointsType
  <1>5. CASE /\ next_i >= NumPoints /\ at' = [at EXCEPT ![t] = "out"]
             /\ UNCHANGED <<next_i, local, left>>
    <2>1. /\ at' \in [Threads -> {"register", "next", "add", "out", "failed"}]
          /\ at'[t] = "out" /\ \A x \in Threads : x # t => at'[x] = at[x]
      BY <1>3, <1>5
    <2>2. Adding' = Adding
      BY <1>1, <2>1 DEF Adding
    <2>3. \A f : Counted(f) => Counted(f)'
      BY <1>1, <1>5, <2>2, CountedFrame
    <2>4. Scanning'
      BY <1>1, <1>5, <2>1, <2>2, <2>3 DEF Scanning
    <2> QED
      BY <2>4, <1>2 DEF ListInv
  <1>6. CASE /\ next_i < NumPoints /\ scan_failed /\ next_i' = next_i + IoBatch
             /\ UNCHANGED <<at, local, left>>
    <2>1. \A x \in Threads : at'[x] = "out" => next_i' >= NumPoints
      BY <1>1, <1>3, <1>4, <1>6 DEF Scanning
    <2>2. Scanning'
      BY <1>1, <1>4, <1>6, <2>1 DEF Scanning
    <2> QED
      BY <2>2, <1>2 DEF ListInv
  <1>7. CASE /\ next_i < NumPoints /\ next_i' = next_i + IoBatch
             /\ local' = [local EXCEPT ![t] = LocalIncrements(t, next_i)]
             /\ left' = [left EXCEPT ![t] = {v \in Ids : local'[t][v] > 0}]
             /\ at' = [at EXCEPT ![t] = "add"]
    <2>1. /\ at' \in [Threads -> {"register", "next", "add", "out", "failed"}]
          /\ at'[t] = "add" /\ \A x \in Threads : x # t => at'[x] = at[x]
      BY <1>3, <1>7
    <2>2. \A x \in Threads : at'[x] = "out" => next_i' >= NumPoints
      <3> SUFFICES ASSUME NEW x \in Threads, at'[x] = "out" PROVE next_i' >= NumPoints
        OBVIOUS
      <3>1. at[x] = "out"
        BY <2>1
      <3> QED
        BY <3>1, <1>1, <1>3, <1>4, <1>7 DEF Scanning
    <2>3. local' = [local EXCEPT ![t] = BlockCounts(next_i)] /\ BlockCounts(next_i) \in [Ids -> Nat]
      BY <1>1, <1>4, <1>7, BlockCountsType DEF LocalIncrements
    <2>4. local' \in [Threads -> [Ids -> Nat]] /\ left' \in [Threads -> SUBSET Ids]
      BY <1>3, <1>7, <2>3
    <2>5. ASSUME ~scan_failed PROVE \E f \in [Threads -> Ids] : Counted(f)'
      <3>1. PICK f \in [Threads -> Ids] : Counted(f)
        BY <1>1, <2>5 DEF Scanning
      <3>2. PICK g : g = [f EXCEPT ![t] = next_i]
        OBVIOUS
      <3>3. g \in [Threads -> Ids] /\ Counted(g)'
        BY <1>1, <1>7, <2>3, <3>1, <3>2, TakenIsCounted
      <3> QED
        BY <3>3
    <2>6. Scanning'
      BY <1>1, <1>4, <1>7, <2>1, <2>2, <2>4, <2>5 DEF Scanning
    <2> QED
      BY <2>6, <1>2 DEF ListInv
  <1> QED
    BY <1>5, <1>6, <1>7 DEF TakeBlock

\* A count is added.
LEMMA AddedIsCounted ==
    ASSUME graph \in Graphs, graph' = graph, Scanning, NEW f \in [Threads -> Ids], Counted(f),
           NEW t \in Threads, at[t] = "add", NEW v \in left[t], v \in Ids,
           in_degrees' = [in_degrees EXCEPT ![v] = @ + local[t][v]],
           left' = [left EXCEPT ![t] = @ \ {v}], UNCHANGED <<at, next_i, local>>
    PROVE  Counted(f)'
  <1>1. /\ next_i \in Nat /\ at \in [Threads -> {"register", "next", "add", "out", "failed"}]
        /\ left \in [Threads -> SUBSET Ids] /\ in_degrees \in [Ids -> Nat]
    BY DEF Scanning
  <1>2. PICK P : P = Before(next_i)
    OBVIOUS
  <1>3. P \subseteq Ids /\ (Before(next_i))' = P
    BY <1>1, <1>2, Blocks DEF Before
  <1>4. Adding' = Adding /\ t \in Adding /\ Adding \subseteq Threads
    BY DEF Adding
  <1>5. left'[t] = left[t] \ {v} /\ \A u \in Threads : u # t => left'[u] = left[u]
    BY <1>1
  <1>6. /\ \A u \in Adding : Block(f[u]) \subseteq P /\ local[u] = BlockCounts(f[u])
        /\ \A u, w \in Adding : u # w => Block(f[u]) \cap Block(f[w]) = {}
        /\ \A w \in Ids : in_degrees[w] = Cardinality(Links(P \ Pending(f, w), w))
    BY <1>2 DEF Counted
  <1> DEFINE B == Block(f[t])
  <1>7. B \subseteq P /\ B \subseteq Ids /\ local[t][v] = Cardinality(Links(B, v))
    <2>1. B \subseteq P /\ B \subseteq Ids /\ local[t] = BlockCounts(f[t])
      BY <1>3, <1>4, <1>6
    <2>2. BlockCounts(f[t])[v] = Cardinality(Links(Block(f[t]), v))
      BY <2>1, BlockCountsType
    <2> QED
      BY <2>1, <2>2
  <1>8. ASSUME NEW w \in Ids PROVE in_degrees'[w] = Cardinality(Links(P \ Pending(f, w)', w))
    <2>0. Pending(f, w)' = UNION {Block(f[u]) : u \in {u \in Adding : w \in left'[u]}}
      BY <1>4 DEF Pending, Block
    <2>1. CASE w # v
      <3>1. {u \in Adding : w \in left'[u]} = {u \in Adding : w \in left[u]}
        BY <2>1, <1>4, <1>5
      <3>2. Pending(f, w)' = Pending(f, w)
        BY <2>0, <3>1 DEF Pending
      <3>3. in_degrees'[w] = in_degrees[w]
        BY <2>1, <1>1
      <3> QED
        BY <3>2, <3>3, <1>6
    <2>2. CASE w = v
      <3>1. {u \in Adding : v \in left[u]} = {u \in Adding : v \in left'[u]} \cup {t} /\ v \notin left'[t]
        BY <1>4, <1>5
      <3> DEFINE R == Pending(f, v)'
      <3>2. Pending(f, v) = R \cup B
        BY <2>0, <2>2, <3>1 DEF Pending
      <3>3. R \cap B = {} /\ R \subseteq P
        <4>1. ASSUME NEW u \in Adding, v \in left'[u] PROVE Block(f[u]) \cap B = {} /\ Block(f[u]) \subseteq P
          <5>1. u # t
            BY <3>1, <4>1
          <5> QED
            BY <5>1, <1>4, <1>6
        <4> QED
          BY <4>1, <2>0, <2>2
      <3> HIDE DEF R, B
      <3>4. P \ R = (P \ Pending(f, v)) \cup B /\ (P \ Pending(f, v)) \cap B = {}
        BY <3>2, <3>3, <1>7
      <3> DEFINE A == P \ Pending(f, v)
      <3>5. A \subseteq Ids /\ A \cap B = {} /\ P \ R = A \cup B
        BY <3>4, <1>3
      <3>6. in_degrees[v] = Cardinality(Links(A, v))
        BY <1>6
      <3> HIDE DEF A
      <3>7. Cardinality(Links(A \cup B, v)) = Cardinality(Links(A, v)) + Cardinality(Links(B, v))
        BY <3>5, <1>7, LinksOfBoth
      <3>8. in_degrees'[v] = in_degrees[v] + local[t][v]
        BY <1>1
      <3>9. in_degrees'[v] = Cardinality(Links(P \ R, v))
        BY <3>5, <3>6, <3>7, <3>8, <1>7
      <3> QED
        BY <3>9, <2>2 DEF R
    <2> QED
      BY <2>1, <2>2
  <1>9. ASSUME NEW w \in Ids
        PROVE  in_degrees'[w] = Cardinality((Links(Before(next_i) \ Pending(f, w), w))')
    <2>1. (Before(next_i) \ Pending(f, w))' = P \ Pending(f, w)'
      BY <1>3
    <2>2. (Links(Before(next_i) \ Pending(f, w), w))' = Links(P \ Pending(f, w)', w)
      BY <2>1 DEF Links
    <2> QED
      BY <2>2, <1>8
  <1>10. \A b : BlockCounts(b)' = BlockCounts(b)
    BY DEF BlockCounts, Links
  <1>11. /\ \A u \in Adding' : Block(f[u]) \subseteq (Before(next_i))' /\ local'[u] = (BlockCounts(f[u]))'
         /\ \A u, w \in Adding' : u # w => Block(f[u]) \cap Block(f[w]) = {}
    BY <1>3, <1>4, <1>6, <1>10
  <1> QED
    BY <1>9, <1>11 DEF Counted, Block

LEMMA AddOneKeeps == ASSUME ListInv, NEW t \in Threads, AddOne(t) PROVE ListInv'
  <1>1. /\ ListTyped /\ Bfs /\ Scanning /\ step' = step /\ at[t] = "add"
        /\ UNCHANGED <<choice, bfs, list>> /\ graph' = graph /\ graph \in Graphs
        /\ UNCHANGED <<next_i, at, local, scan_failed>>
    BY DEF ListInv, AddOne, choice, ListTyped
  <1>2. t \in Adding /\ step \in {"scan", "failed"}
    BY <1>1 DEF Adding, Scanning
  <1>3. ListTyped' /\ Bfs' /\ CacheListExact'
    BY <1>1, <1>2, ScanFrame
  <1>4. PICK v \in left[t] : /\ in_degrees' = [in_degrees EXCEPT ![v] = @ + local[t][v]]
                             /\ left' = [left EXCEPT ![t] = @ \ {v}]
    BY DEF AddOne
  <1>5. /\ left \in [Threads -> SUBSET Ids] /\ in_degrees \in [Ids -> Nat]
        /\ local \in [Threads -> [Ids -> Nat]]
    BY <1>1 DEF Scanning
  <1>6. v \in Ids /\ local[t][v] \in Nat
    BY <1>4, <1>5
  <1>7. left' \in [Threads -> SUBSET Ids] /\ in_degrees' \in [Ids -> Nat] /\ Adding' = Adding
    BY <1>1, <1>4, <1>5, <1>6 DEF Adding
  <1>8. \A f \in [Threads -> Ids] : Counted(f) => Counted(f)'
    BY <1>1, <1>4, <1>6, AddedIsCounted
  <1>9. Scanning'
    BY <1>1, <1>2, <1>7, <1>8 DEF Scanning
  <1> QED
    BY <1>3, <1>9 DEF ListInv

\* All counts of a block are added: nothing of it is pending.
LEMMA EndBlockKeeps == ASSUME ListInv, NEW t \in Threads, EndBlock(t) PROVE ListInv'
  <1>1. /\ ListTyped /\ Bfs /\ Scanning /\ step' = step /\ at[t] = "add" /\ left[t] = {}
        /\ UNCHANGED <<choice, bfs, list>> /\ graph' = graph
        /\ at' = [at EXCEPT ![t] = "next"]
        /\ UNCHANGED <<in_degrees, next_i, local, left, scan_failed>>
    BY DEF ListInv, EndBlock, choice, ListTyped
  <1>2. t \in Adding /\ step \in {"scan", "failed"}
    BY <1>1 DEF Adding, Scanning
  <1>3. ListTyped' /\ Bfs' /\ CacheListExact'
    BY <1>1, <1>2, ScanFrame
  <1>4. at \in [Threads -> {"register", "next", "add", "out", "failed"}]
    BY <1>1 DEF Scanning
  <1>5. /\ at' \in [Threads -> {"register", "next", "add", "out", "failed"}]
        /\ at'[t] = "next" /\ \A x \in Threads : x # t => at'[x] = at[x]
    BY <1>1, <1>4
  <1>6. Adding' = Adding \ {t}
    BY <1>5 DEF Adding
  <1>7. ASSUME NEW f, Counted(f) PROVE Counted(f)'
    <2>1. \A v : {u \in Adding' : v \in left[u]} = {u \in Adding : v \in left[u]}
      BY <1>1, <1>6
    <2>2. \A v : Pending(f, v)' = Pending(f, v)
      BY <2>1, <1>1 DEF Pending, Block
    <2>3. \A b : BlockCounts(b)' = BlockCounts(b)
      BY <1>1 DEF BlockCounts, Links
    <2>4. ASSUME NEW v PROVE (Links(Before(next_i) \ Pending(f, v), v))' = Links(Before(next_i) \ Pending(f, v), v)
      <3>1. (Before(next_i) \ Pending(f, v))' = Before(next_i) \ Pending(f, v)
        BY <1>1, <2>2 DEF Before
      <3> QED
        BY <1>1, <3>1 DEF Links
    <2>5. \A u \in Adding' : u \in Adding
      BY <1>6
    <2> QED
      BY <1>1, <1>7, <2>3, <2>4, <2>5 DEF Counted, Before, Block
  <1>8. Scanning'
    BY <1>1, <1>2, <1>5, <1>6, <1>7 DEF Scanning
  <1> QED
    BY <1>3, <1>8 DEF ListInv

LEMMA UndefinedKeeps == ASSUME ListInv, Undefined PROVE ListInv'
  <1>1. /\ ListTyped /\ Bfs /\ Scanning /\ step = "scan" /\ step' = "failed"
        /\ UNCHANGED <<choice, bfs, list>>
        /\ UNCHANGED <<in_degrees, next_i, at, local, left, scan_failed>>
    BY DEF ListInv, Undefined, scan
  <1>2. ListTyped' /\ Bfs' /\ CacheListExact'
    BY <1>1, ScanFrame
  <1>3. Scanning'
    BY <1>1 DEF Scanning
  <1> QED
    BY <1>2, <1>3 DEF ListInv

\* All threads are out: every block is counted.
LEMMA EndScanKeeps == ASSUME ListInv, EndScan PROVE ListInv'
  <1>1. /\ ListTyped /\ Bfs /\ Scanning /\ step = "scan" /\ \A t \in Threads : at[t] \in {"out", "failed"}
        /\ step' = IF ~scan_failed THEN "select" ELSE "failed"
        /\ UNCHANGED <<choice, bfs, list>> /\ graph' = graph
        /\ UNCHANGED <<in_degrees, next_i, at, local, left, scan_failed>>
    BY DEF ListInv, EndScan, scan, choice
  <1>2. ListTyped' /\ Bfs' /\ CacheListExact'
    <2>1. step' \in {"select", "failed"}
      BY <1>1
    <2> QED
      BY <1>1, <2>1, ScanFrame
  <1>3. Adding = {} /\ Adding' = {}
    BY <1>1 DEF Adding
  <1>4. ASSUME ~scan_failed PROVE \A v \in Ids : in_degrees[v] = InDegree(v)
    <2>1. PICK f \in [Threads -> Ids] : Counted(f)
      BY <1>1, <1>4 DEF Scanning
    <2>2. PICK t \in Threads : TRUE
      BY ThreadsAssumption
    <2>3. next_i >= NumPoints /\ next_i \in Nat
      BY <1>1, <1>4, <2>2 DEF Scanning
    <2>4. Before(next_i) = Ids
      BY <2>3, Blocks
    <2>5. \A v \in Ids : Pending(f, v) = {}
      BY <1>3 DEF Pending
    <2>6. ASSUME NEW v \in Ids PROVE in_degrees[v] = InDegree(v)
      <3>1. Before(next_i) \ Pending(f, v) = Ids
        BY <2>4, <2>5
      <3> QED
        BY <2>1, <3>1 DEF Counted, InDegree
    <2> QED
      BY <2>6
  <1>5. \A v : InDegree(v)' = InDegree(v)
    BY <1>1, SameDegrees
  <1>6. Scanning'
    <2>1. CASE scan_failed
      BY <1>1, <1>3, <2>1 DEF Scanning
    <2>2. CASE ~scan_failed
      BY <1>1, <1>3, <1>4, <1>5, <2>2 DEF Scanning
    <2> QED
      BY <2>1, <2>2
  <1> QED
    BY <1>2, <1>6 DEF ListInv

-----------------------------------------------------------------------------
(* The nodes of the highest in-degree *)

\* Which of two nodes is higher is settled, and by one of the two alone.
LEMMA HigherIsOrder ==
    ASSUME in_degrees \in [Ids -> Nat], NEW u \in Ids, NEW v \in Ids, NEW w \in Ids
    PROVE  /\ ~Higher(u, u)
           /\ Higher(u, v) /\ Higher(v, w) => Higher(u, w)
  <1>1. u \in Int /\ v \in Int /\ w \in Int /\ in_degrees[u] \in Nat /\ in_degrees[v] \in Nat /\ in_degrees[w] \in Nat
    BY DEF Ids
  <1> QED
    BY <1>1 DEF Higher

\* The heap has its least node on top.
LEMMA TopIsLeast ==
    ASSUME in_degrees \in [Ids -> Nat], NEW pq, pq \subseteq Ids, pq # {}
    PROVE  Top(pq) \in pq /\ \A u \in pq \ {Top(pq)} : Higher(u, Top(pq))
  <1> DEFINE D == {in_degrees[v] : v \in pq}
  <1>0. \A v \in pq : v \in Ids /\ in_degrees[v] \in Nat /\ v \in Int /\ NumPoints - v \in Nat
    BY PointsType DEF Ids
  <1>1. D \subseteq Nat /\ D # {}
    BY <1>0
  <1>2. PICK d \in D : \A e \in D : d <= e
    <2> HIDE DEF D
    <2> QED
      BY <1>1, LeastNatural
  <1> DEFINE L == {NumPoints - v : v \in {w \in pq : in_degrees[w] = d}}
  <1>3. L \subseteq Nat /\ L # {}
    BY <1>0
  <1>4. PICK l \in L : \A e \in L : l <= e
    <2> HIDE DEF L
    <2> QED
      BY <1>3, LeastNatural
  <1>5. PICK v \in pq : in_degrees[v] = d /\ l = NumPoints - v
    OBVIOUS
  <1>6. ASSUME NEW u \in pq \ {v} PROVE Higher(u, v)
    <2>1. d <= in_degrees[u]
      BY <1>2
    <2>2. CASE in_degrees[u] = d
      <3>1. l <= NumPoints - u
        BY <2>2, <1>4
      <3>2. u < v
        BY <3>1, <1>0, <1>5, PointsType
      <3> QED
        BY <3>2, <2>2, <1>5 DEF Higher
    <2>3. CASE in_degrees[u] # d
      <3>1. in_degrees[u] > in_degrees[v]
        BY <2>1, <2>3, <1>0, <1>5
      <3> QED
        BY <3>1 DEF Higher
    <2> QED
      BY <2>2, <2>3
  <1>7. \E x \in pq : \A u \in pq \ {x} : Higher(u, x)
    BY <1>5, <1>6
  <1> QED
    BY <1>7 DEF Top

\* The nodes before n that the BFS did not list, and the heap after them: the
\* highest of them, as many as are needed if there are so many.
Open(n) == (0 .. n - 1) \ ToSet(chosen)
HeapAt(pq, n) ==
    /\ pq \subseteq Open(n) /\ IsFiniteSet(pq) /\ Cardinality(pq) <= Needed
    /\ Cardinality(pq) < Needed => pq = Open(n)
    /\ \A u \in pq, v \in Open(n) \ pq : Higher(u, v)

\* A node that is pushed: the heap is again the highest of what it has seen.
LEMMA PushKeepsHighest ==
    ASSUME in_degrees \in [Ids -> Nat], chosen \in Seq(Ids), limit \in Nat, ~Full,
           NEW n \in Ids, NEW pq, HeapAt(pq, n)
    PROVE  HeapAt(Push(pq, n), n + 1)
  <1>1. n \in Nat /\ n < NumPoints /\ NumPoints \in Nat /\ Needed \in Nat /\ Needed >= 1
    BY PointsType DEF Ids, Full, Needed
  <1>2. Contains(chosen, n) <=> n \in ToSet(chosen)
    BY DEF Contains, ToSet
  <1>3. /\ Open(n) \subseteq Ids /\ n \notin Open(n)
        /\ Open(n + 1) = IF n \in ToSet(chosen) THEN Open(n) ELSE Open(n) \cup {n}
    <2>1. 0 .. (n + 1) - 1 = (0 .. n - 1) \cup {n}
      BY <1>1
    <2>2. 0 .. n - 1 \subseteq Ids /\ n \notin 0 .. n - 1
      BY <1>1 DEF Ids
    <2> QED
      BY <2>1, <2>2 DEF Open
  <1>4. /\ pq \subseteq Open(n) /\ IsFiniteSet(pq) /\ Cardinality(pq) <= Needed /\ pq \subseteq Ids /\ n \notin pq
        /\ Cardinality(pq) < Needed => pq = Open(n)
        /\ \A u \in pq, v \in Open(n) \ pq : Higher(u, v)
        /\ Cardinality(pq) \in Nat
    BY <1>3, FS_CardinalityType DEF HeapAt
  <1>5. CASE n \in ToSet(chosen)
    BY <1>2, <1>3, <1>5 DEF Push, HeapAt
  <1>6. CASE n \notin ToSet(chosen) /\ Cardinality(pq) < Needed
    <2>1. Push(pq, n) = pq \cup {n} /\ pq \cup {n} = Open(n + 1)
      BY <1>2, <1>3, <1>4, <1>6 DEF Push
    <2>2. IsFiniteSet(pq \cup {n}) /\ Cardinality(pq \cup {n}) = Cardinality(pq) + 1
      BY <1>4, FS_AddElement
    <2>3. Cardinality(pq \cup {n}) <= Needed
      BY <2>2, <1>1, <1>4, <1>6
    <2> QED
      BY <2>1, <2>2, <2>3 DEF HeapAt
  <1>7. CASE n \notin ToSet(chosen) /\ ~(Cardinality(pq) < Needed)
    <2> DEFINE t == Top(pq)
    <2>0. Cardinality(pq) = Needed /\ ~(Needed < Needed)
      BY <1>1, <1>4, <1>7
    <2>1. pq # {}
      <3>1. pq = {} => Cardinality(pq) = 0
        BY <1>4, FS_EmptySet
      <3>2. Cardinality(pq) # 0
        BY <2>0, <1>1
      <3> QED
        BY <3>1, <3>2
    <2>2. t \in pq /\ t \in Ids /\ (\A u \in pq \ {t} : Higher(u, t)) /\ t # n
      BY <2>1, <1>4, TopIsLeast
    <2>3. Open(n + 1) = Open(n) \cup {n}
      BY <1>3, <1>7
    <2>4. Push(pq, n) = IF in_degrees[n] > in_degrees[t] THEN (pq \ {t}) \cup {n} ELSE pq
      BY <1>2, <1>7 DEF Push
    <2> HIDE DEF t
    <2>5. CASE in_degrees[n] > in_degrees[t]
      <3> DEFINE new == (pq \ {t}) \cup {n}
      <3>1. IsFiniteSet(pq \ {t}) /\ Cardinality(pq \ {t}) = Cardinality(pq) - 1
        BY <1>4, <2>2, FS_RemoveElement
      <3>2. n \notin pq \ {t}
        BY <1>4
      <3>3. IsFiniteSet(new) /\ Cardinality(new) = Cardinality(pq \ {t}) + 1
        BY <3>1, <3>2, FS_AddElement
      <3>4. Cardinality(new) = Needed
        BY <3>1, <3>3, <2>0, <1>1
      <3>5. new \subseteq Open(n + 1)
        BY <2>3, <1>4
      <3>6. ASSUME NEW u \in new, NEW v \in Open(n + 1) \ new PROVE Higher(u, v)
        <4>1. v = t \/ v \in Open(n) \ pq
          BY <2>3
        <4>2. v \in Ids /\ u \in Ids
          BY <4>1, <1>3, <1>4, <2>2
        <4>3. v # t => Higher(t, v)
          BY <4>1, <2>2, <1>4
        <4>4. in_degrees[t] >= in_degrees[v]
          <5>1. in_degrees[t] \in Nat /\ in_degrees[v] \in Nat
            BY <4>2, <2>2
          <5> QED
            BY <5>1, <4>3 DEF Higher
        <4>5. CASE u = n
          <5>1. in_degrees[n] \in Nat /\ in_degrees[t] \in Nat /\ in_degrees[v] \in Nat
            BY <4>2, <2>2
          <5> QED
            BY <5>1, <4>4, <4>5, <2>5 DEF Higher
        <4>6. CASE u # n
          <5>1. u \in pq \ {t}
            BY <4>6
          <5> QED
            BY <5>1, <4>1, <2>2, <1>4
        <4> QED
          BY <4>5, <4>6
      <3> HIDE DEF new
      <3>7. HeapAt(new, n + 1)
        BY <3>3, <3>4, <3>5, <3>6, <2>0 DEF HeapAt
      <3> QED
        BY <3>7, <2>4, <2>5 DEF new
    <2>6. CASE ~(in_degrees[n] > in_degrees[t])
      <3>1. ASSUME NEW u \in pq, NEW v \in Open(n + 1) \ pq PROVE Higher(u, v)
        <4>1. CASE v = n
          <5>1. u \in 0 .. n - 1 /\ u \in Ids
            BY <1>4 DEF Open
          <5>2. u < n /\ in_degrees[u] \in Nat /\ in_degrees[n] \in Nat /\ in_degrees[t] \in Nat
            BY <5>1, <1>1, <2>2
          <5>3. in_degrees[u] >= in_degrees[t]
            BY <5>2, <2>2 DEF Higher
          <5> QED
            BY <5>2, <5>3, <4>1, <2>6 DEF Higher
        <4>2. CASE v # n
          BY <4>2, <2>3, <1>4
        <4> QED
          BY <4>1, <4>2
      <3>2. pq \subseteq Open(n + 1)
        BY <2>3, <1>4
      <3> QED
        BY <3>1, <3>2, <2>0, <2>4, <2>6, <1>4 DEF HeapAt
    <2> QED
      BY <2>5, <2>6
  <1> QED
    BY <1>5, <1>6, <1>7

\* The heap after the last node.
LEMMA HeapIsHighest ==
    ASSUME in_degrees \in [Ids -> Nat], chosen \in Seq(Ids), limit \in Nat, ~Full
    PROVE  HeapAt(Heap, NumPoints)
  <1> DEFINE s == [x \in 1 .. NumPoints |-> x - 1]
  <1>1. NumPoints \in Nat
    BY PointsType
  <1>2. s \in Seq(Ids) /\ Len(s) = NumPoints /\ \A x \in 1 .. NumPoints : s[x] = x - 1 /\ x - 1 \in Ids
    <2>1. ASSUME NEW x \in 1 .. NumPoints PROVE x - 1 \in Ids
      BY <1>1 DEF Ids
    <2>2. s \in [1 .. NumPoints -> Ids]
      BY <2>1
    <2> QED
      BY <2>1, <2>2, <1>1
  <1>3. \A q \in SUBSET Ids, y \in Ids : Push(q, y) \in SUBSET Ids
    BY DEF Push
  <1>4. {} \in SUBSET Ids
    OBVIOUS
  <1> HIDE DEF s
  <1>5. PICK d \in [0 .. Len(s) -> SUBSET Ids] : IsHeap(d, {}, s)
    BY <1>2, <1>3, <1>4, HeapFold
  <1> DEFINE Good == {r \in 0 .. NumPoints : HeapAt(d[r], r)}
  <1>6. 0 \in Good
    <2>1. d[0] = {} /\ 0 \in 0 .. NumPoints
      BY <1>1, <1>5 DEF IsHeap
    <2>2. IsFiniteSet({}) /\ Cardinality({}) = 0
      BY FS_EmptySet
    <2>3. 0 <= Needed
      BY DEF Needed, Full
    <2>4. Open(0) = {}
      BY DEF Open
    <2>5. HeapAt({}, 0)
      BY <2>2, <2>3, <2>4 DEF HeapAt
    <2> QED
      BY <2>1, <2>5
  <1>7. ASSUME NEW r \in 1 .. NumPoints, r - 1 \in Good PROVE r \in Good
    <2>1. d[r] = Push(d[r - 1], r - 1)
      BY <1>2, <1>5 DEF IsHeap
    <2>2. HeapAt(d[r - 1], r - 1) /\ r - 1 \in Ids /\ (r - 1) + 1 = r /\ r \in 0 .. NumPoints
      <3>1. HeapAt(d[r - 1], r - 1)
        BY <1>7, Zenon
      <3>2. (r - 1) + 1 = r /\ r \in 0 .. NumPoints
        BY <1>1
      <3> QED
        BY <3>1, <3>2, <1>2
    <2>3. HeapAt(Push(d[r - 1], r - 1), (r - 1) + 1)
      BY <2>2, PushKeepsHighest
    <2> QED
      BY <2>1, <2>2, <2>3
  <1> HIDE DEF Good
  <1>8. \A r \in 0 .. NumPoints : r \in Good
    BY <1>1, <1>6, <1>7, Rounds
  <1>9. HeapAt(d[NumPoints], NumPoints)
    BY <1>1, <1>8 DEF Good
  <1>10. d[NumPoints] = FoldLeft(Push, {}, s)
    BY <1>2, <1>5 DEF IsHeap
  <1> QED
    BY <1>9, <1>10 DEF s, Heap

\* Written best first, no node of the heap comes twice, and all of them come.
LEMMA BestFirstIs ==
    ASSUME in_degrees \in [Ids -> Nat], NEW pq, pq \subseteq Ids, IsFiniteSet(pq), NEW t \in BestFirst(pq)
    PROVE  t \in Seq(Ids) /\ IsInjective(t) /\ Len(t) = Cardinality(pq) /\ ToSet(t) = pq
  <1> DEFINE n == Cardinality(pq)
  <1>1. n \in Nat /\ t \in [1 .. n -> pq] /\ \A x \in 2 .. n : Higher(t[x - 1], t[x])
    BY FS_CardinalityType DEF BestFirst
  <1> HIDE DEF n
  <1>2. \A x \in 1 .. n : t[x] \in Ids
    BY <1>1
  <1> DEFINE Good == {y \in 0 .. n : \A x \in 1 .. y - 1 : Higher(t[x], t[y])}
  <1>3. 0 \in Good
    BY <1>1
  <1>4. ASSUME NEW y \in 1 .. n, y - 1 \in Good PROVE y \in Good
    <2>1. ASSUME NEW x \in 1 .. y - 1 PROVE Higher(t[x], t[y])
      <3>1. y \in 2 .. n /\ y - 1 \in 1 .. n /\ x \in 1 .. n
        BY <1>1
      <3>2. Higher(t[y - 1], t[y]) /\ t[x] \in Ids /\ t[y] \in Ids /\ t[y - 1] \in Ids
        BY <3>1, <1>1, <1>2
      <3>3. CASE x = y - 1
        BY <3>2, <3>3
      <3>4. CASE x # y - 1
        <4>1. x \in 1 .. (y - 1) - 1
          BY <3>4, <1>1
        <4>2. Higher(t[x], t[y - 1])
          BY <4>1, <1>4
        <4> QED
          BY <3>2, <4>2, HigherIsOrder
      <3> QED
        BY <3>3, <3>4
    <2>2. y \in 0 .. n
      BY <1>1
    <2> QED
      BY <2>1, <2>2
  <1> HIDE DEF Good
  <1>5. \A y \in 0 .. n : y \in Good
    BY <1>1, <1>3, <1>4, Rounds
  <1>6. ASSUME NEW x \in 1 .. n, NEW y \in 1 .. n, x < y PROVE t[x] # t[y]
    <2>1. y \in 0 .. n /\ x \in 1 .. y - 1
      BY <1>1, <1>6
    <2>2. Higher(t[x], t[y])
      BY <2>1, <1>5 DEF Good
    <2> QED
      BY <2>2, <1>2, HigherIsOrder
  <1>7. IsInjective(t)
    <2> SUFFICES ASSUME NEW x \in 1 .. n, NEW y \in 1 .. n, t[x] = t[y] PROVE x = y
      BY <1>1 DEF IsInjective
    <2>1. ~(x < y) /\ ~(y < x) /\ x \in Int /\ y \in Int
      BY <1>6
    <2> QED
      BY <2>1
  <1> QED
    BY <1>1, <1>7, AllListed DEF n

\* Two lists without repetitions, one after the other, that have no node in common.
LEMMA ListsJoined ==
    ASSUME NEW s \in Seq(Ids), NEW t \in Seq(Ids), IsInjective(s), IsInjective(t), ToSet(s) \cap ToSet(t) = {}
    PROVE  /\ s \o t \in Seq(Ids) /\ IsInjective(s \o t) /\ Len(s \o t) = Len(s) + Len(t)
           /\ ToSet(s \o t) = ToSet(s) \cup ToSet(t)
  <1> DEFINE a == Len(s)
             b == Len(t)
             l == s \o t
  <1>1. /\ a \in Nat /\ b \in Nat /\ DOMAIN s = 1 .. a /\ DOMAIN t = 1 .. b /\ l \in Seq(Ids)
        /\ Len(l) = a + b /\ DOMAIN l = 1 .. a + b
        /\ \A x \in 1 .. a + b : l[x] = IF x <= a THEN s[x] ELSE t[x - a]
    OBVIOUS
  <1> HIDE DEF a, b, l
  <1>2. \A x \in 1 .. a : s[x] \in ToSet(s)
    BY <1>1 DEF ToSet
  <1>3. \A x \in 1 .. b : t[x] \in ToSet(t)
    BY <1>1 DEF ToSet
  <1>4. IsInjective(l)
    <2> SUFFICES ASSUME NEW x \in 1 .. a + b, NEW y \in 1 .. a + b, l[x] = l[y] PROVE x = y
      BY <1>1 DEF IsInjective
    <2>1. CASE x <= a /\ y <= a
      <3>1. x \in 1 .. a /\ y \in 1 .. a /\ s[x] = s[y]
        BY <2>1, <1>1
      <3> QED
        BY <3>1, <1>1 DEF IsInjective
    <2>2. CASE ~(x <= a) /\ ~(y <= a)
      <3>1. x - a \in 1 .. b /\ y - a \in 1 .. b /\ t[x - a] = t[y - a]
        BY <2>2, <1>1
      <3>2. x - a = y - a
        BY <3>1, <1>1 DEF IsInjective
      <3> QED
        BY <3>2, <1>1
    <2>3. CASE x <= a /\ ~(y <= a)
      <3>1. x \in 1 .. a /\ y - a \in 1 .. b /\ s[x] = t[y - a]
        BY <2>3, <1>1
      <3> QED
        BY <3>1, <1>2, <1>3
    <2>4. CASE ~(x <= a) /\ y <= a
      <3>1. y \in 1 .. a /\ x - a \in 1 .. b /\ s[y] = t[x - a]
        BY <2>4, <1>1
      <3> QED
        BY <3>1, <1>2, <1>3
    <2> QED
      BY <2>1, <2>2, <2>3, <2>4
  <1>5. ToSet(l) = ToSet(s) \cup ToSet(t)
    <2>1. ASSUME NEW x \in 1 .. a + b PROVE l[x] \in ToSet(s) \cup ToSet(t)
      <3>1. CASE x <= a
        <4>1. x \in 1 .. a
          BY <3>1, <1>1
        <4> QED
          BY <3>1, <4>1, <1>1, <1>2
      <3>2. CASE ~(x <= a)
        <4>1. x - a \in 1 .. b
          BY <3>2, <1>1
        <4> QED
          BY <3>2, <4>1, <1>1, <1>3
      <3> QED
        BY <3>1, <3>2
    <2>2. ASSUME NEW x \in 1 .. a PROVE s[x] \in ToSet(l)
      <3>1. x \in 1 .. a + b /\ l[x] = s[x]
        BY <1>1
      <3> QED
        BY <3>1, <1>1 DEF ToSet
    <2>3. ASSUME NEW x \in 1 .. b PROVE t[x] \in ToSet(l)
      <3>1. x + a \in 1 .. a + b /\ (x + a) - a = x /\ ~(x + a <= a)
        BY <1>1
      <3>2. l[x + a] = t[x]
        BY <3>1, <1>1
      <3> QED
        BY <3>1, <3>2, <1>1 DEF ToSet
    <2>4. ToSet(l) \subseteq ToSet(s) \cup ToSet(t)
      BY <2>1, <1>1 DEF ToSet
    <2>5. ToSet(s) \subseteq ToSet(l)
      BY <2>2, <1>1 DEF ToSet
    <2>6. ToSet(t) \subseteq ToSet(l)
      BY <2>3, <1>1 DEF ToSet
    <2> QED
      BY <2>4, <2>5, <2>6
  <1> QED
    BY <1>1, <1>4, <1>5 DEF a, b, l

\* The chosen nodes and then the heap: a list as it was asked for.
LEMMA FilledList ==
    ASSUME ListTyped, Scanning, Chosen, ~Full, \A v \in Ids : in_degrees[v] = InDegree(v),
           NEW pq, HeapAt(pq, NumPoints), NEW s \in Orders(chosen), NEW t \in BestFirst(pq)
    PROVE  s \o t \in Seq(Ids) /\ WellFilled(s \o t)
  <1>1. /\ in_degrees \in [Ids -> Nat] /\ chosen \in Seq(Ids) /\ limit \in Nat /\ IsInjective(chosen)
        /\ NumPoints \in Nat /\ Len(chosen) \in Nat /\ Len(medoids) \in Nat
    BY PointsType DEF ListTyped, Scanning, Chosen
  <1>2. Open(NumPoints) = Ids \ ToSet(chosen)
    BY DEF Open, Ids
  <1>3. /\ pq \subseteq Ids \ ToSet(chosen) /\ IsFiniteSet(pq) /\ Cardinality(pq) <= Needed
        /\ Cardinality(pq) < Needed => pq = Ids \ ToSet(chosen)
        /\ \A u \in pq, v \in (Ids \ ToSet(chosen)) \ pq : Higher(u, v)
        /\ Cardinality(pq) \in Nat
    BY <1>2, FS_CardinalityType DEF HeapAt
  <1>4. s \in Seq(Ids) /\ IsInjective(s) /\ Len(s) = Len(chosen) /\ ToSet(s) = ToSet(chosen)
    BY <1>1, OrderOfChosen
  <1>5. t \in Seq(Ids) /\ IsInjective(t) /\ Len(t) = Cardinality(pq) /\ ToSet(t) = pq
    BY <1>1, <1>3, BestFirstIs
  <1> DEFINE l == s \o t
  <1>6. /\ l \in Seq(Ids) /\ IsInjective(l) /\ Len(l) = Len(chosen) + Cardinality(pq)
        /\ ToSet(l) = ToSet(chosen) \cup pq
    BY <1>3, <1>4, <1>5, ListsJoined
  <1> HIDE DEF l
  <1>7. Len(l) <= Max({limit, 2, Len(medoids)})
    <2>1. Len(l) <= limit /\ Len(l) \in Nat
      BY <1>1, <1>3, <1>6 DEF Needed
    <2>2. Max({limit, 2, Len(medoids)}) >= limit /\ Max({limit, 2, Len(medoids)}) \in Nat
      BY <1>1, MaxOfThree
    <2> QED
      BY <2>1, <2>2, <1>1
  <1>8. Len(l) >= Min({limit, NumPoints})
    <2>1. limit \in Int /\ NumPoints \in Int
      BY <1>1
    <2>2. Min({limit, NumPoints}) <= limit /\ Min({limit, NumPoints}) <= NumPoints /\ Min({limit, NumPoints}) \in Int
      BY <2>1, MinOfTwo
    <2>3. CASE Cardinality(pq) < Needed
      <3>1. ToSet(l) = Ids
        <4>1. ToSet(chosen) \subseteq Ids
          BY <1>1 DEF ToSet
        <4> QED
          BY <4>1, <2>3, <1>3, <1>6
      <3>2. l \in [1 .. Len(l) -> Ids] /\ Len(l) \in Nat
        BY <1>6
      <3>3. Cardinality(ToSet(l)) = Len(l)
        BY <3>2, <1>6, SizeOfList
      <3>4. Len(l) = NumPoints
        BY <3>1, <3>3, IdsFinite
      <3> QED
        BY <3>4, <2>2, <1>1
    <2>4. CASE ~(Cardinality(pq) < Needed)
      <3>1. Len(l) >= limit /\ Len(l) \in Nat
        BY <2>4, <1>1, <1>3, <1>6 DEF Needed
      <3> QED
        BY <3>1, <2>2, <1>1
    <2> QED
      BY <2>3, <2>4
  <1>9. ASSUME NEW u \in ToSet(l) \ ToSet(chosen), NEW v \in Ids \ ToSet(l)
        PROVE  InDegree(u) > InDegree(v) \/ (InDegree(u) = InDegree(v) /\ u < v)
    <2>1. u \in pq /\ u \in Ids /\ v \in (Ids \ ToSet(chosen)) \ pq
      BY <1>3, <1>6
    <2>2. Higher(u, v) /\ in_degrees[u] = InDegree(u) /\ in_degrees[v] = InDegree(v)
      BY <2>1, <1>3
    <2> QED
      BY <2>2 DEF Higher
  <1>10. WellFilled(l)
    BY <1>6, <1>7, <1>8, <1>9 DEF WellFilled
  <1> QED
    BY <1>6, <1>10 DEF l

LEMMA SelectKeeps == ASSUME ListInv, Select PROVE ListInv'
  <1>1. /\ ListTyped /\ Bfs /\ Scanning /\ step = "select" /\ step' = "done"
        /\ UNCHANGED <<choice, bfs, scan>>
        /\ UNCHANGED <<program, graph, limit, medoids, hops, mode, chosen, frontier, next_frontier, pos, hop>>
        /\ UNCHANGED <<in_degrees, next_i, at, local, left, scan_failed>>
    BY DEF ListInv, Select, choice, bfs, scan
  <1>2. PICK s \in Orders(chosen), t \in BestFirst(Heap) : list' = s \o t
    BY DEF Select
  <1>3. /\ Choosing /\ Chosen /\ Listed /\ ~Full /\ chosen \in Seq(Ids) /\ limit \in Nat
        /\ in_degrees \in [Ids -> Nat] /\ \A v \in Ids : in_degrees[v] = InDegree(v)
    BY <1>1 DEF ListTyped, Bfs, Scanning, Choosing
  <1>4. HeapAt(Heap, NumPoints)
    BY <1>3, HeapIsHighest
  <1>5. list' \in Seq(Ids) /\ WellFilled(list')
    BY <1>1, <1>2, <1>3, <1>4, FilledList
  <1>6. CacheListExact'
    BY <1>1, <1>3, <1>5, ListIsExact
  <1>7. ListTyped'
    BY <1>1, <1>5 DEF ListTyped, Choosing
  <1>8. Adding' = Adding
    BY <1>1 DEF Adding
  <1>9. Scanning'
    BY <1>1, <1>8 DEF Scanning
  <1>10. Bfs'
    BY <1>1 DEF Bfs
  <1> QED
    BY <1>6, <1>7, <1>9, <1>10 DEF ListInv

-----------------------------------------------------------------------------
(* Every step *)

LEMMA ListStepKeeps == ASSUME ListInv, ListStep PROVE ListInv' /\ graph' = graph
  <1>1. graph' = graph
    BY DEF ListStep, ScanStep, Begin, BeginHop, VisitNode, EndHop, EndBfs, SaveBfs, BeginScan,
           Undefined, EndScan, Select, Register, TakeBlock, AddOne, EndBlock, choice
  <1>2. ASSUME NEW t \in Threads, ScanStep(t) PROVE ListInv'
    BY <1>2, RegisterKeeps, TakeBlockKeeps, AddOneKeeps, EndBlockKeeps DEF ScanStep
  <1>3. ListInv'
    BY <1>2, BeginKeeps, BeginHopKeeps, VisitNodeKeeps, EndHopKeeps, EndBfsKeeps, SaveBfsKeeps,
       BeginScanKeeps, UndefinedKeeps, EndScanKeeps, SelectKeeps DEF ListStep
  <1> QED
    BY <1>1, <1>3

LEMMA ListUntouched == ASSUME ListInv, UNCHANGED listvars PROVE ListInv'
  <1>1. /\ UNCHANGED <<program, graph, limit, medoids, hops, mode, step, list>>
        /\ UNCHANGED <<chosen, frontier, next_frontier, pos, hop>>
        /\ UNCHANGED <<in_degrees, next_i, at, local, left, scan_failed>>
    BY DEF listvars, choice, bfs, scan
  <1>2. Within' = Within /\ LimitHops' = LimitHops /\ Adding' = Adding /\ Full' = Full /\ Rings' = Rings
    BY <1>1, SameWithin DEF LimitHops, Adding, Full, Rings
  <1>3. \A v : InDegree(v)' = InDegree(v)
    BY <1>1, SameDegrees
  <1>4. ListTyped'
    BY <1>1 DEF ListInv, ListTyped, Choosing
  <1>5. Bfs'
    BY <1>1, <1>2 DEF ListInv, Bfs, Choosing, Chosen, AtHop, AtVisit, Listed, ByLevels, RingAt, UpTo, Reaches
  <1>6. \A f : Counted(f) => Counted(f)'
    BY <1>1, <1>2, CountedFrame
  <1>7. Scanning'
    BY <1>1, <1>2, <1>3, <1>6 DEF ListInv, Scanning
  <1>8. CacheListExact'
    BY <1>1, <1>2, <1>3 DEF ListInv, CacheListExact
  <1> QED
    BY <1>4, <1>5, <1>7, <1>8 DEF ListInv

LEMMA ForgetKeeps == ASSUME ListInv, Forget PROVE ListInv'
  <1>1. ListTyped' /\ Bfs' /\ CacheListExact'
    BY PointsType DEF ListInv, Forget, ListTyped, Bfs, Choosing, CacheListExact
  <1>2. NoCounts \in [Ids -> Nat]
    BY DEF NoCounts
  <1>3. /\ at' = [t \in Threads |-> "register"] /\ local' = [t \in Threads |-> NoCounts]
        /\ left' = [t \in Threads |-> {}] /\ in_degrees' = NoCounts /\ next_i' = 0 /\ scan_failed' = FALSE
        /\ step' = "over"
    BY DEF Forget
  <1>4. \A t \in Threads : at'[t] = "register"
    BY <1>3
  <1>5. Adding' = {}
    BY <1>4 DEF Adding
  <1>6. Scanning'
    BY <1>2, <1>3, <1>4, <1>5 DEF Scanning
  <1> QED
    BY <1>1, <1>6 DEF ListInv

-----------------------------------------------------------------------------
(* The hash table *)

\* The slot of the n-th probe for id, in the table ks with hash values h, and
\* whether the probing ends there.
Size(ks) == Cardinality(DOMAIN ks)
Slot(h, ks, id, n) == (h[id] + n) % Size(ks)
EndsAt(h, ks, id, n) ==
    /\ ks[Slot(h, ks, id, n)] \in {Unused, id}
    /\ \A m \in 0 .. Size(ks) - 1 : m < n => ks[Slot(h, ks, id, m)] \notin {Unused, id}
FoundAt(h, ks, id, n) == EndsAt(h, ks, id, n) /\ ks[Slot(h, ks, id, n)] = id

\* The table of the nodes St: what is in it is one of them, and the probes for
\* each of them lead to it.
Table(h, ks, os, St) ==
    /\ IsFiniteSet(DOMAIN ks) /\ DOMAIN ks = 0 .. Size(ks) - 1 /\ DOMAIN os = DOMAIN ks
    /\ h \in [Ids -> Nat] /\ St \subseteq Ids
    /\ \A s \in DOMAIN ks : ks[s] = Unused \/ (ks[s] \in St /\ os[s] \in 0 .. Unused - 1)
    /\ \A id \in St : \E n \in 0 .. Size(ks) - 1 : FoundAt(h, ks, id, n)
Used(ks) == {s \in DOMAIN ks : ks[s] # Unused}

LEMMA UnusedIsNone == Unused \in Nat /\ Unused \notin Ids /\ \A id \in Ids : id \in Nat
  BY SizesAssumption, SentinelAssumption, PointsAssumption DEF Ids

LEMMA SlotType ==
    ASSUME NEW h, NEW ks, NEW os, NEW St, Table(h, ks, os, St), NEW id \in Ids,
           NEW n \in 0 .. Size(ks) - 1
    PROVE  Slot(h, ks, id, n) \in DOMAIN ks /\ Size(ks) \in Nat \ {0}
  <1>1. Size(ks) \in Nat
    BY FS_CardinalityType DEF Table, Size
  <1>2. h[id] \in Nat /\ DOMAIN ks = 0 .. Size(ks) - 1
    BY DEF Table
  <1> DEFINE c == Size(ks)
             a == h[id]
  <1>3. c \in Nat \ {0}
    BY <1>1
  <1> HIDE DEF c, a
  <1>4. (a + n) % c \in 0 .. c - 1
    BY <1>2, <1>3, ProbeInTable DEF a, c
  <1> QED
    BY <1>2, <1>3, <1>4 DEF Slot, a, c

\* A table that is not full has an end for the probes of every node.
LEMMA SomeEnd ==
    ASSUME NEW h, NEW ks, NEW os, NEW St, Table(h, ks, os, St), NEW id \in Ids,
           Cardinality(Used(ks)) < Size(ks)
    PROVE  \E n \in 0 .. Size(ks) - 1 : EndsAt(h, ks, id, n)
  <1> DEFINE c == Size(ks)
             E == {n \in 0 .. c - 1 : ks[Slot(h, ks, id, n)] \in {Unused, id}}
  <1>1. c \in Nat /\ h[id] \in Nat /\ DOMAIN ks = 0 .. c - 1
    BY FS_CardinalityType DEF Table, Size
  <1>2. Used(ks) # DOMAIN ks
    <2>1. SUFFICES ASSUME Used(ks) = DOMAIN ks PROVE FALSE
      OBVIOUS
    <2>2. Cardinality(Used(ks)) = c
      BY <2>1 DEF Size
    <2> QED
      BY <2>2, <1>1
  <1>3. PICK s \in DOMAIN ks : ks[s] = Unused
    BY <1>2 DEF Used
  <1>4. c \in Nat \ {0} /\ s \in 0 .. c - 1
    BY <1>1, <1>3
  <1> HIDE DEF c
  <1>5. PICK n \in 0 .. c - 1 : (h[id] + n) % c = s
    BY <1>1, <1>4, Reached
  <1>6. n \in E
    BY <1>3, <1>5 DEF Slot, c
  <1>7. PICK m \in E : \A y \in E : m <= y
    <2>1. E \subseteq Nat /\ E # {}
      BY <1>6, <1>1
    <2> HIDE DEF E
    <2> QED
      BY <2>1, LeastNatural
  <1>8. ASSUME NEW y \in 0 .. c - 1, y < m PROVE ks[Slot(h, ks, id, y)] \notin {Unused, id}
    <2>1. y \notin E
      BY <1>7, <1>8, <1>1
    <2> QED
      BY <2>1
  <1>9. m \in 0 .. c - 1 /\ ks[Slot(h, ks, id, m)] \in {Unused, id}
    BY <1>7
  <1>10. EndsAt(h, ks, id, m)
    BY <1>8, <1>9 DEF EndsAt, c
  <1> QED
    BY <1>9, <1>10 DEF c

\* The end is the one that the code finds.
LEMMA EndIsFirst ==
    ASSUME Table(hash, keys, offsets, Stored), NEW id \in Ids,
           NEW n \in 0 .. Size(keys) - 1, EndsAt(hash, keys, id, n)
    PROVE  Ends(id) # {} /\ Min(Ends(id)) = n /\ Probe(id, n) = Slot(hash, keys, id, n)
  <1>1. Size(keys) \in Nat
    BY FS_CardinalityType DEF Table, Size
  <1>2. /\ Probes = 0 .. Size(keys) - 1
        /\ \A m \in Probes : Probe(id, m) = Slot(hash, keys, id, m)
    BY DEF Probes, Probe, Slot, Size
  <1>3. n \in Ends(id)
    BY <1>2 DEF Ends, EndsAt
  <1>4. Ends(id) \subseteq Nat
    BY <1>1, <1>2 DEF Ends
  <1>5. Min(Ends(id)) \in Ends(id) /\ Min(Ends(id)) <= n
    BY <1>3, <1>4, MinIsLeast
  <1>6. ~(Min(Ends(id)) < n)
    <2>1. Min(Ends(id)) \in 0 .. Size(keys) - 1
          /\ keys[Slot(hash, keys, id, Min(Ends(id)))] \in {Unused, id}
      BY <1>2, <1>5 DEF Ends
    <2> QED
      BY <2>1 DEF EndsAt
  <1> QED
    BY <1>1, <1>2, <1>3, <1>4, <1>5, <1>6

\* insert_cache_lookup(): the new table, and what it leaves alone.
InsertedAt(h, ks, os, St, new, e, o, ks2, os2) ==
    /\ Table(h, ks2, os2, St \cup {new})
    /\ DOMAIN ks2 = DOMAIN ks
    /\ FoundAt(h, ks2, new, e) /\ os2[Slot(h, ks2, new, e)] = o
    /\ \A id \in St \ {new} : \A n \in 0 .. Size(ks) - 1 :
          FoundAt(h, ks, id, n) =>
             FoundAt(h, ks2, id, n) /\ os2[Slot(h, ks2, id, n)] = os[Slot(h, ks, id, n)]
    /\ Used(ks2) = Used(ks) \cup {Slot(h, ks, new, e)}

\* A node inserted at the end of its probes is found there, and no other is moved.
LEMMA Inserted ==
    ASSUME NEW h, NEW ks, NEW os, NEW St, Table(h, ks, os, St), NEW new \in Ids,
           NEW e \in 0 .. Size(ks) - 1, EndsAt(h, ks, new, e), NEW o \in 0 .. Unused - 1,
           NEW ks2, ks2 = [ks EXCEPT ![Slot(h, ks, new, e)] = new],
           NEW os2, os2 = [os EXCEPT ![Slot(h, ks, new, e)] = o]
    PROVE  InsertedAt(h, ks, os, St, new, e, o, ks2, os2)
  <1> DEFINE s == Slot(h, ks, new, e)
  <1>1. s \in DOMAIN ks /\ s \in DOMAIN os /\ ks[s] \in {Unused, new}
    BY SlotType DEF Table, EndsAt
  <1>2. /\ DOMAIN ks2 = DOMAIN ks /\ DOMAIN os2 = DOMAIN os
        /\ ks2[s] = new /\ os2[s] = o
        /\ \A x \in DOMAIN ks : x # s => ks2[x] = ks[x] /\ os2[x] = os[x]
    BY <1>1 DEF Table
  <1>3. Size(ks2) = Size(ks) /\ \A id, n : Slot(h, ks2, id, n) = Slot(h, ks, id, n)
    BY <1>2 DEF Size, Slot
  <1>4. new # Unused /\ Unused \notin Ids
    BY UnusedIsNone
  <1> HIDE DEF s
  <1>5. FoundAt(h, ks2, new, e)
    <2>1. ASSUME NEW m \in 0 .. Size(ks) - 1, m < e PROVE ks2[Slot(h, ks, new, m)] \notin {Unused, new}
      <3>1. ks[Slot(h, ks, new, m)] \notin {Unused, new} /\ Slot(h, ks, new, m) \in DOMAIN ks
        BY <2>1, SlotType DEF EndsAt
      <3>2. Slot(h, ks, new, m) # s
        BY <3>1, <1>1
      <3> QED
        BY <3>1, <3>2, <1>2
    <2>2. ks2[Slot(h, ks2, new, e)] = new
      BY <1>2, <1>3 DEF s
    <2> QED
      BY <2>1, <2>2, <1>3 DEF FoundAt, EndsAt
  <1>6. ASSUME NEW id \in St \ {new}, NEW n \in 0 .. Size(ks) - 1, FoundAt(h, ks, id, n)
        PROVE  FoundAt(h, ks2, id, n) /\ os2[Slot(h, ks2, id, n)] = os[Slot(h, ks, id, n)]
    <2>0. id \in Ids
      BY DEF Table
    <2>1. Slot(h, ks, id, n) \in DOMAIN ks /\ ks[Slot(h, ks, id, n)] = id
      BY <1>6, <2>0, SlotType DEF FoundAt
    <2>2. id # new /\ id # Unused /\ Slot(h, ks, id, n) # s
      BY <1>1, <1>4, <2>0, <2>1
    <2>3. ks2[Slot(h, ks, id, n)] = id /\ os2[Slot(h, ks, id, n)] = os[Slot(h, ks, id, n)]
      BY <1>2, <2>1, <2>2
    <2>4. ASSUME NEW m \in 0 .. Size(ks) - 1, m < n PROVE ks2[Slot(h, ks, id, m)] \notin {Unused, id}
      <3>1. ks[Slot(h, ks, id, m)] \notin {Unused, id} /\ Slot(h, ks, id, m) \in DOMAIN ks
        BY <1>6, <2>0, <2>4, SlotType DEF FoundAt, EndsAt
      <3>2. CASE Slot(h, ks, id, m) = s
        BY <3>2, <1>2, <1>4, <2>2
      <3>3. CASE Slot(h, ks, id, m) # s
        BY <3>1, <3>3, <1>2
      <3> QED
        BY <3>2, <3>3
    <2> QED
      BY <2>3, <2>4, <1>3 DEF FoundAt, EndsAt
  <1>7. Table(h, ks2, os2, St \cup {new})
    <2>1. ASSUME NEW x \in DOMAIN ks2
          PROVE  ks2[x] = Unused \/ (ks2[x] \in St \cup {new} /\ os2[x] \in 0 .. Unused - 1)
      <3>1. CASE x = s
        BY <3>1, <1>2
      <3>2. CASE x # s
        BY <3>2, <1>2 DEF Table
      <3> QED
        BY <3>1, <3>2
    <2>2. ASSUME NEW id \in St \cup {new} PROVE \E n \in 0 .. Size(ks2) - 1 : FoundAt(h, ks2, id, n)
      <3>1. CASE id = new
        BY <3>1, <1>3, <1>5
      <3>2. CASE id # new
        <4>1. PICK n \in 0 .. Size(ks) - 1 : FoundAt(h, ks, id, n)
          BY <3>2, <2>2 DEF Table
        <4> QED
          BY <4>1, <3>2, <2>2, <1>3, <1>6
      <3> QED
        BY <3>1, <3>2
    <2>3. /\ IsFiniteSet(DOMAIN ks2) /\ DOMAIN ks2 = 0 .. Size(ks2) - 1 /\ DOMAIN os2 = DOMAIN ks2
          /\ h \in [Ids -> Nat] /\ St \cup {new} \subseteq Ids
      BY <1>2, <1>3 DEF Table
    <2> QED
      BY <2>1, <2>2, <2>3 DEF Table
  <1>8. Used(ks2) = Used(ks) \cup {s}
    BY <1>1, <1>2, <1>4 DEF Used
  <1>9. os2[Slot(h, ks2, new, e)] = o
    BY <1>2, <1>3 DEF s
  <1>10. Used(ks2) = Used(ks) \cup {Slot(h, ks, new, e)}
    BY <1>8 DEF s
  <1> QED
    BY <1>2, <1>5, <1>6, <1>7, <1>9, <1>10 DEF InsertedAt

-----------------------------------------------------------------------------
(* The invariant of the cache *)

\* The argument of load_cache_list() and the position in it.
Position ==
    /\ pc \in {"closed", "idle", "batch", "read", "store", "refused"}
    /\ given \in Seq(Ids) /\ node_list \in Seq(Ids)
    /\ i \in Nat /\ k \in Nat /\ i + k <= Len(node_list)
    /\ pc \in {"closed", "idle"} => i = Len(node_list) /\ k = 0
    /\ pc = "closed" => node_list = <<>>
    /\ pc \in {"batch", "read"} => i < Len(node_list) /\ k = 0
    /\ pc = "store" => i < Len(node_list) /\ k <= Count
    /\ node_list # <<>> => ~TooLarge(Len(node_list))

\* The reader: a request carried out has filled its buffer, unless something went
\* wrong that read() does not see.
Request == [buf : 1 .. Buffers, node : Ids]
Requested == [x \in 1 .. Count |-> [buf |-> x, node |-> node_list[i + x]]]
Reading ==
    /\ reading \in {"no", "yes", "exited"} /\ (reading # "no" => pc = "read")
    /\ pc \in {"idle", "batch", "read", "store"} => engine \in Engines
    /\ buf \in [1 .. Buffers -> Ids \cup {Garbage}]
    /\ processed \in Nat
    /\ sq \in Seq(Request) /\ Len(sq) <= MaxEvents
    /\ faulty \in BOOLEAN /\ (~faulty => sq = <<>>)
    /\ pc = "read" => reqs = Requested
    /\ (pc = "read" /\ ~faulty) => \A x \in 1 .. Count : x <= processed => buf[x] = node_list[i + x]
    /\ (pc = "store" /\ ~faulty) => \A x \in 1 .. Count : buf[x] = node_list[i + x]

\* The lookups hold the nodes stored so far, and there is room for the others.
PoolEntry == (Ids \cup {Garbage}) \X Nat
Lookups ==
    /\ hash \in [Ids -> Nat]
    /\ use_offset_mode \in BOOLEAN
    /\ use_offset_mode => /\ cache_offsets \in [Ids -> 0 .. Unused]
                          /\ \A id \in Ids : id \in Stored <=> cache_offsets[id] # Unused
    /\ ~use_offset_mode => /\ Table(hash, keys, offsets, Stored)
                           /\ Cardinality(Used(keys)) <= i + k
                           /\ node_list # <<>> => Size(keys) > Len(node_list)
    /\ pool \in Seq(PoolEntry) /\ Len(pool) <= (i + k) * (MaxDegree + 1)
Fresh == /\ use_offset_mode = FALSE /\ keys = Nothing /\ offsets = Nothing /\ pool = <<>>

\* The lookups lead to the lists of their nodes.
LeadsTo(id, o) ==
    IF use_offset_mode THEN cache_offsets[id] = o
    ELSE \E n \in 0 .. Size(keys) - 1 :
            FoundAt(hash, keys, id, n) /\ offsets[Slot(hash, keys, id, n)] = o
Holds(p, id, o) ==
    o + Len(graph[id]) < Len(p) /\ \A x \in 0 .. Len(graph[id]) : p[o + x + 1] = <<id, x>>
Contents ==
    ~faulty => \A id \in Stored : \E o \in 0 .. Unused - 1 : LeadsTo(id, o) /\ Holds(pool, id, o)

CacheInv ==
    /\ graph \in Graphs
    /\ Position /\ Reading
    /\ pc = "closed" => Fresh
    /\ pc \in {"idle", "batch", "read", "store"} => Lookups /\ Contents

LEMMA GraphType ==
    ASSUME graph \in Graphs, NEW id \in Ids
    PROVE  graph[id] \in Seq(Ids) /\ Len(graph[id]) \in 0 .. MaxDegree
  <1>1. graph[id] \in Seq(Ids) /\ Len(graph[id]) <= MaxDegree
    BY GraphsAssumption, DegreesAssumption
  <1> QED
    BY <1>1, SizesAssumption

LEMMA CountType ==
    ASSUME Position, i < Len(node_list)
    PROVE  Count \in Nat /\ Count >= 1 /\ Count <= BatchSize /\ i + Count <= Len(node_list)
           /\ Count <= Buffers
  <1> DEFINE a == Len(node_list) - i
  <1>1. BatchSize \in Nat /\ BatchSize >= 1 /\ a \in Nat /\ a >= 1 /\ i + a = Len(node_list)
        /\ BatchSize <= Buffers /\ Buffers \in Nat
    BY SizesAssumption, ReaderAssumption DEF Position
  <1> HIDE DEF a
  <1>2. Min({BatchSize, a}) \in {BatchSize, a} /\ Min({BatchSize, a}) <= BatchSize /\ Min({BatchSize, a}) <= a
    <2>1. BatchSize \in Int /\ a \in Int
      BY <1>1
    <2> QED
      BY <2>1, MinOfTwo
  <1>3. Count = Min({BatchSize, a})
    BY DEF Count, a
  <1> QED
    BY <1>1, <1>2, <1>3 DEF Position

\* What is stored are nodes.
LEMMA StoredType == ASSUME Position PROVE Stored \subseteq Ids
  BY DEF Position, Stored

\* What a search finds.
LEMMA LookupIs ==
    ASSUME CacheInv, pc \in {"idle", "batch", "read", "store"}, NEW id \in Ids
    PROVE  /\ id \notin Stored => Lookup(id) = Unused
           /\ id \in Stored => Lookup(id) # Unused
           /\ \A o : id \in Stored /\ LeadsTo(id, o) => Lookup(id) = o
  <1>0. Lookups /\ Position /\ Unused \in Nat /\ Unused \notin Ids
    BY UnusedIsNone DEF CacheInv
  <1>1. CASE use_offset_mode
    <2>1. Lookup(id) = cache_offsets[id]
      BY <1>0, <1>1 DEF Lookup, Lookups
    <2> QED
      BY <2>1, <1>0, <1>1 DEF Lookups, LeadsTo
  <1>2. CASE ~use_offset_mode
    <2>1. Table(hash, keys, offsets, Stored) /\ Lookup(id) = FindInHash(id)
      BY <1>0, <1>2 DEF Lookup, Lookups
    <2>2. ASSUME NEW n \in 0 .. Size(keys) - 1, EndsAt(hash, keys, id, n)
          PROVE  Lookup(id) = IF keys[Slot(hash, keys, id, n)] = id
                              THEN offsets[Slot(hash, keys, id, n)] ELSE Unused
      BY <2>1, <2>2, EndIsFirst DEF FindInHash
    <2>3. CASE id \in Stored
      <3>1. PICK n \in 0 .. Size(keys) - 1 : FoundAt(hash, keys, id, n)
        BY <2>1, <2>3 DEF Table
      <3>2. Lookup(id) = offsets[Slot(hash, keys, id, n)] /\ keys[Slot(hash, keys, id, n)] = id
        BY <2>2, <3>1 DEF FoundAt
      <3>3. Slot(hash, keys, id, n) \in DOMAIN keys
        BY <2>1, SlotType
      <3>4. offsets[Slot(hash, keys, id, n)] # Unused
        <4>1. keys[Slot(hash, keys, id, n)] # Unused
          BY <3>2, <1>0
        <4>2. offsets[Slot(hash, keys, id, n)] \in 0 .. Unused - 1
          BY <4>1, <3>3, <2>1 DEF Table
        <4> QED
          BY <4>2, <1>0
      <3>5. ASSUME NEW o, LeadsTo(id, o) PROVE Lookup(id) = o
        <4>1. PICK m \in 0 .. Size(keys) - 1 :
                 FoundAt(hash, keys, id, m) /\ offsets[Slot(hash, keys, id, m)] = o
          BY <3>5, <1>2 DEF LeadsTo
        <4> QED
          BY <4>1, <2>2 DEF FoundAt
      <3> QED
        BY <2>3, <3>2, <3>4, <3>5
    <2>4. CASE id \notin Stored
      <3>1. ASSUME NEW s \in DOMAIN keys PROVE keys[s] # id
        BY <2>1, <2>4, <1>0 DEF Table
      <3>2. CASE Ends(id) = {}
        BY <3>2, <2>1, <2>4 DEF FindInHash
      <3>3. CASE Ends(id) # {}
        <4> DEFINE slot == Probe(id, Min(Ends(id)))
        <4>1. Size(keys) \in Nat /\ Probes = 0 .. Size(keys) - 1
          BY <2>1, FS_CardinalityType DEF Table, Size, Probes
        <4>2. Min(Ends(id)) \in Probes
          <5>1. Ends(id) \subseteq Nat /\ Ends(id) \subseteq Probes
            BY <4>1 DEF Ends
          <5> QED
            BY <5>1, <3>3, MinIsLeast
        <4>3. slot \in DOMAIN keys
          <5>1. slot = Slot(hash, keys, id, Min(Ends(id)))
            BY DEF Probe, Slot, Size
          <5> QED
            BY <5>1, <4>1, <4>2, <2>1, SlotType
        <4> QED
          BY <4>3, <3>1, <3>3, <2>1, <2>4 DEF FindInHash
      <3> QED
        BY <3>2, <3>3
    <2> QED
      BY <2>3, <2>4
  <1> QED
    BY <1>0, <1>1, <1>2 DEF Lookups

\* Storing never fails: the offsets stay below the sentinel and the table has a
\* free slot.
LEMMA CanStore ==
    ASSUME CacheInv, pc = "store", k < Count
    PROVE  /\ next_id \in Ids /\ i + k + 1 <= Len(node_list) /\ Len(pool) < Unused
           /\ ~use_offset_mode => \E n \in 0 .. Size(keys) - 1 : EndsAt(hash, keys, next_id, n)
  <1>1. Position /\ Lookups /\ i < Len(node_list) /\ i \in Nat /\ k \in Nat
    BY DEF CacheInv, Position
  <1>2. Count \in Nat /\ i + Count <= Len(node_list) /\ Len(node_list) \in Nat /\ node_list # <<>>
    BY <1>1, CountType DEF Position
  <1>3. i + k + 1 \in 1 .. Len(node_list) /\ i + k < Len(node_list)
    BY <1>1, <1>2
  <1>4. next_id \in Ids
    BY <1>1, <1>3 DEF next_id, Position
  <1>5. Len(pool) < Unused
    <2> DEFINE d == MaxDegree + 1
               n == Len(node_list)
               m == i + k
    <2>1. d \in Nat /\ n \in Nat /\ m \in Nat /\ m <= n /\ Unused \in Nat
      BY <1>1, <1>2, <1>3, SizesAssumption
    <2>2. n * d < Unused /\ n * d \in Nat
      <3>1. ~(n * d >= Unused)
        BY <1>1, <1>2 DEF Position, TooLarge
      <3> QED
        BY <3>1, <2>1
    <2>3. Len(pool) <= m * d /\ Len(pool) \in Nat
      BY <1>1 DEF Lookups
    <2> HIDE DEF d, n, m
    <2>4. m * d <= n * d /\ m * d \in Nat
      BY <2>1, Monotone
    <2> QED
      BY <2>1, <2>2, <2>3, <2>4
  <1>6. ASSUME ~use_offset_mode
        PROVE  \E n \in 0 .. Size(keys) - 1 : EndsAt(hash, keys, next_id, n)
    <2>1. /\ Table(hash, keys, offsets, Stored) /\ Cardinality(Used(keys)) <= i + k
          /\ Size(keys) > Len(node_list)
      BY <1>1, <1>2, <1>6 DEF Lookups
    <2>2. Cardinality(Used(keys)) \in Nat /\ Size(keys) \in Nat
      <3>1. IsFiniteSet(DOMAIN keys) /\ Used(keys) \subseteq DOMAIN keys
        BY <2>1 DEF Table, Used
      <3>2. IsFiniteSet(Used(keys))
        BY <3>1, FS_Subset
      <3> QED
        BY <3>1, <3>2, FS_CardinalityType DEF Size
    <2>3. Cardinality(Used(keys)) < Size(keys)
      BY <2>1, <2>2, <1>1, <1>2, <1>3
    <2> QED
      BY <2>1, <2>3, <1>4, SomeEnd
  <1> QED
    BY <1>3, <1>4, <1>5, <1>6

LEMMA SameParts ==
    ASSUME NEW S, NEW T, NEW p \in Seq(S), NEW o \in Nat, NEW n \in Nat, NEW e \in Seq(T),
           Len(e) = n + 1, o + n < Len(p), \A x \in 0 .. n : p[o + x + 1] = e[x + 1]
    PROVE  SubSeq(p, o + 1, o + n + 1) = e
  <1> DEFINE q == SubSeq(p, o + 1, o + n + 1)
  <1>1. \A x \in o + 1 .. o + n + 1 : p[x] \in S
    OBVIOUS
  <1>2. o + 1 \in Int /\ o + n + 1 \in Int /\ o + 1 <= o + n + 1 /\ (o + n + 1) - (o + 1) + 1 = n + 1
    OBVIOUS
  <1>3. /\ q \in Seq(S) /\ Len(q) = IF o + 1 <= o + n + 1 THEN (o + n + 1) - (o + 1) + 1 ELSE 0
        /\ \A x \in 1 .. (o + n + 1) - (o + 1) + 1 : q[x] = p[(o + 1) + x - 1]
    BY <1>1, <1>2, SubSeqProperties
  <1>4. Len(q) = n + 1 /\ \A x \in 1 .. n + 1 : q[x] = p[(o + 1) + x - 1]
    BY <1>2, <1>3
  <1>5. ASSUME NEW x \in 1 .. n + 1 PROVE q[x] = e[x]
    <2>1. q[x] = p[(o + 1) + x - 1]
      BY <1>4
    <2>2. x - 1 \in 0 .. n /\ (o + 1) + x - 1 = o + (x - 1) + 1 /\ (x - 1) + 1 = x
      OBVIOUS
    <2>3. p[o + (x - 1) + 1] = e[(x - 1) + 1]
      BY <2>2
    <2> QED
      BY <2>1, <2>2, <2>3
  <1> HIDE DEF q
  <1>6. q = e
    BY <1>3, <1>4, <1>5, SeqEqual
  <1> QED
    BY <1>6 DEF q

LEMMA EntryType ==
    ASSUME graph \in Graphs, NEW id \in Ids
    PROVE  /\ Entry(id) \in Seq(PoolEntry) /\ Len(Entry(id)) = Len(graph[id]) + 1
           /\ \A x \in 0 .. Len(graph[id]) : Entry(id)[x + 1] = <<id, x>>
  <1> DEFINE n == Len(graph[id])
  <1>1. n \in Nat
    BY GraphType
  <1>2. Entry(id) = [x \in 1 .. n + 1 |-> <<id, x - 1>>]
    BY DEF Entry
  <1> HIDE DEF n
  <1>3. \A x \in 1 .. n + 1 : x - 1 \in Nat /\ <<id, x - 1>> \in PoolEntry
    BY <1>1 DEF PoolEntry
  <1>4. Entry(id) \in [1 .. n + 1 -> PoolEntry] /\ n + 1 \in Nat
    BY <1>1, <1>2, <1>3
  <1>5. Entry(id) \in Seq(PoolEntry) /\ Len(Entry(id)) = n + 1
    BY <1>4
  <1>6. ASSUME NEW x \in 0 .. n PROVE Entry(id)[x + 1] = <<id, x>>
    <2>1. x + 1 \in 1 .. n + 1 /\ (x + 1) - 1 = x
      BY <1>1
    <2> QED
      BY <2>1, <1>2
  <1> QED
    BY <1>5, <1>6 DEF n

\* What the invariant says of a lookup.
LEMMA CacheIsExact == CacheInv => LookupExact
  <1> SUFFICES ASSUME CacheInv PROVE LookupExact
    OBVIOUS
  <1>1. ASSUME pc = "store", k < Count PROVE ~CannotStore
    <2>1. /\ next_id \in Ids /\ Len(pool) < Unused /\ Len(pool) \in Nat /\ Unused \in Nat
          /\ ~use_offset_mode => \E n \in 0 .. Size(keys) - 1 : EndsAt(hash, keys, next_id, n)
      BY <1>1, CanStore, UnusedIsNone DEF CacheInv, Lookups
    <2>2. ASSUME ~use_offset_mode PROVE Ends(next_id) # {}
      <3>1. Table(hash, keys, offsets, Stored)
        BY <1>1, <2>2 DEF CacheInv, Lookups
      <3> QED
        BY <2>1, <2>2, <3>1, EndIsFirst
    <2> QED
      BY <2>1, <2>2 DEF CannotStore
  <1>2. ASSUME pc \in {"idle", "batch", "read", "store"}, ~faulty, NEW id \in Ids
        PROVE  /\ id \in Stored <=> Lookup(id) # Unused
               /\ id \in Stored =>
                    /\ Lookup(id) + Len(graph[id]) < Len(pool)
                    /\ SubSeq(pool, Lookup(id) + 1, Lookup(id) + Len(graph[id]) + 1) = Entry(id)
    <2>1. id \in Stored <=> Lookup(id) # Unused
      BY <1>2, LookupIs
    <2>2. ASSUME id \in Stored
          PROVE  /\ Lookup(id) + Len(graph[id]) < Len(pool)
                 /\ SubSeq(pool, Lookup(id) + 1, Lookup(id) + Len(graph[id]) + 1) = Entry(id)
      <3>1. PICK o \in 0 .. Unused - 1 : LeadsTo(id, o) /\ Holds(pool, id, o)
        BY <1>2, <2>2 DEF CacheInv, Contents
      <3>2. Lookup(id) = o
        BY <1>2, <2>2, <3>1, LookupIs
      <3> DEFINE n == Len(graph[id])
      <3>3. /\ Entry(id) \in Seq(PoolEntry) /\ Len(Entry(id)) = n + 1 /\ n \in Nat
            /\ \A x \in 0 .. n : Entry(id)[x + 1] = <<id, x>>
        BY EntryType, GraphType DEF CacheInv
      <3>4. o + n < Len(pool) /\ \A x \in 0 .. n : pool[o + x + 1] = <<id, x>>
        BY <3>1 DEF Holds
      <3>5. pool \in Seq(PoolEntry) /\ o \in Nat
        BY <1>2 DEF CacheInv, Lookups
      <3> HIDE DEF n
      <3>6. SubSeq(pool, o + 1, o + n + 1) = Entry(id)
        <4> DEFINE e == Entry(id)
        <4>1. ASSUME NEW x \in 0 .. n PROVE pool[o + x + 1] = e[x + 1]
          <5>1. pool[o + x + 1] = <<id, x>>
            BY <3>4
          <5>2. e[x + 1] = <<id, x>>
            BY <3>3
          <5> QED
            BY <5>1, <5>2
        <4>2. e \in Seq(PoolEntry) /\ Len(e) = n + 1 /\ n \in Nat /\ o + n < Len(pool)
          BY <3>3, <3>4
        <4> HIDE DEF e
        <4>3. SubSeq(pool, o + 1, o + n + 1) = e
          BY <4>1, <4>2, <3>5, SameParts
        <4> QED
          BY <4>3 DEF e
      <3> QED
        BY <3>2, <3>4, <3>6 DEF n
    <2> QED
      BY <2>1, <2>2
  <1> QED
    BY <1>1, <1>2 DEF LookupExact

-----------------------------------------------------------------------------
(* The steps of the cache *)

LEMMA SamePosition ==
    ASSUME UNCHANGED <<pc, node_list, i, k, given>>
    PROVE  (Position => Position') /\ Count' = Count /\ Stored' = Stored /\ Requested' = Requested
  BY DEF Position, Count, Stored, Requested, TooLarge

LEMMA SameLookups ==
    ASSUME UNCHANGED <<hash, node_list, i, k, lookup, pool>>
    PROVE  (Lookups => Lookups') /\ (Fresh => Fresh')
  <1>1. Stored' = Stored
    BY DEF Stored
  <1>2. \A St : Table(hash, keys, offsets, St)' = Table(hash, keys, offsets, St)
    BY DEF Table, FoundAt, EndsAt, Slot, Size, lookup
  <1>3. Used(keys)' = Used(keys) /\ Size(keys)' = Size(keys)
    BY DEF Used, Size, lookup
  <1>4. Fresh => Fresh'
    BY DEF Fresh, lookup, Nothing
  <1>5. Table(hash, keys, offsets, Stored)' = Table(hash, keys, offsets, Stored)
    BY DEF Table, FoundAt, EndsAt, Slot, Size, lookup, Stored
  <1> QED
    BY <1>1, <1>3, <1>4, <1>5 DEF Lookups, lookup

LEMMA SameContents ==
    ASSUME UNCHANGED <<graph, hash, node_list, i, k, lookup, pool>>, faulty => faulty', Contents
    PROVE  Contents'
  <1>1. Stored' = Stored
    BY DEF Stored
  <1>2. \A id, o : LeadsTo(id, o)' = LeadsTo(id, o) /\ Holds(pool, id, o)' = Holds(pool, id, o)
    BY DEF LeadsTo, Holds, FoundAt, EndsAt, Slot, Size, lookup
  <1> QED
    BY <1>1, <1>2 DEF Contents

LEMMA CacheUntouched ==
    ASSUME CacheInv, UNCHANGED <<graph, reader, cache, given>> PROVE CacheInv'
  <1>1. Position' /\ Count' = Count /\ Requested' = Requested
    BY SamePosition DEF CacheInv, cache
  <1>2. Reading'
    BY <1>1 DEF CacheInv, Reading, reader, cache
  <1>3. (Lookups => Lookups') /\ (Fresh => Fresh')
    BY SameLookups DEF cache
  <1>4. Contents => Contents'
    BY SameContents DEF cache, reader
  <1> QED
    BY <1>1, <1>2, <1>3, <1>4 DEF CacheInv, cache

\* A search is started on a list of nodes.
LEMMA StartKeeps ==
    ASSUME CacheInv, pc = "closed", pc' \in {"idle", "refused"}, given' \in Seq(Ids),
           hash' \in Hashes, OpenReader, UNCHANGED <<node_list, i, k, lookup, pool, graph>>
    PROVE  CacheInv'
  <1>1. /\ Position /\ Reading /\ Fresh /\ graph \in Graphs
        /\ node_list = <<>> /\ i = 0 /\ k = 0 /\ reading = "no"
    BY DEF CacheInv, Position, Reading
  <1>2. Position'
    BY <1>1 DEF Position
  <1>3. Reading'
    BY <1>1 DEF Reading, OpenReader
  <1>4. hash' \in [Ids -> Nat] /\ Stored' = {}
    BY <1>1, HashesAssumption DEF Stored
  <1>5. Lookups'
    <2>1. /\ use_offset_mode' = FALSE /\ keys' = Nothing /\ offsets' = Nothing /\ pool' = <<>>
          /\ node_list' = <<>> /\ i' = 0 /\ k' = 0
      BY <1>1 DEF Fresh, lookup
    <2>2. DOMAIN Nothing = {} /\ IsFiniteSet({}) /\ Cardinality({}) = 0 /\ 0 .. 0 - 1 = {}
      BY FS_EmptySet DEF Nothing
    <2>3. Size(keys)' = 0 /\ Used(keys)' = {} /\ DOMAIN keys' = {} /\ DOMAIN offsets' = {}
      BY <2>1, <2>2 DEF Size, Used
    <2>4. Table(hash, keys, offsets, Stored)'
      BY <2>2, <2>3, <1>4 DEF Table
    <2>5. Len(<<>>) = 0 /\ <<>> \in Seq(PoolEntry) /\ 0 * (MaxDegree + 1) = 0
      BY SizesAssumption
    <2>6. Len(pool') <= (i' + k') * (MaxDegree + 1)
      BY <2>1, <2>5
    <2>7. Cardinality(Used(keys)') <= i' + k'
      BY <2>1, <2>2, <2>3
    <2> QED
      BY <2>1, <2>4, <2>5, <2>6, <2>7, <1>4 DEF Lookups
  <1>6. Contents'
    BY <1>4 DEF Contents
  <1> QED
    BY <1>1, <1>2, <1>3, <1>5, <1>6 DEF CacheInv

\* load_cache_list() with nothing, with too much, and with a list.
LEMMA LoadNothingKeeps ==
    ASSUME CacheInv, LoadNothing, given' = <<>>, UNCHANGED <<graph, reader>> PROVE CacheInv'
  <1>1. /\ Position /\ Reading /\ Lookups /\ graph \in Graphs /\ pc = "idle" /\ pc' = "idle" /\ hash' = hash
        /\ node_list' = <<>> /\ i' = 0 /\ k' = 0 /\ ~use_offset_mode' /\ keys' = Nothing
        /\ offsets' = Nothing /\ pool' = <<>> /\ use_offset_mode' = FALSE
    BY DEF CacheInv, LoadNothing, ClearLookups
  <1>2. Position'
    BY <1>1 DEF Position
  <1>3. Reading'
    BY <1>1 DEF Reading, reader
  <1>4. hash' \in [Ids -> Nat] /\ Stored' = {}
    BY <1>1 DEF Stored, Lookups
  <1>5. Lookups'
    <2>2. DOMAIN Nothing = {} /\ IsFiniteSet({}) /\ Cardinality({}) = 0 /\ 0 .. 0 - 1 = {}
      BY FS_EmptySet DEF Nothing
    <2>3. Size(keys)' = 0 /\ Used(keys)' = {} /\ DOMAIN keys' = {} /\ DOMAIN offsets' = {}
      BY <1>1, <2>2 DEF Size, Used
    <2>4. Table(hash, keys, offsets, Stored)'
      BY <2>2, <2>3, <1>4 DEF Table
    <2>5. Len(<<>>) = 0 /\ <<>> \in Seq(PoolEntry) /\ 0 * (MaxDegree + 1) = 0
      BY SizesAssumption
    <2>6. Len(pool') <= (i' + k') * (MaxDegree + 1)
      BY <1>1, <2>5
    <2>7. Cardinality(Used(keys)') <= i' + k'
      BY <1>1, <2>2, <2>3
    <2> QED
      BY <1>1, <2>4, <2>5, <2>6, <2>7, <1>4 DEF Lookups
  <1>6. Contents'
    BY <1>4 DEF Contents
  <1> QED
    BY <1>1, <1>2, <1>3, <1>5, <1>6 DEF CacheInv

LEMMA LoadTooLargeKeeps ==
    ASSUME CacheInv, NEW s, LoadTooLarge(s), given' = <<>>, UNCHANGED <<graph, reader>>
    PROVE  CacheInv'
  <1>1. /\ Position /\ Reading /\ graph \in Graphs /\ pc = "idle" /\ pc' = "refused"
        /\ UNCHANGED <<node_list, i, k>>
    BY DEF CacheInv, LoadTooLarge
  <1>2. Position'
    BY <1>1 DEF Position, Count, TooLarge
  <1>3. Reading'
    BY <1>1 DEF Reading, reader
  <1> QED
    BY <1>1, <1>2, <1>3 DEF CacheInv

\* Loading begins: the lookups are cleared and large enough for the list.
LEMMA LoadCacheListKeeps ==
    ASSUME CacheInv, NEW s \in Seq(Ids), NEW m, LoadCacheList(s, m), given' = <<>>,
           m \in {"auto", "offset", "hash"}, UNCHANGED <<graph, reader>>
    PROVE  CacheInv'
  <1> DEFINE n == Len(s)
             c == Capacity(n)
             off == OffsetMode(m, n)
             slots == 0 .. c - 1
  <1>1. /\ Position /\ Reading /\ Lookups /\ graph \in Graphs /\ pc = "idle" /\ pc' = "batch"
        /\ hash' = hash /\ ~TooLarge(n) /\ s # <<>> /\ node_list' \in SortedList(s)
        /\ i' = 0 /\ k' = 0 /\ pool' = <<>> /\ use_offset_mode' = off
        /\ cache_offsets' = IF off THEN [x \in Ids |-> Unused] ELSE Nothing
        /\ keys' = IF off THEN Nothing ELSE [x \in slots |-> Unused]
        /\ offsets' = IF off THEN Nothing ELSE [x \in slots |-> Unused]
    BY DEF CacheInv, LoadCacheList
  <1>2. n \in Nat /\ n > 0
    BY <1>1
  <1>3. node_list' \in Seq(Ids) /\ Len(node_list') = n /\ node_list' # <<>>
    <2>1. node_list' \in [1 .. n -> ToSet(s)] /\ ToSet(s) \subseteq Ids
      BY <1>1 DEF SortedList, ToSet
    <2>2. node_list' \in [1 .. n -> Ids]
      BY <2>1
    <2> QED
      BY <1>2, <2>2
  <1>4. Position'
    BY <1>1, <1>2, <1>3 DEF Position, TooLarge
  <1>5. Reading'
    BY <1>1 DEF Reading, reader
  <1>6. off \in BOOLEAN
    BY DEF OffsetMode
  <1>7. Stored' = {}
    BY <1>1 DEF Stored
  <1>8. c \in Nat /\ c > n
    BY <1>2 DEF Capacity
  <1> HIDE DEF c, off, n
  <1>9. Len(pool') <= (i' + k') * (MaxDegree + 1) /\ pool' \in Seq(PoolEntry)
    <2>1. Len(<<>>) = 0 /\ <<>> \in Seq(PoolEntry) /\ 0 * (MaxDegree + 1) = 0
      BY SizesAssumption
    <2> QED
      BY <1>1, <2>1
  <1>10. ASSUME off PROVE /\ cache_offsets' \in [Ids -> 0 .. Unused]
                          /\ \A id \in Ids : id \in Stored' <=> cache_offsets'[id] # Unused
    <2>1. Unused \in 0 .. Unused
      BY UnusedIsNone
    <2>2. cache_offsets' = [x \in Ids |-> Unused]
      BY <1>1, <1>10
    <2> QED
      BY <1>7, <2>1, <2>2
  <1>11. ASSUME ~off PROVE /\ Table(hash', keys', offsets', Stored')
                           /\ Cardinality(Used(keys')) <= i' + k' /\ Size(keys') > Len(node_list')
    <2>1. /\ DOMAIN keys' = slots /\ DOMAIN offsets' = slots
          /\ \A x \in slots : keys'[x] = Unused
      BY <1>1, <1>11
    <2>2. IsFiniteSet(slots) /\ Cardinality(slots) = c
      <3>1. IsFiniteSet(0 .. c - 1) /\ Cardinality(0 .. c - 1) = IF 0 > c - 1 THEN 0 ELSE (c - 1) - 0 + 1
        BY <1>8, FS_Interval
      <3> QED
        BY <3>1, <1>2, <1>8
    <2>3. Size(keys') = c /\ Used(keys') = {}
      BY <2>1, <2>2 DEF Size, Used
    <2>4. hash' \in [Ids -> Nat]
      BY <1>1 DEF Lookups
    <2>5. Table(hash', keys', offsets', Stored')
      BY <2>1, <2>2, <2>3, <2>4, <1>7 DEF Table
    <2>6. Cardinality({}) = 0
      BY FS_EmptySet
    <2> QED
      BY <2>3, <2>5, <2>6, <1>1, <1>3, <1>8
  <1>12. Lookups'
    BY <1>1, <1>6, <1>9, <1>10, <1>11 DEF Lookups
  <1>13. Contents'
    BY <1>7 DEF Contents
  <1> QED
    BY <1>1, <1>4, <1>5, <1>12, <1>13 DEF CacheInv

LEMMA LoadKeeps ==
    ASSUME CacheInv, NEW s \in Seq(Ids), Load(s) PROVE CacheInv' /\ UNCHANGED listvars
  <1>1. given' = <<>> /\ UNCHANGED <<graph, reader>> /\ UNCHANGED listvars
    BY DEF Load, listvars, choice
  <1>2. CASE LoadTooLarge(s)
    BY <1>1, <1>2, LoadTooLargeKeeps
  <1>3. CASE LoadNothing
    BY <1>1, <1>3, LoadNothingKeeps
  <1>4. CASE \E m \in {"auto", "offset", "hash"} : LoadCacheList(s, m)
    BY <1>1, <1>4, LoadCacheListKeeps
  <1> QED
    BY <1>1, <1>2, <1>3, <1>4 DEF Load

-----------------------------------------------------------------------------
(* Reading a batch *)

LEMMA ReadBatchKeeps ==
    ASSUME CacheInv, ReadBatch, UNCHANGED <<graph, given>> PROVE CacheInv'
  <1>1. /\ Position /\ Reading /\ Lookups /\ Contents /\ graph \in Graphs /\ pc = "batch" /\ pc' = "read"
        /\ UNCHANGED <<hash, node_list, i, k, lookup, pool>> /\ i < Len(node_list)
        /\ reading' = "yes" /\ reqs' = Requested /\ processed' = 0
        /\ buf' = (IF i = 0 THEN NoData ELSE buf) /\ UNCHANGED <<engine, sq, faulty>>
    BY DEF CacheInv, ReadBatch, BeginRead, Requested
  <1>2. Position'
    BY <1>1 DEF Position, TooLarge
  <1>3. Count' = Count /\ Requested' = Requested /\ Count \in Nat
    BY <1>1, CountType DEF Count, Requested
  <1>4. buf' \in [1 .. Buffers -> Ids \cup {Garbage}]
    BY <1>1 DEF Reading, NoData
  <1>5. \A x \in 1 .. Count : ~(x <= processed')
    BY <1>1, <1>3
  <1>6. Reading'
    BY <1>1, <1>3, <1>4, <1>5 DEF Reading
  <1>7. Lookups'
    BY <1>1, SameLookups
  <1>8. Contents'
    BY <1>1, SameContents
  <1> QED
    BY <1>1, <1>2, <1>6, <1>7, <1>8 DEF CacheInv

\* The rounds of read() submit every request.
LEMMA RoundsCover == ASSUME NEW n \in Nat PROVE NumRounds(n) * MaxEvents >= n
  <1> DEFINE e == MaxEvents
             a == n + e - 1
             p == a \div e
             r == a % e
  <1>1. e \in Nat /\ e > 0 /\ a \in Nat
    BY ReaderAssumption
  <1>2. a = e * p + r /\ r \in 0 .. e - 1 /\ p \in Int
    BY <1>1
  <1>3. NumRounds(n) = p
    BY DEF NumRounds
  <1>4. n + e - 1 = e * p + r
    BY <1>2
  <1> HIDE DEF p, r, e
  <1>5. p * e = e * p
    BY <1>1, <1>2
  <1>6. p * e >= n
    BY <1>1, <1>2, <1>4, <1>5
  <1> QED
    BY <1>3, <1>6 DEF e

\* read() returns: every buffer of the batch is filled.
LEMMA BatchReadKeeps ==
    ASSUME CacheInv, BatchRead, UNCHANGED <<graph, given>> PROVE CacheInv'
  <1>1. /\ Position /\ Reading /\ Lookups /\ Contents /\ graph \in Graphs /\ pc = "read" /\ pc' = "store"
        /\ ReadDone /\ reading' = "no" /\ UNCHANGED <<engine, reqs, processed, sq, buf, faulty>>
        /\ UNCHANGED <<hash, node_list, i, lookup, pool>> /\ k' = 0 /\ k = 0 /\ i < Len(node_list)
    BY DEF CacheInv, BatchRead, EndRead, Position
  <1>2. UNCHANGED <<hash, node_list, i, k, lookup, pool>>
    BY <1>1
  <1>3. Count' = Count /\ Requested' = Requested /\ Count \in Nat /\ Count >= 1
    BY <1>1, CountType DEF Count, Requested
  <1>4. Position'
    BY <1>1, <1>3 DEF Position, TooLarge
  <1>5. processed >= Count
    <2>1. reqs = Requested /\ engine \in {"io_uring", "libaio"} /\ processed \in Nat
      BY <1>1, ReaderAssumption DEF Reading
    <2>2. Len(Requested) = Count
      BY <1>3 DEF Requested
    <2>3. CASE engine = "io_uring"
      BY <2>1, <2>2, <2>3, <1>1 DEF ReadDone
    <2>4. CASE engine = "libaio"
      <3>1. processed >= NumRounds(Count) * MaxEvents
        BY <2>1, <2>2, <2>4, <1>1 DEF ReadDone
      <3>2. NumRounds(Count) * MaxEvents >= Count
        BY <1>3, RoundsCover
      <3>3. NumRounds(Count) * MaxEvents \in Int
        BY <1>3, ReaderAssumption DEF NumRounds
      <3> QED
        BY <3>1, <3>2, <3>3, <2>1, <1>3
    <2> QED
      BY <2>1, <2>3, <2>4
  <1>6. ASSUME ~faulty, NEW x \in 1 .. Count PROVE buf[x] = node_list[i + x]
    <2>1. x <= processed
      BY <1>3, <1>5, <1>1 DEF Reading
    <2> QED
      BY <2>1, <1>1, <1>6 DEF Reading
  <1>7. Reading'
    BY <1>1, <1>3, <1>6 DEF Reading
  <1>8. Lookups'
    BY <1>1, <1>2, SameLookups
  <1>9. Contents'
    BY <1>1, <1>2, SameContents
  <1> QED
    BY <1>1, <1>4, <1>7, <1>8, <1>9 DEF CacheInv

LEMMA FilledType ==
    ASSUME buf \in [1 .. Buffers -> Ids \cup {Garbage}], NEW rs, rs \subseteq Request, NEW f \in Filled(rs)
    PROVE  f \in [1 .. Buffers -> Ids \cup {Garbage}]
  <1>1. f \in [1 .. Buffers -> ToSet(buf) \cup {q.node : q \in rs}]
    BY DEF Filled
  <1>2. ToSet(buf) \subseteq Ids \cup {Garbage}
    BY DEF ToSet
  <1>3. {q.node : q \in rs} \subseteq Ids
    BY DEF Request
  <1> QED
    BY <1>1, <1>2, <1>3

LEMMA RequestedType ==
    ASSUME Position, i < Len(node_list)
    PROVE  Requested \in Seq(Request) /\ Len(Requested) = Count /\ Count \in Nat
           /\ \A x \in 1 .. Count : Requested[x] = [buf |-> x, node |-> node_list[i + x]] /\ Requested[x] \in Request
  <1>1. Count \in Nat /\ i + Count <= Len(node_list) /\ Count <= Buffers /\ i \in Nat
    BY CountType DEF Position
  <1>2. ASSUME NEW x \in 1 .. Count PROVE [buf |-> x, node |-> node_list[i + x]] \in Request
    <2>1. x \in 1 .. Buffers /\ i + x \in 1 .. Len(node_list)
      BY <1>1, ReaderAssumption DEF Position
    <2>2. node_list[i + x] \in Ids
      BY <2>1 DEF Position
    <2> QED
      BY <2>1, <2>2 DEF Request
  <1>3. Requested \in [1 .. Count -> Request]
    BY <1>2 DEF Requested
  <1>4. Requested \in Seq(Request) /\ Len(Requested) = Count
    BY <1>1, <1>3
  <1> QED
    BY <1>1, <1>2, <1>4 DEF Requested

\* The requests a + 1 .. c of the batch.
LEMMA PartOfBatch ==
    ASSUME Position, i < Len(node_list), NEW a \in Nat, NEW c \in Int, c <= Count
    PROVE  /\ ToSet(SubSeq(Requested, a + 1, c)) = {Requested[x] : x \in a + 1 .. c}
           /\ SubSeq(Requested, a + 1, c) \in Seq(Request)
           /\ Len(SubSeq(Requested, a + 1, c)) = IF a + 1 <= c THEN c - a ELSE 0
  <1> DEFINE p == SubSeq(Requested, a + 1, c)
  <1>1. /\ Requested \in Seq(Request) /\ Len(Requested) = Count /\ Count \in Nat
        /\ \A x \in 1 .. Count : Requested[x] \in Request
    BY RequestedType
  <1>2. a + 1 \in Int /\ \A x \in a + 1 .. c : x \in 1 .. Count
    BY <1>1
  <1>3. \A x \in a + 1 .. c : Requested[x] \in Request
    BY <1>1, <1>2
  <1>4. /\ p \in Seq(Request) /\ Len(p) = IF a + 1 <= c THEN c - (a + 1) + 1 ELSE 0
        /\ \A x \in 1 .. c - (a + 1) + 1 : p[x] = Requested[(a + 1) + x - 1]
    BY <1>2, <1>3, SubSeqProperties
  <1>5. c - (a + 1) + 1 = c - a
    OBVIOUS
  <1>6. Len(p) = IF a + 1 <= c THEN c - a ELSE 0
    BY <1>4, <1>5
  <1>7. \A x \in 1 .. c - a : p[x] = Requested[(a + 1) + x - 1]
    BY <1>4, <1>5
  <1> HIDE DEF p
  <1>8. DOMAIN p = 1 .. Len(p)
    BY <1>4
  <1>9. ASSUME NEW q \in ToSet(p) PROVE q \in {Requested[x] : x \in a + 1 .. c}
    <2>1. PICK x \in 1 .. Len(p) : q = p[x]
      BY <1>8 DEF ToSet
    <2>2. x \in 1 .. c - a /\ (a + 1) + x - 1 \in a + 1 .. c
      BY <1>6, <2>1
    <2> QED
      BY <1>7, <2>1, <2>2
  <1>10. ASSUME NEW x \in a + 1 .. c PROVE Requested[x] \in ToSet(p)
    <2>1. x - a \in 1 .. c - a /\ (a + 1) + (x - a) - 1 = x /\ x - a \in 1 .. Len(p)
      BY <1>6
    <2>2. p[x - a] = Requested[x]
      BY <1>7, <2>1
    <2> QED
      BY <2>1, <2>2, <1>8 DEF ToSet
  <1>11. ToSet(p) = {Requested[x] : x \in a + 1 .. c}
    BY <1>9, <1>10
  <1> QED
    BY <1>4, <1>6, <1>11 DEF p

\* Carried out, they fill their own buffers.
LEMMA FilledBatch ==
    ASSUME Position, i < Len(node_list), NEW a \in Nat, NEW c \in Int, c <= Count,
           NEW f \in Filled({Requested[x] : x \in a + 1 .. c}), NEW y \in 1 .. Count
    PROVE  /\ y <= a => f[y] = buf[y]
           /\ a < y /\ y <= c => f[y] = node_list[i + y]
  <1> DEFINE rs == {Requested[x] : x \in a + 1 .. c}
             own == {q.node : q \in {r \in rs : r.buf = y}}
  <1>1. /\ Count \in Nat /\ Count <= Buffers /\ Buffers \in Nat
        /\ \A x \in 1 .. Count : Requested[x] = [buf |-> x, node |-> node_list[i + x]]
    BY RequestedType, CountType, ReaderAssumption
  <1>2. y \in 1 .. Buffers
    BY <1>1
  <1>3. IF own = {} THEN f[y] = buf[y] ELSE f[y] \in own
    BY <1>2 DEF Filled
  <1>4. \A x \in a + 1 .. c : Requested[x].buf = x /\ Requested[x].node = node_list[i + x]
    <2>1. \A x \in a + 1 .. c : x \in 1 .. Count
      BY <1>1
    <2>2. ASSUME NEW x \in 1 .. Count PROVE Requested[x].buf = x /\ Requested[x].node = node_list[i + x]
      <3> DEFINE w == node_list[i + x]
      <3>1. Requested[x] = [buf |-> x, node |-> w]
        BY <1>1
      <3> HIDE DEF w
      <3>2. Requested[x].buf = x /\ Requested[x].node = w
        BY <3>1
      <3> QED
        BY <3>2 DEF w
    <2> QED
      BY <2>1, <2>2
  <1>5. ASSUME y <= a PROVE own = {}
    <2>1. \A r \in rs : r.buf # y
      BY <1>4, <1>5
    <2> QED
      BY <2>1
  <1>6. ASSUME a < y, y <= c PROVE own = {node_list[i + y]}
    <2>1. y \in a + 1 .. c
      BY <1>6
    <2>2. \A r \in rs : r.buf = y => r = Requested[y]
      BY <1>4
    <2>3. Requested[y] \in rs /\ Requested[y].buf = y /\ Requested[y].node = node_list[i + y]
      BY <1>4, <2>1
    <2>4. {r \in rs : r.buf = y} = {Requested[y]}
      BY <2>2, <2>3
    <2> HIDE DEF rs
    <2> QED
      BY <2>3, <2>4
  <1> HIDE DEF own
  <1> QED
    BY <1>3, <1>5, <1>6

\* A step of the reader leaves the cache alone.
LEMMA ReaderFrame ==
    ASSUME CacheInv, UNCHANGED <<graph, cache, given>>, Reading', faulty => faulty'
    PROVE  CacheInv'
  <1>1. Position'
    BY SamePosition DEF CacheInv, cache
  <1>2. (Lookups => Lookups') /\ (Fresh => Fresh')
    BY SameLookups DEF cache
  <1>3. Contents => Contents'
    BY SameContents DEF cache
  <1> QED
    BY <1>1, <1>2, <1>3 DEF CacheInv, cache

\* A round on the ring: entries left there by a partial submission go first.
LEMMA SubmitRingKeeps ==
    ASSUME CacheInv, SubmitRing, UNCHANGED <<graph, cache, given>> PROVE CacheInv'
  <1>1. /\ Position /\ Reading /\ reading = "yes" /\ pc = "read" /\ i < Len(node_list) /\ reqs = Requested
        /\ processed < Len(reqs) /\ processed \in Nat /\ UNCHANGED <<engine, reading, reqs>>
        /\ buf \in [1 .. Buffers -> Ids \cup {Garbage}] /\ sq \in Seq(Request) /\ Len(sq) <= MaxEvents
        /\ faulty \in BOOLEAN
    BY DEF CacheInv, SubmitRing, Reading, Position
  <1> DEFINE queue == sq \o Prepared
             room == Min({Len(reqs) - processed, MaxEvents - Len(sq)})
  <1>2. PICK n \in 0 .. Len(queue) :
           /\ \E short \in SUBSET ToSet(SubSeq(queue, 1, n)) :
                /\ buf' \in Filled(ToSet(SubSeq(queue, 1, n)) \ short)
                /\ faulty' = (faulty \/ short # {} \/ n < Len(queue))
           /\ sq' = SubSeq(queue, n + 1, Len(queue)) /\ processed' = processed + n
    BY DEF SubmitRing
  <1>14. PICK short \in SUBSET ToSet(SubSeq(queue, 1, n)) :
           /\ buf' \in Filled(ToSet(SubSeq(queue, 1, n)) \ short)
           /\ faulty' = (faulty \/ short # {} \/ n < Len(queue))
    BY <1>2
  <1>3. Count \in Nat /\ Len(reqs) = Count /\ Len(sq) \in Nat /\ MaxEvents \in Nat
    BY <1>1, RequestedType, ReaderAssumption
  <1>4. room \in Nat /\ processed + room <= Count /\ room <= MaxEvents - Len(sq)
    <2> DEFINE a == Len(reqs) - processed
               e == MaxEvents - Len(sq)
    <2>1. a \in Int /\ e \in Int /\ a >= 0 /\ e >= 0 /\ a = Count - processed
      BY <1>1, <1>3
    <2> HIDE DEF a, e
    <2>2. Min({a, e}) \in {a, e} /\ Min({a, e}) <= a /\ Min({a, e}) <= e
      BY <2>1, MinOfTwo
    <2>3. room = Min({a, e})
      BY DEF a, e
    <2> HIDE DEF room
    <2>4. room \in Nat /\ room <= a /\ room <= e
      BY <2>1, <2>2, <2>3
    <2> QED
      BY <2>1, <2>4, <1>1, <1>3 DEF e
  <1>5. Prepared = SubSeq(Requested, processed + 1, processed + room)
    BY <1>1 DEF Prepared
  <1> HIDE DEF room
  <1>6. /\ Prepared \in Seq(Request) /\ Len(Prepared) = room
        /\ ToSet(Prepared) = {Requested[x] : x \in processed + 1 .. processed + room}
    <2>1. processed + room \in Int /\ processed + room <= Count
      BY <1>1, <1>4
    <2>2. /\ ToSet(Prepared) = {Requested[x] : x \in processed + 1 .. processed + room}
          /\ Prepared \in Seq(Request)
          /\ Len(Prepared) = IF processed + 1 <= processed + room THEN (processed + room) - processed ELSE 0
      BY <1>1, <1>5, <2>1, PartOfBatch
    <2>3. Len(Prepared) = room
      BY <2>2, <1>1, <1>4
    <2> QED
      BY <2>2, <2>3
  <1>7. queue \in Seq(Request) /\ Len(queue) = Len(sq) + room /\ Len(queue) <= MaxEvents /\ Len(queue) \in Nat
    <2>1. queue \in Seq(Request) /\ Len(queue) = Len(sq) + Len(Prepared)
      BY <1>1, <1>6, ConcatProperties
    <2> QED
      BY <2>1, <1>3, <1>4, <1>6
  <1> HIDE DEF queue
  <1>8. sq' \in Seq(Request) /\ Len(sq') <= MaxEvents /\ (n = Len(queue) => sq' = <<>>)
    <2>1. \A x \in n + 1 .. Len(queue) : queue[x] \in Request
      BY <1>7
    <2>2. /\ sq' \in Seq(Request)
          /\ Len(sq') = IF n + 1 <= Len(queue) THEN Len(queue) - (n + 1) + 1 ELSE 0
      BY <1>2, <1>7, <2>1, SubSeqProperties
    <2>3. ASSUME n = Len(queue) PROVE sq' = <<>>
      BY <1>2, <1>7, <2>3, SubSeqEmpty
    <2> QED
      BY <2>2, <2>3, <1>3, <1>7
  <1>9. buf' \in [1 .. Buffers -> Ids \cup {Garbage}]
    <2>1. \A x \in 1 .. n : queue[x] \in Request
      BY <1>7
    <2>2. SubSeq(queue, 1, n) \in Seq(Request)
      BY <1>7, <2>1, SubSeqProperties
    <2>3. ToSet(SubSeq(queue, 1, n)) \ short \subseteq Request
      BY <2>2 DEF ToSet
    <2> QED
      BY <1>1, <1>14, <2>3, FilledType
  <1>10. ASSUME ~faulty', NEW y \in 1 .. Count, y <= processed' PROVE buf'[y] = node_list[i + y]
    <2>1. ~faulty /\ short = {} /\ n = Len(queue)
      <3>1. ~(faulty \/ short # {} \/ n < Len(queue))
        BY <1>10, <1>14
      <3> QED
        BY <3>1, <1>7
    <2>2. sq = <<>>
      BY <2>1, <1>1 DEF Reading
    <2>3. queue = Prepared /\ n = room
      <3>1. <<>> \o Prepared = Prepared /\ Len(<<>>) = 0
        BY <1>6, ConcatEmptySeq
      <3> QED
        BY <2>1, <2>2, <3>1, <1>4, <1>7 DEF queue
    <2>4. SubSeq(queue, 1, n) = queue
      BY <2>1, <1>7, SubSeqFull
    <2>5. buf' \in Filled({Requested[x] : x \in processed + 1 .. processed + room})
      <3>1. ToSet(SubSeq(queue, 1, n)) \ short = ToSet(Prepared)
        BY <2>1, <2>3, <2>4
      <3> QED
        BY <3>1, <1>14, <1>6
    <2>6. processed + room \in Int /\ processed + room <= Count /\ processed' = processed + room
      BY <1>1, <1>2, <1>4, <2>3
    <2>7. /\ y <= processed => buf'[y] = buf[y]
          /\ processed < y /\ y <= processed + room => buf'[y] = node_list[i + y]
      BY <1>1, <2>5, <2>6, FilledBatch
    <2>8. y <= processed => buf[y] = node_list[i + y]
      BY <1>1, <2>1 DEF Reading
    <2> QED
      BY <2>6, <2>7, <2>8, <1>1, <1>10
  <1>11. Count' = Count /\ Requested' = Requested /\ UNCHANGED <<pc, node_list, i>>
    BY DEF Count, Requested, cache
  <1>12. Reading'
    <2>1. processed' \in Nat /\ faulty' \in BOOLEAN
      BY <1>1, <1>2, <1>14, <1>7
    <2>2. ~faulty' => n = Len(queue)
      <3>1. ~faulty' => ~(n < Len(queue))
        BY <1>14
      <3> QED
        BY <3>1, <1>7
    <2> QED
      BY <1>1, <1>8, <1>9, <1>10, <1>11, <2>1, <2>2 DEF Reading
  <1>13. faulty => faulty'
    BY <1>14
  <1> QED
    BY <1>12, <1>13, ReaderFrame

\* A round of libaio.
LEMMA SubmitChunkKeeps ==
    ASSUME CacheInv, SubmitChunk, UNCHANGED <<graph, cache, given>> PROVE CacheInv'
  <1>1. /\ Position /\ Reading /\ reading = "yes" /\ pc = "read" /\ i < Len(node_list) /\ reqs = Requested
        /\ processed \in Nat /\ UNCHANGED <<engine, reading, reqs, sq>>
        /\ buf \in [1 .. Buffers -> Ids \cup {Garbage}] /\ faulty \in BOOLEAN
        /\ processed' = processed + MaxEvents
    BY DEF CacheInv, SubmitChunk, Reading, Position
  <1>2. PICK failed \in SUBSET ToSet(Chunk) :
           buf' \in Filled(ToSet(Chunk) \ failed) /\ faulty' = (faulty \/ failed # {})
    BY DEF SubmitChunk
  <1>3. Count \in Nat /\ Len(reqs) = Count /\ MaxEvents \in Nat
    BY <1>1, RequestedType, ReaderAssumption
  <1> DEFINE c == Min({processed + MaxEvents, Len(reqs)})
  <1>4. c \in Int /\ c <= Count /\ (c = processed + MaxEvents \/ c = Count)
    <2>1. processed + MaxEvents \in Int /\ Count \in Int
      BY <1>1, <1>3
    <2>2. Min({processed + MaxEvents, Count}) \in {processed + MaxEvents, Count}
          /\ Min({processed + MaxEvents, Count}) <= Count
      BY <2>1, MinOfTwo
    <2>3. c = Min({processed + MaxEvents, Count})
      BY <1>3
    <2> HIDE DEF c
    <2> QED
      BY <2>1, <2>2, <2>3
  <1>5. Chunk = SubSeq(Requested, processed + 1, c)
    BY <1>1 DEF Chunk
  <1> HIDE DEF c
  <1>6. /\ ToSet(Chunk) = {Requested[x] : x \in processed + 1 .. c} /\ Chunk \in Seq(Request)
    BY <1>1, <1>4, <1>5, PartOfBatch
  <1>7. buf' \in [1 .. Buffers -> Ids \cup {Garbage}]
    <2>1. ToSet(Chunk) \ failed \subseteq Request
      BY <1>6 DEF ToSet
    <2> QED
      BY <1>1, <1>2, <2>1, FilledType
  <1>8. ASSUME ~faulty', NEW y \in 1 .. Count, y <= processed' PROVE buf'[y] = node_list[i + y]
    <2>1. ~faulty /\ failed = {}
      BY <1>1, <1>2, <1>8
    <2>2. buf' \in Filled({Requested[x] : x \in processed + 1 .. c})
      BY <1>2, <1>6, <2>1
    <2>3. /\ y <= processed => buf'[y] = buf[y]
          /\ processed < y /\ y <= c => buf'[y] = node_list[i + y]
      BY <1>1, <1>4, <2>2, FilledBatch
    <2>4. y <= processed => buf[y] = node_list[i + y]
      BY <1>1, <2>1 DEF Reading
    <2>5. y <= c
      BY <1>1, <1>3, <1>4, <1>8
    <2> QED
      BY <2>3, <2>4, <2>5, <1>1
  <1>9. Count' = Count /\ Requested' = Requested /\ UNCHANGED <<pc, node_list, i>>
    BY DEF Count, Requested, cache
  <1>10. Reading'
    <2>1. processed' \in Nat /\ faulty' \in BOOLEAN /\ (~faulty' => ~faulty)
      BY <1>1, <1>2, <1>3
    <2> QED
      BY <1>1, <1>7, <1>8, <1>9, <2>1 DEF Reading
  <1>11. faulty => faulty'
    BY <1>2
  <1> QED
    BY <1>10, <1>11, ReaderFrame

LEMMA ReaderStepKeeps ==
    ASSUME CacheInv, ReaderStep, UNCHANGED <<graph, cache, given>> PROVE CacheInv'
  <1>1. CASE SubmitRing
    BY <1>1, SubmitRingKeeps
  <1>2. CASE SubmitChunk
    BY <1>2, SubmitChunkKeeps
  <1>3. CASE ExitOnError
    <2>1. Count' = Count /\ Requested' = Requested /\ UNCHANGED <<pc, node_list, i>>
      BY DEF Count, Requested, cache
    <2>2. /\ Reading /\ reading = "yes" /\ reading' = "exited"
          /\ UNCHANGED <<engine, reqs, processed, sq, buf, faulty>>
      BY <1>3 DEF ExitOnError, CacheInv
    <2>3. Reading'
      BY <2>1, <2>2 DEF Reading
    <2> QED
      BY <2>2, <2>3, ReaderFrame
  <1> QED
    BY <1>1, <1>2, <1>3 DEF ReaderStep

-----------------------------------------------------------------------------
(* Storing a node *)

\* What a buffer is parsed to is the entry of its node, unless a read went wrong.
LEMMA ParsedType ==
    ASSUME CacheInv, pc = "store", k < Count
    PROVE  /\ Parsed(k + 1) \in Seq(PoolEntry) /\ Len(Parsed(k + 1)) <= MaxDegree + 1
           /\ ~faulty => Parsed(k + 1) = Entry(next_id)
  <1>1. /\ Position /\ Reading /\ graph \in Graphs /\ i \in Nat /\ k \in Nat /\ i < Len(node_list)
        /\ buf \in [1 .. Buffers -> Ids \cup {Garbage}]
    BY DEF CacheInv, Position, Reading
  <1>2. k + 1 \in 1 .. Count /\ k + 1 \in 1 .. Buffers
    BY <1>1, CountType, ReaderAssumption
  <1>3. CASE buf[k + 1] = Garbage
    <2>1. Parsed(k + 1) = <<<<Garbage, 0>>>>
      BY <1>3 DEF Parsed
    <2>2. <<Garbage, 0>> \in PoolEntry
      BY DEF PoolEntry
    <2>3. Parsed(k + 1) \in Seq(PoolEntry) /\ Len(Parsed(k + 1)) = 1
      BY <2>1, <2>2
    <2>4. faulty
      <3> SUFFICES ASSUME ~faulty PROVE FALSE
        OBVIOUS
      <3>1. buf[k + 1] = node_list[i + (k + 1)]
        BY <1>1, <1>2 DEF Reading
      <3>2. node_list[i + (k + 1)] \in Ids
        BY <1>1, <1>2, CountType DEF Position
      <3> QED
        BY <1>3, <3>1, <3>2, SentinelAssumption
    <2>5. 1 <= MaxDegree + 1
      BY SizesAssumption
    <2> QED
      BY <2>3, <2>4, <2>5
  <1>4. CASE buf[k + 1] # Garbage
    <2>1. Parsed(k + 1) = Entry(buf[k + 1]) /\ buf[k + 1] \in Ids
      BY <1>1, <1>2, <1>4 DEF Parsed
    <2>2. Parsed(k + 1) \in Seq(PoolEntry) /\ Len(Parsed(k + 1)) = Len(graph[buf[k + 1]]) + 1
      BY <1>1, <2>1, EntryType
    <2>3. Len(graph[buf[k + 1]]) \in 0 .. MaxDegree /\ MaxDegree \in Nat
      BY <1>1, <2>1, GraphType, SizesAssumption
    <2>4. ASSUME ~faulty PROVE Parsed(k + 1) = Entry(next_id)
      <3>1. buf[k + 1] = node_list[i + (k + 1)]
        BY <1>1, <1>2, <2>4 DEF Reading
      <3>2. i + (k + 1) = i + k + 1
        BY <1>1
      <3> QED
        BY <2>1, <3>1, <3>2 DEF next_id
    <2> QED
      BY <2>2, <2>3, <2>4
  <1> QED
    BY <1>3, <1>4

\* What both ways of storing a node do: the pool grows at its end.
LEMMA StoreCommon ==
    ASSUME CacheInv, pc = "store", k < Count, pool' = pool \o Parsed(k + 1), k' = k + 1,
           UNCHANGED <<graph, reader, given, hash, pc, node_list, i, use_offset_mode>>
    PROVE  /\ Position' /\ Reading' /\ Stored' = Stored \cup {next_id}
           /\ pool' \in Seq(PoolEntry) /\ Len(pool') <= (i' + k') * (MaxDegree + 1)
           /\ \A id \in Ids, o \in Nat : Holds(pool, id, o) => Holds(pool', id, o)
           /\ ~faulty => Holds(pool', next_id, Len(pool))
           /\ i + k + 1 = i' + k' /\ i' + k' \in Nat
  <1>1. /\ Position /\ Reading /\ Lookups /\ graph \in Graphs /\ i \in Nat /\ k \in Nat /\ i < Len(node_list)
    BY DEF CacheInv, Position
  <1>2. /\ next_id \in Ids /\ i + k + 1 <= Len(node_list) /\ Count \in Nat /\ Len(node_list) \in Nat
    BY <1>1, CanStore, CountType DEF Position
  <1>3. Count' = Count /\ Requested' = Requested
    BY DEF Count, Requested
  <1>4. Position'
    BY <1>1, <1>2, <1>3 DEF Position, TooLarge
  <1>5. Reading'
    BY <1>1, <1>3 DEF Reading, reader
  <1>6. i + k + 1 = i' + k' /\ i' + k' \in Nat
    BY <1>1
  <1>7. Stored' = Stored \cup {next_id}
    <2>1. Stored' = {node_list[x] : x \in 1 .. i + k + 1}
      BY <1>6 DEF Stored
    <2>2. 1 .. i + k + 1 = (1 .. i + k) \cup {i + k + 1}
      <3> DEFINE m == i + k
      <3>1. m \in Nat
        BY <1>1
      <3> HIDE DEF m
      <3>2. 1 .. m + 1 = (1 .. m) \cup {m + 1}
        BY <3>1
      <3> QED
        BY <3>2 DEF m
    <2> QED
      BY <2>1, <2>2 DEF Stored, next_id
  <1> DEFINE e == Parsed(k + 1)
             n == Len(pool)
  <1>8. e \in Seq(PoolEntry) /\ Len(e) <= MaxDegree + 1 /\ (~faulty => e = Entry(next_id)) /\ Len(e) \in Nat
    BY ParsedType
  <1>9. pool \in Seq(PoolEntry) /\ n \in Nat /\ n <= (i + k) * (MaxDegree + 1)
    BY <1>1 DEF Lookups
  <1> HIDE DEF e
  <1>10. /\ pool' \in Seq(PoolEntry) /\ Len(pool') = n + Len(e)
         /\ \A x \in 1 .. n + Len(e) : pool'[x] = IF x <= n THEN pool[x] ELSE e[x - n]
    <2>1. pool' = pool \o e
      BY DEF e
    <2> QED
      BY <2>1, <1>8, <1>9, ConcatProperties
  <1>11. Len(pool') <= (i' + k') * (MaxDegree + 1)
    <2> DEFINE d == MaxDegree + 1
               m == i + k
    <2>1. d \in Nat /\ m \in Nat /\ i' + k' = m + 1
      BY <1>1, <1>6, SizesAssumption
    <2>2. n <= m * d /\ Len(e) <= d
      BY <1>8, <1>9
    <2> HIDE DEF d, m, n
    <2>3. (m + 1) * d = m * d + d /\ m * d \in Nat
      BY <2>1
    <2>4. n + Len(e) <= (m + 1) * d
      BY <2>1, <2>2, <2>3, <1>8, <1>9
    <2> QED
      BY <2>1, <2>4, <1>10 DEF d
  <1> HIDE DEF n
  <1>12. ASSUME NEW id \in Ids, NEW o \in Nat, Holds(pool, id, o) PROVE Holds(pool', id, o)
    <2> DEFINE l == Len(graph[id])
    <2>1. l \in Nat /\ o + l < n /\ \A x \in 0 .. l : pool[o + x + 1] = <<id, x>>
      BY <1>1, <1>12, GraphType DEF Holds, n
    <2> HIDE DEF l
    <2>2. ASSUME NEW x \in 0 .. l PROVE pool'[o + x + 1] = <<id, x>>
      <3>1. o + x + 1 \in 1 .. n + Len(e) /\ o + x + 1 <= n
        BY <2>1, <1>8, <1>9
      <3>2. pool'[o + x + 1] = pool[o + x + 1]
        BY <3>1, <1>10
      <3> QED
        BY <3>2, <2>1
    <2>3. o + l < Len(pool')
      BY <2>1, <1>8, <1>9, <1>10
    <2> QED
      BY <2>2, <2>3 DEF Holds, l
  <1>13. ASSUME ~faulty PROVE Holds(pool', next_id, n)
    <2> DEFINE l == Len(graph[next_id])
    <2>1. l \in Nat /\ Len(e) = l + 1 /\ \A x \in 0 .. l : e[x + 1] = <<next_id, x>>
      <3>1. l \in Nat
        BY <1>1, <1>2, GraphType
      <3>2. e = Entry(next_id)
        BY <1>8, <1>13
      <3>3. /\ Len(Entry(next_id)) = l + 1
            /\ \A x \in 0 .. l : Entry(next_id)[x + 1] = <<next_id, x>>
        BY <1>1, <1>2, EntryType
      <3> QED
        BY <3>1, <3>2, <3>3
    <2> HIDE DEF l
    <2>2. ASSUME NEW x \in 0 .. l PROVE pool'[n + x + 1] = <<next_id, x>>
      <3>1. n + x + 1 \in 1 .. n + Len(e) /\ ~(n + x + 1 <= n) /\ (n + x + 1) - n = x + 1
        BY <2>1, <1>9
      <3>2. pool'[n + x + 1] = e[(n + x + 1) - n]
        BY <3>1, <1>10
      <3> QED
        BY <3>1, <3>2, <2>1
    <2>3. n + l < Len(pool')
      BY <2>1, <1>9, <1>10
    <2> QED
      BY <2>2, <2>3 DEF Holds, l
  <1> QED
    BY <1>4, <1>5, <1>6, <1>7, <1>10, <1>11, <1>12, <1>13 DEF n

LEMMA SizeOfUsed ==
    ASSUME NEW ks, IsFiniteSet(DOMAIN ks), NEW s
    PROVE  /\ Cardinality(Used(ks)) \in Nat
           /\ Cardinality(Used(ks) \cup {s}) \in Nat
           /\ Cardinality(Used(ks) \cup {s}) <= Cardinality(Used(ks)) + 1
  <1>1. IsFiniteSet(Used(ks))
    BY FS_Subset DEF Used
  <1>2. Cardinality(Used(ks)) \in Nat
    BY <1>1, FS_CardinalityType
  <1>3. Cardinality(Used(ks) \cup {s}) = IF s \in Used(ks) THEN Cardinality(Used(ks)) ELSE Cardinality(Used(ks)) + 1
    BY <1>1, FS_AddElement
  <1> QED
    BY <1>2, <1>3

LEMMA ContentsNext ==
    ASSUME UNCHANGED <<faulty, graph>>,
           ~faulty => \A id \in Stored' : \E o \in 0 .. Unused - 1 : LeadsTo(id, o)' /\ Holds(pool', id, o)
    PROVE  Contents'
  <1>1. \A id, o : Holds(pool, id, o)' = Holds(pool', id, o)
    BY DEF Holds
  <1> QED
    BY <1>1 DEF Contents

LEMMA StoreInVectorKeeps ==
    ASSUME CacheInv, StoreInVector, UNCHANGED <<graph, reader, given>> PROVE CacheInv'
  <1>1. /\ pc = "store" /\ k < Count /\ use_offset_mode = TRUE /\ Len(pool) < Unused
        /\ cache_offsets' = [cache_offsets EXCEPT ![next_id] = Len(pool)]
        /\ pool' = pool \o Parsed(k + 1) /\ k' = k + 1
        /\ UNCHANGED <<graph, reader, given, hash, pc, node_list, i, use_offset_mode>>
        /\ Lookups /\ Contents /\ Position /\ graph \in Graphs
    BY DEF StoreInVector, CacheInv, Lookups
  <1>2. /\ Position' /\ Reading' /\ Stored' = Stored \cup {next_id}
        /\ pool' \in Seq(PoolEntry) /\ Len(pool') <= (i' + k') * (MaxDegree + 1)
        /\ \A id \in Ids, o \in Nat : Holds(pool, id, o) => Holds(pool', id, o)
        /\ ~faulty => Holds(pool', next_id, Len(pool))
    BY <1>1, StoreCommon
  <1>3. /\ next_id \in Ids /\ Stored \subseteq Ids /\ Len(pool) \in 0 .. Unused - 1 /\ Unused \in Nat
    <2>1. Len(pool) \in Nat /\ Unused \in Nat
      BY <1>1, UnusedIsNone DEF Lookups
    <2>2. Len(pool) \in 0 .. Unused - 1
      BY <2>1, <1>1
    <2> QED
      BY <2>1, <2>2, <1>1, CanStore, StoredType
  <1>4. /\ cache_offsets \in [Ids -> 0 .. Unused]
        /\ \A id \in Ids : id \in Stored <=> cache_offsets[id] # Unused
    BY <1>1 DEF Lookups
  <1>0. PICK n : n = Len(pool)
    OBVIOUS
  <1>5. n \in 0 .. Unused /\ n # Unused /\ cache_offsets' = [cache_offsets EXCEPT ![next_id] = n]
    BY <1>0, <1>1, <1>3
  <1>6. /\ cache_offsets' \in [Ids -> 0 .. Unused] /\ cache_offsets'[next_id] = n
        /\ \A id \in Ids : id # next_id => cache_offsets'[id] = cache_offsets[id]
    BY <1>3, <1>4, <1>5
  <1>7. \A id \in Ids : id \in Stored' <=> cache_offsets'[id] # Unused
    BY <1>2, <1>3, <1>4, <1>5, <1>6
  <1>8. Lookups'
    BY <1>1, <1>2, <1>6, <1>7 DEF Lookups
  <1>9. Contents'
    <2> SUFFICES ASSUME ~faulty, NEW id \in Stored \cup {next_id}
                 PROVE  \E o \in 0 .. Unused - 1 : LeadsTo(id, o)' /\ Holds(pool', id, o)
      BY <1>1, <1>2, ContentsNext DEF reader
    <2>1. CASE id = next_id
      <3>1. LeadsTo(id, n)'
        BY <2>1, <1>1, <1>6 DEF LeadsTo
      <3>2. Holds(pool', id, n)
        BY <2>1, <1>0, <1>2
      <3> QED
        BY <3>1, <3>2, <1>0, <1>3
    <2>2. CASE id # next_id
      <3>1. PICK o \in 0 .. Unused - 1 : LeadsTo(id, o) /\ Holds(pool, id, o)
        BY <2>2, <1>1 DEF Contents
      <3>2. id \in Ids /\ o \in Nat
        BY <1>3
      <3>3. LeadsTo(id, o)'
        BY <2>2, <3>1, <3>2, <1>1, <1>6 DEF LeadsTo
      <3>4. Holds(pool', id, o)
        BY <3>1, <3>2, <1>2
      <3> QED
        BY <3>3, <3>4
    <2> QED
      BY <2>1, <2>2
  <1>10. graph' \in Graphs /\ pc' # "closed"
    BY <1>1
  <1> QED
    BY <1>2, <1>8, <1>9, <1>10 DEF CacheInv

\* A node is stored in the hash table.
LEMMA StoreInHashKeeps ==
    ASSUME CacheInv, StoreInHash, UNCHANGED <<graph, reader, given>> PROVE CacheInv'
  <1>1. /\ pc = "store" /\ k < Count /\ use_offset_mode = FALSE /\ Len(pool) < Unused
        /\ pool' = pool \o Parsed(k + 1) /\ k' = k + 1
        /\ UNCHANGED <<graph, reader, given, hash, pc, node_list, i, use_offset_mode>>
        /\ Lookups /\ Contents /\ Position /\ graph \in Graphs /\ i \in Nat /\ k \in Nat
    BY DEF StoreInHash, CacheInv, Lookups, Position
  <1>2. /\ Position' /\ Reading' /\ Stored' = Stored \cup {next_id}
        /\ pool' \in Seq(PoolEntry) /\ Len(pool') <= (i' + k') * (MaxDegree + 1)
        /\ \A id \in Ids, o \in Nat : Holds(pool, id, o) => Holds(pool', id, o)
        /\ ~faulty => Holds(pool', next_id, Len(pool))
        /\ i + k + 1 = i' + k' /\ i' + k' \in Nat
    BY <1>1, StoreCommon
  <1>3. /\ next_id \in Ids /\ Stored \subseteq Ids /\ Len(pool) \in 0 .. Unused - 1 /\ Unused \in Nat
    <2>1. Len(pool) \in Nat /\ Unused \in Nat
      BY <1>1, UnusedIsNone DEF Lookups
    <2>2. Len(pool) \in 0 .. Unused - 1
      BY <2>1, <1>1
    <2> QED
      BY <2>1, <2>2, <1>1, CanStore, StoredType
  <1>4. /\ Table(hash, keys, offsets, Stored)
        /\ Cardinality(Used(keys)) <= i + k
        /\ node_list # <<>> => Size(keys) > Len(node_list)
    BY <1>1 DEF Lookups
  <1>5. PICK e \in 0 .. Size(keys) - 1 : EndsAt(hash, keys, next_id, e)
    BY <1>1, CanStore
  <1>0. PICK n, new, St, s : n = Len(pool) /\ new = next_id /\ St = Stored /\ s = Slot(hash, keys, next_id, e)
    OBVIOUS
  <1>6. keys' = [keys EXCEPT ![s] = new] /\ offsets' = [offsets EXCEPT ![s] = n]
    <2>1. Probe(next_id, Min(Ends(next_id))) = s
      BY <1>0, <1>3, <1>4, <1>5, EndIsFirst
    <2> QED
      BY <2>1, <1>0 DEF StoreInHash
  <1>7. new \in Ids /\ n \in 0 .. Unused - 1 /\ Table(hash, keys, offsets, St) /\ EndsAt(hash, keys, new, e)
    BY <1>0, <1>3, <1>4, <1>5
  <1>8. /\ Table(hash, keys', offsets', St \cup {new})
        /\ DOMAIN keys' = DOMAIN keys
        /\ FoundAt(hash, keys', new, e) /\ offsets'[Slot(hash, keys', new, e)] = n
        /\ \A id \in St \ {new} : \A x \in 0 .. Size(keys) - 1 :
              FoundAt(hash, keys, id, x) =>
                 FoundAt(hash, keys', id, x)
                 /\ offsets'[Slot(hash, keys', id, x)] = offsets[Slot(hash, keys, id, x)]
        /\ Used(keys') = Used(keys) \cup {s}
    <2>1. PICK ks, os : ks = keys /\ os = offsets
      OBVIOUS
    <2>2. PICK ks2, os2 : ks2 = keys' /\ os2 = offsets'
      OBVIOUS
    <2>3. PICK h : h = hash
      OBVIOUS
    <2>4. /\ Table(h, ks, os, St) /\ EndsAt(h, ks, new, e) /\ e \in 0 .. Size(ks) - 1
          /\ ks2 = [ks EXCEPT ![Slot(h, ks, new, e)] = new]
          /\ os2 = [os EXCEPT ![Slot(h, ks, new, e)] = n]
      BY <2>1, <2>2, <2>3, <1>0, <1>5, <1>6, <1>7
    <2>5. InsertedAt(h, ks, os, St, new, e, n, ks2, os2)
      BY <2>4, <1>7, Inserted
    <2> QED
      BY <2>1, <2>2, <2>3, <2>5, <1>0 DEF InsertedAt
  <1>9. Size(keys') = Size(keys)
    BY <1>8 DEF Size
  <1>10. Cardinality(Used(keys')) <= i' + k'
    <2>1. IsFiniteSet(DOMAIN keys)
      BY <1>4 DEF Table
    <2>2. /\ Cardinality(Used(keys)) \in Nat /\ Cardinality(Used(keys) \cup {s}) \in Nat
          /\ Cardinality(Used(keys) \cup {s}) <= Cardinality(Used(keys)) + 1
      BY <2>1, SizeOfUsed
    <2> DEFINE a == Cardinality(Used(keys))
               b == Cardinality(Used(keys) \cup {s})
    <2>3. a \in Nat /\ b \in Nat /\ b <= a + 1 /\ a <= i + k
      BY <2>2, <1>4
    <2>4. Cardinality(Used(keys')) = b
      BY <1>8
    <2> HIDE DEF a, b
    <2>5. b <= i + k + 1
      BY <2>3, <1>1
    <2> QED
      BY <2>4, <2>5, <1>2
  <1>11. Table(hash', keys', offsets', Stored')
    BY <1>0, <1>1, <1>2, <1>8
  <1>12. Lookups'
    <2>1. Table(hash, keys, offsets, Stored)' /\ Used(keys)' = Used(keys') /\ Size(keys)' = Size(keys')
      BY <1>11 DEF Table, Used, Size, FoundAt, EndsAt, Slot
    <2>2. hash' \in [Ids -> Nat] /\ use_offset_mode' = FALSE /\ (node_list' # <<>> => Size(keys') > Len(node_list'))
      BY <1>1, <1>4, <1>9 DEF Lookups
    <2> QED
      BY <2>1, <2>2, <1>2, <1>10 DEF Lookups
  <1>13. Contents'
    <2> SUFFICES ASSUME ~faulty, NEW id \in St \cup {new}
                 PROVE  \E o \in 0 .. Unused - 1 : LeadsTo(id, o)' /\ Holds(pool', id, o)
      BY <1>0, <1>1, <1>2, ContentsNext DEF reader
    <2>0. ASSUME NEW o PROVE LeadsTo(id, o)' <=> \E x \in 0 .. Size(keys) - 1 :
                     FoundAt(hash, keys', id, x) /\ offsets'[Slot(hash, keys', id, x)] = o
      BY <1>1, <1>9 DEF LeadsTo, FoundAt, EndsAt, Slot, Size
    <2>1. CASE id = new
      <3>1. LeadsTo(id, n)'
        BY <2>0, <2>1, <1>8
      <3>2. Holds(pool', id, n)
        BY <2>1, <1>0, <1>2
      <3> QED
        BY <3>1, <3>2, <1>7
    <2>2. CASE id # new
      <3>1. PICK o \in 0 .. Unused - 1 : LeadsTo(id, o) /\ Holds(pool, id, o)
        BY <2>2, <1>0, <1>1 DEF Contents
      <3>2. id \in Ids /\ o \in Nat
        BY <1>0, <1>3, <1>7
      <3>3. PICK x \in 0 .. Size(keys) - 1 :
               FoundAt(hash, keys, id, x) /\ offsets[Slot(hash, keys, id, x)] = o
        BY <3>1, <1>1 DEF LeadsTo
      <3>4. LeadsTo(id, o)'
        BY <2>0, <2>2, <3>3, <1>8
      <3>5. Holds(pool', id, o)
        BY <3>1, <3>2, <1>2
      <3> QED
        BY <3>4, <3>5
    <2> QED
      BY <2>1, <2>2
  <1>14. graph' \in Graphs /\ pc' # "closed"
    BY <1>1
  <1> QED
    BY <1>2, <1>12, <1>13, <1>14 DEF CacheInv

\* A batch is stored.
LEMMA EndBatchKeeps ==
    ASSUME CacheInv, EndBatch, UNCHANGED <<graph, reader, given>> PROVE CacheInv'
  <1>1. /\ pc = "store" /\ k = Count /\ i' = i + Count /\ k' = 0
        /\ pc' = IF i + Count < Len(node_list) THEN "batch" ELSE "idle"
        /\ UNCHANGED <<graph, reader, given, hash, node_list, lookup, pool>>
        /\ Lookups /\ Contents /\ Position /\ Reading /\ graph \in Graphs
        /\ i \in Nat /\ k \in Nat /\ i < Len(node_list)
    BY DEF EndBatch, CacheInv, Position
  <1>2. Count \in Nat /\ i + Count <= Len(node_list) /\ Len(node_list) \in Nat
    BY <1>1, CountType DEF Position
  <1>3. i' \in Nat /\ i' + k' = i + k /\ Stored' = Stored
    <2>1. i' \in Nat /\ i' + k' = i + k
      BY <1>1, <1>2
    <2> QED
      BY <2>1, <1>1 DEF Stored
  <1>4. Position'
    BY <1>1, <1>2, <1>3 DEF Position, TooLarge
  <1>5. Reading'
    <2>1. pc' \in {"batch", "idle"}
      BY <1>1
    <2> QED
      BY <2>1, <1>1 DEF Reading, reader
  <1>6. Lookups'
    <2>1. UNCHANGED <<hash, use_offset_mode, cache_offsets, keys, offsets, pool, node_list>>
      BY <1>1 DEF lookup
    <2> QED
      BY <2>1, <1>1, <1>3 DEF Lookups, Table, Used, Size, FoundAt, EndsAt, Slot
  <1>7. Contents'
    <2>1. UNCHANGED <<graph, hash, use_offset_mode, cache_offsets, keys, offsets, pool, faulty>>
      BY <1>1 DEF lookup, reader
    <2> QED
      <3>1. \A id, o : LeadsTo(id, o)' = LeadsTo(id, o) /\ Holds(pool, id, o)' = Holds(pool, id, o)
        BY <2>1 DEF LeadsTo, Holds, FoundAt, EndsAt, Slot, Size
      <3> QED
        BY <2>1, <3>1, <1>1, <1>3 DEF Contents
  <1>8. pc' # "closed" /\ graph' \in Graphs
    BY <1>1
  <1> QED
    BY <1>4, <1>5, <1>6, <1>7, <1>8 DEF CacheInv

-----------------------------------------------------------------------------
(* The whole system *)

LEMMA CacheInitInv == Init => CacheInv
  <1> SUFFICES ASSUME Init PROVE CacheInv
    OBVIOUS
  <1>1. graph \in Graphs
    BY DEF Init, ListInit, FileInit
  <1>2. /\ pc = "closed" /\ node_list = <<>> /\ i = 0 /\ k = 0 /\ given = <<>>
        /\ use_offset_mode = FALSE /\ keys = Nothing /\ offsets = Nothing /\ pool = <<>>
        /\ reading = "no" /\ processed = 0 /\ sq = <<>> /\ buf = NoData /\ faulty = FALSE
    BY DEF Init, ReaderInit, CacheInit
  <1>3. Position
    BY <1>2 DEF Position
  <1>4. NoData \in [1 .. Buffers -> Ids \cup {Garbage}]
    BY DEF NoData
  <1>5. Reading
    <2>1. sq \in Seq(Request) /\ Len(sq) <= MaxEvents
      BY <1>2, ReaderAssumption
    <2> QED
      BY <1>2, <1>4, <2>1 DEF Reading
  <1>6. Fresh
    BY <1>2 DEF Fresh
  <1> QED
    BY <1>1, <1>2, <1>3, <1>5, <1>6 DEF CacheInv

LEMMA StartSearchKeeps ==
    ASSUME CacheInv, ListInv, NEW n \in Limits \cup {Len(list)}, StartSearch(n)
    PROVE  CacheInv' /\ ListInv'
  <1>1. /\ pc = "closed" /\ pc' \in {"idle", "refused"} /\ hash' \in Hashes /\ OpenReader /\ Forget
        /\ UNCHANGED <<node_list, i, k, lookup, pool, graph>>
        /\ IF Refused(n) THEN given' = given ELSE given' = Given(n)
    BY DEF StartSearch, Forget
  <1>2. given \in Seq(Ids) /\ list \in Seq(Ids)
    BY DEF CacheInv, Position, ListInv, ListTyped
  <1>3. Given(n) \in Seq(Ids) \/ Refused(n)
    <2>1. n \in Nat
      BY <1>2, LimitsAssumption
    <2>2. CASE program = "search"
      BY <1>2, <2>2 DEF Given
    <2>3. CASE program # "search" /\ Len(list) >= n
      <3>1. SubSeq(list, 1, n) \in Seq(Ids)
        <4>1. \A x \in 1 .. n : list[x] \in Ids
          BY <1>2, <2>1, <2>3
        <4> QED
          BY <4>1, <1>2, <2>1, <2>3
      <3> QED
        BY <3>1, <2>3 DEF Given
    <2>4. CASE program # "search" /\ Len(list) < n
      BY <2>4 DEF Refused
    <2> QED
      BY <2>1, <2>2, <2>3, <2>4, <1>2
  <1>4. given' \in Seq(Ids)
    BY <1>1, <1>2, <1>3
  <1>5. CacheInv'
    BY <1>1, <1>4, StartKeeps
  <1>6. ListInv'
    BY <1>1, ForgetKeeps
  <1> QED
    BY <1>5, <1>6

LEMMA LoadingKeeps == ASSUME CacheInv, ListInv, Loading PROVE CacheInv' /\ ListInv'
  <1>1. UNCHANGED listvars /\ graph' = graph
    BY DEF Loading, listvars, choice
  <1>2. ListInv'
    BY <1>1, ListUntouched
  <1>3. CASE (ReadBatch \/ BatchRead) /\ UNCHANGED <<listvars, given>>
    BY <1>1, <1>2, <1>3, ReadBatchKeeps, BatchReadKeeps
  <1>4. CASE ReaderStep /\ UNCHANGED <<listvars, cache, given>>
    BY <1>1, <1>2, <1>4, ReaderStepKeeps
  <1>5. CASE Store /\ UNCHANGED <<listvars, reader, given>>
    BY <1>1, <1>2, <1>5, StoreInVectorKeeps, StoreInHashKeeps, EndBatchKeeps DEF Store
  <1> QED
    BY <1>2, <1>3, <1>4, <1>5 DEF Loading

\* The two invariants hold of every behaviour of the two programs: while a list is
\* chosen, while it is loaded and after it.
THEOREM CacheCorrect == Spec => [](CacheInv /\ ListInv)
  <1>1. Init => CacheInv /\ ListInv
    BY CacheInitInv, ListInitInv
  <1>2. CacheInv /\ ListInv /\ [Next]_vars => CacheInv' /\ ListInv'
    <2> SUFFICES ASSUME CacheInv, ListInv, [Next]_vars PROVE CacheInv' /\ ListInv'
      OBVIOUS
    <2>1. CASE ChooseNodes
      <3>1. ListInv' /\ graph' = graph /\ UNCHANGED <<reader, cache, given>>
        BY <2>1, ListStepKeeps DEF ChooseNodes
      <3> QED
        BY <3>1, CacheUntouched
    <2>2. CASE LoadGiven
      <3>1. given \in Seq(Ids) /\ Load(given)
        BY <2>2 DEF LoadGiven, CacheInv, Position
      <3> QED
        BY <3>1, LoadKeeps, ListUntouched
    <2>3. CASE LoadAgain
      <3>1. PICK s \in Reloads : Load(s)
        BY <2>3 DEF LoadAgain
      <3>2. s \in Seq(Ids)
        BY FilesAssumption
      <3> QED
        BY <3>1, <3>2, LoadKeeps, ListUntouched
    <2>4. CASE Loading
      BY <2>4, LoadingKeeps
    <2>5. CASE \E n \in Limits \cup {Len(list)} : StartSearch(n)
      BY <2>5, StartSearchKeeps
    <2>6. CASE UNCHANGED vars
      <3>1. UNCHANGED listvars /\ UNCHANGED <<reader, cache, given>> /\ graph' = graph
        BY <2>6 DEF vars, listvars, choice
      <3> QED
        BY <3>1, ListUntouched, CacheUntouched
    <2> QED
      BY <2>1, <2>2, <2>3, <2>4, <2>5, <2>6 DEF Next
  <1> QED
    BY <1>1, <1>2, PTL DEF Spec

\* LookupExact, for every graph, list, hash function, batch size and queue depth:
\* find_cache_lookup() leads to the list of the node asked for, or to nothing if the
\* node was not loaded, and load_cache_list() never runs out of slots.
THEOREM LookupsAreExact == Spec => []LookupExact
  <1>1. CacheInv => LookupExact
    BY CacheIsExact
  <1> QED
    BY <1>1, CacheCorrect, PTL

\* CacheListExact, for every graph, limit, number of hops and number of threads: the
\* generator and cache_bfs_levels() list the nodes around the medoids level by level
\* and, in hybrid mode, then those of the highest in-degree.
THEOREM ListsAreExact == Spec => []CacheListExact
  <1>1. ListInv => CacheListExact
    BY DEF ListInv
  <1> QED
    BY <1>1, CacheCorrect, PTL
=============================================================================
