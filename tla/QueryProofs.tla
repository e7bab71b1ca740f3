----------------------------- MODULE QueryProofs -----------------------------
(***************************************************************************)
(* The two halves of a query.                                              *)
(*                                                                         *)
(* The traversal (BeamSearch), for every graph, cache, list length, beam   *)
(* width and read limit: it expands no node twice, its list is the best of *)
(* what it has seen, and an unlimited one stops at a local optimum.        *)
(*                                                                         *)
(* The refinement (Refinement), for every candidate list, batch size, k    *)
(* and mode: a full refinement answers with the exact top k of what it     *)
(* refined, no mode but the explicit count costs an answer, and an early   *)
(* exit is taken only after the promised streak.                           *)
(***************************************************************************)
EXTENDS BeamSearch, Refinement, FiniteSetTheorems, SequenceTheorems, TLAPS

-----------------------------------------------------------------------------
(* What the order of the candidates gives.                                 *)

\* A set of naturals has a least element, which is the one Min chooses.
LEMMA LeastElement == ASSUME NEW S, S \subseteq Nat, S # {}
                      PROVE  \E x \in S : \A y \in S : x <= y
  <1> DEFINE R == OpToRel(<, Nat)
  <1>1. IsWellFoundedOn(R, Nat)
    BY NatLessThanWellFounded
  <1>2. PICK x \in S : \A y \in S : ~(<<y, x>> \in R)
    BY <1>1, WFMin
  <1>3. \A y \in S : ~(y < x)
    BY <1>2 DEF OpToRel
  <1> QED
    BY <1>3

LEMMA MinIsLeast == ASSUME NEW S, S \subseteq Nat, S # {}
                    PROVE  Min(S) \in S /\ \A y \in S : Min(S) <= y
  BY LeastElement DEF Min

\* The elements of S that are better than n.
Below(S, n) == {m \in S : m < n}

LEMMA BelowFinite == ASSUME NEW S, IsFiniteSet(S), NEW n
                     PROVE  IsFiniteSet(Below(S, n)) /\ Cardinality(Below(S, n)) \in Nat
  BY FS_Subset, FS_CardinalityType DEF Below

\* A finite set of naturals has a greatest element: the one with the most
\* others below it.
LEMMA GreatestElement == ASSUME NEW S, S \subseteq Nat, S # {}, IsFiniteSet(S)
                         PROVE  \E x \in S : \A y \in S : y <= x
  <1> DEFINE Above(x) == Cardinality(S) - Cardinality(Below(S, x))
             C == {Above(x) : x \in S}
  <1>1. Cardinality(S) \in Nat /\ \A x \in S : Cardinality(Below(S, x)) \in Nat
    BY BelowFinite, FS_CardinalityType
  <1>2. \A x \in S : Cardinality(Below(S, x)) <= Cardinality(S)
    BY FS_Subset DEF Below
  <1>3. C \subseteq Nat /\ C # {}
    <2>1. \A x \in S : Above(x) \in Nat
      BY <1>1, <1>2
    <2> HIDE DEF Above
    <2> QED
      BY <2>1
  <1>4. PICK c \in C : \A d \in C : c <= d
    BY <1>3, LeastElement
  <1>5. PICK x \in S : c = Above(x)
    OBVIOUS
  <1>6. ASSUME NEW y \in S, y > x PROVE FALSE
    <2>1. Below(S, x) \cup {x} \subseteq Below(S, y) /\ x \notin Below(S, x)
      <3>1. \A z \in S : z \in Int
        OBVIOUS
      <3>2. \A z \in S : z < x => z < y
        BY <1>6, <3>1
      <3>3. x < y /\ ~(x < x)
        BY <1>6, <3>1
      <3> QED
        BY <3>2, <3>3 DEF Below
    <2>2. Cardinality(Below(S, x) \cup {x}) = Cardinality(Below(S, x)) + 1
      BY <2>1, BelowFinite, FS_AddElement
    <2>3. Cardinality(Below(S, x) \cup {x}) <= Cardinality(Below(S, y))
      BY <2>1, BelowFinite, FS_Subset
    <2>4. Above(x) <= Above(y)
      BY <1>4, <1>5
    <2> QED
      BY <1>1, <2>2, <2>3, <2>4
  <1> QED
    BY <1>6

-----------------------------------------------------------------------------
(* The l_search best of a finite set.                                      *)

LEMMA BestDef == ASSUME NEW S
                 PROVE  Best(S) = {n \in S : Cardinality(Below(S, n)) < l_search}
  BY DEF Best, Below

\* An element that is not among the best has the whole list below it.
LEMMA LeftOut ==
    ASSUME NEW S, S \subseteq Nat, IsFiniteSet(S), l_search \in Nat \ {0},
           NEW n \in S, n \notin Best(S)
    PROVE  \E m \in S \ Best(S) : /\ m <= n
                                  /\ Below(S, m) \subseteq Best(S)
                                  /\ Cardinality(Below(S, m)) >= l_search
  <1> DEFINE T == S \ Best(S)
  <1>1. PICK m \in T : \A x \in T : m <= x
    BY LeastElement
  <1>2. m <= n /\ Below(S, m) \subseteq Best(S)
    <2>1. \A z \in S : z \in Int
      OBVIOUS
    <2>2. \A z \in S : z < m => z \notin T
      BY <1>1, <2>1
    <2> QED
      BY <1>1, <2>2 DEF Below
  <1>3. Cardinality(Below(S, m)) >= l_search
    BY BelowFinite, BestDef
  <1> QED
    BY <1>2, <1>3

\* Keeping only the best of V does not change what the best of V and W are.
LEMMA BestOfUnion ==
    ASSUME NEW V, NEW W, V \subseteq Nat, W \subseteq Nat, IsFiniteSet(V), IsFiniteSet(W),
           l_search \in Nat \ {0}
    PROVE  Best(Best(V) \cup W) = Best(V \cup W)
  <1> DEFINE A == Best(V) \cup W
             U == V \cup W
  <1>1. A \subseteq U /\ IsFiniteSet(U) /\ IsFiniteSet(A)
    BY FS_Union, FS_Subset, BestDef
  <1>2. ASSUME NEW n \in Best(U) PROVE n \in Best(A)
    <2>1. n \in U /\ Cardinality(Below(U, n)) < l_search
      BY BestDef
    <2>2. Cardinality(Below(A, n)) < l_search
      <3>1. Below(A, n) \subseteq Below(U, n)
        BY <1>1 DEF Below
      <3>2. Cardinality(Below(A, n)) <= Cardinality(Below(U, n))
        BY <1>1, <3>1, BelowFinite, FS_Subset
      <3> QED
        BY <1>1, <2>1, <3>2, BelowFinite
    <2>3. n \in A
      <3>1. ASSUME n \in V PROVE n \in Best(V)
        <4>1. Below(V, n) \subseteq Below(U, n)
          BY DEF Below
        <4>a. Cardinality(Below(V, n)) <= Cardinality(Below(U, n))
          BY <1>1, <4>1, BelowFinite, FS_Subset
        <4>2. Cardinality(Below(V, n)) < l_search
          BY <1>1, <2>1, <4>a, BelowFinite
        <4> QED
          BY <3>1, <4>2, BestDef
      <3> QED
        BY <2>1, <3>1
    <2> QED
      BY <2>2, <2>3, BestDef
  <1>3. ASSUME NEW n \in Best(A) PROVE n \in Best(U)
    <2>1. n \in A /\ n \in U /\ n \in Nat /\ Cardinality(Below(A, n)) < l_search
      BY <1>1, BestDef
    <2>2. CASE Below(U, n) = Below(A, n)
      BY <2>1, <2>2, BestDef
    <2>3. CASE Below(U, n) # Below(A, n)
      <3>1. PICK x \in V : x < n /\ x \notin Best(V)
        BY <1>1, <2>3 DEF Below
      <3>2. PICK m \in V \ Best(V) : /\ m <= x /\ Below(V, m) \subseteq Best(V)
                                     /\ Cardinality(Below(V, m)) >= l_search
        BY <3>1, LeftOut
      <3>3. Below(V, m) \subseteq Below(A, n)
        <4>1. \A z \in V : z \in Int
          OBVIOUS
        <4>2. \A z \in V : z < m => z < n
          BY <2>1, <3>1, <3>2, <4>1
        <4> QED
          BY <3>2, <4>2 DEF Below
      <3>4. Cardinality(Below(V, m)) <= Cardinality(Below(A, n))
        BY <1>1, <3>3, BelowFinite, FS_Subset
      <3> QED
        BY <1>1, <2>1, <3>2, <3>4, BelowFinite
    <2> QED
      BY <2>2, <2>3
  <1> QED
    BY <1>2, <1>3

\* What is left out is worse than a full list.
LEMMA FullOfBetter ==
    ASSUME NEW S, S \subseteq Nat, IsFiniteSet(S), l_search \in Nat \ {0},
           NEW n \in S, n \notin Best(S)
    PROVE  Cardinality(Best(S)) = l_search /\ \A k \in Best(S) : k < n
  <1>1. IsFiniteSet(Best(S)) /\ Best(S) \subseteq S /\ Cardinality(Best(S)) \in Nat
    BY BestDef, FS_Subset, FS_CardinalityType
  <1>2. PICK m \in S : Below(S, m) \subseteq Best(S) /\ Cardinality(Below(S, m)) >= l_search
    BY LeftOut
  <1>3. Cardinality(Best(S)) >= l_search
    <2>1. Cardinality(Below(S, m)) <= Cardinality(Best(S))
      BY <1>1, <1>2, FS_Subset
    <2> QED
      BY <1>1, <1>2, <2>1, BelowFinite
  <1>4. Cardinality(Best(S)) <= l_search
    <2>1. Best(S) # {}
      BY <1>3, FS_EmptySet
    <2>2. PICK x \in Best(S) : \A y \in Best(S) : y <= x
      BY <1>1, <2>1, GreatestElement
    <2>3. Best(S) \subseteq Below(S, x) \cup {x}
      <3>a. \A y \in S : y \in Int
        OBVIOUS
      <3>1. \A y \in Best(S) : y \in Int
        BY <1>1, <3>a
      <3>2. \A y \in Best(S) : y = x \/ y < x
        BY <2>2, <3>1
      <3> QED
        BY <1>1, <3>2 DEF Below
    <2>4. Cardinality(Below(S, x)) < l_search /\ x \notin Below(S, x)
      <3>a. x \in S
        BY <1>1
      <3>b. x \in Int
        BY <3>a
      <3>1. x \in S /\ ~(x < x)
        BY <3>a, <3>b
      <3> QED
        BY <3>1, BestDef DEF Below
    <2>5. /\ IsFiniteSet(Below(S, x) \cup {x})
          /\ Cardinality(Below(S, x) \cup {x}) = Cardinality(Below(S, x)) + 1
      BY <2>4, BelowFinite, FS_AddElement
    <2>6. Cardinality(Best(S)) <= Cardinality(Below(S, x) \cup {x})
      BY <2>3, <2>5, FS_Subset
    <2> QED
      BY <1>1, <2>4, <2>5, <2>6, BelowFinite
  <1>5. ASSUME NEW k \in Best(S), ~(k < n) PROVE FALSE
    <2>1. k \in Nat /\ n \in Nat /\ n < k
      <3>1. \A z \in S : z \in Int
        OBVIOUS
      <3>2. k # n
        BY <1>5
      <3>3. k \in Nat /\ n \in Nat
        BY <1>1
      <3> QED
        BY <1>5, <3>2, <3>3
    <2>2. Below(S, n) \subseteq Below(S, k)
      <3>1. \A z \in S : z \in Int
        OBVIOUS
      <3>2. \A z \in S : z < n => z < k
        BY <2>1, <3>1
      <3> QED
        BY <3>2 DEF Below
    <2>3. Cardinality(Below(S, n)) <= Cardinality(Below(S, k))
      BY <2>2, BelowFinite, FS_Subset
    <2>4. Cardinality(Below(S, k)) < l_search /\ ~(Cardinality(Below(S, n)) < l_search)
      BY BestDef
    <2> QED
      BY <2>3, <2>4, BelowFinite
  <1> QED
    BY <1>1, <1>3, <1>4, <1>5

-----------------------------------------------------------------------------
(***************************************************************************)
(* The inductive invariant.  A node is marked in the list exactly when it  *)
(* has been expanded or waits in the frontier, even if it left the list    *)
(* and even if the graph leads back to it: that is why Closest is always a *)
(* node that has never been expanded.                                      *)
(***************************************************************************)
TypeOK ==
    /\ graph \in [Nodes -> SUBSET Nodes]
    /\ l_search \in Nat \ {0} /\ beam_width \in Nat \ {0} /\ io_limit \in Nat
    /\ num_seen \in Nat /\ num_ios \in Nat
    /\ frontier \in Seq(Nodes)
    /\ pc \in {"round", "collect", "parse", "finished"}

\* The list, the marks, and what has been seen.
Nested == done \subseteq kept /\ kept \subseteq visited /\ visited \subseteq Nodes
ListIsBest == kept = Best(visited)

Waiting == {frontier[i] : i \in 1 .. Len(frontier)}
NoneWaitsTwice == \A i, j \in 1 .. Len(frontier) : frontier[i] = frontier[j] => i = j

Bookkeeping ==
    /\ expansions \in [Nodes -> {0, 1}]
    /\ Waiting \subseteq visited
    /\ \A n \in Waiting : expansions[n] = 0
    /\ \A n \in Nodes : expansions[n] = 1 => n \in visited /\ graph[n] \subseteq visited
    /\ \A n \in kept : n \in done <=> (expansions[n] = 1 \/ n \in Waiting)

Rounds ==
    /\ pc \in {"round", "finished"} => frontier = <<>>
    /\ pc = "parse" => frontier # <<>>
    /\ pc = "finished" => ~MoreRounds

Inv == TypeOK /\ Nested /\ ListIsBest /\ NoneWaitsTwice /\ Bookkeeping /\ Rounds

-----------------------------------------------------------------------------
LEMMA ElementType == ASSUME NEW S, NEW s \in Seq(S), NEW x \in 1 .. Len(s) PROVE s[x] \in S
  OBVIOUS

\* Sets of nodes are finite sets of naturals.
LEMMA NodeSets == ASSUME NEW S, S \subseteq Nodes PROVE S \subseteq Nat /\ IsFiniteSet(S)
  BY NodesAssumption, FS_Subset

\* The candidate of the collection loop has been neither expanded nor queued.
LEMMA ClosestIsFresh ==
    ASSUME Inv, HasUnexpanded
    PROVE  /\ Closest \in kept /\ Closest \in Nodes /\ Closest \notin done
           /\ expansions[Closest] = 0 /\ Closest \notin Waiting
  <1>1. kept \ done # {} /\ kept \ done \subseteq Nodes
    BY DEF Inv, Nested, HasUnexpanded
  <1>2. Closest \in kept \ done
    BY <1>1, NodeSets, MinIsLeast DEF Closest
  <1> QED
    BY <1>1, <1>2 DEF Inv, Bookkeeping

\* Expanding a node n that has not been expanded yet, when the marks are those
\* of the expanded and the waiting nodes and n.
LEMMA ExpandKeepsInv ==
    ASSUME Inv, UNCHANGED inputs,
           NEW n \in Nodes, n \in visited, expansions[n] = 0,
           NEW marked, marked \subseteq kept,
           \A x \in kept : x \in marked <=> (expansions[x] = 1 \/ x \in Waiting \/ x = n),
           Expand(n, marked),
           Waiting' = Waiting \ {n}
    PROVE  (Nested /\ ListIsBest /\ Bookkeeping)'
  <1> DEFINE N == NewNeighbors(n)
  <1>1. /\ graph' = graph /\ l_search' = l_search
        /\ graph \in [Nodes -> SUBSET Nodes] /\ l_search \in Nat \ {0}
        /\ done \subseteq kept /\ kept \subseteq visited /\ visited \subseteq Nodes
        /\ kept = Best(visited) /\ Waiting \subseteq visited
    BY DEF Inv, TypeOK, Nested, ListIsBest, Bookkeeping, inputs
  <1>2. /\ visited' = visited \cup graph[n]
        /\ kept' = Best(kept \cup N)
        /\ done' = (marked \ N) \cap kept'
        /\ expansions' = [expansions EXCEPT ![n] = @ + 1]
    BY DEF Expand
  <1>3. N = graph[n] \ visited /\ graph[n] \subseteq Nodes
    BY <1>1 DEF NewNeighbors
  <1> HIDE DEF N
  <1>4. /\ visited' \subseteq Nodes /\ kept' \subseteq kept \cup N /\ kept' \subseteq visited'
        /\ done' \subseteq kept'
    BY <1>1, <1>2, <1>3 DEF Best
  <1>5. ListIsBest'
    <2>1. N \subseteq Nodes /\ visited \cup N = visited'
      BY <1>2, <1>3
    <2>2. Best(Best(visited) \cup N) = Best(visited \cup N)
      BY <1>1, <2>1, NodeSets, BestOfUnion
    <2>3. kept' = Best(visited')
      BY <1>1, <1>2, <2>1, <2>2
    <2>4. Best(visited)' = Best(visited')
      BY <1>1 DEF Best
    <2> QED
      BY <2>3, <2>4 DEF ListIsBest
  <1>6. Bookkeeping'
    <2>1. /\ expansions \in [Nodes -> {0, 1}]
          /\ \A x \in Waiting : expansions[x] = 0
          /\ \A x \in Nodes : expansions[x] = 1 => x \in visited /\ graph[x] \subseteq visited
      BY DEF Inv, Bookkeeping
    <2>2. /\ \A x \in Nodes : expansions'[x] = IF x = n THEN 1 ELSE expansions[x]
          /\ expansions' \in [Nodes -> {0, 1}]
      BY <1>2, <2>1
    <2>3. Waiting' \subseteq visited' /\ \A x \in Waiting' : expansions'[x] = 0
      BY <1>1, <1>2, <2>1, <2>2
    <2>4. \A x \in Nodes : expansions'[x] = 1 => x \in visited' /\ graph'[x] \subseteq visited'
      BY <1>1, <1>2, <2>1, <2>2
    <2>5. ASSUME NEW x \in kept'
          PROVE  x \in done' <=> (expansions'[x] = 1 \/ x \in Waiting')
      <3>1. x \in Nodes
        BY <1>4
      <3>2. CASE x \in N
        <4>1. x \notin visited
          BY <1>3, <3>2
        <4>2. x # n /\ x \notin Waiting /\ expansions[x] # 1
          BY <1>1, <2>1, <3>1, <4>1
        <4> QED
          BY <1>2, <2>2, <3>1, <3>2, <4>2
      <3>3. CASE x \notin N
        <4>1. x \in kept
          BY <1>4, <3>3
        <4>2. x \in done' <=> x \in marked
          BY <1>2, <3>3
        <4>3. x \in marked <=> (expansions[x] = 1 \/ x \in Waiting \/ x = n)
          BY <4>1
        <4> QED
          BY <2>2, <3>1, <4>2, <4>3
      <3> QED
        BY <3>2, <3>3
    <2> QED
      BY <2>2, <2>3, <2>4, <2>5 DEF Bookkeeping
  <1> QED
    BY <1>4, <1>5, <1>6 DEF Nested

-----------------------------------------------------------------------------
LEMMA InitInv == ASSUME Init PROVE Inv
  <1>1. PICK m \in Nodes : kept = {m} /\ visited = {m}
    BY DEF Init
  <1>2. /\ graph \in Graphs /\ l_search \in Lists /\ beam_width \in Beams /\ io_limit \in IoLimits
        /\ done = {} /\ frontier = <<>> /\ num_seen = 0 /\ num_ios = 0 /\ pc = "round"
        /\ expansions = [n \in Nodes |-> 0]
    BY DEF Init
  <1>3. TypeOK
    <2>1. /\ \A x \in Lists : x \in Nat \ {0}
          /\ \A x \in Beams : x \in Nat \ {0}
          /\ \A x \in IoLimits : x \in Nat
      BY ParametersAssumption
    <2>2. graph \in [Nodes -> SUBSET Nodes]
      BY <1>2, GraphsAssumption
    <2> QED
      BY <1>2, <2>1, <2>2 DEF TypeOK
  <1>4. Nested
    BY <1>1, <1>2 DEF Nested
  <1>5. ListIsBest
    <2>1. m \in Nat /\ Below({m}, m) = {}
      BY NodesAssumption DEF Below
    <2>a. 0 < l_search
      BY <1>3 DEF TypeOK
    <2>b. Cardinality(Below({m}, m)) = 0
      BY <2>1, FS_EmptySet
    <2>2. Cardinality(Below({m}, m)) < l_search
      BY <2>a, <2>b
    <2>3. m \in Best({m})
      BY <2>2, BestDef
    <2> QED
      BY <1>1, <2>3, BestDef DEF ListIsBest
  <1>6. Waiting = {} /\ NoneWaitsTwice
    BY <1>2 DEF Waiting, NoneWaitsTwice
  <1>7. Bookkeeping
    BY <1>1, <1>2, <1>6 DEF Bookkeeping
  <1>8. Rounds
    BY <1>2 DEF Rounds
  <1> QED
    BY <1>3, <1>4, <1>5, <1>6, <1>7, <1>8 DEF Inv

\* The steps that leave the list, the marks and the frontier alone.
LEMMA ListUntouched ==
    ASSUME Inv, UNCHANGED <<inputs, kept, done, visited, frontier, expansions>>
    PROVE  (Nested /\ ListIsBest /\ NoneWaitsTwice /\ Bookkeeping)'
  <1>1. /\ UNCHANGED <<graph, l_search, kept, done, visited, frontier, expansions>>
    BY DEF inputs
  <1>2. Best(visited)' = Best(visited) /\ Waiting' = Waiting
    BY <1>1 DEF Best, Waiting
  <1> QED
    BY <1>1, <1>2 DEF Inv, Nested, ListIsBest, NoneWaitsTwice, Bookkeeping

LEMMA BeginRoundInv == ASSUME Inv, BeginRound PROVE Inv'
  <1>1. (Nested /\ ListIsBest /\ NoneWaitsTwice /\ Bookkeeping)'
    BY ListUntouched DEF BeginRound
  <1>2. TypeOK' /\ Rounds'
    BY DEF Inv, TypeOK, Rounds, BeginRound, inputs
  <1> QED
    BY <1>1, <1>2 DEF Inv

LEMMA EndTraversalInv == ASSUME Inv, EndTraversal PROVE Inv'
  <1>1. (Nested /\ ListIsBest /\ NoneWaitsTwice /\ Bookkeeping)'
    BY ListUntouched DEF EndTraversal
  <1>2. TypeOK' /\ Rounds'
    BY DEF Inv, TypeOK, Rounds, EndTraversal, inputs, MoreRounds, HasUnexpanded
  <1> QED
    BY <1>1, <1>2 DEF Inv

LEMMA ReadFrontierInv == ASSUME Inv, ReadFrontier PROVE Inv'
  <1>1. (Nested /\ ListIsBest /\ NoneWaitsTwice /\ Bookkeeping)'
    BY ListUntouched DEF ReadFrontier
  <1>2. Len(frontier) \in Nat
    BY DEF Inv, TypeOK
  <1>3. TypeOK' /\ Rounds'
    BY <1>2 DEF Inv, TypeOK, Rounds, ReadFrontier, CountReads, inputs
  <1> QED
    BY <1>1, <1>3 DEF Inv

\* A cached candidate is expanded at once: it was neither expanded nor queued.
LEMMA CollectCachedInv == ASSUME Inv, CollectCached PROVE Inv'
  <1>1. /\ pc = "collect" /\ pc' = pc /\ HasUnexpanded /\ num_seen' = num_seen + 1
        /\ UNCHANGED <<inputs, frontier, num_ios>>
    BY DEF CollectCached, MayCollect
  <1>2. PICK n \in Nodes : n = Closest
    BY <1>1, ClosestIsFresh
  <1>3. n \in kept /\ n \in visited /\ n \notin done /\ expansions[n] = 0 /\ n \notin Waiting
    BY <1>1, <1>2, ClosestIsFresh DEF Inv, Nested
  <1>4. Expand(n, done \cup {n})
    BY <1>2 DEF CollectCached
  <1>5. Waiting' = Waiting \ {n}
    BY <1>1, <1>3 DEF Waiting
  <1>6. \A x \in kept : x \in done \cup {n} <=> (expansions[x] = 1 \/ x \in Waiting \/ x = n)
    BY DEF Inv, Bookkeeping
  <1>7. done \cup {n} \subseteq kept
    BY <1>3 DEF Inv, Nested
  <1>8. (Nested /\ ListIsBest /\ Bookkeeping)'
    BY <1>1, <1>3, <1>4, <1>5, <1>6, <1>7, ExpandKeepsInv
  <1>9. TypeOK' /\ Rounds' /\ NoneWaitsTwice'
    BY <1>1 DEF Inv, TypeOK, Rounds, NoneWaitsTwice, inputs
  <1> QED
    BY <1>8, <1>9 DEF Inv

\* A candidate that must be read is marked and queued.
LEMMA CollectForReadInv == ASSUME Inv, CollectForRead PROVE Inv'
  <1>1. /\ pc = "collect" /\ pc' = pc /\ HasUnexpanded /\ num_seen' = num_seen + 1
        /\ UNCHANGED <<inputs, kept, visited, num_ios, expansions>>
    BY DEF CollectForRead, MayCollect
  <1>2. PICK n \in Nodes : n = Closest
    BY <1>1, ClosestIsFresh
  <1>3. n \in kept /\ n \in visited /\ n \notin done /\ expansions[n] = 0 /\ n \notin Waiting
    BY <1>1, <1>2, ClosestIsFresh DEF Inv, Nested
  <1>4. frontier' = Append(frontier, n) /\ done' = done \cup {n}
    BY <1>2 DEF CollectForRead
  <1>5. frontier \in Seq(Nodes) /\ Len(frontier) \in Nat
    BY DEF Inv, TypeOK
  <1>6. /\ frontier' \in Seq(Nodes) /\ Len(frontier') = Len(frontier) + 1
        /\ \A i \in 1 .. Len(frontier) : frontier'[i] = frontier[i]
        /\ frontier'[Len(frontier) + 1] = n
    BY <1>4, <1>5
  <1>7. 1 .. Len(frontier') = 1 .. Len(frontier) \cup {Len(frontier) + 1}
    BY <1>5, <1>6
  <1>8. Waiting' = Waiting \cup {n}
    BY <1>6, <1>7 DEF Waiting
  <1>9. NoneWaitsTwice'
    <2>1. \A i \in 1 .. Len(frontier) : frontier[i] # n
      BY <1>3 DEF Waiting
    <2> QED
      BY <1>6, <1>7, <2>1 DEF Inv, NoneWaitsTwice
  <1>10. Bookkeeping'
    BY <1>1, <1>3, <1>4, <1>8 DEF Inv, Bookkeeping, inputs
  <1>11. Nested' /\ ListIsBest'
    <2>1. Best(visited)' = Best(visited)
      BY <1>1 DEF Best, inputs
    <2> QED
      BY <1>1, <1>3, <1>4, <2>1 DEF Inv, Nested, ListIsBest
  <1>12. TypeOK' /\ Rounds'
    BY <1>1, <1>6 DEF Inv, TypeOK, Rounds, inputs
  <1> QED
    BY <1>9, <1>10, <1>11, <1>12 DEF Inv

\* A node of the batch is expanded when it leaves the frontier.
LEMMA ParseNodeInv == ASSUME Inv, ParseNode PROVE Inv'
  <1>1. /\ pc = "parse" /\ UNCHANGED <<inputs, num_seen, num_ios>>
        /\ frontier' = Tail(frontier)
        /\ pc' = IF Len(frontier) = 1 THEN "round" ELSE "parse"
    BY DEF ParseNode
  <1>2. frontier \in Seq(Nodes) /\ frontier # <<>> /\ Len(frontier) \in Nat /\ Len(frontier) > 0
    BY <1>1 DEF Inv, TypeOK, Rounds
  <1>3. PICK n \in Nodes : n = frontier[1]
    BY <1>2, ElementType
  <1>4. Expand(n, done)
    BY <1>2, <1>3 DEF ParseNode
  <1>5. n \in Waiting /\ n \in visited /\ expansions[n] = 0
    BY <1>2, <1>3 DEF Inv, Bookkeeping, Waiting
  <1>6. /\ frontier' \in Seq(Nodes) /\ Len(frontier') = Len(frontier) - 1
        /\ \A i \in 1 .. Len(frontier) - 1 : frontier'[i] = frontier[i + 1]
    BY <1>1, <1>2
  <1>7. PICK l \in Nat : l = Len(frontier)
    BY <1>2
  <1>8. \A i \in 2 .. l : frontier[i] # n
    <2> SUFFICES ASSUME NEW i \in 2 .. l PROVE frontier[i] # n
      OBVIOUS
    <2>1. i \in 1 .. l /\ 1 \in 1 .. l /\ i # 1
      OBVIOUS
    <2> QED
      BY <1>3, <1>7, <2>1 DEF Inv, NoneWaitsTwice
  <1>9. Waiting' = Waiting \ {n}
    <2>1. Waiting' = {frontier'[i] : i \in 1 .. l - 1}
      BY <1>6, <1>7 DEF Waiting
    <2>2. Waiting = {frontier[i] : i \in 1 .. l}
      BY <1>7 DEF Waiting
    <2>3. \A i \in 1 .. l - 1 : i + 1 \in 2 .. l /\ i + 1 \in 1 .. l /\ frontier'[i] = frontier[i + 1]
      BY <1>6, <1>7
    <2>4. \A i \in 1 .. l : i = 1 \/ (i - 1 \in 1 .. l - 1 /\ frontier'[i - 1] = frontier[i])
      <3> SUFFICES ASSUME NEW i \in 1 .. l, i # 1
                   PROVE  i - 1 \in 1 .. l - 1 /\ frontier'[i - 1] = frontier[i]
        OBVIOUS
      <3>1. i - 1 \in 1 .. l - 1 /\ (i - 1) + 1 = i
        OBVIOUS
      <3> QED
        BY <2>3, <3>1
    <2> QED
      BY <1>3, <1>8, <2>1, <2>2, <2>3, <2>4
  <1>10. NoneWaitsTwice'
    <2> SUFFICES ASSUME NEW i \in 1 .. l - 1, NEW j \in 1 .. l - 1, frontier'[i] = frontier'[j]
                 PROVE  i = j
      BY <1>6, <1>7 DEF NoneWaitsTwice
    <2>1. i + 1 \in 1 .. l /\ j + 1 \in 1 .. l
      OBVIOUS
    <2>2. frontier[i + 1] = frontier[j + 1]
      BY <1>6, <1>7
    <2>3. i + 1 = j + 1
      BY <1>7, <2>1, <2>2 DEF Inv, NoneWaitsTwice
    <2> QED
      BY <2>3
  <1>11. \A x \in kept : x \in done <=> (expansions[x] = 1 \/ x \in Waiting \/ x = n)
    BY <1>5 DEF Inv, Bookkeeping
  <1>12. done \subseteq kept
    BY DEF Inv, Nested
  <1>13. (Nested /\ ListIsBest /\ Bookkeeping)'
    BY <1>1, <1>4, <1>5, <1>9, <1>11, <1>12, ExpandKeepsInv
  <1>14. TypeOK' /\ Rounds'
    <2>1. TypeOK'
      BY <1>1, <1>6 DEF Inv, TypeOK, inputs
    <2>2. Len(frontier) = 1 => frontier' = <<>> /\ pc' = "round"
      BY <1>1, <1>6
    <2>3. Len(frontier) # 1 => frontier' # <<>> /\ pc' = "parse"
      <3>1. l # 1 => Len(frontier') > 0
        BY <1>2, <1>6, <1>7
      <3> QED
        BY <1>1, <1>6, <1>7, <3>1
    <2>4. Rounds'
      BY <2>2, <2>3 DEF Rounds
    <2> QED
      BY <2>1, <2>4
  <1> QED
    BY <1>10, <1>13, <1>14 DEF Inv

LEMMA NextInv == ASSUME Inv, [Next]_vars PROVE Inv'
  <1>1. CASE UNCHANGED vars
    <2>1. (Nested /\ ListIsBest /\ NoneWaitsTwice /\ Bookkeeping)'
      BY <1>1, ListUntouched DEF vars, inputs
    <2>2. TypeOK' /\ Rounds'
      BY <1>1 DEF Inv, TypeOK, Rounds, vars, MoreRounds, HasUnexpanded
    <2> QED
      BY <2>1, <2>2 DEF Inv
  <1> QED
    BY <1>1, BeginRoundInv, EndTraversalInv, ReadFrontierInv, CollectCachedInv,
       CollectForReadInv, ParseNodeInv DEF Next

\* The inductive invariant holds in every state.
THEOREM InvHolds == Spec => []Inv
  <1>1. Init => Inv
    BY InitInv
  <1>2. Inv /\ [Next]_vars => Inv'
    BY NextInv
  <1> QED
    BY <1>1, <1>2, PTL DEF Spec

\* No node's neighbours are used twice in a query, whatever the cache, the beam
\* width and the graph (lines 407-453 and 499-520).
THEOREM NoNodeExpandedTwice == Spec => []ExpandedAtMostOnce
  <1>1. Inv => ExpandedAtMostOnce
    <2> SUFFICES ASSUME Inv, NEW n \in Nodes PROVE expansions[n] <= 1
      BY DEF ExpandedAtMostOnce
    <2>1. expansions[n] \in {0, 1}
      BY DEF Inv, Bookkeeping
    <2> QED
      BY <2>1
  <1> QED
    BY <1>1, InvHolds, PTL

\* The bounded list loses nothing that matters: it is the l_search best of all
\* nodes the query has seen, although the worse ones were dropped on the way.
THEOREM ListIsBestOfVisited == Spec => []KeepsBestOfVisited
  <1>1. Inv => KeepsBestOfVisited
    BY DEF Inv, ListIsBest, KeepsBestOfVisited, Best
  <1> QED
    BY <1>1, InvHolds, PTL

\* A traversal that was not cut short by io_limit ends in a local optimum of the
\* graph.
THEOREM StopIsLocalOptimum == Spec => []StopsAtLocalOptimum
  <1>1. Inv => StopsAtLocalOptimum
    <2> SUFFICES ASSUME Inv, pc = "finished", num_ios < io_limit,
                        NEW n \in kept, NEW m \in graph[n], m \notin kept
                 PROVE  Cardinality(kept) = l_search /\ \A k \in kept : k < m
      BY DEF StopsAtLocalOptimum
    <2>1. frontier = <<>> /\ n \in done
      BY DEF Inv, Rounds, MoreRounds, HasUnexpanded, Nested
    <2>2. Waiting = {}
      BY <2>1 DEF Waiting
    <2>3. n \in Nodes /\ expansions[n] = 1
      BY <2>1, <2>2 DEF Inv, Nested, Bookkeeping
    <2>4. m \in visited
      BY <2>3 DEF Inv, Bookkeeping
    <2>5. visited \subseteq Nat /\ IsFiniteSet(visited)
      BY NodeSets DEF Inv, Nested
    <2>6. kept = Best(visited) /\ l_search \in Nat \ {0}
      BY DEF Inv, ListIsBest, TypeOK
    <2> QED
      BY <2>4, <2>5, <2>6, FullOfBetter
  <1> QED
    BY <1>1, InvHolds, PTL

-----------------------------------------------------------------------------
(* The refinement *)

RefineTypeOK ==
    /\ \E n \in Nat : exact \in [1 .. n -> Dists] /\ candidates \in [1 .. n -> Dists]
    /\ k_search \in Nat \ {0} /\ B \in Nat \ {0} /\ early_exit_streak \in Nat /\ mode \in Mode
    /\ M \in Nat /\ start \in Nat /\ streak_cnt \in Nat
    /\ tops \in Seq(SUBSET Nat)
    /\ refine_pc \in {"setup", "batch", "output", "finished"}

\* The number of refined candidates does not change after the setup.
Selected ==
    /\ refine_pc = "setup" => start = 0 /\ streak_cnt = 0
    /\ refine_pc # "setup" => M = RefineNum

\* What has been read: everything before the next batch, and all of it when the
\* loop ended without early exit.
ExactPrefix ==
    /\ refine_pc = "batch" => start < M /\ \A i \in 1 .. start : candidates[i] = exact[i]
    /\ (refine_pc \in {"output", "finished"} /\ ~UseDynamicEarlyExit) =>
         \A i \in 1 .. M : candidates[i] = exact[i]

\* What the streak counts: that many batches in a row, up to the last one, left
\* the top-k ids as they were; and the ids of the last batch are the top k of
\* the distances as they stand.
StreakCounts ==
    (UseDynamicEarlyExit /\ refine_pc # "setup") =>
        /\ streak_cnt < Len(tops)
        /\ \A i \in Len(tops) - streak_cnt .. Len(tops) : tops[i] = Last(tops)
        /\ Last(tops) \in TopKIds(candidates, M)
        /\ refine_pc = "batch" => prev = Last(tops)
        /\ (refine_pc \in {"output", "finished"} /\ start + B < M) => streak_cnt >= StreakNeeded

\* The answer is a top k of the distances at the output.
Answered ==
    refine_pc = "finished" =>
        /\ answer \in [1 .. Smaller(k_search, M) -> 1 .. M]
        /\ \A i \in ReturnedIds, j \in (1 .. M) \ ReturnedIds : candidates[i] <= candidates[j]

RefineInv == RefineTypeOK /\ Selected /\ ExactPrefix /\ StreakCounts /\ Answered

-----------------------------------------------------------------------------
LEMMA FunctionLength == ASSUME NEW S, NEW n \in Nat, NEW f \in [1 .. n -> S]
                        PROVE  f \in Seq(S) /\ Len(f) = n
  <1>1. f \in Seq(S)
    BY SeqDef
  <1>2. Len(f) \in Nat /\ DOMAIN f = 1 .. Len(f) /\ DOMAIN f = 1 .. n
    BY <1>1, LenProperties
  <1> QED
    BY <1>1, <1>2

LEMMA OneElement == ASSUME NEW S, NEW x \in S PROVE <<x>> \in Seq(S)
  OBVIOUS

LEMMA Sized == ASSUME RefineTypeOK
               PROVE  /\ Len(candidates) \in Nat
                      /\ exact \in [1 .. Len(candidates) -> Dists]
                      /\ candidates \in [1 .. Len(candidates) -> Dists]
                      /\ DOMAIN candidates = 1 .. Len(candidates)
  <1>1. PICK n \in Nat : exact \in [1 .. n -> Dists] /\ candidates \in [1 .. n -> Dists]
    BY DEF RefineTypeOK
  <1>2. Len(candidates) = n
    BY <1>1, FunctionLength
  <1> QED
    BY <1>1, <1>2

\* At most all candidates are refined, and enough of them for k answers unless
\* the user gave a count.
LEMMA RefineNumBounds ==
    ASSUME RefineTypeOK
    PROVE  /\ RefineNum \in 0 .. Len(candidates)
           /\ mode.kind # "count" => Smaller(k_search, RefineNum) = Smaller(k_search, Len(candidates))
  <1>1. PICK n \in Nat : n = Len(candidates)
    BY Sized
  <1>2. PICK k \in Nat \ {0} : k = k_search
    BY DEF RefineTypeOK
  <1>3. mode \in [kind : {"total", "early"}] \/ mode \in [kind : {"count", "ratio"}, value : Nat \ {0}]
    BY DEF RefineTypeOK, Mode
  <1>4. CASE mode \in [kind : {"total", "early"}]
    <2>1. mode.kind # "count" /\ mode.kind # "ratio"
      BY <1>4
    <2>2. RefineNum = n
      BY <1>1, <2>1 DEF RefineNum
    <2> QED
      BY <1>1, <2>2
  <1>5. CASE mode \in [kind : {"count", "ratio"}, value : Nat \ {0}]
    <2>1. PICK v \in Nat : v = mode.value
      BY <1>5
    <2>2. CASE mode.kind = "count"
      <3>1. RefineNum = Smaller(n, v)
        BY <1>1, <2>1, <2>2 DEF RefineNum
      <3>2. Smaller(n, v) \in 0 .. n
        BY DEF Smaller
      <3> QED
        BY <1>1, <2>2, <3>1, <3>2
    <2>3. CASE mode.kind = "ratio"
      <3>1. PICK c \in Int : c = CeilTenths(n, v)
        BY DEF CeilTenths
      <3>2. RefineNum = Smaller(n, Larger(k, c))
        BY <1>1, <1>2, <2>1, <2>3, <3>1 DEF RefineNum
      <3>3. Smaller(n, Larger(k, c)) \in 0 .. n
        BY DEF Smaller, Larger
      <3>4. Smaller(k, Smaller(n, Larger(k, c))) = Smaller(k, n)
        BY DEF Smaller, Larger
      <3> QED
        BY <1>1, <1>2, <3>2, <3>3, <3>4
    <2> QED
      BY <1>5, <2>2, <2>3
  <1> QED
    BY <1>3, <1>4, <1>5

\* RefineNum is the same before and after every step.
LEMMA RefineNumStable ==
    ASSUME RefineTypeOK, UNCHANGED refine_inputs, Len(candidates') = Len(candidates)
    PROVE  RefineNum' = RefineNum
  BY DEF RefineNum, refine_inputs, CeilTenths, Smaller, Larger

LEMMA RefineInitInv == ASSUME RefineInit PROVE RefineInv
  <1>1. PICK n \in 0 .. MaxCandidates : /\ exact \in [1 .. n -> Dists]
                                        /\ candidates \in [1 .. n -> Dists]
    BY DEF RefineInit
  <1>2. /\ k_search \in KSearches /\ B \in BatchSizes /\ early_exit_streak \in Streaks
        /\ mode \in Modes /\ M = 0 /\ start = 0 /\ streak_cnt = 0 /\ refine_pc = "setup" /\ tops = <<>>
    BY DEF RefineInit
  <1>3. /\ \A x \in KSearches : x \in Nat \ {0}
        /\ \A x \in BatchSizes : x \in Nat \ {0}
        /\ \A x \in Streaks : x \in Nat
        /\ n \in Nat
    BY SizesAssumption
  <1>4. mode \in Mode
    BY <1>2, ModesAssumption
  <1>5. tops \in Seq(SUBSET Nat)
    BY <1>2
  <1>6. RefineTypeOK
    BY <1>1, <1>2, <1>3, <1>4, <1>5 DEF RefineTypeOK
  <1> QED
    BY <1>2, <1>6 DEF RefineInv, Selected, ExactPrefix, StreakCounts, Answered

LEMMA SetupInv == ASSUME RefineInv, Setup PROVE RefineInv'
  <1> DEFINE m == RefineNum
  <1>1. /\ refine_pc = "setup" /\ M' = m /\ refine_pc' = (IF 0 < m THEN "batch" ELSE "output")
        /\ UNCHANGED <<exact, k_search, B, early_exit_streak, mode, candidates, start, streak_cnt>>
    BY DEF Setup, refine_inputs
  <1>2. RefineTypeOK /\ start = 0 /\ streak_cnt = 0
    BY <1>1 DEF RefineInv, Selected
  <1>3. m \in Nat /\ RefineNum' = m
    <2>1. m \in 0 .. Len(candidates) /\ Len(candidates) \in Nat
      BY <1>2, RefineNumBounds, Sized
    <2>2. RefineNum' = RefineNum
      BY <1>1, <1>2, RefineNumStable DEF refine_inputs
    <2> QED
      BY <2>1, <2>2
  <1>4. UseDynamicEarlyExit =>
          /\ tops' = <<prev'>> /\ prev' \in TopKIds(candidates, m)
    BY DEF Setup
  <1>5. ~UseDynamicEarlyExit => tops' = tops
    BY DEF Setup
  <1>6. tops' \in Seq(SUBSET Nat)
    <2>1. CASE UseDynamicEarlyExit
      <3>1. prev' \in SUBSET Nat
        BY <1>3, <1>4, <2>1 DEF TopKIds, kSubset
      <3> QED
        BY <1>4, <2>1, <3>1, OneElement
    <2>2. CASE ~UseDynamicEarlyExit
      BY <1>2, <1>5, <2>2 DEF RefineTypeOK
    <2> QED
      BY <2>1, <2>2
  <1> HIDE DEF m
  <1>7. RefineTypeOK'
    BY <1>1, <1>2, <1>3, <1>6 DEF RefineTypeOK
  <1>8. Selected'
    BY <1>1, <1>3 DEF Selected
  <1>9. ExactPrefix'
    BY <1>1, <1>2, <1>3 DEF ExactPrefix
  <1>10. StreakCounts'
    <2> SUFFICES ASSUME UseDynamicEarlyExit' PROVE StreakCounts'
      BY DEF StreakCounts
    <2>1. tops' = <<prev'>> /\ prev' \in TopKIds(candidates, m)
      BY <1>1, <1>4 DEF UseDynamicEarlyExit
    <2>2. Len(tops') = 1 /\ Last(tops)' = prev' /\ tops'[1] = prev'
      BY <2>1 DEF Last
    <2>3. TopKIds(candidates, M)' = TopKIds(candidates, m)
      BY <1>1 DEF TopKIds, kSubset, Smaller
    <2>4. refine_pc' = "output" => ~(start' + B' < M')
      BY <1>1, <1>2, <1>3 DEF RefineTypeOK
    <2>5. refine_pc' \in {"batch", "output"}
      BY <1>1
    <2>6. \A i \in 1 .. 1 : i = 1
      OBVIOUS
    <2> QED
      BY <1>1, <1>2, <2>1, <2>2, <2>3, <2>4, <2>5, <2>6 DEF StreakCounts
  <1>11. Answered'
    BY <1>1 DEF Answered
  <1> QED
    BY <1>7, <1>8, <1>9, <1>10, <1>11 DEF RefineInv

\* A batch makes the distances of the next B candidates exact and touches no
\* other.
LEMMA BatchFacts ==
    ASSUME RefineInv, refine_pc = "batch", candidates' = RefinedByBatch
    PROVE  /\ candidates' \in [1 .. Len(candidates) -> Dists]
           /\ Len(candidates') = Len(candidates)
           /\ M \in 1 .. Len(candidates) /\ M \in Nat
           /\ \A i \in 1 .. M : i <= start + B => candidates'[i] = exact[i]
  <1>1. /\ Len(candidates) \in Nat
        /\ exact \in [1 .. Len(candidates) -> Dists]
        /\ candidates \in [1 .. Len(candidates) -> Dists]
        /\ DOMAIN candidates = 1 .. Len(candidates)
    BY Sized DEF RefineInv
  <1>2. M \in Nat /\ start \in Nat /\ B \in Nat /\ B > 0 /\ start < M
    BY DEF RefineInv, RefineTypeOK, ExactPrefix
  <1>3. M \in 0 .. Len(candidates)
    BY RefineNumBounds DEF RefineInv, Selected
  <1>4. candidates' \in [1 .. Len(candidates) -> Dists]
    BY <1>1 DEF RefinedByBatch
  <1>5. Len(candidates') = Len(candidates)
    BY <1>1, <1>4, FunctionLength
  <1>6. ASSUME NEW i \in 1 .. M, i <= start + B PROVE candidates'[i] = exact[i]
    <2>1. i \in 1 .. Len(candidates)
      BY <1>1, <1>3
    <2>2. CASE i <= start
      <3>1. candidates[i] = exact[i]
        BY <1>2, <2>2 DEF RefineInv, ExactPrefix
      <3> QED
        BY <1>1, <2>1, <3>1 DEF RefinedByBatch
    <2>3. CASE i > start
      <3>1. i \in Batch
        BY <1>2, <1>6, <2>3 DEF Batch, Smaller
      <3> QED
        BY <1>1, <2>1, <3>1 DEF RefinedByBatch
    <2> QED
      BY <1>2, <2>2, <2>3
  <1> QED
    BY <1>1, <1>2, <1>3, <1>4, <1>5, <1>6

\* The loop goes on while there is a batch left.
LEMMA LoopOrOutput ==
    ASSUME RefineInv, refine_pc = "batch", candidates' = RefinedByBatch, UNCHANGED <<refine_inputs, M>>,
           start' = start + B, refine_pc' = NextOrOutput
    PROVE  /\ ExactPrefix' /\ refine_pc' \in {"batch", "output"}
           /\ refine_pc' = "output" => ~(start' + B' < M')
  <1>1. /\ start \in Nat /\ B \in Nat /\ B > 0 /\ M \in Nat
        /\ UNCHANGED <<exact, k_search, B, early_exit_streak, mode, M>>
    BY DEF RefineInv, RefineTypeOK, refine_inputs
  <1>2. \A i \in 1 .. M : i <= start + B => candidates'[i] = exact[i]
    BY BatchFacts
  <1>3. /\ refine_pc' \in {"batch", "output"}
        /\ refine_pc' = "batch" <=> start + B < M
    BY DEF NextOrOutput
  <1>4. refine_pc' = "batch" => start' < M' /\ \A i \in 1 .. start' : candidates'[i] = exact'[i]
    BY <1>1, <1>2, <1>3
  <1>5. refine_pc' # "batch" => \A i \in 1 .. M' : candidates'[i] = exact'[i]
    BY <1>1, <1>2, <1>3
  <1>6. ExactPrefix'
    BY <1>3, <1>4, <1>5 DEF ExactPrefix
  <1> QED
    BY <1>1, <1>3, <1>6

LEMMA RefineBatchInv == ASSUME RefineInv, RefineBatch PROVE RefineInv'
  <1>1. /\ refine_pc = "batch" /\ ~UseDynamicEarlyExit /\ candidates' = RefinedByBatch
        /\ start' = start + B /\ refine_pc' = NextOrOutput
        /\ UNCHANGED <<refine_inputs, M, streak_cnt, tops>>
    BY DEF RefineBatch
  <1>2. /\ ExactPrefix' /\ refine_pc' \in {"batch", "output"}
    BY <1>1, LoopOrOutput
  <1>3. /\ candidates' \in [1 .. Len(candidates) -> Dists]
        /\ Len(candidates') = Len(candidates) /\ M \in Nat
    BY <1>1, BatchFacts
  <1>4. Len(candidates) \in Nat /\ exact \in [1 .. Len(candidates) -> Dists]
    BY Sized DEF RefineInv
  <1>5. RefineTypeOK'
    <2>1. \E n \in Nat : exact' \in [1 .. n -> Dists] /\ candidates' \in [1 .. n -> Dists]
      BY <1>1, <1>3, <1>4 DEF refine_inputs
    <2> QED
      BY <1>1, <1>2, <2>1 DEF RefineInv, RefineTypeOK, refine_inputs
  <1>6. Selected'
    <2>1. RefineNum' = RefineNum
      BY <1>1, <1>3, RefineNumStable DEF RefineInv
    <2> QED
      BY <1>1, <1>2, <2>1 DEF RefineInv, Selected
  <1>7. StreakCounts' /\ Answered'
    BY <1>1, <1>2 DEF StreakCounts, Answered, UseDynamicEarlyExit, refine_inputs
  <1> QED
    BY <1>2, <1>5, <1>6, <1>7 DEF RefineInv

\* One more batch: the streak grows by one when the ids are those of the batch
\* before it, and starts again otherwise.
LEMMA RefineBatchAndTestInv == ASSUME RefineInv, RefineBatchAndTest PROVE RefineInv'
  <1>1. /\ refine_pc = "batch" /\ UseDynamicEarlyExit /\ candidates' = RefinedByBatch
        /\ UNCHANGED <<refine_inputs, M>>
    BY DEF RefineBatchAndTest
  <1>2. PICK S \in TopKIds(RefinedByBatch, M) :
           /\ tops' = Append(tops, S)
           /\ streak_cnt' = StreakAfter(S = prev)
           /\ \/ /\ S = prev /\ streak_cnt' >= StreakNeeded
                 /\ refine_pc' = "output"
                 /\ UNCHANGED <<start, prev>>
              \/ /\ ~(S = prev /\ streak_cnt' >= StreakNeeded)
                 /\ prev' = S
                 /\ start' = start + B
                 /\ refine_pc' = NextOrOutput
    BY DEF RefineBatchAndTest
  <1>3. /\ candidates' \in [1 .. Len(candidates) -> Dists]
        /\ Len(candidates') = Len(candidates) /\ M \in Nat
    BY <1>1, BatchFacts
  <1>4. Len(candidates) \in Nat /\ exact \in [1 .. Len(candidates) -> Dists]
    BY Sized DEF RefineInv
  <1>5. /\ tops \in Seq(SUBSET Nat) /\ streak_cnt \in Nat /\ start \in Nat /\ B \in Nat
        /\ B > 0 /\ early_exit_streak \in Nat
    BY DEF RefineInv, RefineTypeOK
  <1>6. PICK l \in Nat : l = Len(tops)
    BY <1>5
  <1>7. /\ streak_cnt < l /\ prev = tops[l]
        /\ \A i \in l - streak_cnt .. l : tops[i] = prev
    BY <1>1, <1>6 DEF RefineInv, StreakCounts, Last
  <1>8. S \in SUBSET Nat
    BY <1>3 DEF TopKIds, kSubset
  <1>9. /\ tops' \in Seq(SUBSET Nat) /\ Len(tops') = l + 1 /\ tops'[l + 1] = S
        /\ \A i \in 1 .. l : tops'[i] = tops[i]
    BY <1>2, <1>5, <1>6, <1>8
  <1>10. streak_cnt' = (IF S = prev THEN streak_cnt + 1 ELSE 0) /\ streak_cnt' \in Nat
    BY <1>2, <1>5 DEF StreakAfter
  <1>11. /\ start' \in Nat /\ refine_pc' \in {"batch", "output"}
         /\ refine_pc' = "batch" => prev' = S
         /\ refine_pc' = "output" /\ start' + B' < M' => streak_cnt' >= StreakNeeded
    <2>1. CASE S = prev /\ streak_cnt' >= StreakNeeded
      BY <1>2, <1>5, <2>1
    <2>2. CASE ~(S = prev /\ streak_cnt' >= StreakNeeded)
      <3>1. prev' = S /\ start' = start + B /\ refine_pc' = NextOrOutput
        BY <1>2, <2>2
      <3>2. refine_pc' \in {"batch", "output"} /\ (refine_pc' = "output" => ~(start' + B' < M'))
        BY <1>1, <3>1, LoopOrOutput
      <3> QED
        BY <1>5, <3>1, <3>2
    <2> QED
      BY <2>1, <2>2
  <1>12. ExactPrefix'
    <2>1. CASE S = prev /\ streak_cnt' >= StreakNeeded
      <3>1. refine_pc' = "output"
        BY <1>2, <2>1
      <3> QED
        BY <1>1, <3>1 DEF ExactPrefix, UseDynamicEarlyExit, refine_inputs
    <2>2. CASE ~(S = prev /\ streak_cnt' >= StreakNeeded)
      <3>1. start' = start + B /\ refine_pc' = NextOrOutput
        BY <1>2, <2>2
      <3> QED
        BY <1>1, <3>1, LoopOrOutput
    <2> QED
      BY <2>1, <2>2
  <1>13. RefineTypeOK'
    <2>1. \E n \in Nat : exact' \in [1 .. n -> Dists] /\ candidates' \in [1 .. n -> Dists]
      BY <1>1, <1>3, <1>4 DEF refine_inputs
    <2> QED
      BY <1>1, <1>9, <1>10, <1>11, <2>1 DEF RefineInv, RefineTypeOK, refine_inputs
  <1>14. Selected'
    <2>1. RefineNum' = RefineNum
      BY <1>1, <1>3, RefineNumStable DEF RefineInv
    <2> QED
      BY <1>1, <1>11, <2>1 DEF RefineInv, Selected
  <1>15. StreakCounts'
    <2>1. Last(tops)' = S
      BY <1>9 DEF Last
    <2>2. TopKIds(candidates, M)' = TopKIds(RefinedByBatch, M)
      BY <1>1 DEF TopKIds, kSubset, Smaller, refine_inputs
    <2>3. StreakNeeded' = StreakNeeded
      BY <1>1 DEF StreakNeeded, Larger, refine_inputs
    <2>4. streak_cnt' < Len(tops')
      BY <1>5, <1>7, <1>9, <1>10
    <2>5. \A i \in Len(tops') - streak_cnt' .. Len(tops') : tops'[i] = S
      <3>1. CASE S = prev
        <4>1. PICK c \in Nat : c = streak_cnt
          BY <1>5
        <4>2. Len(tops') - streak_cnt' = l - c
          BY <1>9, <1>10, <3>1, <4>1
        <4>3. \A i \in l - c .. l : i \in 1 .. l /\ tops[i] = S
          BY <1>7, <3>1, <4>1
        <4>4. \A i \in l - c .. l + 1 : i = l + 1 \/ i \in l - c .. l
          OBVIOUS
        <4> QED
          BY <1>9, <4>2, <4>3, <4>4
      <3>2. CASE S # prev
        <4>1. \A i \in Len(tops') - streak_cnt' .. Len(tops') : i = l + 1
          BY <1>9, <1>10, <3>2
        <4> QED
          BY <1>9, <4>1
      <3> QED
        BY <3>1, <3>2
    <2> QED
      BY <1>2, <1>11, <2>1, <2>2, <2>3, <2>4, <2>5 DEF StreakCounts
  <1>16. Answered'
    BY <1>11 DEF Answered
  <1> QED
    BY <1>12, <1>13, <1>14, <1>15, <1>16 DEF RefineInv

LEMMA OutputInv == ASSUME RefineInv, Output PROVE RefineInv'
  <1>1. /\ refine_pc = "output" /\ refine_pc' = "finished"
        /\ UNCHANGED <<refine_inputs, candidates, M, start, prev, streak_cnt, tops>>
    BY DEF Output
  <1>2. PICK s \in [1 .. Smaller(k_search, M) -> 1 .. M] :
           /\ \A i \in DOMAIN s, j \in (1 .. M) \ {s[x] : x \in DOMAIN s} :
                 candidates[s[i]] <= candidates[j]
           /\ answer' = s
    BY DEF Output
  <1>3. ReturnedIds' = {s[x] : x \in DOMAIN s}
    BY <1>2 DEF ReturnedIds
  <1>4. Answered'
    <2>1. Smaller(k_search, M)' = Smaller(k_search, M)
      BY <1>1 DEF Smaller, refine_inputs
    <2>2. \A i \in ReturnedIds', j \in (1 .. M) \ ReturnedIds' : candidates[i] <= candidates[j]
      BY <1>2, <1>3
    <2> QED
      BY <1>1, <1>2, <2>1, <2>2 DEF Answered
  <1>5. RefineTypeOK'
    BY <1>1 DEF RefineInv, RefineTypeOK, refine_inputs
  <1>6. RefineNum' = RefineNum
    BY <1>1, RefineNumStable DEF RefineInv
  <1>7. Selected' /\ ExactPrefix'
    BY <1>1, <1>6 DEF RefineInv, Selected, ExactPrefix, UseDynamicEarlyExit, refine_inputs
  <1>8. StreakCounts'
    <2>1. /\ Last(tops)' = Last(tops) /\ TopKIds(candidates, M)' = TopKIds(candidates, M)
          /\ StreakNeeded' = StreakNeeded /\ UseDynamicEarlyExit' = UseDynamicEarlyExit
      BY <1>1 DEF Last, TopKIds, kSubset, Smaller, StreakNeeded, Larger, UseDynamicEarlyExit, refine_inputs
    <2> QED
      BY <1>1, <2>1 DEF RefineInv, StreakCounts, refine_inputs
  <1> QED
    BY <1>4, <1>5, <1>7, <1>8 DEF RefineInv

LEMMA RefineStutterInv == ASSUME RefineInv, UNCHANGED refine_vars PROVE RefineInv'
  <1>1. UNCHANGED <<exact, candidates, k_search, B, early_exit_streak, mode, M, start, prev,
                    streak_cnt, refine_pc, answer, tops>>
    BY DEF refine_vars
  <1>2. /\ RefineNum' = RefineNum /\ Last(tops)' = Last(tops) /\ ReturnedIds' = ReturnedIds
        /\ TopKIds(candidates, M)' = TopKIds(candidates, M)
        /\ StreakNeeded' = StreakNeeded /\ UseDynamicEarlyExit' = UseDynamicEarlyExit
        /\ Smaller(k_search, M)' = Smaller(k_search, M)
    BY <1>1 DEF RefineNum, Last, ReturnedIds, TopKIds, kSubset, Smaller, StreakNeeded, Larger,
                UseDynamicEarlyExit, CeilTenths
  <1> QED
    BY <1>1, <1>2 DEF RefineInv, RefineTypeOK, Selected, ExactPrefix, StreakCounts, Answered

LEMMA RefineNextInv == ASSUME RefineInv, [RefineNext]_refine_vars PROVE RefineInv'
  BY RefineStutterInv, SetupInv, RefineBatchInv, RefineBatchAndTestInv, OutputInv DEF RefineNext

\* The inductive invariant holds in every state.
THEOREM RefineInvHolds == RefineSpec => []RefineInv
  <1>1. RefineInit => RefineInv
    BY RefineInitInv
  <1>2. RefineInv /\ [RefineNext]_refine_vars => RefineInv'
    BY RefineNextInv
  <1> QED
    BY <1>1, <1>2, PTL DEF RefineSpec

-----------------------------------------------------------------------------
\* Without early exit the answer is the exact top k of the refined candidates,
\* for every batch size and candidate list (lines 621-668).
THEOREM ExactWhenRefinedInFull == RefineSpec => []FullRefinementIsExact
  <1>1. RefineInv => FullRefinementIsExact
    <2> SUFFICES ASSUME RefineInv, refine_pc = "finished", ~UseDynamicEarlyExit,
                        NEW i \in ReturnedIds, NEW j \in (1 .. M) \ ReturnedIds
                 PROVE  exact[i] <= exact[j]
      BY DEF FullRefinementIsExact
    <2>1. answer \in [1 .. Smaller(k_search, M) -> 1 .. M] /\ candidates[i] <= candidates[j]
      BY DEF RefineInv, Answered
    <2>2. i \in 1 .. M
      BY <2>1 DEF ReturnedIds
    <2>3. candidates[i] = exact[i] /\ candidates[j] = exact[j]
      BY <2>2 DEF RefineInv, ExactPrefix
    <2> QED
      BY <2>1, <2>3
  <1> QED
    BY <1>1, RefineInvHolds, PTL

\* A query answers with k ids whenever it has k candidates, in every mode but the
\* explicit count (lines 538-546).
THEOREM AnswersWithK == RefineSpec => []ReturnsKWhenItCan
  <1>1. RefineInv => ReturnsKWhenItCan
    <2> SUFFICES ASSUME RefineInv, refine_pc = "finished", mode.kind # "count"
                 PROVE  Len(answer) = Smaller(k_search, Len(candidates))
      BY DEF ReturnsKWhenItCan
    <2>1. answer \in [1 .. Smaller(k_search, M) -> 1 .. M]
      BY DEF RefineInv, Answered
    <2>2. Smaller(k_search, M) \in Nat
      BY DEF RefineInv, RefineTypeOK, Smaller
    <2>3. Len(answer) = Smaller(k_search, M)
      BY <2>1, <2>2, FunctionLength
    <2>4. M = RefineNum
      BY DEF RefineInv, Selected
    <2> QED
      BY <2>3, <2>4, RefineNumBounds DEF RefineInv
  <1> QED
    BY <1>1, RefineInvHolds, PTL

\* The early exit is taken only after early_exit_streak batches that left the
\* top-k ids alone, and the answer is those ids up to ties (lines 645-668).
THEOREM EarlyExitIsEarned == RefineSpec => []EarlyExitAfterStreak
  <1>1. RefineInv => EarlyExitAfterStreak
    <2> SUFFICES ASSUME RefineInv, refine_pc \in {"output", "finished"}, UseDynamicEarlyExit
                 PROVE  EarlyExitAfterStreak
      BY DEF EarlyExitAfterStreak
    <2>1. /\ streak_cnt < Len(tops) /\ streak_cnt \in Nat /\ Len(tops) \in Nat
          /\ \A i \in Len(tops) - streak_cnt .. Len(tops) : tops[i] = Last(tops)
          /\ Last(tops) \in TopKIds(candidates, M)
          /\ start + B < M => streak_cnt >= Larger(1, early_exit_streak)
      BY DEF RefineInv, RefineTypeOK, StreakCounts, StreakNeeded
    <2>2. PICK need \in Nat : need = Larger(1, early_exit_streak)
      BY DEF RefineInv, RefineTypeOK, Larger
    <2>3. start + B < M =>
            /\ Len(tops) > need
            /\ \A i \in Len(tops) - need .. Len(tops) : tops[i] = Last(tops)
      <3> SUFFICES ASSUME start + B < M
                   PROVE  /\ Len(tops) > need
                          /\ \A i \in Len(tops) - need .. Len(tops) : tops[i] = Last(tops)
        OBVIOUS
      <3>1. PICK l \in Nat, c \in Nat : l = Len(tops) /\ c = streak_cnt /\ c < l /\ c >= need
        BY <2>1, <2>2
      <3>2. \A i \in l - need .. l : i \in l - c .. l
        BY <3>1
      <3> QED
        BY <2>1, <3>1, <3>2
    <2>4. ASSUME refine_pc = "finished",
                 NEW i \in ReturnedIds \ Last(tops), NEW j \in Last(tops) \ ReturnedIds
          PROVE  candidates[i] = candidates[j]
      <3>1. /\ answer \in [1 .. Smaller(k_search, M) -> 1 .. M]
            /\ \A x \in ReturnedIds, y \in (1 .. M) \ ReturnedIds : candidates[x] <= candidates[y]
        BY <2>4 DEF RefineInv, Answered
      <3>2. /\ Last(tops) \subseteq 1 .. M
            /\ \A x \in Last(tops), y \in (1 .. M) \ Last(tops) : candidates[x] <= candidates[y]
        BY <2>1 DEF TopKIds, kSubset
      <3>3. i \in 1 .. M /\ j \in 1 .. M
        BY <3>1, <3>2 DEF ReturnedIds
      <3>4. candidates[i] <= candidates[j] /\ candidates[j] <= candidates[i]
        BY <3>1, <3>2, <3>3
      <3>5. candidates[i] \in Int /\ candidates[j] \in Int
        <4>1. M \in 0 .. Len(candidates) /\ M \in Nat
          BY RefineNumBounds DEF RefineInv, RefineTypeOK, Selected
        <4>2. i \in 1 .. Len(candidates) /\ j \in 1 .. Len(candidates)
          BY <3>3, <4>1, Sized DEF RefineInv
        <4>3. candidates[i] \in Dists /\ candidates[j] \in Dists
          BY <4>2, Sized DEF RefineInv
        <4>4. \A d \in Dists : d \in Int
          BY DistsAssumption
        <4> QED
          BY <4>3, <4>4
      <3> QED
        BY <3>4, <3>5
    <2> QED
      BY <2>2, <2>3, <2>4 DEF EarlyExitAfterStreak
  <1> QED
    BY <1>1, RefineInvHolds, PTL
=============================================================================
