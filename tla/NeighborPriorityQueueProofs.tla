-------------------- MODULE NeighborPriorityQueueProofs --------------------
(***************************************************************************)
(* The candidate list is correct for every set of ids, every distance and  *)
(* every capacity.  The inductive invariant joins the four properties of   *)
(* NeighborPriorityQueue: the order makes the binary search meaningful,    *)
(* the bracket of the search makes the insertion keep the order, and the   *)
(* test at the entry of insert() keeps the insertion inside the array.     *)
(***************************************************************************)
EXTENDS NeighborPriorityQueue, FiniteSetTheorems, FunctionTheorems, TLAPS

Inv == /\ TypeOK
       /\ Sorted
       /\ CursorAtFirstUnexpanded
       /\ RetainsBest
       /\ SearchBrackets

-----------------------------------------------------------------------------
\* Neighbor::operator< is a strict total order on entries of different ids.
LEMMA LessOrder ==
    ASSUME NEW a \in Neighbor, NEW b \in Neighbor, NEW c \in Neighbor
    PROVE  /\ ~Less(a, a)
           /\ Less(a, b) => ~Less(b, a)
           /\ Less(a, b) /\ Less(b, c) => Less(a, c)
           /\ Less(a, b) \/ Less(b, a) \/ (a.id = b.id /\ a.distance = b.distance)
  <1>1. /\ a.id \in Ids /\ b.id \in Ids /\ c.id \in Ids
        /\ a.distance \in Dists /\ b.distance \in Dists /\ c.distance \in Dists
    BY DEF Neighbor
  <1>2. /\ a.id \in Int /\ b.id \in Int /\ c.id \in Int
        /\ a.distance \in Int /\ b.distance \in Int /\ c.distance \in Int
    <2>1. (\A x \in Ids : x \in Int) /\ (\A x \in Dists : x \in Int)
      BY IdsAssumption, DistsAssumption
    <2> QED
      BY <1>1, <2>1
  <1> QED
    BY <1>2 DEF Less

LEMMA LessTransitive ==
    \A a, b, c \in Neighbor : Less(a, b) /\ Less(b, c) => Less(a, c)
  BY LessOrder

LEMMA BlankIsNeighbor == Blank \in Neighbor
  BY IdsAssumption, DistsAssumption DEF Blank, Neighbor

\* The initial states satisfy the invariant.
LEMMA InitInv == Init => Inv
  <1> SUFFICES ASSUME Init PROVE Inv
    OBVIOUS
  <1> USE CapacitiesAssumption, BlankIsNeighbor
  <1>1. TypeOK
    BY DEF Init, TypeOK
  <1>2. Sorted /\ CursorAtFirstUnexpanded /\ RetainsBest /\ SearchBrackets
    BY DEF Init, Sorted, CursorAtFirstUnexpanded, RetainsBest, SearchBrackets, Held
  <1> QED
    BY <1>1, <1>2 DEF Inv

\* A new query starts from an empty list over an array that only grew.
LEMMA NewQueryInv == ASSUME Inv, NEW c \in Capacities, NewQuery(c) PROVE Inv'
  <1> USE CapacitiesAssumption
  <1>1. PICK m \in Capacities : capacity <= m /\ data \in [0 .. m -> Neighbor]
    BY DEF Inv, TypeOK
  <1>2. /\ size' = 0 /\ cur' = 0 /\ capacity' = c /\ dist' \in [Ids -> Dists]
        /\ offered' = {} /\ pc = "idle" /\ pc' = pc /\ nbr' = nbr
        /\ lo' = lo /\ hi' = hi /\ data' = Reserve(c)
    BY DEF NewQuery, Clear, search
  <1>3. Slots = 0 .. m
    BY <1>1 DEF Slots
  <1>4. \E k \in Capacities : c <= k /\ data' \in [0 .. k -> Neighbor]
    <2>1. CASE c <= m
      <3>1. Slots \cup (0 .. c) = 0 .. m
        BY <1>3, <2>1
      <3> QED
        BY <1>1, <1>2, <1>3, <2>1, <3>1, BlankIsNeighbor DEF Reserve
    <2>2. CASE c > m
      <3>1. Slots \cup (0 .. c) = 0 .. c
        BY <1>3, <2>2
      <3> QED
        BY <1>1, <1>2, <1>3, <2>2, <3>1, BlankIsNeighbor DEF Reserve
    <2> QED
      BY <2>1, <2>2
  <1>5. TypeOK'
    BY <1>2, <1>4 DEF Inv, TypeOK
  <1>6. (Sorted /\ CursorAtFirstUnexpanded /\ RetainsBest /\ SearchBrackets)'
    BY <1>2 DEF Sorted, CursorAtFirstUnexpanded, RetainsBest, SearchBrackets, Held
  <1> QED
    BY <1>5, <1>6 DEF Inv

\* A dropped entry is worse than the last of a full, sorted list, hence worse
\* than all of it.
LEMMA InsertDropInv == ASSUME Inv, NEW n \in Ids, InsertDrop(n) PROVE Inv'
  <1> USE CapacitiesAssumption
  <1>1. /\ UNCHANGED <<data, size, capacity, cur, pc, nbr, lo, hi, dist>>
        /\ offered' = offered \cup {n} /\ size = capacity
        /\ Less(data[size - 1], New(n))
    BY DEF InsertDrop, DroppedAtOnce, queue, search
  <1>2. PICK m \in Capacities : capacity <= m /\ data \in [0 .. m -> Neighbor]
    BY DEF Inv, TypeOK
  <1>3. size \in Nat /\ size > 0 /\ capacity \in Nat /\ m \in Nat
    BY <1>1 DEF Inv, TypeOK
  <1>4. New(n) \in Neighbor
    BY DEF New, Neighbor, Inv, TypeOK
  <1>5. \A i \in Held : data[i] \in Neighbor
    BY <1>1, <1>2, <1>3 DEF Held
  <1>6. ASSUME NEW i \in Held PROVE Less(data[i], New(n))
    <2>1. CASE i = size - 1
      BY <1>1, <2>1
    <2>2. CASE i # size - 1
      <3>1. i \in Int /\ size - 1 \in Held /\ i < size - 1
        BY <1>3, <2>2 DEF Held
      <3>2. Less(data[i], data[size - 1])
        BY <3>1 DEF Inv, Sorted
      <3> QED
        BY <3>1, <3>2, <1>1, <1>4, <1>5, LessTransitive
    <2> QED
      BY <2>1, <2>2
  <1>7. TypeOK'
    BY <1>1 DEF Inv, TypeOK
  <1>8. (Sorted /\ CursorAtFirstUnexpanded /\ SearchBrackets)'
    BY <1>1 DEF Inv, Sorted, CursorAtFirstUnexpanded, SearchBrackets, Held, New
  <1>9. RetainsBest'
    BY <1>1, <1>6 DEF Inv, RetainsBest, Held, New
  <1> QED
    BY <1>7, <1>8, <1>9 DEF Inv

\* The search begins with the whole list as its interval.
LEMMA InsertBeginInv == ASSUME Inv, NEW n \in Ids, InsertBegin(n) PROVE Inv'
  <1> USE CapacitiesAssumption
  <1>1. /\ UNCHANGED <<data, size, capacity, cur, dist, offered>>
        /\ pc' = "search" /\ nbr' = New(n) /\ lo' = 0 /\ hi' = size
        /\ ~(size = capacity /\ Less(data[size - 1], New(n)))
    BY DEF InsertBegin, DroppedAtOnce, queue
  <1>2. New(n) \in Neighbor /\ New(n).id = n
    BY DEF New, Neighbor, Inv, TypeOK
  <1>3. TypeOK'
    BY <1>1, <1>2 DEF Inv, TypeOK
  <1>4. (Sorted /\ CursorAtFirstUnexpanded /\ RetainsBest)'
    BY <1>1 DEF Inv, Sorted, CursorAtFirstUnexpanded, RetainsBest, Held, New
  <1>5. SearchBrackets'
    <2>1. Held' = Held /\ nbr'.id = n /\ \A i \in Held : i \in 0 .. size - 1
      BY <1>1, <1>2 DEF Held
    <2>2. size \in Nat
      BY DEF Inv, TypeOK
    <2>3. (nbr = New(nbr.id))'
      BY <1>1, <2>1 DEF New
    <2> QED
      BY <1>1, <2>1, <2>2, <2>3 DEF Inv, SearchBrackets
  <1> QED
    BY <1>3, <1>4, <1>5 DEF Inv

\* Facts about the probe of the binary search.
LEMMA MidInHeld ==
    ASSUME Inv, pc = "search", lo < hi
    PROVE  /\ Mid \in Held /\ lo <= Mid /\ Mid < hi /\ Mid \in Nat
           /\ nbr \in Neighbor
           /\ \A i \in Held : data[i] \in Neighbor /\ i \in Nat
  <1> USE CapacitiesAssumption
  <1>1. PICK m \in Capacities : capacity <= m /\ data \in [0 .. m -> Neighbor]
    BY DEF Inv, TypeOK
  <1>2. /\ lo \in Nat /\ hi \in Nat /\ hi <= size /\ size \in Nat
        /\ size <= capacity /\ capacity \in Nat /\ m \in Nat
    BY DEF Inv, TypeOK
  <1>3. Mid \in Nat /\ lo <= Mid /\ Mid < hi
    BY <1>2 DEF Mid
  <1> QED
    BY <1>1, <1>2, <1>3 DEF Held, Inv, TypeOK

\* One iteration that goes left: everything from Mid on is worse.
LEMMA SearchLeftInv == ASSUME Inv, SearchLeft PROVE Inv'
  <1>1. /\ UNCHANGED <<data, size, capacity, cur, pc, nbr, lo, dist, offered>>
        /\ pc = "search" /\ lo < hi /\ hi' = Mid /\ Less(nbr, data[Mid])
    BY DEF SearchLeft, queue
  <1>2. /\ Mid \in Held /\ lo <= Mid /\ Mid < hi /\ Mid \in Nat
        /\ nbr \in Neighbor
        /\ \A i \in Held : data[i] \in Neighbor /\ i \in Nat
    BY <1>1, MidInHeld
  <1>3. TypeOK'
    <2>1. lo \in Nat /\ hi \in Nat /\ hi <= size /\ size \in Nat
      BY <1>1, CapacitiesAssumption DEF Inv, TypeOK
    <2> QED
      BY <1>1, <1>2, <2>1 DEF Inv, TypeOK
  <1>4. (Sorted /\ CursorAtFirstUnexpanded /\ RetainsBest)'
    BY <1>1 DEF Inv, Sorted, CursorAtFirstUnexpanded, RetainsBest, Held, New
  <1>5. \A i \in Held : i >= Mid => Less(nbr, data[i])
    <2> SUFFICES ASSUME NEW i \in Held, i >= Mid PROVE Less(nbr, data[i])
      OBVIOUS
    <2>1. CASE i = Mid
      BY <2>1, <1>1
    <2>2. CASE i > Mid
      <3>1. Less(data[Mid], data[i])
        BY <2>2, <1>2 DEF Inv, Sorted
      <3> QED
        BY <3>1, <1>1, <1>2, LessOrder
    <2> QED
      BY <2>1, <2>2, <1>2
  <1>6. SearchBrackets'
    BY <1>1, <1>5 DEF Inv, SearchBrackets, Held, New
  <1> QED
    BY <1>3, <1>4, <1>6 DEF Inv

\* One iteration that goes right: everything up to Mid is better.
LEMMA SearchRightInv == ASSUME Inv, SearchRight PROVE Inv'
  <1>1. /\ UNCHANGED <<data, size, capacity, cur, pc, nbr, hi, dist, offered>>
        /\ pc = "search" /\ lo < hi /\ lo' = Mid + 1 /\ ~Less(nbr, data[Mid])
        /\ data[Mid].id # nbr.id
    BY DEF SearchRight, SameIdAtMid, UpperHalf, queue
  <1>2. /\ Mid \in Held /\ lo <= Mid /\ Mid < hi /\ Mid \in Nat
        /\ nbr \in Neighbor
        /\ \A i \in Held : data[i] \in Neighbor /\ i \in Nat
    BY <1>1, MidInHeld
  <1>3. TypeOK'
    <2>1. lo \in Nat /\ hi \in Nat /\ hi <= size /\ size \in Nat
      BY <1>1, CapacitiesAssumption DEF Inv, TypeOK
    <2> QED
      BY <1>1, <1>2, <2>1 DEF Inv, TypeOK
  <1>4. (Sorted /\ CursorAtFirstUnexpanded /\ RetainsBest)'
    BY <1>1 DEF Inv, Sorted, CursorAtFirstUnexpanded, RetainsBest, Held, New
  <1>5. Less(data[Mid], nbr)
    BY <1>1, <1>2, LessOrder
  <1>6. \A i \in Held : i < Mid + 1 => Less(data[i], nbr)
    <2> SUFFICES ASSUME NEW i \in Held, i < Mid + 1 PROVE Less(data[i], nbr)
      OBVIOUS
    <2>1. CASE i = Mid
      BY <2>1, <1>5
    <2>2. CASE i < Mid
      <3>1. Less(data[i], data[Mid])
        BY <2>2, <1>2 DEF Inv, Sorted
      <3> QED
        BY <3>1, <1>5, <1>2, LessOrder
    <2> QED
      BY <2>1, <2>2, <1>2
  <1>7. SearchBrackets'
    BY <1>1, <1>6 DEF Inv, SearchBrackets, Held, New
  <1> QED
    BY <1>3, <1>4, <1>7 DEF Inv

\* The id was found: it is held, so offering it again changes nothing.
LEMMA SearchFoundInv == ASSUME Inv, SearchFound PROVE Inv'
  <1>1. /\ UNCHANGED <<data, size, capacity, cur, dist>>
        /\ pc = "search" /\ lo < hi /\ pc' = "idle" /\ data[Mid].id = nbr.id
        /\ offered' = offered \cup {nbr.id}
        /\ nbr' = Blank /\ lo' = 0 /\ hi' = 0
    BY DEF SearchFound, SameIdAtMid, Return, queue
  <1>2. Mid \in Held /\ nbr \in Neighbor
    BY <1>1, MidInHeld
  <1>3. nbr.id \in Ids
    BY <1>2 DEF Neighbor
  <1>4. TypeOK'
    BY <1>1, <1>3, BlankIsNeighbor DEF Inv, TypeOK
  <1>5. (Sorted /\ CursorAtFirstUnexpanded /\ SearchBrackets)'
    BY <1>1 DEF Inv, Sorted, CursorAtFirstUnexpanded, SearchBrackets, Held
  <1>6. RetainsBest'
    BY <1>1, <1>2 DEF Inv, RetainsBest, Held, New
  <1> QED
    BY <1>4, <1>5, <1>6 DEF Inv

\* The entry is stored: the order, the cursor and the selection survive the
\* shift of the tail, and the shift stays inside the array.
LEMMA InsertPlaceInv == ASSUME Inv, InsertPlace PROVE Inv'
  <1> USE CapacitiesAssumption
  <1>1. PICK m \in Capacities : capacity <= m /\ data \in [0 .. m -> Neighbor]
    BY DEF Inv, TypeOK
  <1>2. /\ lo \in Nat /\ hi \in Nat /\ size \in Nat /\ cur \in Nat /\ m \in Nat
        /\ capacity \in Nat /\ capacity > 0 /\ size <= capacity /\ cur <= size
        /\ lo = hi /\ lo <= size /\ size <= m
    BY <1>1 DEF Inv, TypeOK, InsertPlace
  <1>3. /\ pc = "search" /\ pc' = "idle" /\ data' = InsertedAt(lo)
        /\ size' = SizeAfterInsert /\ cur' = CursorAfterInsert(lo)
        /\ offered' = offered \cup {nbr.id} /\ capacity' = capacity /\ dist' = dist
        /\ nbr' = Blank /\ lo' = 0 /\ hi' = 0
    BY DEF InsertPlace, Return
  <1>4. /\ nbr \in Neighbor /\ nbr = New(nbr.id) /\ nbr.id \in Ids
        /\ ~nbr.expanded /\ nbr.distance = dist[nbr.id]
    <2>1. nbr \in Neighbor /\ nbr = New(nbr.id)
      BY <1>3 DEF Inv, TypeOK, SearchBrackets
    <2> QED
      BY <2>1 DEF New, Neighbor
  <1>5. \A i \in Held : data[i] \in Neighbor /\ i \in Nat /\ i < size
    BY <1>1, <1>2 DEF Held
  <1>6. /\ \A i \in Held : i < lo => Less(data[i], nbr)
        /\ \A i \in Held : i >= lo => Less(nbr, data[i])
    BY <1>2, <1>3 DEF Inv, SearchBrackets
  <1>7. size = capacity => lo < size
    <2> SUFFICES ASSUME size = capacity, lo = size PROVE FALSE
      BY <1>2
    <2>1. size - 1 \in Held /\ size - 1 < lo
      BY <1>2 DEF Held
    <2> QED
      BY <2>1, <1>3, <1>6 DEF Inv, SearchBrackets
  <1>s. PICK s \in Nat : s = size'
    BY <1>2, <1>3 DEF SizeAfterInsert
  <1>8. /\ s <= capacity /\ size <= s /\ s <= size + 1
        /\ size < capacity => s = size + 1
        /\ lo < s
    BY <1>s, <1>2, <1>3, <1>7 DEF SizeAfterInsert
  <1>h. Held' = 0 .. s - 1
    BY <1>s, Zenon DEF Held
  <1>9. /\ data' \in [0 .. m -> Neighbor]
        /\ \A i \in 0 .. m : data'[i] = IF i = lo THEN nbr
                                        ELSE IF lo < i /\ i <= size THEN data[i - 1]
                                        ELSE data[i]
    <2>1. Slots = 0 .. m
      BY <1>1 DEF Slots
    <2> QED
      BY <2>1, <1>1, <1>2, <1>3, <1>4 DEF InsertedAt
  <1>10. ASSUME NEW i \in 0 .. s - 1
         PROVE  /\ i \in Nat
                /\ i < lo => i \in Held /\ data'[i] = data[i]
                /\ i = lo => data'[i] = nbr
                /\ i > lo => i - 1 \in Held /\ i - 1 >= lo /\ data'[i] = data[i - 1]
    BY <1>2, <1>8, <1>9 DEF Held
  <1>11. TypeOK'
    <2>1. cur' \in 0 .. s
      BY <1>2, <1>3, <1>8 DEF CursorAfterInsert
    <2> QED
      BY <2>1, <1>1, <1>2, <1>3, <1>4, <1>s, <1>8, <1>9, BlankIsNeighbor DEF Inv, TypeOK
  <1>12. Sorted'
    <2> SUFFICES ASSUME NEW i \in 0 .. s - 1, NEW j \in 0 .. s - 1, i < j
                 PROVE  Less(data'[i], data'[j])
      BY <1>h DEF Sorted, Less
    <2>1. \A a, b \in Held : a < b => Less(data[a], data[b])
      BY DEF Inv, Sorted
    <2>2. CASE j < lo
      BY <2>1, <2>2, <1>10, <1>2
    <2>3. CASE j = lo
      BY <2>3, <1>6, <1>10, <1>2
    <2>4. CASE j > lo /\ i < lo
      BY <2>4, <2>1, <1>10, <1>2
    <2>5. CASE j > lo /\ i = lo
      BY <2>5, <1>6, <1>10, <1>2
    <2>6. CASE j > lo /\ i > lo
      BY <2>6, <2>1, <1>10, <1>2
    <2> QED
      BY <2>2, <2>3, <2>4, <2>5, <2>6, <1>10, <1>2
  <1>13. CursorAtFirstUnexpanded'
    <2>1. /\ \A i \in Held : i < cur => data[i].expanded
          /\ cur < size => ~data[cur].expanded
      BY DEF Inv, CursorAtFirstUnexpanded
    <2>2. cur' = IF lo < cur THEN lo ELSE cur
      BY <1>3 DEF CursorAfterInsert
    <2>3. ASSUME NEW i \in 0 .. s - 1, i < cur' PROVE data'[i].expanded
      <3>1. i < lo /\ i < cur
        BY <2>2, <2>3, <1>2, <1>10
      <3> QED
        BY <3>1, <2>1, <1>10
    <2>4. cur' < s => ~data'[cur'].expanded
      <3>1. lo \in 0 .. s - 1
        BY <1>2, <1>8
      <3>2. CASE lo <= cur
        BY <3>1, <3>2, <2>2, <1>2, <1>4, <1>10
      <3>3. CASE cur < lo
        <4>1. cur \in 0 .. s - 1
          BY <3>3, <1>2, <1>8
        <4> QED
          BY <4>1, <3>3, <2>1, <2>2, <1>2, <1>10
      <3> QED
        BY <3>2, <3>3, <1>2
    <2> QED
      BY <2>3, <2>4, <1>h, <1>s DEF CursorAtFirstUnexpanded
  <1>14. SearchBrackets'
    <2>1. \A i \in Held : data[i].distance = dist[data[i].id]
      BY DEF Inv, SearchBrackets
    <2>2. \A i \in 0 .. s - 1 : data'[i].distance = dist[data'[i].id]
      <3> SUFFICES ASSUME NEW i \in 0 .. s - 1 PROVE data'[i].distance = dist[data'[i].id]
        OBVIOUS
      <3>1. CASE i = lo
        BY <3>1, <1>4, <1>10
      <3>2. CASE i # lo
        BY <3>2, <2>1, <1>10, <1>2
      <3> QED
        BY <3>1, <3>2
    <2> QED
      BY <2>2, <1>3, <1>h DEF SearchBrackets
  <1>15. RetainsBest'
    <2>1. /\ \A i \in Held : data[i].id \in offered
          /\ \A n \in offered :
               \/ \E i \in Held : data[i].id = n
               \/ size = capacity /\ \A i \in Held : Less(data[i], New(n))
      BY DEF Inv, RetainsBest
    <2>2. ASSUME NEW i \in 0 .. s - 1 PROVE data'[i].id \in offered'
      <3>1. CASE i = lo
        BY <3>1, <1>3, <1>10
      <3>2. CASE i # lo
        BY <3>2, <2>1, <1>3, <1>10, <1>2
      <3> QED
        BY <3>1, <3>2
    <2>3. offered \subseteq Ids /\ \A n \in Ids : New(n) \in Neighbor
      BY DEF Inv, TypeOK, New, Neighbor
    \* A bound on the old list and on the new entry is a bound on the new list.
    <2>4. ASSUME NEW n \in Ids, Less(nbr, New(n)), NEW top \in Nat,
                 \A i \in Held : i < top => Less(data[i], New(n)), s <= top + 1
          PROVE  \A i \in 0 .. s - 1 : Less(data'[i], New(n))
      <3> SUFFICES ASSUME NEW i \in 0 .. s - 1 PROVE Less(data'[i], New(n))
        OBVIOUS
      <3>0. i \in Nat /\ i < s
        BY <1>8, <1>10
      <3>1. CASE i < lo
        BY <3>0, <3>1, <2>4, <1>2, <1>8, <1>10
      <3>2. CASE i = lo
        BY <3>2, <2>4, <1>10
      <3>3. CASE i > lo
        BY <3>0, <3>3, <2>4, <1>2, <1>8, <1>10
      <3> QED
        BY <3>0, <3>1, <3>2, <3>3, <1>2
    <2>5. ASSUME NEW n \in offered'
          PROVE  \/ \E i \in 0 .. s - 1 : data'[i].id = n
                 \/ s = capacity /\ \A i \in 0 .. s - 1 : Less(data'[i], New(n))
      <3>1. CASE n = nbr.id
        <4>1. lo \in 0 .. s - 1
          BY <1>2, <1>8
        <4> QED
          BY <4>1, <3>1, <1>10
      <3>2. CASE n \in offered /\ \E i \in Held : data[i].id = n
        <4>1. PICK i \in Held : data[i].id = n
          BY <3>2
        <4>2. CASE i < lo
          <5>1. i \in 0 .. s - 1 /\ data'[i] = data[i]
            BY <4>2, <1>2, <1>5, <1>8, <1>9
          <5> QED
            BY <4>1, <5>1
        <4>3. CASE i >= lo /\ i + 1 < s
          <5>1. i + 1 \in 0 .. s - 1 /\ data'[i + 1] = data[i]
            BY <4>3, <1>2, <1>5, <1>8, <1>9
          <5> QED
            BY <4>1, <5>1
        <4>4. CASE i >= lo /\ i + 1 >= s
          <5>1. i = size - 1 /\ s = size /\ size = capacity
            BY <4>4, <1>2, <1>5, <1>8
          <5>2. n \in Ids /\ data[i].distance = dist[n]
            BY <2>3, <3>2, <4>1 DEF Inv, SearchBrackets
          <5>3. New(n).id = data[i].id /\ New(n).distance = data[i].distance
            BY <4>1, <5>2 DEF New
          <5>4. Less(nbr, New(n))
            BY <5>3, <4>4, <1>6 DEF Less
          <5>5. \A k \in Held : k < i => Less(data[k], New(n))
            BY <5>3 DEF Inv, Sorted, Less
          <5>6. \A k \in 0 .. s - 1 : Less(data'[k], New(n))
            BY <5>1, <5>2, <5>4, <5>5, <2>4, <1>2, <1>5
          <5> QED
            BY <5>1, <5>6, <1>3
        <4> QED
          BY <4>2, <4>3, <4>4, <1>2, <1>5, <1>8
      <3>3. CASE n \in offered /\ size = capacity /\ \A i \in Held : Less(data[i], New(n))
        <4>1. size - 1 \in Held /\ size - 1 >= lo
          BY <3>3, <1>2, <1>7 DEF Held
        <4>2. Less(nbr, data[size - 1]) /\ Less(data[size - 1], New(n))
          BY <4>1, <3>3, <1>6
        <4>3. Less(nbr, New(n))
          BY <4>1, <4>2, <3>3, <2>3, <1>4, <1>5, LessTransitive
        <4>4. \A k \in 0 .. s - 1 : Less(data'[k], New(n))
          BY <4>3, <3>3, <2>3, <2>4, <1>2, <1>8
        <4> QED
          BY <4>4, <3>3, <1>2, <1>3, <1>8
      <3> QED
        BY <3>1, <3>2, <3>3, <2>1, <1>3
    <2> QED
      BY <2>2, <2>5, <1>3, <1>s, <1>h DEF RetainsBest, New, Less
  <1> QED
    BY <1>11, <1>12, <1>13, <1>14, <1>15 DEF Inv

\* Handing out the entry at the cursor changes only its mark, and the cursor
\* stops at the next entry without one.
LEMMA ClosestUnexpandedInv == ASSUME Inv, ClosestUnexpanded PROVE Inv'
  <1> USE CapacitiesAssumption
  <1>1. PICK m \in Capacities : capacity <= m /\ data \in [0 .. m -> Neighbor]
    BY DEF Inv, TypeOK
  <1>2. /\ size \in Nat /\ cur \in Nat /\ m \in Nat /\ capacity \in Nat
        /\ size <= capacity /\ cur < size /\ size <= m
    BY <1>1 DEF Inv, TypeOK, ClosestUnexpanded
  <1>3. /\ UNCHANGED <<size, capacity, pc, nbr, lo, hi, dist, offered>>
        /\ data' = [data EXCEPT ![cur].expanded = TRUE]
        /\ pc = "idle"
    BY DEF ClosestUnexpanded, search
  <1>4. PICK c \in cur + 1 .. size : StopsAt(c) /\ cur' = c
    BY DEF ClosestUnexpanded
  <1>5. /\ data' \in [0 .. m -> Neighbor]
        /\ \A i \in 0 .. m : /\ data'[i].id = data[i].id
                             /\ data'[i].distance = data[i].distance
                             /\ i # cur => data'[i] = data[i]
                             /\ i = cur => data'[i].expanded
    BY <1>1, <1>2, <1>3 DEF Neighbor
  <1>6. Held' = Held /\ \A i \in Held : i \in 0 .. m /\ i \in Nat
    BY <1>2, <1>3 DEF Held
  <1>7. TypeOK'
    BY <1>1, <1>2, <1>3, <1>4, <1>5 DEF Inv, TypeOK
  <1>8. Sorted'
    BY <1>5, <1>6 DEF Inv, Sorted, Less
  <1>9. CursorAtFirstUnexpanded'
    <2>1. \A i \in Held : i < cur => data[i].expanded
      BY DEF Inv, CursorAtFirstUnexpanded
    <2>2. ASSUME NEW i \in Held, i < c PROVE data'[i].expanded
      <3>1. CASE i < cur
        BY <3>1, <2>1, <1>2, <1>5, <1>6
      <3>2. CASE i = cur
        BY <3>2, <1>5, <1>6
      <3>3. CASE i > cur
        <4>1. i \in cur + 1 .. c - 1
          BY <3>3, <2>2, <1>2, <1>4, <1>6
        <4> QED
          BY <4>1, <3>3, <1>2, <1>4, <1>5, <1>6 DEF StopsAt
      <3> QED
        BY <3>1, <3>2, <3>3, <1>2, <1>6
    <2>3. c < size => ~data'[c].expanded
      BY <1>2, <1>4, <1>5 DEF StopsAt
    <2> QED
      BY <2>2, <2>3, <1>3, <1>4, <1>6 DEF CursorAtFirstUnexpanded
  <1>10. RetainsBest'
    BY <1>3, <1>5, <1>6 DEF Inv, RetainsBest, Less, New
  <1>11. SearchBrackets'
    BY <1>3, <1>5, <1>6 DEF Inv, SearchBrackets
  <1> QED
    BY <1>7, <1>8, <1>9, <1>10, <1>11 DEF Inv

-----------------------------------------------------------------------------
\* Every step of the list keeps the invariant.
LEMMA NextInv == Inv /\ [Next]_vars => Inv'
  <1> SUFFICES ASSUME Inv, [Next]_vars PROVE Inv'
    OBVIOUS
  <1>1. CASE UNCHANGED vars
    BY <1>1 DEF vars, Inv, TypeOK, Sorted, CursorAtFirstUnexpanded, RetainsBest,
                SearchBrackets, Held, New
  <1>2. CASE Next
    BY <1>2, NewQueryInv, InsertDropInv, InsertBeginInv, SearchLeftInv, SearchFoundInv,
       SearchRightInv, InsertPlaceInv, ClosestUnexpandedInv DEF Next, Insert
  <1> QED
    BY <1>1, <1>2

\* The invariant holds in every reachable state of the list.
THEOREM InvHolds == Spec => []Inv
  <1> QED
    BY InitInv, NextInv, PTL DEF Spec

\* Every index the operations use stays inside the array (neighbor.h:55-105).
THEOREM TypeCorrect == Spec => []TypeOK
  <1>1. Inv => TypeOK
    BY DEF Inv
  <1> QED
    BY <1>1, InvHolds, PTL

\* The list is in strict order, so it never holds an id twice (neighbor.h:50-54).
THEOREM AlwaysSorted == Spec => []Sorted
  <1>1. Inv => Sorted
    BY DEF Inv
  <1> QED
    BY <1>1, InvHolds, PTL

\* The invariant that the class comment states (neighbor.h:37-38).
THEOREM CursorInvariant == Spec => []CursorAtFirstUnexpanded
  <1>1. Inv => CursorAtFirstUnexpanded
    BY DEF Inv
  <1> QED
    BY <1>1, InvHolds, PTL

\* The list holds exactly the best of what was offered in this query.
THEOREM KeepsTheBest == Spec => []RetainsBest
  <1>1. Inv => RetainsBest
    BY DEF Inv
  <1> QED
    BY <1>1, InvHolds, PTL

-----------------------------------------------------------------------------
(***************************************************************************)
(* The list implements TopLSet.  The abstract state is read off the array: *)
(* an insert() that stores its entry is the abstract insertion, the entry  *)
(* pushed into the spare slot is the one that leaves, and the steps of the *)
(* binary search are not visible.                                          *)
(***************************************************************************)
Kept == {data[i].id : i \in Held}
Expanded == {data[i].id : i \in {k \in Held : data[k].expanded}}

\* Ids and distances are numbers that can be compared.
LEMMA IntFields == \A x \in Neighbor : x.id \in Int /\ x.distance \in Int
  <1>1. (\A n \in Ids : n \in Int) /\ (\A d \in Dists : d \in Int)
    BY IdsAssumption, DistsAssumption
  <1>2. \A x \in Neighbor : x.id \in Ids /\ x.distance \in Dists
    BY DEF Neighbor
  <1> QED
    BY <1>1, <1>2

\* Entries of different slots have different ids, and an entry of the list that
\* is better than another is so by the order of the abstract list.
LEMMA HeldFacts ==
    ASSUME Inv
    PROVE  /\ size \in Nat /\ capacity \in Nat /\ capacity > 0 /\ size <= capacity /\ cur \in 0 .. size
           /\ \A i \in Held : i \in Nat /\ i < size /\ data[i] \in Neighbor /\ data[i].id \in Ids
                               /\ data[i].distance = dist[data[i].id]
           /\ \A i, k \in Held : data[i].id = data[k].id => i = k
           /\ \A i, k \in Held : i < k => TopL!Better(data[i].id, data[k].id)
  <1> USE CapacitiesAssumption
  <1>1. PICK m \in Capacities : capacity <= m /\ data \in [0 .. m -> Neighbor]
    BY DEF Inv, TypeOK
  <1>2. /\ size \in Nat /\ capacity \in Nat /\ capacity > 0 /\ size <= capacity
        /\ cur \in 0 .. size /\ m \in Nat
    BY DEF Inv, TypeOK
  <1>3. \A i \in Held : i \in Nat /\ i < size /\ data[i] \in Neighbor
    BY <1>1, <1>2 DEF Held
  <1>4. \A i \in Held : data[i].id \in Ids /\ data[i].distance = dist[data[i].id]
    BY <1>3 DEF Inv, SearchBrackets, Neighbor
  <1>5. \A i, k \in Held : i < k => Less(data[i], data[k])
    BY DEF Inv, Sorted
  <1>6. ASSUME NEW i \in Held, NEW k \in Held, data[i].id = data[k].id PROVE i = k
    <2>1. data[i].distance = data[k].distance
      BY <1>4, <1>6
    <2>2. ~Less(data[i], data[k]) /\ ~Less(data[k], data[i])
      <3>1. data[i].id \in Int /\ data[i].distance \in Int
        BY <1>3, IntFields
      <3> QED
        BY <1>6, <2>1, <3>1 DEF Less
    <2> QED
      BY <2>2, <1>3, <1>5
  <1>7. \A i, k \in Held : i < k => TopL!Better(data[i].id, data[k].id)
    BY <1>4, <1>5 DEF Less, TopL!Better
  <1> QED
    BY <1>2, <1>3, <1>4, <1>6, <1>7

\* The abstract list has as many ids as the array has entries.
LEMMA KeptSize == ASSUME Inv PROVE IsFiniteSet(Kept) /\ Cardinality(Kept) = size
  <1> DEFINE f == [i \in Held |-> data[i].id]
  <1>1. size \in Nat /\ Held = 0 .. size - 1
    BY HeldFacts DEF Held
  <1>2. IsFiniteSet(Held) /\ Cardinality(Held) = size
    BY <1>1, FS_Interval
  <1>3. f \in [Held -> Kept] /\ \A i, k \in Held : f[i] = f[k] => i = k
    BY HeldFacts DEF Kept
  <1>4. \A n \in Kept : \E i \in Held : f[i] = n
    BY DEF Kept
  <1>5. f \in Bijection(Held, Kept)
    BY <1>3, <1>4, Fun_IsBij
  <1>6. ExistsBijection(Held, Kept)
    BY <1>5 DEF ExistsBijection
  <1> QED
    BY <1>2, <1>6, FS_Bijection

\* The new array in terms of the old one.
LEMMA InsertPlaceShape ==
    ASSUME Inv, InsertPlace
    PROVE  /\ UNCHANGED <<capacity, dist>>
           /\ lo \in 0 .. size
           /\ \/ size < capacity /\ size' = size + 1
              \/ size = capacity /\ size' = size /\ lo < size
           /\ \A i \in 0 .. size' - 1 :
                data'[i] = IF i = lo THEN nbr ELSE IF i < lo THEN data[i] ELSE data[i - 1]
           /\ nbr.id \in Ids /\ ~nbr.expanded /\ nbr.distance = dist[nbr.id]
           /\ \A i \in Held : i >= lo => TopL!Better(nbr.id, data[i].id)
           /\ nbr.id \notin Kept
  <1> USE CapacitiesAssumption
  <1>1. PICK m \in Capacities : capacity <= m /\ data \in [0 .. m -> Neighbor]
    BY DEF Inv, TypeOK
  <1>2. /\ lo \in Nat /\ hi \in Nat /\ size \in Nat /\ m \in Nat
        /\ capacity \in Nat /\ capacity > 0 /\ size <= capacity
        /\ lo = hi /\ lo <= size /\ size <= m
        /\ (size < capacity => size + 1 <= m)
    BY <1>1 DEF Inv, TypeOK, InsertPlace
  <1>3. /\ pc = "search" /\ data' = InsertedAt(lo) /\ size' = SizeAfterInsert
        /\ capacity' = capacity /\ dist' = dist
    BY DEF InsertPlace
  <1>4. /\ nbr \in Neighbor /\ nbr.id \in Ids /\ ~nbr.expanded /\ nbr.distance = dist[nbr.id]
    <2>1. nbr \in Neighbor /\ nbr = New(nbr.id)
      BY <1>3 DEF Inv, TypeOK, SearchBrackets
    <2> QED
      BY <2>1 DEF New, Neighbor
  <1>5. /\ \A i \in Held : i < lo => Less(data[i], nbr)
        /\ \A i \in Held : i >= lo => Less(nbr, data[i])
    BY <1>2, <1>3 DEF Inv, SearchBrackets
  <1>6. size = capacity => lo < size
    <2> SUFFICES ASSUME size = capacity, lo = size PROVE FALSE
      BY <1>2
    <2>1. size - 1 \in Held /\ size - 1 < lo
      BY <1>2 DEF Held
    <2> QED
      BY <2>1, <1>3, <1>5 DEF Inv, SearchBrackets
  <1>7. \/ size < capacity /\ size' = size + 1
        \/ size = capacity /\ size' = size /\ lo < size
    BY <1>2, <1>3, <1>6 DEF SizeAfterInsert
  <1>8. \A i \in 0 .. size' - 1 :
          data'[i] = IF i = lo THEN nbr ELSE IF i < lo THEN data[i] ELSE data[i - 1]
    <2>1. Slots = 0 .. m
      BY <1>1 DEF Slots
    <2> SUFFICES ASSUME NEW i \in 0 .. size' - 1
                 PROVE  data'[i] = IF i = lo THEN nbr ELSE IF i < lo THEN data[i] ELSE data[i - 1]
      OBVIOUS
    <2>2. i \in Slots /\ i <= size /\ i \in Nat
      BY <1>2, <1>7, <2>1
    <2> QED
      BY <2>2, <1>2, <1>3 DEF InsertedAt
  <1>9. \A i \in Held : i >= lo => TopL!Better(nbr.id, data[i].id)
    BY <1>4, <1>5, HeldFacts DEF Less, TopL!Better
  <1>10. nbr.id \notin Kept
    <2> SUFFICES ASSUME NEW i \in Held, data[i].id = nbr.id PROVE FALSE
      BY DEF Kept
    <2>1. data[i] \in Neighbor /\ i \in Nat /\ data[i].distance = nbr.distance
      BY <1>4, HeldFacts
    <2>2. data[i].id \in Int /\ data[i].distance \in Int
      BY <2>1, IntFields
    <2> QED
      BY <2>1, <2>2, <1>2, <1>5 DEF Less
  <1> QED
    BY <1>2, <1>3, <1>4, <1>7, <1>8, <1>9, <1>10

\* The entries of the list after an insertion: the new one, and all the old
\* ones but the one that a full list pushes into the spare slot.
LEMMA InsertPlaceSets ==
    ASSUME Inv, InsertPlace
    PROVE  /\ Kept' = {nbr.id} \cup {data[i].id : i \in 0 .. size' - 2}
           /\ Expanded' = {data[i].id : i \in {k \in 0 .. size' - 2 : data[k].expanded}}
  <1>a. /\ size' \in Nat /\ lo \in 0 .. size' - 1
    BY InsertPlaceShape, HeldFacts
  <1>b. PICK s \in Nat : s = size'
    BY <1>a
  <1>1. PICK p \in 0 .. s - 1 : p = lo
    BY <1>a, <1>b
  <1>2. /\ ~nbr.expanded
        /\ \A i \in 0 .. s - 1 :
             data'[i] = IF i = p THEN nbr ELSE IF i < p THEN data[i] ELSE data[i - 1]
    BY <1>b, <1>1, InsertPlaceShape
  <1>3. /\ Kept' = {data'[k].id : k \in 0 .. s - 1}
        /\ Expanded' = {data'[i].id : i \in {k \in 0 .. s - 1 : data'[k].expanded}}
    BY <1>b DEF Kept, Expanded, Held
  <1> DEFINE After == 0 .. s - 1
             Before == 0 .. s - 2
  <1>4. /\ p \in After /\ data'[p] = nbr
        /\ \A i \in Before : \E k \in After : data'[k] = data[i]
        /\ \A k \in After : data'[k] = nbr \/ \E i \in Before : data'[k] = data[i]
    <2>1. p \in After /\ data'[p] = nbr
      BY <1>1, <1>2
    <2>2. \A i \in Before : \E k \in After : data'[k] = data[i]
      <3> SUFFICES ASSUME NEW i \in Before PROVE \E k \in After : data'[k] = data[i]
        BY <1>1, <1>2
      <3>1. CASE i < p
        <4>1. i \in After /\ data'[i] = data[i]
          BY <3>1, <1>1, <1>2
        <4> QED
          BY <4>1, <1>1, <1>2
      <3>2. CASE i >= p
        <4>1. i + 1 \in After /\ i + 1 # p /\ ~(i + 1 < p) /\ (i + 1) - 1 = i
          BY <3>2
        <4>2. data'[i + 1] = data[i]
          BY <4>1, <1>1, <1>2
        <4> QED
          BY <4>1, <4>2, <1>1, <1>2
      <3> QED
        BY <3>1, <3>2, <1>1
    <2>3. \A k \in After : data'[k] = nbr \/ \E i \in Before : data'[k] = data[i]
      <3> SUFFICES ASSUME NEW k \in After, k # p PROVE \E i \in Before : data'[k] = data[i]
        BY <2>1, <1>1, <1>2
      <3>1. CASE k < p
        <4>1. k \in Before /\ data'[k] = data[k]
          BY <3>1, <1>1, <1>2
        <4> QED
          BY <4>1, <1>1, <1>2
      <3>2. CASE k > p
        <4>1. k - 1 \in Before /\ data'[k] = data[k - 1]
          BY <3>2, <1>1, <1>2
        <4> QED
          BY <4>1, <1>1, <1>2
      <3> QED
        BY <3>1, <3>2, <1>1
    <2> QED
      BY <2>1, <2>2, <2>3
  <1> HIDE DEF After, Before
  <1>5. {data'[i].id : i \in After} = {nbr.id} \cup {data[i].id : i \in Before}
    BY <1>4
  <1>6. ASSUME NEW n
        PROVE  (n \in {data'[i].id : i \in {k \in After : data'[k].expanded}})
                 <=> (n \in {data[i].id : i \in {k \in Before : data[k].expanded}})
    <2>1. ASSUME NEW k \in After, data'[k].expanded, n = data'[k].id
          PROVE  \E i \in Before : data[i].expanded /\ n = data[i].id
      BY <1>2, <1>4, <2>1
    <2>2. ASSUME NEW i \in Before, data[i].expanded, n = data[i].id
          PROVE  \E k \in After : data'[k].expanded /\ n = data'[k].id
      BY <1>4, <2>2
    <2> QED
      BY <2>1, <2>2
  <1> QED
    BY <1>b, <1>3, <1>5, <1>6 DEF After, Before

\* The abstract specification counts with the same operator.
LEMMA SameCardinality == \A S : TopL!Cardinality(S) = Cardinality(S)
  BY Zenon DEF TopL!Cardinality, Cardinality

\* insert() that stores its entry is the abstract insertion.
LEMMA InsertPlaceRefines ==
    ASSUME Inv, InsertPlace, NEW n, n = nbr.id
    PROVE  TopL!Insert(n)
  <1> DEFINE Stay == 0 .. size' - 2
  <1>1. /\ UNCHANGED <<capacity, dist>> /\ lo \in Nat /\ lo <= size /\ n \notin Kept
        /\ size \in Nat /\ capacity \in Nat /\ capacity > 0
        /\ \/ size < capacity /\ size' = size + 1
           \/ size = capacity /\ size' = size /\ lo < size
        /\ \A i \in Held : i >= lo => TopL!Better(n, data[i].id)
    BY InsertPlaceShape, HeldFacts
  <1>2. /\ Kept' = {n} \cup {data[i].id : i \in Stay}
        /\ Expanded' = {data[i].id : i \in {k \in Stay : data[k].expanded}}
    BY InsertPlaceSets
  <1>3. TopL!Cardinality(Kept) = size
    BY KeptSize, SameCardinality
  <1>4. CASE size < capacity
    <2>1. Stay = Held
      BY <1>1, <1>4 DEF Held
    <2>2. Kept' = Kept \cup {n} /\ Expanded' = Expanded
      BY <1>2, <2>1 DEF Kept, Expanded
    <2> QED
      BY <1>1, <1>3, <1>4, <2>2 DEF TopL!Insert, Kept, Expanded
  <1>5. CASE size = capacity
    <2> DEFINE w == data[size - 1].id
    <2>1. /\ Stay = Held \ {size - 1} /\ size - 1 \in Held /\ lo <= size - 1
      BY <1>1, <1>5 DEF Held
    <2>2. /\ \A i, k \in Held : data[i].id = data[k].id => i = k
          /\ \A i \in Stay : i \in Held /\ i < size - 1 /\ TopL!Better(data[i].id, w)
      BY <1>1, <2>1, HeldFacts DEF Held
    <2>3. w \in Kept /\ TopL!Better(n, w)
      BY <1>1, <2>1 DEF Kept
    <2> HIDE DEF Stay
    <2>4. Kept \ {w} = {data[i].id : i \in Stay}
      BY <2>1, <2>2 DEF Kept
    <2>5. Expanded \ {w} = {data[i].id : i \in {k \in Stay : data[k].expanded}}
      BY <2>1, <2>2 DEF Expanded
    <2>6. \A k \in Kept \ {w} : TopL!Better(k, w)
      BY <2>2, <2>4
    <2>7. Kept' = (Kept \ {w}) \cup {n} /\ Expanded' = Expanded \ {w}
      BY <1>2, <2>4, <2>5
    <2> HIDE DEF w
    <2> QED
      BY <1>1, <1>3, <1>5, <2>3, <2>6, <2>7 DEF TopL!Insert, Kept, Expanded
  <1> QED
    BY <1>1, <1>4, <1>5

\* closest_unexpanded() hands out the best entry that is not expanded.
LEMMA ClosestUnexpandedRefines ==
    ASSUME Inv, ClosestUnexpanded
    PROVE  TopL!Expand
  <1> DEFINE n == data[cur].id
  <1>1. /\ UNCHANGED <<capacity, dist, size>> /\ cur < size
        /\ data' = [data EXCEPT ![cur].expanded = TRUE]
    BY DEF ClosestUnexpanded
  <1>2. /\ size \in Nat /\ cur \in Nat /\ cur \in Held /\ Held' = Held
        /\ \A i \in Held : i \in Nat /\ i < size /\ data[i] \in Neighbor
        /\ \A i, k \in Held : data[i].id = data[k].id => i = k
        /\ \A i, k \in Held : i < k => TopL!Better(data[i].id, data[k].id)
    BY <1>1, HeldFacts DEF Held
  <1>3. ~data[cur].expanded /\ \A i \in Held : ~data[i].expanded => i >= cur
    BY <1>1, <1>2 DEF Inv, CursorAtFirstUnexpanded
  <1>4. PICK m \in Capacities : capacity <= m /\ data \in [0 .. m -> Neighbor]
    BY DEF Inv, TypeOK
  <1>5. \A i \in Held : i \in DOMAIN data
    BY <1>2, <1>4, HeldFacts, CapacitiesAssumption DEF Held
  <1>6. \A i \in Held : /\ data'[i].id = data[i].id
                        /\ data'[i].expanded = (i = cur \/ data[i].expanded)
    BY <1>1, <1>2, <1>5 DEF Neighbor
  <1>7. Kept' = {data'[k].id : k \in Held'}
    BY DEF Kept
  <1>8. Expanded' = {data'[k].id : k \in {j \in Held' : data'[j].expanded}}
    BY DEF Expanded
  <1>9. Kept' = Kept
    BY <1>2, <1>6, <1>7 DEF Kept
  <1>10. Expanded' = Expanded \cup {n}
    <2>1. \A i \in Held : data'[i].expanded <=> i = cur \/ data[i].expanded
      BY <1>6
    <2>2. {j \in Held : data'[j].expanded} = {k \in Held : data[k].expanded} \cup {cur}
      BY <1>2, <2>1
    <2> QED
      BY <1>2, <1>6, <1>8, <2>2 DEF Expanded
  <1>11. n \in Kept \ Expanded
    BY <1>2, <1>3 DEF Kept, Expanded
  <1>12. \A k \in Kept \ Expanded : k = n \/ TopL!Better(n, k)
    <2> SUFFICES ASSUME NEW i \in Held, ~data[i].expanded
                 PROVE  data[i].id = n \/ TopL!Better(n, data[i].id)
      BY DEF Kept, Expanded
    <2>1. i = cur \/ cur < i
      BY <1>2, <1>3
    <2> QED
      BY <2>1, <1>2
  <1> HIDE DEF n
  <1> QED
    BY <1>1, <1>9, <1>10, <1>11, <1>12 DEF TopL!Expand, Kept, Expanded

\* Every step of the list is a step of the abstract one or changes nothing of
\* it.
LEMMA StepRefines ==
    ASSUME Inv, [Next]_vars
    PROVE  [TopL!Next]_(TopL!vars)
  <1>1. ASSUME NEW c \in Capacities, NewQuery(c) PROVE TopL!NewQuery
    <2>1. size' = 0 /\ capacity' = c /\ dist' \in [Ids -> Dists]
      BY <1>1 DEF NewQuery, Clear
    <2>2. Held' = {}
      BY <2>1 DEF Held
    <2>3. Kept' = {} /\ Expanded' = {}
      BY <2>2 DEF Kept, Expanded
    <2> QED
      BY <2>1, <2>3 DEF TopL!NewQuery, Kept, Expanded
  <1>2. ASSUME UNCHANGED <<queue, dist>> PROVE UNCHANGED TopL!vars
    BY <1>2 DEF queue, TopL!vars, Held
  <1>3. ASSUME NEW n \in Ids, InsertDrop(n) \/ InsertBegin(n) PROVE UNCHANGED <<queue, dist>>
    BY <1>3 DEF InsertDrop, InsertBegin
  <1>4. CASE SearchLeft \/ SearchFound \/ SearchRight
    BY <1>2, <1>4 DEF SearchLeft, SearchFound, SearchRight
  <1>5. CASE InsertPlace
    <2>1. PICK n \in Ids : n = nbr.id
      BY <1>5, InsertPlaceShape
    <2>2. TopL!Insert(n)
      BY <1>5, <2>1, InsertPlaceRefines
    <2> QED
      BY <2>2 DEF TopL!Next
  <1>6. CASE ClosestUnexpanded
    BY <1>6, ClosestUnexpandedRefines DEF TopL!Next
  <1>7. CASE UNCHANGED vars
    BY <1>2, <1>7 DEF vars, queue
  <1> QED
    BY <1>1, <1>2, <1>3, <1>4, <1>5, <1>6, <1>7 DEF Next, Insert, TopL!Next

\* NeighborPriorityQueue implements the bounded set of the best ids, for every
\* capacity, set of ids and distances: what the array, the binary search, the
\* shift and the cursor of include/neighbor.h compute is what TopLSet promises.
THEOREM ImplementsTheTopLSet == Spec => ImplementsTopL
  <1>1. Init => TopL!Init
    <2> SUFFICES ASSUME Init PROVE TopL!Init
      OBVIOUS
    <2>1. Held = {}
      BY DEF Init, Held
    <2> QED
      BY <2>1 DEF Init, TopL!Init
  <1>2. Inv /\ [Next]_vars => [TopL!Next]_(TopL!vars)
    BY StepRefines
  <1> QED
    BY <1>1, <1>2, InvHolds, PTL DEF Spec, ImplementsTopL, TopL!Spec

=============================================================================
