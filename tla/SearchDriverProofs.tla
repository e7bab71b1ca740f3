------------------------- MODULE SearchDriverProofs -------------------------
(***************************************************************************)
(* The search program is correct for every number of threads, scratch      *)
(* spaces and queries and every list of list lengths.  The invariant of    *)
(* the workers says who owns each scratch space, whose context it carries  *)
(* and where every query that was handed out has gone; the invariant of    *)
(* the driver says which results are complete.  The two meet at the end    *)
(* of the parallel region: no thread is left with a query there.           *)
(***************************************************************************)
EXTENDS SearchDriver, FiniteSetTheorems, FunctionTheorems, SequenceTheorems, TLAPS

Labels == {"joined", "next", "register", "pop", "empty", "wait", "search", "push", "notify",
           "catch", "message"}

WorkersTypeOK ==
    /\ pool \in Seq(Scratches)
    /\ pc \in [Threads -> Labels]
    /\ holds \in [Threads -> Scratches \cup {NoScratch}]
    /\ query \in [Threads -> Nat]
    /\ raised \in [Threads -> BOOLEAN]
    /\ next_query \in 1 .. Queries + 1
    /\ registered \subseteq Threads
    /\ ctx \in [Scratches -> Threads \cup {NoThread}]
    /\ worker_failure \in BOOLEAN
    /\ failure_msg \in Threads \cup {NoThread}
    /\ answered \subseteq 1 .. Queries

\* A scratch space has one place: a slot of the pool or a thread in its search.
Owned ==
    /\ \A x, y \in 1 .. Len(pool) : pool[x] = pool[y] => x = y
    /\ \A t \in Threads : holds[t] # NoScratch <=> pc[t] \in {"search", "push"}
    /\ \A t, u \in Threads : holds[t] = holds[u] /\ holds[t] # NoScratch => t = u
    /\ \A t \in Threads, x \in 1 .. Len(pool) : pool[x] # holds[t]
    /\ \A s \in Scratches : \/ \E x \in 1 .. Len(pool) : pool[x] = s
                            \/ \E t \in Threads : holds[t] = s

\* A thread past the registration has a context, and its search uses it.
Contexts ==
    \A t \in Threads : /\ pc[t] \in {"pop", "empty", "wait", "search"} => t \in registered
                       /\ pc[t] = "search" => ctx[holds[t]] = t

\* The thread has a query that is not answered yet or an exception on its way.
Busy(t) == raised[t] \/ pc[t] \in {"register", "pop", "empty", "wait", "search", "catch"}

\* Every query handed out is answered or with a thread, unless a failure is known.
Accounted ==
    /\ \A t \in Threads :
         /\ raised[t] => pc[t] \in {"push", "notify"}
         /\ pc[t] \in {"register", "pop", "empty", "wait", "search"} => query[t] \in 1 .. Queries
    /\ \A q \in 1 .. next_query - 1 :
         worker_failure \/ q \in answered \/ \E t \in Threads : query[t] = q /\ Busy(t)

\* The first handler writes the message before it goes on.
Messages == worker_failure => failure_msg # NoThread \/ \E t \in Threads : pc[t] = "message"

WorkersInv == WorkersTypeOK /\ Owned /\ Contexts /\ Accounted /\ Messages

-----------------------------------------------------------------------------
\* load() puts every scratch space into the pool: an injection from as many
\* slots as there are scratch spaces is onto.
LEMMA WorkersInitInv == WorkersInit => WorkersInv
  <1> SUFFICES ASSUME WorkersInit PROVE WorkersInv
    OBVIOUS
  <1> DEFINE n == Cardinality(Scratches)
  <1>1. n \in Nat
    BY ScratchesAssumption, FS_CardinalityType
  <1>2. pool \in [1 .. n -> Scratches] /\ IsInjective(pool)
    BY DEF WorkersInit
  <1>3. pool \in Seq(Scratches) /\ Len(pool) = n
    BY <1>1, <1>2
  <1>4. \A x, y \in 1 .. n : pool[x] = pool[y] => x = y
    BY <1>2 DEF IsInjective
  <1>5. pool \in Injection(1 .. n, Scratches)
    BY <1>2, <1>4, Fun_IsInj
  <1>6. Cardinality(1 .. n) = n
    BY <1>1, FS_Interval
  <1>7. pool \in Surjection(1 .. n, Scratches)
    BY <1>5, <1>6, ScratchesAssumption, FS_Injection
  <1>8. \A s \in Scratches : \E x \in 1 .. n : pool[x] = s
    BY <1>7 DEF Surjection
  <1>9. WorkersTypeOK
    <2>1. raised \in [Threads -> BOOLEAN] /\ worker_failure \in BOOLEAN
      BY DEF WorkersInit
    <2>2. next_query \in 1 .. Queries + 1 /\ answered \subseteq 1 .. Queries
      BY QueriesAssumption DEF WorkersInit
    <2>3. pc \in [Threads -> Labels]
      BY DEF WorkersInit, Labels
    <2> QED
      BY <1>3, <2>1, <2>2, <2>3 DEF WorkersInit, WorkersTypeOK
  <1>10. Owned
    <2>1. \A x \in 1 .. n : pool[x] # NoScratch
      BY <1>2, ScratchesAssumption
    <2> QED
      BY <1>3, <1>4, <1>8, <2>1 DEF WorkersInit, Owned
  <1> QED
    BY <1>9, <1>10 DEF WorkersInit, WorkersInv, Contexts, Accounted, Messages

\* A loop starts with nothing handed out.
LEMMA BeginLoopInv == ASSUME WorkersInv, RegionOver, BeginLoop PROVE WorkersInv'
  <1>1. WorkersTypeOK'
    <2>1. next_query' \in 1 .. Queries + 1 /\ answered' \subseteq 1 .. Queries
      BY QueriesAssumption DEF BeginLoop
    <2>2. pc' \in [Threads -> Labels]
      BY DEF BeginLoop, Labels
    <2>3. worker_failure' \in BOOLEAN
      BY DEF BeginLoop
    <2> QED
      BY <2>1, <2>2, <2>3 DEF WorkersInv, WorkersTypeOK, BeginLoop
  <1>2. Owned'
    BY DEF WorkersInv, Owned, BeginLoop, RegionOver
  <1>3. (Contexts /\ Accounted /\ Messages)'
    <2>1. Contexts' /\ Messages'
      BY DEF Contexts, Messages, BeginLoop
    <2>2. \A t \in Threads : ~raised[t]
      BY DEF WorkersInv, Accounted, RegionOver
    <2> QED
      BY <2>1, <2>2 DEF Accounted, BeginLoop
  <1> QED
    BY <1>1, <1>2, <1>3 DEF WorkersInv

\* A step that moves no scratch space leaves the ownership alone.
LEMMA OwnedKept ==
    ASSUME Owned, UNCHANGED <<pool, holds>>,
           \A u \in Threads : pc'[u] \in {"search", "push"} <=> pc[u] \in {"search", "push"}
    PROVE  Owned'
  BY DEF Owned

\* A step that answers nothing and drops no query keeps the account.
LEMMA AccountedKept ==
    ASSUME Accounted, UNCHANGED <<query, next_query, worker_failure, answered>>,
           \A u \in Threads :
              /\ Busy(u) => Busy(u)'
              /\ raised'[u] => pc'[u] \in {"push", "notify"}
              /\ pc'[u] \in {"register", "pop", "empty", "wait", "search"}
                   => pc[u] \in {"register", "pop", "empty", "wait", "search"}
    PROVE  Accounted'
  <1>1. ASSUME NEW q \in 1 .. next_query' - 1, ~worker_failure', q \notin answered'
        PROVE  \E u \in Threads : query'[u] = q /\ Busy(u)'
    <2>1. PICK u \in Threads : query[u] = q /\ Busy(u)
      BY <1>1 DEF Accounted
    <2> QED
      BY <2>1
  <1> QED
    BY <1>1 DEF Accounted

\* What a thread does to its own program counter leaves the others' alone.
LEMMA GotoEffect ==
    ASSUME WorkersTypeOK, NEW t \in Threads, NEW l \in Labels, Goto(t, l)
    PROVE  /\ pc' \in [Threads -> Labels]
           /\ pc'[t] = l
           /\ \A u \in Threads : u # t => pc'[u] = pc[u]
  BY DEF WorkersTypeOK, Goto

\* The next query goes to the thread, or is skipped after a failure.
LEMMA TakeQueryInv == ASSUME WorkersInv, NEW t \in Threads, TakeQuery(t) PROVE WorkersInv'
  <1> USE QueriesAssumption
  <1>a. /\ pc[t] = "next"
        /\ UNCHANGED <<pool, holds, raised, registered, ctx, worker_failure, failure_msg, answered>>
    BY DEF TakeQuery
  <1>b. PICK l \in {"joined", "next", "register"} : Goto(t, l)
    BY DEF TakeQuery
  <1>c. /\ pc' \in [Threads -> Labels]
        /\ pc'[t] = l
        /\ \A u \in Threads : u # t => pc'[u] = pc[u]
    BY <1>b, GotoEffect DEF WorkersInv, Labels
  <1>d. \/ l = "joined" /\ UNCHANGED <<query, next_query>>
        \/ /\ next_query <= Queries /\ next_query' = next_query + 1
           /\ query' = [query EXCEPT ![t] = next_query]
           /\ l = "register" \/ (l = "next" /\ worker_failure)
    BY <1>c DEF TakeQuery, Goto, IterationsLeft, WorkersInv, WorkersTypeOK
  <1>e. next_query \in Nat /\ query \in [Threads -> Nat]
    BY DEF WorkersInv, WorkersTypeOK
  <1>1. WorkersTypeOK'
    <2>1. next_query' \in 1 .. Queries + 1 /\ query' \in [Threads -> Nat]
      BY <1>d, <1>e DEF WorkersInv, WorkersTypeOK
    <2> QED
      BY <2>1, <1>a, <1>c DEF WorkersInv, WorkersTypeOK
  <1>2. Owned'
    BY <1>a, <1>c, OwnedKept DEF WorkersInv
  <1>3. Contexts'
    BY DEF WorkersInv, WorkersTypeOK, Contexts, TakeQuery, Goto, IterationsLeft
  <1>4. Accounted'
    <2>1. ASSUME NEW u \in Threads
          PROVE  /\ raised'[u] => pc'[u] \in {"push", "notify"}
                 /\ pc'[u] \in {"register", "pop", "empty", "wait", "search"} => query'[u] \in 1 .. Queries
      <3>1. CASE u = t
        <4>1. ~raised[t]
          BY <1>a DEF WorkersInv, Accounted
        <4>2. pc'[t] = "register" => query'[t] \in 1 .. Queries
          BY <1>c, <1>d, <1>e DEF WorkersInv, WorkersTypeOK
        <4> QED
          BY <3>1, <4>1, <4>2, <1>a, <1>c
      <3>2. CASE u # t
        <4>1. query'[u] = query[u]
          BY <3>2, <1>d, <1>e
        <4> QED
          BY <3>2, <4>1, <1>a, <1>c DEF WorkersInv, Accounted
      <3> QED
        BY <3>1, <3>2
    <2>2. ASSUME NEW q \in 1 .. next_query' - 1, ~worker_failure, q \notin answered
          PROVE  \E u \in Threads : query'[u] = q /\ Busy(u)'
      <3>1. CASE q \in 1 .. next_query - 1
        <4>1. PICK u \in Threads : query[u] = q /\ Busy(u)
          BY <2>2, <3>1 DEF WorkersInv, Accounted
        <4>2. u # t
          BY <4>1, <1>a DEF Busy, WorkersInv, Accounted
        <4>3. query'[u] = query[u]
          BY <4>2, <1>d, <1>e
        <4> QED
          BY <4>1, <4>2, <4>3, <1>a, <1>c DEF Busy
      <3>2. CASE q \notin 1 .. next_query - 1
        <4>1. q = next_query /\ query'[t] = q /\ l = "register"
          BY <2>2, <3>2, <1>d, <1>e
        <4> QED
          BY <4>1, <1>c DEF Busy
      <3> QED
        BY <3>1, <3>2
    <2> QED
      BY <2>1, <2>2, <1>a DEF Accounted
  <1>5. Messages'
    BY DEF WorkersInv, WorkersTypeOK, Messages, TakeQuery, Goto, IterationsLeft
  <1> QED
    BY <1>1, <1>2, <1>3, <1>4, <1>5 DEF WorkersInv

\* A refused context sends the thread to its handler.
LEMMA RegisterInv == ASSUME WorkersInv, NEW t \in Threads, Register(t) PROVE WorkersInv'
  <1>1. WorkersTypeOK'
    BY DEF WorkersInv, WorkersTypeOK, Register, Goto, Labels
  <1>2. Owned'
    <2>1. \A u \in Threads : pc'[u] \in {"search", "push"} <=> pc[u] \in {"search", "push"}
      BY DEF WorkersInv, WorkersTypeOK, Register, Goto
    <2> QED
      BY <2>1, OwnedKept DEF WorkersInv, Register
  <1>3. Contexts'
    BY DEF WorkersInv, WorkersTypeOK, Contexts, Register, Goto
  <1>4. Accounted'
    <2>1. /\ pc[t] = "register" /\ UNCHANGED <<query, next_query, worker_failure, answered, raised>>
          /\ pc'[t] \in {"pop", "catch"} /\ \A u \in Threads : u # t => pc'[u] = pc[u]
      BY DEF WorkersInv, WorkersTypeOK, Register, Goto
    <2>2. \A u \in Threads : raised[u] => pc[u] \in {"push", "notify"}
      BY DEF WorkersInv, Accounted
    <2>3. \A u \in Threads : Busy(u) => Busy(u)'
      BY <2>1 DEF Busy
    <2> QED
      BY <2>1, <2>2, <2>3, AccountedKept DEF WorkersInv
  <1>5. Messages'
    BY DEF WorkersInv, WorkersTypeOK, Messages, Register, Goto
  <1> QED
    BY <1>1, <1>2, <1>3, <1>4, <1>5 DEF WorkersInv

\* The front of the pool changes hands.
LEMMA PopInv == ASSUME WorkersInv, NEW t \in Threads, Pop(t) PROVE WorkersInv'
  <1>a. /\ pc[t] = "pop"
        /\ UNCHANGED <<query, raised, next_query, registered, worker_failure, failure_msg, answered>>
    BY DEF Pop
  <1>b. PICK l \in {"search", "empty"} : Goto(t, l)
    BY DEF Pop
  <1>c. /\ pc' \in [Threads -> Labels]
        /\ pc'[t] = l
        /\ \A u \in Threads : u # t => pc'[u] = pc[u]
    BY <1>b, GotoEffect DEF WorkersInv, Labels
  <1>d. Accounted'
    <2>1. \A u \in Threads : raised[u] => pc[u] \in {"push", "notify"}
      BY DEF WorkersInv, Accounted
    <2>2. \A u \in Threads : Busy(u) => Busy(u)'
      BY <1>a, <1>c DEF Busy
    <2> QED
      BY <2>1, <2>2, <1>a, <1>c, AccountedKept DEF WorkersInv
  <1>e. Messages'
    BY <1>a, <1>c DEF WorkersInv, Messages
  <1>1. CASE pool = <<>>
    <2>1. l = "empty" /\ UNCHANGED <<pool, holds, ctx>>
      BY <1>1, <1>c DEF Pop, Goto, WorkersInv, WorkersTypeOK
    <2>2. WorkersTypeOK'
      BY <2>1, <1>a, <1>c DEF WorkersInv, WorkersTypeOK
    <2>3. Owned'
      BY <2>1, <1>a, <1>c, OwnedKept DEF WorkersInv
    <2>4. Contexts'
      BY <2>1, <1>a, <1>c DEF WorkersInv, Contexts
    <2> QED
      BY <1>d, <1>e, <2>2, <2>3, <2>4 DEF WorkersInv
  <1>2. CASE pool # <<>>
    <2> DEFINE s == Head(pool)
    <2>1. /\ l = "search" /\ pool' = Tail(pool)
          /\ holds' = [holds EXCEPT ![t] = s]
          /\ ctx' = [ctx EXCEPT ![s] = t]
      BY <1>2, <1>c DEF Pop, Goto, WorkersInv, WorkersTypeOK, OwnContext
    <2>2. /\ pool \in Seq(Scratches) /\ holds \in [Threads -> Scratches \cup {NoScratch}]
          /\ ctx \in [Scratches -> Threads \cup {NoThread}]
      BY DEF WorkersInv, WorkersTypeOK
    <2>3. /\ s \in Scratches /\ s = pool[1] /\ Len(pool) \in Nat /\ Len(pool) >= 1
          /\ pool' \in Seq(Scratches) /\ Len(pool') = Len(pool) - 1
          /\ \A x \in 1 .. Len(pool) - 1 : pool'[x] = pool[x + 1]
      BY <1>2, <2>1, <2>2, HeadTailProperties
    <2>4. WorkersTypeOK'
      <3>1. holds' \in [Threads -> Scratches \cup {NoScratch}]
        BY <2>1, <2>2, <2>3
      <3>2. ctx' \in [Scratches -> Threads \cup {NoThread}]
        BY <2>1, <2>2, <2>3
      <3> QED
        BY <3>1, <3>2, <2>3, <1>a, <1>c DEF WorkersInv, WorkersTypeOK
    <2>5. \A u \in Threads : holds'[u] = IF u = t THEN s ELSE holds[u]
      BY <2>1, <2>2
    <2>6. s # NoScratch /\ \A u \in Threads : holds[u] # s
      <3>1. 1 \in 1 .. Len(pool)
        BY <2>3
      <3> QED
        BY <3>1, <2>3, ScratchesAssumption DEF WorkersInv, Owned
    <2>7. Owned'
      <3>1. \A x, y \in 1 .. Len(pool') : pool'[x] = pool'[y] => x = y
        <4> SUFFICES ASSUME NEW x \in 1 .. Len(pool'), NEW y \in 1 .. Len(pool'), pool'[x] = pool'[y]
                     PROVE  x = y
          OBVIOUS
        <4>1. /\ x + 1 \in 1 .. Len(pool) /\ y + 1 \in 1 .. Len(pool)
              /\ pool[x + 1] = pool[y + 1]
          BY <2>3
        <4>2. x + 1 = y + 1
          BY <4>1 DEF WorkersInv, Owned
        <4> QED
          BY <4>2, <2>3
      <3>2. \A u \in Threads : holds'[u] # NoScratch <=> pc'[u] \in {"search", "push"}
        BY <2>1, <2>5, <2>6, <1>c DEF WorkersInv, Owned
      <3>3. \A u, v \in Threads : holds'[u] = holds'[v] /\ holds'[u] # NoScratch => u = v
        BY <2>5, <2>6 DEF WorkersInv, Owned
      <3>4. ASSUME NEW u \in Threads, NEW x \in 1 .. Len(pool') PROVE pool'[x] # holds'[u]
        <4>1. /\ x + 1 \in 1 .. Len(pool) /\ pool'[x] = pool[x + 1] /\ 1 \in 1 .. Len(pool)
              /\ x + 1 # 1
          BY <2>3
        <4>2. pool[x + 1] # pool[1]
          BY <4>1 DEF WorkersInv, Owned
        <4> QED
          BY <4>1, <4>2, <2>3, <2>5 DEF WorkersInv, Owned
      <3>5. ASSUME NEW r \in Scratches
            PROVE  \/ \E x \in 1 .. Len(pool') : pool'[x] = r
                   \/ \E u \in Threads : holds'[u] = r
        <4>1. CASE r = s
          BY <4>1, <2>5
        <4>2. CASE r # s /\ \E x \in 1 .. Len(pool) : pool[x] = r
          <5>1. PICK x \in 1 .. Len(pool) : pool[x] = r
            BY <4>2
          <5>2. x - 1 \in 1 .. Len(pool') /\ pool'[x - 1] = pool[x]
            BY <5>1, <4>2, <2>3
          <5> QED
            BY <5>1, <5>2
        <4>3. CASE \E u \in Threads : holds[u] = r
          <5>1. PICK u \in Threads : holds[u] = r
            BY <4>3
          <5>2. u # t
            BY <5>1, <1>a, ScratchesAssumption DEF WorkersInv, Owned
          <5> QED
            BY <5>1, <5>2, <2>5
        <4> QED
          BY <4>1, <4>2, <4>3 DEF WorkersInv, Owned
      <3> QED
        BY <3>1, <3>2, <3>3, <3>4, <3>5 DEF Owned
    <2>8. Contexts'
      <3> SUFFICES ASSUME NEW u \in Threads
                   PROVE  /\ pc'[u] \in {"pop", "empty", "wait", "search"} => u \in registered'
                          /\ pc'[u] = "search" => ctx'[holds'[u]] = u
        BY DEF Contexts
      <3>1. CASE u = t
        BY <3>1, <2>1, <2>2, <2>3, <2>5, <1>a, <1>c DEF WorkersInv, Contexts
      <3>2. CASE u # t
        <4>1. pc'[u] = pc[u] /\ holds'[u] = holds[u] /\ holds[u] # s
          BY <3>2, <1>c, <2>5, <2>6
        <4>2. pc[u] = "search" => holds[u] \in Scratches
          BY <2>2 DEF WorkersInv, Owned
        <4>3. pc[u] = "search" => ctx'[holds[u]] = ctx[holds[u]]
          BY <4>1, <4>2, <2>1, <2>2
        <4> QED
          BY <4>1, <4>3, <1>a DEF WorkersInv, Contexts
      <3> QED
        BY <3>1, <3>2
    <2> QED
      BY <1>d, <1>e, <2>4, <2>7, <2>8 DEF WorkersInv
  <1> QED
    BY <1>1, <1>2

\* Waiting changes nothing but where the thread is.
LEMMA BeginWaitInv == ASSUME WorkersInv, NEW t \in Threads, BeginWait(t) PROVE WorkersInv'
  <1>1. WorkersTypeOK'
    BY DEF WorkersInv, WorkersTypeOK, BeginWait, Goto, Labels
  <1>2. Owned'
    BY DEF WorkersInv, WorkersTypeOK, Owned, BeginWait, Goto
  <1>3. Contexts'
    BY DEF WorkersInv, WorkersTypeOK, Contexts, BeginWait, Goto
  <1>4. Accounted'
    BY DEF WorkersInv, WorkersTypeOK, Accounted, Busy, BeginWait, Goto
  <1>5. Messages'
    BY DEF WorkersInv, WorkersTypeOK, Messages, BeginWait, Goto
  <1> QED
    BY <1>1, <1>2, <1>3, <1>4, <1>5 DEF WorkersInv

\* The wait ends.
LEMMA TimeOutInv == ASSUME WorkersInv, NEW t \in Threads, TimeOut(t) PROVE WorkersInv'
  <1>1. WorkersTypeOK'
    BY DEF WorkersInv, WorkersTypeOK, TimeOut, Goto, Labels
  <1>2. Owned'
    BY DEF WorkersInv, WorkersTypeOK, Owned, TimeOut, Goto
  <1>3. Contexts'
    BY DEF WorkersInv, WorkersTypeOK, Contexts, TimeOut, Goto
  <1>4. Accounted'
    BY DEF WorkersInv, WorkersTypeOK, Accounted, Busy, TimeOut, Goto
  <1>5. Messages'
    BY DEF WorkersInv, WorkersTypeOK, Messages, TimeOut, Goto
  <1> QED
    BY <1>1, <1>2, <1>3, <1>4, <1>5 DEF WorkersInv

\* The query is answered, or the exception carries it on.
LEMMA SearchInv == ASSUME WorkersInv, NEW t \in Threads, Search(t) PROVE WorkersInv'
  <1>1. WorkersTypeOK'
    <2>1. query[t] \in 1 .. Queries
      BY DEF WorkersInv, Accounted, Search
    <2>2. answered' \subseteq 1 .. Queries
      BY <2>1 DEF WorkersInv, WorkersTypeOK, Search
    <2>3. raised' \in [Threads -> BOOLEAN]
      BY DEF WorkersInv, WorkersTypeOK, Search
    <2>4. pc' \in [Threads -> Labels]
      BY GotoEffect DEF WorkersInv, Search, Labels
    <2> QED
      BY <2>2, <2>3, <2>4 DEF WorkersInv, WorkersTypeOK, Search
  <1>2. Owned'
    BY DEF WorkersInv, WorkersTypeOK, Owned, Search, Goto
  <1>3. Contexts'
    BY DEF WorkersInv, WorkersTypeOK, Contexts, Search, Goto
  <1>4. Accounted'
    <2>1. /\ pc[t] = "search" /\ UNCHANGED <<query, next_query, worker_failure>>
          /\ pc'[t] = "push" /\ \A u \in Threads : u # t => pc'[u] = pc[u]
      BY DEF WorkersInv, WorkersTypeOK, Search, Goto
    <2>2. \A u \in Threads : u # t => raised'[u] = raised[u]
      BY DEF WorkersInv, WorkersTypeOK, Search
    <2>3. answered \subseteq answered' /\ (query[t] \in answered' \/ raised'[t])
      BY DEF WorkersInv, WorkersTypeOK, Search
    <2>4. ASSUME NEW u \in Threads
          PROVE  /\ raised'[u] => pc'[u] \in {"push", "notify"}
                 /\ pc'[u] \in {"register", "pop", "empty", "wait", "search"} => query'[u] \in 1 .. Queries
      BY <2>1, <2>2 DEF WorkersInv, Accounted
    <2>5. ASSUME NEW q \in 1 .. next_query' - 1, ~worker_failure', q \notin answered'
          PROVE  \E u \in Threads : query'[u] = q /\ Busy(u)'
      <3>1. PICK u \in Threads : query[u] = q /\ Busy(u)
        BY <2>1, <2>3, <2>5 DEF WorkersInv, Accounted
      <3>2. CASE u = t
        BY <3>1, <3>2, <2>1, <2>3, <2>5 DEF Busy
      <3>3. CASE u # t
        BY <3>1, <3>3, <2>1, <2>2 DEF Busy
      <3> QED
        BY <3>2, <3>3
    <2> QED
      BY <2>4, <2>5 DEF Accounted
  <1>5. Messages'
    BY DEF WorkersInv, WorkersTypeOK, Messages, Search, Goto
  <1> QED
    BY <1>1, <1>2, <1>3, <1>4, <1>5 DEF WorkersInv

\* The scratch space goes back to the pool.
LEMMA PushInv == ASSUME WorkersInv, NEW t \in Threads, Push(t) PROVE WorkersInv'
  <1> DEFINE s == holds[t]
  <1>a. /\ pc[t] = "push" /\ pool' = Append(pool, s)
        /\ holds' = [holds EXCEPT ![t] = NoScratch]
        /\ UNCHANGED <<query, raised, next_query, registered, ctx, worker_failure, failure_msg, answered>>
    BY DEF Push
  <1>b. /\ pc' \in [Threads -> Labels]
        /\ pc'[t] = "notify"
        /\ \A u \in Threads : u # t => pc'[u] = pc[u]
    BY GotoEffect DEF WorkersInv, Labels, Push
  <1>c. pool \in Seq(Scratches) /\ holds \in [Threads -> Scratches \cup {NoScratch}]
    BY DEF WorkersInv, WorkersTypeOK
  <1>d. s \in Scratches /\ s # NoScratch
    BY <1>a, <1>c DEF WorkersInv, Owned
  <1>e. /\ pool' \in Seq(Scratches) /\ Len(pool) \in Nat /\ Len(pool') = Len(pool) + 1
        /\ \A x \in 1 .. Len(pool) : pool'[x] = pool[x]
        /\ pool'[Len(pool) + 1] = s
    BY <1>a, <1>c, <1>d, AppendProperties
  <1>f. \A u \in Threads : holds'[u] = IF u = t THEN NoScratch ELSE holds[u]
    BY <1>a, <1>c
  <1>1. WorkersTypeOK'
    <2>1. holds' \in [Threads -> Scratches \cup {NoScratch}]
      BY <1>a, <1>c
    <2> QED
      BY <2>1, <1>a, <1>b, <1>e DEF WorkersInv, WorkersTypeOK
  <1>2. Owned'
    <2>1. ASSUME NEW x \in 1 .. Len(pool'), NEW y \in 1 .. Len(pool'), pool'[x] = pool'[y]
          PROVE  x = y
      <3>1. CASE x \in 1 .. Len(pool) /\ y \in 1 .. Len(pool)
        BY <2>1, <3>1, <1>e DEF WorkersInv, Owned
      <3>2. CASE x = Len(pool) + 1 /\ y = Len(pool) + 1
        BY <3>2
      <3>3. CASE x \in 1 .. Len(pool) /\ y = Len(pool) + 1
        BY <2>1, <3>3, <1>e DEF WorkersInv, Owned
      <3>4. CASE y \in 1 .. Len(pool) /\ x = Len(pool) + 1
        BY <2>1, <3>4, <1>e DEF WorkersInv, Owned
      <3> QED
        BY <1>e, <3>1, <3>2, <3>3, <3>4
    <2>2. \A u \in Threads : holds'[u] # NoScratch <=> pc'[u] \in {"search", "push"}
      BY <1>b, <1>f DEF WorkersInv, Owned
    <2>3. \A u, v \in Threads : holds'[u] = holds'[v] /\ holds'[u] # NoScratch => u = v
      BY <1>f DEF WorkersInv, Owned
    <2>4. ASSUME NEW u \in Threads, NEW x \in 1 .. Len(pool') PROVE pool'[x] # holds'[u]
      <3>1. pool'[x] \in Scratches
        BY <1>e, ElementOfSeq
      <3>2. CASE u = t
        BY <3>1, <3>2, <1>f, ScratchesAssumption
      <3>3. CASE u # t /\ x \in 1 .. Len(pool)
        BY <3>3, <1>e, <1>f DEF WorkersInv, Owned
      <3>4. CASE u # t /\ x = Len(pool) + 1
        BY <3>4, <1>d, <1>e, <1>f DEF WorkersInv, Owned
      <3> QED
        BY <1>e, <3>2, <3>3, <3>4
    <2>5. ASSUME NEW r \in Scratches
          PROVE  \/ \E x \in 1 .. Len(pool') : pool'[x] = r
                 \/ \E u \in Threads : holds'[u] = r
      <3>1. CASE r = s
        <4>1. Len(pool) + 1 \in 1 .. Len(pool')
          BY <1>e
        <4> QED
          BY <3>1, <4>1, <1>e
      <3>2. CASE \E x \in 1 .. Len(pool) : pool[x] = r
        <4>1. PICK x \in 1 .. Len(pool) : pool[x] = r
          BY <3>2
        <4>2. x \in 1 .. Len(pool') /\ pool'[x] = r
          BY <4>1, <1>e
        <4> QED
          BY <4>2
      <3>3. CASE r # s /\ \E u \in Threads : holds[u] = r
        BY <3>3, <1>f
      <3> QED
        BY <3>1, <3>2, <3>3 DEF WorkersInv, Owned
    <2> QED
      BY <2>1, <2>2, <2>3, <2>4, <2>5 DEF Owned
  <1>3. Contexts'
    BY <1>a, <1>b, <1>f DEF WorkersInv, Contexts
  <1>4. Accounted'
    <2>1. \A u \in Threads : Busy(u) => Busy(u)'
      BY <1>a, <1>b DEF Busy
    <2>2. \A u \in Threads : raised[u] => pc[u] \in {"push", "notify"}
      BY DEF WorkersInv, Accounted
    <2> QED
      BY <2>1, <2>2, <1>a, <1>b, AccountedKept DEF WorkersInv
  <1>5. Messages'
    BY <1>a, <1>b DEF WorkersInv, Messages
  <1> QED
    BY <1>1, <1>2, <1>3, <1>4, <1>5 DEF WorkersInv

\* The waiting threads wake; the exception reaches the handler.
LEMMA NotifyInv == ASSUME WorkersInv, NEW t \in Threads, Notify(t) PROVE WorkersInv'
  <1>1. WorkersTypeOK'
    BY DEF WorkersInv, WorkersTypeOK, Notify, Labels
  <1>2. Owned'
    BY DEF WorkersInv, WorkersTypeOK, Owned, Notify
  <1>3. Contexts'
    BY DEF WorkersInv, WorkersTypeOK, Contexts, Notify
  <1>4. Accounted'
    <2>1. /\ pc[t] = "notify" /\ UNCHANGED <<query, next_query, worker_failure, answered>>
          /\ pc'[t] = IF raised[t] THEN "catch" ELSE "next"
          /\ \A u \in Threads : u # t => pc'[u] = IF pc[u] = "wait" THEN "pop" ELSE pc[u]
      BY DEF WorkersInv, WorkersTypeOK, Notify
    <2>2. ~raised'[t] /\ \A u \in Threads : u # t => raised'[u] = raised[u]
      BY DEF WorkersInv, WorkersTypeOK, Notify
    <2>3. \A u \in Threads : raised[u] => pc[u] \in {"push", "notify"}
      BY DEF WorkersInv, Accounted
    <2>4. \A u \in Threads : Busy(u) => Busy(u)'
      BY <2>1, <2>2, <2>3 DEF Busy
    <2>5. \A u \in Threads :
              /\ raised'[u] => pc'[u] \in {"push", "notify"}
              /\ pc'[u] \in {"register", "pop", "empty", "wait", "search"}
                   => pc[u] \in {"register", "pop", "empty", "wait", "search"}
      BY <2>1, <2>2, <2>3
    <2> QED
      BY <2>1, <2>4, <2>5, AccountedKept DEF WorkersInv
  <1>5. Messages'
    BY DEF WorkersInv, WorkersTypeOK, Messages, Notify
  <1> QED
    BY <1>1, <1>2, <1>3, <1>4, <1>5 DEF WorkersInv

\* The failure is known from here on.
LEMMA CatchInv == ASSUME WorkersInv, NEW t \in Threads, Catch(t) PROVE WorkersInv'
  <1>1. WorkersTypeOK'
    BY DEF WorkersInv, WorkersTypeOK, Catch, Goto, Labels, FirstFailure
  <1>2. Owned'
    BY DEF WorkersInv, WorkersTypeOK, Owned, Catch, Goto, FirstFailure
  <1>3. Contexts'
    BY DEF WorkersInv, WorkersTypeOK, Contexts, Catch, Goto, FirstFailure
  <1>4. Accounted'
    BY DEF WorkersInv, WorkersTypeOK, Accounted, Busy, Catch, Goto, FirstFailure
  <1>5. Messages'
    BY DEF WorkersInv, WorkersTypeOK, Messages, Catch, Goto, FirstFailure
  <1> QED
    BY <1>1, <1>2, <1>3, <1>4, <1>5 DEF WorkersInv

\* The message is there.
LEMMA WriteMessageInv == ASSUME WorkersInv, NEW t \in Threads, WriteMessage(t) PROVE WorkersInv'
  <1>1. WorkersTypeOK'
    BY DEF WorkersInv, WorkersTypeOK, WriteMessage, Goto, Labels
  <1>2. Owned'
    BY DEF WorkersInv, WorkersTypeOK, Owned, WriteMessage, Goto
  <1>3. Contexts'
    BY DEF WorkersInv, WorkersTypeOK, Contexts, WriteMessage, Goto
  <1>4. Accounted'
    BY DEF WorkersInv, WorkersTypeOK, Accounted, Busy, WriteMessage, Goto
  <1>5. Messages'
    BY ThreadsAssumption DEF Messages, WriteMessage
  <1> QED
    BY <1>1, <1>2, <1>3, <1>4, <1>5 DEF WorkersInv

\* No step of a worker breaks the invariant.
LEMMA StepInv == ASSUME WorkersInv, NEW t \in Threads, Step(t) PROVE WorkersInv'
  BY TakeQueryInv, RegisterInv, PopInv, BeginWaitInv, TimeOutInv, SearchInv, PushInv, NotifyInv,
     CatchInv, WriteMessageInv DEF Step

-----------------------------------------------------------------------------
\* What the results of index i are when the search is over.
Complete(i) == IF LAt(i) < recall_at THEN Empty ELSE [L |-> LAt(i), rows |-> 1 .. Queries]
NoSkips == \A i \in Indices : LAt(i) >= recall_at

DriverTypeOK ==
    /\ Lvec \in Seq(Ls) /\ recall_at \in Nat
    /\ stage \in {"start", "search", "loop", "save", "exited"}
    /\ test_id \in Nat /\ position \in 0 .. Len(Lvec)
    /\ files = [L \in Ls |-> files[L]]
    /\ stage # "start" => stage = "exited" \/ results = [i \in Indices |-> results[i]]

\* Only a running loop has threads at work, and a thread that has arrived at its
\* end found no query left.
Regions ==
    /\ stage # "loop" => RegionOver
    /\ stage = "loop" => \A t \in Threads : pc[t] = "joined" => next_query = Queries + 1

\* The search loop completes one index after the other and saves nothing; the
\* saving loop starts from complete results and, without skips, keeps step.
Phases ==
    /\ stage \in {"start", "search", "loop"} => \A L \in Ls : files[L] = NotSaved
    /\ stage # "exited" => exit_code = 1
    /\ stage \in {"search", "loop"} =>
         /\ test_id <= Len(Lvec)
         /\ \A i \in Indices : results[i] = IF i < test_id THEN Complete(i) ELSE Empty
    /\ stage = "loop" => test_id < Len(Lvec) /\ LAt(test_id) >= recall_at
    /\ stage = "save" => \A i \in Indices : results[i] = Complete(i)
    /\ stage = "save" /\ NoSkips => test_id = position
    /\ stage \in {"start", "search", "loop"} => position = 0
    /\ stage = "start" => test_id = 0

Inv == /\ WorkersInv /\ DriverTypeOK /\ Regions /\ Phases
       /\ SavesOnlyCompleteRuns /\ FilesMatchWithoutSkips

-----------------------------------------------------------------------------
\* The indices are those of the list, and its elements are numbers.
LEMMA LAtType ==
    ASSUME DriverTypeOK
    PROVE  /\ Len(Lvec) \in Nat
           /\ \A i \in Nat : i < Len(Lvec) => i \in Indices
           /\ \A i \in Indices : i \in Nat /\ i < Len(Lvec) /\ LAt(i) \in Ls /\ LAt(i) \in Nat
  <1>1. Len(Lvec) \in Nat
    BY DEF DriverTypeOK
  <1>2. \A i \in Nat : i < Len(Lvec) => i \in Indices
    BY <1>1 DEF Indices
  <1>3. ASSUME NEW i \in Indices
        PROVE  i \in Nat /\ i < Len(Lvec) /\ LAt(i) \in Ls /\ LAt(i) \in Nat
    <2>1. i \in Nat /\ i < Len(Lvec) /\ i + 1 \in 1 .. Len(Lvec)
      BY <1>1, <1>3 DEF Indices
    <2>2. LAt(i) \in Ls
      BY <2>1, ElementOfSeq DEF DriverTypeOK, LAt
    <2> QED
      BY <2>1, <2>2, LsAssumption
  <1> QED
    BY <1>1, <1>2, <1>3

\* At the end of a region without failure every query is answered.
LEMMA AllAnswered ==
    ASSUME WorkersInv, Regions, stage = "loop", RegionOver, ~worker_failure
    PROVE  answered = 1 .. Queries
  <1>1. PICK t \in Threads : TRUE
    BY ThreadsAssumption
  <1>2. next_query = Queries + 1
    BY <1>1 DEF Regions, RegionOver
  <1>3. \A u \in Threads : ~Busy(u)
    BY DEF WorkersInv, Accounted, RegionOver, Busy
  <1>4. ASSUME NEW q \in 1 .. Queries PROVE q \in answered
    <2>1. q \in 1 .. next_query - 1
      BY <1>2, QueriesAssumption
    <2> QED
      BY <2>1, <1>3 DEF WorkersInv, Accounted
  <1>5. answered \subseteq 1 .. Queries
    BY DEF WorkersInv, WorkersTypeOK
  <1> QED
    BY <1>4, <1>5

LEMMA InitInv == Init => Inv
  <1> SUFFICES ASSUME Init PROVE Inv
    OBVIOUS
  <1>1. WorkersInv
    BY WorkersInitInv DEF Init
  <1>2. PICK n \in 1 .. MaxLs : Lvec \in [1 .. n -> Ls]
    BY DEF Init
  <1>3. n \in Nat
    BY LsAssumption
  <1>4. Lvec \in Seq(Ls)
    BY <1>2, <1>3
  <1>5. DriverTypeOK
    <2>1. recall_at \in Nat
      BY LsAssumption DEF Init
    <2>2. position \in 0 .. Len(Lvec)
      BY <1>4 DEF Init
    <2> QED
      BY <1>4, <2>1, <2>2 DEF Init, DriverTypeOK
  <1>6. Regions
    BY DEF Init, WorkersInit, Regions, RegionOver
  <1>7. Phases
    BY DEF Init, Phases
  <1>8. SavesOnlyCompleteRuns /\ FilesMatchWithoutSkips
    BY DEF Init, SavesOnlyCompleteRuns, FilesMatchWithoutSkips
  <1> QED
    BY <1>1, <1>5, <1>6, <1>7, <1>8 DEF Inv

\* The steps of the main thread between two regions leave the workers alone.
LEMMA WorkersKept == ASSUME WorkersInv, UNCHANGED workers PROVE WorkersInv'
  BY DEF workers, WorkersInv, WorkersTypeOK, Owned, Contexts, Accounted, Busy, Messages

LEMMA StartInv == ASSUME Inv, Start PROVE Inv'
  <1>1. WorkersInv'
    BY WorkersKept DEF Inv, Start
  <1>2. DriverTypeOK'
    BY DEF Inv, DriverTypeOK, Start, inputs, Exit, Indices
  <1>3. Regions'
    BY DEF Inv, Regions, RegionOver, Start, workers, Exit
  <1>4. Phases'
    <2>1. CASE ~inputs_ok
      BY <2>1 DEF Inv, Phases, Start, Exit
    <2>2. CASE inputs_ok
      <3>1. /\ stage = "start" /\ stage' = "search" /\ test_id' = 0 /\ UNCHANGED <<Lvec, position, files, exit_code>>
            /\ results' = [i \in Indices |-> Empty]
        BY <2>2 DEF Inv, Phases, Start, inputs
      <3>2. Len(Lvec) \in Nat /\ \A i \in Indices : i \in Nat
        BY LAtType DEF Inv
      <3>3. \A i \in Indices : results'[i] = Empty /\ ~(i < 0)
        BY <3>1, <3>2
      <3> QED
        BY <3>1, <3>2, <3>3 DEF Inv, Phases, Indices
    <2> QED
      BY <2>1, <2>2
  <1>5. SavesOnlyCompleteRuns' /\ FilesMatchWithoutSkips'
    BY DEF Inv, Phases, SavesOnlyCompleteRuns, FilesMatchWithoutSkips, Start, Exit
  <1> QED
    BY <1>1, <1>2, <1>3, <1>4, <1>5 DEF Inv

LEMMA SkipLInv == ASSUME Inv, SkipL PROVE Inv'
  <1>a. /\ stage = "search" /\ test_id < Len(Lvec) /\ LAt(test_id) < recall_at
        /\ test_id' = test_id + 1
        /\ UNCHANGED <<workers, Lvec, recall_at, stage, position, results, files, exit_code>>
    BY DEF SkipL, inputs
  <1>b. test_id \in Nat /\ Len(Lvec) \in Nat
    BY LAtType DEF Inv, DriverTypeOK
  <1>1. WorkersInv'
    BY <1>a, WorkersKept DEF Inv
  <1>2. DriverTypeOK'
    BY <1>a, <1>b DEF Inv, DriverTypeOK, Indices
  <1>3. Regions'
    BY <1>a DEF Inv, Regions, RegionOver, workers
  <1>4. Phases'
    <2>1. ASSUME NEW i \in Indices
          PROVE  results[i] = IF i < test_id + 1 THEN Complete(i) ELSE Empty
      <3>1. i \in Nat
        BY LAtType DEF Inv
      <3>2. CASE i = test_id
        BY <3>2, <1>a, <1>b DEF Inv, Phases, Complete
      <3>3. CASE i # test_id
        BY <3>1, <3>3, <1>a, <1>b DEF Inv, Phases
      <3> QED
        BY <3>2, <3>3
    <2>2. Indices' = Indices /\ \A i : Complete(i)' = Complete(i)
      BY <1>a DEF Indices, Complete, LAt
    <2> QED
      BY <1>a, <1>b, <2>1, <2>2 DEF Inv, Phases
  <1>5. SavesOnlyCompleteRuns' /\ FilesMatchWithoutSkips'
    BY <1>a DEF Inv, SavesOnlyCompleteRuns, FilesMatchWithoutSkips, Indices, LAt
  <1> QED
    BY <1>1, <1>2, <1>3, <1>4, <1>5 DEF Inv

LEMMA BeginLInv == ASSUME Inv, BeginL PROVE Inv'
  <1>a. /\ stage = "search" /\ test_id < Len(Lvec) /\ LAt(test_id) >= recall_at
        /\ stage' = "loop" /\ BeginLoop
        /\ UNCHANGED <<Lvec, recall_at, test_id, position, results, files, exit_code>>
    BY DEF BeginL, inputs
  <1>1. WorkersInv'
    BY <1>a, BeginLoopInv DEF Inv, Regions
  <1>2. DriverTypeOK'
    BY <1>a DEF Inv, DriverTypeOK, Indices
  <1>3. Regions'
    BY <1>a DEF Regions, RegionOver, BeginLoop
  <1>4. Phases'
    BY <1>a DEF Inv, Phases, Indices, LAt, Complete
  <1>5. SavesOnlyCompleteRuns' /\ FilesMatchWithoutSkips'
    BY <1>a DEF Inv, SavesOnlyCompleteRuns, FilesMatchWithoutSkips, Indices, LAt
  <1> QED
    BY <1>1, <1>2, <1>3, <1>4, <1>5 DEF Inv

\* A worker reaches the end of the region only when no query is left, and none
\* comes back.
LEMMA WorkInv == ASSUME Inv, NEW t \in Threads, Work(t) PROVE Inv'
  <1>a. /\ stage = "loop" /\ Step(t)
        /\ UNCHANGED <<Lvec, recall_at, stage, test_id, position, results, files, exit_code>>
    BY DEF Work, inputs, driver
  <1>1. WorkersInv'
    BY <1>a, StepInv DEF Inv
  <1>2. DriverTypeOK'
    BY <1>a DEF Inv, DriverTypeOK, Indices
  <1>3. Regions'
    <2> SUFFICES ASSUME NEW u \in Threads, pc'[u] = "joined" PROVE next_query' = Queries + 1
      BY <1>a DEF Regions
    <2>1. WorkersTypeOK /\ (pc[u] = "joined" => next_query = Queries + 1)
      BY <1>a DEF Inv, Regions, WorkersInv
    <2>2. CASE TakeQuery(t)
      <3>1. next_query \in 1 .. Queries + 1 /\ Queries \in Nat /\ pc[t] = "next"
        BY <2>1, <2>2, QueriesAssumption DEF WorkersTypeOK, TakeQuery
      <3>2. CASE ~(next_query <= Queries)
        BY <3>1, <3>2, <2>2 DEF TakeQuery, IterationsLeft
      <3>3. CASE next_query <= Queries
        <4>1. pc' = [pc EXCEPT ![t] = "register"] \/ pc' = [pc EXCEPT ![t] = "next"]
          BY <2>2, <3>3 DEF TakeQuery, IterationsLeft, Goto
        <4>2. pc[u] = "joined"
          BY <4>1, <2>1 DEF WorkersTypeOK
        <4> QED
          BY <4>2, <2>1, <3>1, <3>3
      <3> QED
        BY <3>2, <3>3
    <2>3. CASE ~TakeQuery(t)
      <3>1. next_query' = next_query
        BY <2>3, <1>a DEF Step, Register, Pop, BeginWait, TimeOut, Search, Push, Notify, Catch,
                          WriteMessage
      <3>2. pc[u] = "joined"
        BY <2>1, <2>3, <1>a DEF Step, Register, Pop, BeginWait, TimeOut, Search, Push, Notify, Catch,
                          WriteMessage, WorkersTypeOK, Goto
      <3> QED
        BY <3>1, <3>2, <2>1
    <2> QED
      BY <2>2, <2>3
  <1>4. Phases'
    BY <1>a DEF Inv, Phases, Indices, LAt, Complete, NoSkips
  <1>5. SavesOnlyCompleteRuns' /\ FilesMatchWithoutSkips'
    BY <1>a DEF Inv, SavesOnlyCompleteRuns, FilesMatchWithoutSkips, Indices, LAt
  <1> QED
    BY <1>1, <1>2, <1>3, <1>4, <1>5 DEF Inv

\* A loop that ends without failure completes its index.
LEMMA EndLInv == ASSUME Inv, EndL PROVE Inv'
  <1>a. /\ stage = "loop" /\ RegionOver /\ ~worker_failure /\ stage' = "search"
        /\ results' = [results EXCEPT ![test_id] = [L |-> LAt(test_id), rows |-> answered]]
        /\ test_id' = test_id + 1
        /\ UNCHANGED <<workers, Lvec, recall_at, position, files, exit_code>>
    BY DEF EndL, inputs
  <1>b. /\ test_id \in Nat /\ Len(Lvec) \in Nat /\ test_id < Len(Lvec)
        /\ LAt(test_id) >= recall_at /\ test_id \in Indices
        /\ results = [i \in Indices |-> results[i]] /\ recall_at \in Nat /\ LAt(test_id) \in Nat
    BY <1>a, LAtType DEF Inv, DriverTypeOK, Phases
  <1>c. results'[test_id] = Complete(test_id)
    <2>1. answered = 1 .. Queries
      BY <1>a, AllAnswered DEF Inv
    <2>2. ~(LAt(test_id) < recall_at)
      BY <1>b
    <2>3. results'[test_id] = [L |-> LAt(test_id), rows |-> answered]
      BY <1>a, <1>b
    <2> QED
      BY <2>1, <2>2, <2>3 DEF Complete
  <1>d. \A i \in Indices : i # test_id => results'[i] = results[i]
    BY <1>a, <1>b
  <1>1. WorkersInv'
    BY <1>a, WorkersKept DEF Inv
  <1>2. DriverTypeOK'
    <2>1. results' = [i \in Indices |-> results'[i]]
      BY <1>a, <1>b
    <2> QED
      BY <1>a, <1>b, <2>1 DEF Inv, DriverTypeOK, Indices
  <1>3. Regions'
    BY <1>a DEF Regions, RegionOver, workers
  <1>4. Phases'
    <2>1. ASSUME NEW i \in Indices
          PROVE  results'[i] = IF i < test_id + 1 THEN Complete(i) ELSE Empty
      <3>1. i \in Nat
        BY LAtType DEF Inv
      <3>2. CASE i = test_id
        BY <3>2, <1>b, <1>c
      <3>3. CASE i # test_id
        BY <3>1, <3>3, <1>a, <1>b, <1>d DEF Inv, Phases
      <3> QED
        BY <3>2, <3>3
    <2>2. Indices' = Indices /\ \A i : Complete(i)' = Complete(i)
      BY <1>a DEF Indices, Complete, LAt
    <2> QED
      BY <1>a, <1>b, <2>1, <2>2 DEF Inv, Phases
  <1>5. SavesOnlyCompleteRuns' /\ FilesMatchWithoutSkips'
    BY <1>a DEF Inv, Phases, SavesOnlyCompleteRuns, FilesMatchWithoutSkips
  <1> QED
    BY <1>1, <1>2, <1>3, <1>4, <1>5 DEF Inv

\* An abort saves nothing.
LEMMA AbortLInv == ASSUME Inv, AbortL PROVE Inv'
  <1>a. /\ stage = "loop" /\ RegionOver /\ stage' = "exited" /\ exit_code' = -1
        /\ UNCHANGED <<workers, Lvec, recall_at, test_id, position, results, files>>
    BY DEF AbortL, inputs, Exit
  <1>1. WorkersInv'
    BY <1>a, WorkersKept DEF Inv
  <1>2. DriverTypeOK'
    BY <1>a DEF Inv, DriverTypeOK, Indices
  <1>3. Regions'
    BY <1>a DEF Regions, RegionOver, workers
  <1>4. Phases'
    BY <1>a DEF Phases
  <1>5. SavesOnlyCompleteRuns' /\ FilesMatchWithoutSkips'
    BY <1>a DEF Inv, Phases, SavesOnlyCompleteRuns, FilesMatchWithoutSkips
  <1> QED
    BY <1>1, <1>2, <1>3, <1>4, <1>5 DEF Inv

\* All indices are complete when the saving begins.
LEMMA BeginSaveInv == ASSUME Inv, BeginSave PROVE Inv'
  <1>a. /\ stage = "search" /\ test_id = Len(Lvec) /\ stage' = "save" /\ test_id' = 0
        /\ UNCHANGED <<workers, Lvec, recall_at, position, results, files, exit_code>>
    BY DEF BeginSave, inputs
  <1>b. \A i \in Indices : results[i] = Complete(i)
    <2>1. \A i \in Indices : i \in Nat /\ i < test_id
      BY <1>a, LAtType DEF Inv
    <2> QED
      BY <1>a, <2>1 DEF Inv, Phases
  <1>1. WorkersInv'
    BY <1>a, WorkersKept DEF Inv
  <1>2. DriverTypeOK'
    BY <1>a DEF Inv, DriverTypeOK, Indices
  <1>3. Regions'
    BY <1>a DEF Inv, Regions, RegionOver, workers
  <1>4. Phases'
    <2>1. Indices' = Indices /\ \A i : Complete(i)' = Complete(i)
      BY <1>a DEF Indices, Complete, LAt
    <2> QED
      BY <1>a, <1>b, <2>1 DEF Inv, Phases
  <1>5. SavesOnlyCompleteRuns' /\ FilesMatchWithoutSkips'
    BY <1>a DEF Inv, SavesOnlyCompleteRuns, FilesMatchWithoutSkips, Indices, LAt
  <1> QED
    BY <1>1, <1>2, <1>3, <1>4, <1>5 DEF Inv

\* A skipped L leaves the slot where it is: from here on the two loops differ.
LEMMA SkipSaveInv == ASSUME Inv, SkipSave PROVE Inv'
  <1>a. /\ stage = "save" /\ position < Len(Lvec) /\ LAt(position) < recall_at
        /\ position' = position + 1
        /\ UNCHANGED <<workers, Lvec, recall_at, stage, test_id, results, files, exit_code>>
    BY DEF SkipSave, inputs
  <1>b. position \in Nat /\ Len(Lvec) \in Nat /\ position \in Indices
    BY <1>a, LAtType DEF Inv, DriverTypeOK
  <1>1. WorkersInv'
    BY <1>a, WorkersKept DEF Inv
  <1>2. DriverTypeOK'
    BY <1>a, <1>b DEF Inv, DriverTypeOK, Indices
  <1>3. Regions'
    BY <1>a DEF Inv, Regions, RegionOver, workers
  <1>4. Phases'
    <2>1. Indices' = Indices /\ NoSkips' = NoSkips /\ \A i : Complete(i)' = Complete(i)
      BY <1>a DEF Indices, Complete, LAt, NoSkips
    <2>2. ~NoSkips
      <3>1. LAt(position) \in Nat /\ recall_at \in Nat
        BY <1>b, LAtType DEF Inv, DriverTypeOK
      <3> QED
        BY <1>a, <1>b, <3>1 DEF NoSkips
    <2> QED
      BY <1>a, <2>1, <2>2 DEF Inv, Phases
  <1>5. SavesOnlyCompleteRuns' /\ FilesMatchWithoutSkips'
    BY <1>a DEF Inv, SavesOnlyCompleteRuns, FilesMatchWithoutSkips, Indices, LAt
  <1> QED
    BY <1>1, <1>2, <1>3, <1>4, <1>5 DEF Inv

\* Without skips the slot that is saved is the one of the L in the file name.
LEMMA SaveLInv == ASSUME Inv, SaveL PROVE Inv'
  <1> DEFINE K == LAt(position)
  <1>a. /\ stage = "save" /\ position < Len(Lvec) /\ K >= recall_at
        /\ files' = [files EXCEPT ![K] = results[test_id]]
        /\ position' = position + 1 /\ test_id' = test_id + 1
        /\ UNCHANGED <<workers, Lvec, recall_at, stage, results, exit_code>>
    BY DEF SaveL, NextSlot, inputs
  <1>b. /\ position \in Nat /\ Len(Lvec) \in Nat /\ position \in Indices /\ test_id \in Nat
        /\ K \in Ls /\ K \in Nat /\ recall_at \in Nat /\ files = [L \in Ls |-> files[L]]
    BY <1>a, LAtType DEF Inv, DriverTypeOK
  <1>c. \A L \in Ls : files'[L] = IF L = K THEN results[test_id] ELSE files[L]
    BY <1>a, <1>b
  <1>d. \A i \in Indices : results[i] = Complete(i)
    BY <1>a DEF Inv, Phases
  <1>e. Indices' = Indices /\ NoSkips' = NoSkips /\ \A i : Complete(i)' = Complete(i)
    BY <1>a DEF Indices, Complete, LAt, NoSkips
  <1>1. WorkersInv'
    BY <1>a, WorkersKept DEF Inv
  <1>2. DriverTypeOK'
    <2>1. files' = [L \in Ls |-> files'[L]]
      BY <1>a, <1>b
    <2>2. position' \in 0 .. Len(Lvec) /\ test_id' \in Nat
      BY <1>a, <1>b
    <2> QED
      BY <1>a, <2>1, <2>2 DEF Inv, DriverTypeOK, Indices
  <1>3. Regions'
    BY <1>a DEF Inv, Regions, RegionOver, workers
  <1>4. Phases'
    <2>1. NoSkips => test_id + 1 = position + 1
      BY <1>a DEF Inv, Phases
    <2> QED
      BY <1>a, <1>d, <1>e, <2>1 DEF Inv, Phases
  <1>5. SavesOnlyCompleteRuns'
    BY <1>a, <1>d DEF SavesOnlyCompleteRuns, Indices, LAt, Complete
  <1>6. FilesMatchWithoutSkips'
    <2> SUFFICES ASSUME NoSkips, NEW L \in Ls, files'[L] # NotSaved PROVE files'[L].L = L
      BY <1>a, <1>e DEF FilesMatchWithoutSkips, NoSkips, Indices, LAt
    <2>1. CASE L = K
      <3>1. test_id = position
        BY <1>a DEF Inv, Phases
      <3>2. files'[L] = Complete(position)
        BY <2>1, <3>1, <1>b, <1>c, <1>d
      <3>3. ~(K < recall_at)
        BY <1>a, <1>b
      <3> QED
        BY <2>1, <3>2, <3>3 DEF Complete
    <2>2. CASE L # K
      BY <2>2, <1>c DEF Inv, FilesMatchWithoutSkips, NoSkips
    <2> QED
      BY <2>1, <2>2
  <1> QED
    BY <1>1, <1>2, <1>3, <1>4, <1>5, <1>6 DEF Inv

LEMMA FinishInv == ASSUME Inv, Finish PROVE Inv'
  <1>a. /\ stage = "save" /\ stage' = "exited"
        /\ UNCHANGED <<workers, Lvec, recall_at, test_id, position, results, files>>
    BY DEF Finish, inputs, Exit
  <1>1. WorkersInv'
    BY <1>a, WorkersKept DEF Inv
  <1>2. DriverTypeOK'
    BY <1>a DEF Inv, DriverTypeOK, Indices
  <1>3. Regions'
    BY <1>a DEF Inv, Regions, RegionOver, workers
  <1>4. Phases'
    BY <1>a DEF Phases
  <1>5. SavesOnlyCompleteRuns' /\ FilesMatchWithoutSkips'
    BY <1>a DEF Inv, Phases, SavesOnlyCompleteRuns, FilesMatchWithoutSkips, Complete, Indices, LAt
  <1> QED
    BY <1>1, <1>2, <1>3, <1>4, <1>5 DEF Inv

LEMMA StutterInv == ASSUME Inv, UNCHANGED vars PROVE Inv'
  <1>1. UNCHANGED <<workers, Lvec, recall_at, stage, test_id, position, results, files, exit_code>>
    BY DEF vars, inputs, driver
  <1>2. WorkersInv'
    BY <1>1, WorkersKept DEF Inv
  <1>3. (DriverTypeOK /\ Regions /\ Phases)'
    BY <1>1 DEF Inv, DriverTypeOK, Regions, RegionOver, Phases, NoSkips, Complete, Indices, LAt, workers
  <1>4. (SavesOnlyCompleteRuns /\ FilesMatchWithoutSkips)'
    BY <1>1 DEF Inv, SavesOnlyCompleteRuns, FilesMatchWithoutSkips, Indices, LAt
  <1> QED
    BY <1>2, <1>3, <1>4 DEF Inv

LEMMA NextInv == Inv /\ [Next]_vars => Inv'
  BY StartInv, SkipLInv, BeginLInv, WorkInv, EndLInv, AbortLInv, BeginSaveInv, SkipSaveInv, SaveLInv,
     FinishInv, StutterInv DEF Next, Main

\* The invariant holds in every behaviour of the search program.
THEOREM InvHolds == Spec => []Inv
  BY InitInv, NextInv, PTL DEF Spec

-----------------------------------------------------------------------------
\* Each scratch space is in the pool once or held by exactly one thread, for
\* every number of threads and scratch spaces: ScratchStoreManager neither loses
\* nor shares one, whether searches return or throw.
THEOREM ScratchSpacesConserved == Spec => []ScratchConserved
  <1>1. Inv => ScratchConserved
    <2> SUFFICES ASSUME Inv PROVE ScratchConserved
      OBVIOUS
    <2>1. Owned /\ WorkersTypeOK
      BY DEF Inv, WorkersInv
    <2>2. DOMAIN pool = 1 .. Len(pool)
      BY <2>1 DEF WorkersTypeOK
    <2>3. IsInjective(pool)
      BY <2>1, <2>2 DEF Owned, IsInjective
    <2>4. ASSUME NEW s \in Scratches
          PROVE  Cardinality({t \in Threads : holds[t] = s})
                   + Cardinality({i \in DOMAIN pool : pool[i] = s}) = 1
      <3> DEFINE H == {t \in Threads : holds[t] = s}
                 Q == {i \in DOMAIN pool : pool[i] = s}
      <3>1. CASE \E x \in 1 .. Len(pool) : pool[x] = s
        <4>1. PICK x \in 1 .. Len(pool) : pool[x] = s
          BY <3>1
        <4>2. Q = {x}
          BY <4>1, <2>1, <2>2 DEF Owned
        <4>3. H = {}
          BY <4>1, <2>1 DEF Owned
        <4>4. Cardinality(Q) = 1 /\ Cardinality(H) = 0
          BY <4>2, <4>3, FS_Singleton, FS_EmptySet
        <4> QED
          BY <4>4
      <3>2. CASE \E t \in Threads : holds[t] = s
        <4>1. PICK t \in Threads : holds[t] = s
          BY <3>2
        <4>2. s # NoScratch
          BY ScratchesAssumption
        <4>3. H = {t}
          BY <4>1, <4>2, <2>1 DEF Owned
        <4>4. Q = {}
          BY <4>1, <2>1, <2>2 DEF Owned
        <4>5. Cardinality(H) = 1 /\ Cardinality(Q) = 0
          BY <4>3, <4>4, FS_Singleton, FS_EmptySet
        <4> QED
          BY <4>5
      <3> QED
        BY <3>1, <3>2, <2>1 DEF Owned
    <2> QED
      BY <2>3, <2>4 DEF ScratchConserved
  <1> QED
    BY <1>1, InvHolds, PTL

\* A search reads through the context that its own thread registered, however
\* often its scratch space was used by other threads before.
THEOREM OwnContexts == Spec => []ReadsThroughOwnContext
  <1>1. Inv => ReadsThroughOwnContext
    BY DEF Inv, WorkersInv, Contexts, ReadsThroughOwnContext
  <1> QED
    BY <1>1, InvHolds, PTL

\* Files are written, and success is reported, only when every query of every
\* search was answered, for every list of list lengths, any number of queries
\* and any interleaving of the workers.
THEOREM OnlyCompleteRunsSaved == Spec => []SavesOnlyCompleteRuns
  <1>1. Inv => SavesOnlyCompleteRuns
    BY DEF Inv
  <1> QED
    BY <1>1, InvHolds, PTL

\* As long as no L is below recall_at, the saving loop writes to the files of an
\* L the results of that L.
THEOREM FilesMatchTheirL == Spec => []FilesMatchWithoutSkips
  <1>1. Inv => FilesMatchWithoutSkips
    BY DEF Inv
  <1> QED
    BY <1>1, InvHolds, PTL

\* A program that ends because a worker failed has a message to print: the
\* handler that set the flag has written it before the region ends.
THEOREM AbortsWithMessage == Spec => []AbortHasMessage
  <1>1. Inv => AbortHasMessage
    BY DEF Inv, WorkersInv, Messages, Regions, RegionOver, AbortHasMessage
  <1> QED
    BY <1>1, InvHolds, PTL
=============================================================================
