---------------------------- MODULE ReverseEdges ----------------------------
(***************************************************************************)
(* construction/reverse_edge_logic.cpp: the pruned graph is turned into    *)
(* symmetric candidate lists.  One pass counts the candidates of every     *)
(* node, the counts give each node a segment of cand.ids, and the segments *)
(* are filled stripe by stripe: each stripe scans the whole graph again    *)
(* and writes the ids that fall into it through one cursor per node.       *)
(*                                                                         *)
(* Memory is counted in ids of 4 bytes.  Failing system calls end the      *)
(* program and are left out.                                               *)
(***************************************************************************)
EXTENDS Integers, Sequences, FiniteSets, SequencesExt

CONSTANTS Graphs,         \* adjacency lists, [0 .. N-1 -> Seq(Nat)], N = 0 included
          StripeOptions,  \* [budget, max_mib]: mem_budget_bytes - safety, and the
                          \* value of --max-mib, 0 for no cap
          Slack           \* SMALL_SLACK

ASSUME GraphsAssumption ==
    \A g \in Graphs : /\ IsFiniteSet(DOMAIN g) /\ DOMAIN g = 0 .. Cardinality(DOMAIN g) - 1
                      /\ \A v \in DOMAIN g : g[v] \in Seq(Nat)
ASSUME OptionsAssumption == StripeOptions \subseteq [budget : Nat, max_mib : Nat] /\ Slack \in Nat

VARIABLES graph, budget, max_mib,   \* inputs
          pc,        \* "start", "count", "offsets", "stripes", "scan", "done" or a failure
          u,         \* the node of the scan
          cnt,       \* cnt[v]: candidates of v
          off_elems, \* off_elems[v]: start of v's segment, 0 .. N
          ids,       \* the ids in cand.ids
          lo, hi,    \* the stripe [lo, hi)
          buf,       \* the stripe's ids, indexed from 0
          cur        \* cur_bytes: the next free place of every node of the stripe

inputs == <<graph, budget, max_mib>>
vars == <<graph, budget, max_mib, pc, u, cnt, off_elems, ids, lo, hi, buf, cur>>

N == Cardinality(DOMAIN graph)

-----------------------------------------------------------------------------
Given(g, o) ==
    /\ graph = g /\ budget = o.budget /\ max_mib = o.max_mib
    /\ pc = "start"
    /\ u = 0 /\ cnt = <<>> /\ off_elems = <<>> /\ ids = <<>>
    /\ lo = 0 /\ hi = 0 /\ buf = <<>> /\ cur = <<>>

Init == \E g \in Graphs, o \in StripeOptions : Given(g, o)

\* Lines 296-345 and 520-524: pass 0 counts the records and refuses an empty graph.
Open ==
    /\ pc = "start"
    /\ pc' = IF N = 0 THEN "empty graph" ELSE "count"
    /\ u' = 0 /\ cnt' = [v \in 0 .. N - 1 |-> 0]
    /\ lo' = 0 /\ hi' = 0 /\ buf' = <<>> /\ cur' = <<>>
    /\ UNCHANGED <<inputs, off_elems, ids>>

Occurrences(v, s) == Cardinality({i \in DOMAIN s : s[i] = v})

\* Lines 345-363: the record of u counts for u and for each of its neighbours.
ForwardOnly == [cnt EXCEPT ![u] = @ + Len(graph[u])]
Counted ==
    [v \in DOMAIN cnt |-> cnt[v] + Occurrences(v, graph[u])
                          + (IF v = u THEN Len(graph[u]) ELSE 0)]

CountNode ==
    /\ pc = "count" /\ u < N
    /\ IF \A i \in DOMAIN graph[u] : graph[u][i] < N
       THEN cnt' = Counted /\ u' = u + 1 /\ UNCHANGED pc
       ELSE pc' = "id out of range" /\ UNCHANGED <<cnt, u>>
    /\ UNCHANGED <<inputs, off_elems, ids, lo, hi, buf, cur>>

-----------------------------------------------------------------------------
\* Lines 367-371.
PrefixSums == LET off[v \in 0 .. N] == IF v = 0 THEN 0 ELSE off[v - 1] + cnt[v - 1] IN off

\* Lines 373-437: cand.idx gets the offsets and counts, cand.ids its full length.
WriteIndex ==
    /\ pc = "count" /\ u = N
    /\ off_elems' = PrefixSums
    /\ ids' = [p \in 0 .. PrefixSums[N] - 1 |-> 0]
    /\ pc' = "offsets"
    /\ UNCHANGED <<inputs, u, cnt, lo, hi, buf, cur>>

\* Line 440.
IdsOf(a, b) == off_elems[b] - off_elems[a]

\* Lines 442-464: what is left for the ids of a stripe of U nodes, after the
\* arrays over all nodes, 8 bytes per node of the stripe and the slack.
DynOverhead(U) == N + 2 * (N + 1) + 2 * U + Slack
AvailForUIgnoringU(U) == ((budget - DynOverhead(0)) * 3) \div 4
AvailForU(U) ==
    LET filled == ((budget - DynOverhead(U)) * 3) \div 4
    IN  IF budget <= DynOverhead(U) THEN 0
        ELSE IF max_mib # 0 /\ max_mib < filled THEN max_mib
        ELSE filled

\* Lines 466-486: only the first node is tested.
CheckFeasible ==
    /\ pc = "offsets"
    /\ pc' = IF AvailForU(1) = 0 \/ IdsOf(0, 1) > AvailForU(1)
             THEN "too little memory" ELSE "stripes"
    /\ UNCHANGED <<inputs, u, cnt, off_elems, ids, lo, hi, buf, cur>>

\* Lines 488-511: binary search for the end of the stripe that starts at a.
PickHi(a) ==
    LET search[r \in [L : a + 1 .. N + 1, R : a .. N, best : a + 1 .. N]] ==
          LET mid == (r.L + r.R) \div 2
              fits == AvailForU(mid - a) # 0 /\ IdsOf(a, mid) <= AvailForU(mid - a)
          IN  IF r.L > r.R THEN r.best
              ELSE IF fits THEN search[[r EXCEPT !.best = mid, !.L = mid + 1]]
              ELSE search[[r EXCEPT !.R = mid - 1]]
    IN  search[[L |-> a + 1, R |-> N, best |-> a + 1]]

\* Lines 529-540: a stripe without ids is passed over.
SkipStripe ==
    /\ pc = "stripes" /\ lo < N
    /\ IdsOf(lo, PickHi(lo)) = 0
    /\ lo' = PickHi(lo)
    /\ UNCHANGED <<inputs, pc, u, cnt, off_elems, ids, hi, buf, cur>>

\* Lines 531-567: resize() keeps what the buffer held before.
BeginStripe ==
    /\ pc = "stripes" /\ lo < N
    /\ LET h == PickHi(lo)
       IN  /\ IdsOf(lo, h) > 0
           /\ hi' = h
           /\ buf' = [p \in 0 .. IdsOf(lo, h) - 1 |-> IF p \in DOMAIN buf THEN buf[p] ELSE 0]
           /\ cur' = [v \in lo .. h - 1 |-> IdsOf(lo, v)]
    /\ u' = 0
    /\ pc' = "scan"
    /\ UNCHANGED <<inputs, cnt, off_elems, ids, lo>>

-----------------------------------------------------------------------------
InStripe(v) == lo <= v /\ v < hi

\* Lines 577-586: the neighbours of u are copied into u's own segment.
CopiedToStart(b) ==
    [p \in DOMAIN b |-> IF p - IdsOf(lo, u) \in 0 .. Len(graph[u]) - 1
                        THEN graph[u][p - IdsOf(lo, u) + 1] ELSE b[p]]
CopiedForward(b) ==
    [p \in DOMAIN b |-> IF p - cur[u] \in 0 .. Len(graph[u]) - 1
                        THEN graph[u][p - cur[u] + 1] ELSE b[p]]
ForwardCursor == [cur EXCEPT ![u] = @ + Len(graph[u])]
Forward == IF InStripe(u) THEN [buf |-> CopiedForward(buf), cur |-> ForwardCursor, ok |-> TRUE]
                          ELSE [buf |-> buf, cur |-> cur, ok |-> TRUE]

\* Lines 587-598: u is added to the segment of its neighbour v.
AddReverse(s, v) ==
    IF ~s.ok \/ ~InStripe(v) THEN s
    ELSE IF s.cur[v] + 1 > IdsOf(lo, hi) THEN [s EXCEPT !.ok = FALSE]
    ELSE [s EXCEPT !.buf[s.cur[v]] = u, !.cur[v] = @ + 1]

\* Lines 569-599: one record of the scan.
ScanNode ==
    /\ pc = "scan" /\ u < N
    /\ LET s == FoldLeft(AddReverse, Forward, graph[u])
       IN  /\ buf' = s.buf /\ cur' = s.cur
           /\ pc' = IF s.ok THEN pc ELSE "cursor overflow"
    /\ u' = u + 1
    /\ UNCHANGED <<inputs, cnt, off_elems, ids, lo, hi>>

\* Lines 602-637: the stripe is written if every cursor has reached the end of
\* its segment.
AllFilled == \A v \in DOMAIN cur : cur[v] = IdsOf(lo, v + 1)
WriteStripe ==
    /\ pc = "scan" /\ u = N
    /\ IF AllFilled
       THEN /\ ids' = [p \in DOMAIN ids |-> IF p - off_elems[lo] \in DOMAIN buf
                                            THEN buf[p - off_elems[lo]] ELSE ids[p]]
            /\ lo' = hi
            /\ pc' = "stripes"
       ELSE pc' = "stripe fill mismatch" /\ UNCHANGED <<ids, lo>>
    /\ UNCHANGED <<inputs, u, cnt, off_elems, hi, buf, cur>>

\* Lines 638-641.
Finish ==
    /\ pc = "stripes" /\ lo = N
    /\ pc' = "done"
    /\ UNCHANGED <<inputs, u, cnt, off_elems, ids, lo, hi, buf, cur>>

Next ==
    \/ Open \/ CountNode \/ WriteIndex \/ CheckFeasible
    \/ SkipStripe \/ BeginStripe \/ ScanNode \/ WriteStripe \/ Finish

Spec == Init /\ [][Next]_vars

-----------------------------------------------------------------------------
Slice(v) == [i \in 1 .. cnt[v] |-> ids[off_elems[v] + i - 1]]

\* The purpose stated at the top of the file ("if u -> v, ensure v -> u"): when
\* the program ends, the segment that cand.idx gives a node holds each of its
\* out- and in-neighbours as often as the graph has the edge, and nothing else,
\* however the nodes were cut into stripes.
CandidatesSymmetric ==
    pc = "done" =>
        \A v, w \in 0 .. N - 1 :
            Occurrences(w, Slice(v)) = Occurrences(w, graph[v]) + Occurrences(v, graph[w])

\* The copy at line 584 is not checked and the test at line 593 only looks at the
\* end of the whole stripe: no cursor may leave its own segment during a scan,
\* so that no id overwrites one of the next node.  In particular neither of the
\* two fatal errors of the fill can occur.
CursorsStayInSegments ==
    /\ pc \notin {"cursor overflow", "stripe fill mismatch"}
    /\ pc = "scan" => \A v \in DOMAIN cur : IdsOf(lo, v) <= cur[v] /\ cur[v] <= IdsOf(lo, v + 1)

Fits(a, b) == LET U == b - a
              IN  /\ budget > N + 2 * (N + 1) + 2 * U + Slack
                  /\ 4 * IdsOf(a, b) <= 3 * (budget - (N + 2 * (N + 1) + 2 * U + Slack))
                  /\ max_mib # 0 => IdsOf(a, b) <= max_mib

\* A stripe of more than one node keeps to the budget and to --max-mib with the
\* overhead of its own size counted, and could not take another node: each node
\* more saves scans of the whole graph.  (A single node that does not fit gets a
\* stripe all the same, unless it is node 0.)
StripesFitAndAreMaximal ==
    pc = "scan" => /\ hi - lo > 1 => Fits(lo, hi)
                   /\ \A b \in hi + 1 .. N : ~Fits(lo, b)
=============================================================================
