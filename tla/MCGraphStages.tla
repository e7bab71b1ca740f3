---------------------------- MODULE MCGraphStages ----------------------------
(* Pruning is given four nodes on a line; node 0 has every list of two ids and
   every list of three different ones, one id being no node, the others a few
   lists, so that every order of occlusion, repeated candidates and empty rows
   occur.  The metadata buffer holds two or three rows; the memory left makes
   the budget wrap around, vanish, admit single nodes only, and admit several.

   reverse_edge_logic is given the graphs that result, and the graphs of
   three nodes with the lists in Lists3: self-loops and repeated neighbours,
   and one list with an id that is no node; and the empty graph.  The
   budgets leave room for no stripe, for stripes of one or two nodes, and for
   all nodes. *)
EXTENDS GraphStages

Lists0 == UNION {[1 .. n -> 0 .. 4] : n \in 0 .. 2}
             \cup {s \in [1 .. 3 -> 0 .. 4] : IsInjective(s)}
Codes4 == {<<0, 1, 2, 3>>, <<2, 3, 1, 3>>}
Line(s) == [v \in 0 .. Len(s) - 1 |-> s[v + 1]]
MCFiles ==
    {[lists |-> Line(<<a, b, c, <<1, 0>> >>), code |-> Line(s)] :
        a \in Lists0, b \in {<<>>, <<2, 3, 0>>}, c \in {<<>>, <<3>>}, s \in Codes4}
    \cup {[lists |-> Line(<<<<>>, <<>>, <<>>>>), code |-> Line(<<1, 0, 3>>)],
          [lists |-> <<>>, code |-> <<>>]}

MCPruneOptions ==
    {[R |-> o[1], T |-> o[2], avail |-> o[3], chunk_bytes |-> o[4]] :
        o \in {<<1, 1, 36, 0>>, <<2, 1, 36, 0>>, <<2, 1, 20, 0>>, <<2, 1, 4, 0>>,
               <<2, 1, 8, 0>>, <<2, 1, 0, 0>>, <<2, 1, 160, 0>>, <<2, 1, 160, 9>>, <<2, 2, 36, 0>>}}

Lists3 == {<<>>, <<3>>, <<0>>, <<1>>, <<0, 1>>, <<2, 0>>, <<1, 1>>, <<1, 2>>}
MCGraphs == [0 .. 2 -> Lists3] \cup {<<>>}
MCStripeOptions ==
    {[budget |-> o[1], max_mib |-> o[2]] : o \in {<<16, 0>>, <<24, 3>>, <<26, 0>>, <<40, 0>>}}
=============================================================================
