--------------------------- MODULE MCNeighborCache ---------------------------
(* Seven nodes and two graphs; lists of up to four nodes with repetitions,    *)
(* and one that is too long for the offsets.  The hash values lie at the end  *)
(* of the tables, so that collisions wrap around.  Batches of three nodes are *)
(* submitted in rounds of two.                                                *)
EXTENDS NeighborCache

CONSTANTS t1, t2

MCThreads == {t1, t2}
MCGraphs == {[v \in Ids |-> CASE v = 0 -> <<3, 1>> [] v = 1 -> <<4, 0>> [] v = 2 -> <<6, 6>>
                              [] v = 3 -> <<5>> [] v = 4 -> <<6>> [] v = 5 -> <<>> [] v = 6 -> <<2>>],
             [v \in Ids |-> IF v = 6 THEN <<>> ELSE <<6, v + 1>>]}
MCLimits == {0, 1, 3, 4, 8}
MCHops == {1, 2}
MCMedoidLists == {<<0>>, <<4, 0, 4>>}
MCEngines == {"libaio", "io_uring"}
MCNodes == {0, 1, 6}
MCHashes == {[x \in Ids |-> IF x \in S THEN 4 ELSE 3] : S \in SUBSET MCNodes}
MCFiles == {<<6>>, <<6, 6>>, <<1, 0>>, <<6, 0, 1>>, <<0, 6, 0>>, <<1, 6, 0, 2>>, <<6, 1, 0, 1>>, <<4, 3, 2, 1, 0>>}
MCReloads == {<<>>, <<1>>, <<6, 0>>}
=============================================================================
