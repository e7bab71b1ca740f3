---------------------------- MODULE MCBeamSearch ----------------------------
(* Four nodes of out-degree two, all 81 such graphs; no cache, a cache of one
   node and a cache of two. *)
EXTENDS BeamSearch

MCNodes == 0 .. 3
MCGraphs == {g \in [MCNodes -> SUBSET MCNodes] :
                \A n \in MCNodes : n \notin g[n] /\ Cardinality(g[n]) = 2}
MCCaches == {{}, {1}, {0, 2}}
MCLists == 1 .. 3
MCBeams == 1 .. 3
MCIoLimits == {0, 1, 4}
=============================================================================
