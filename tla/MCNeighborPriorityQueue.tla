---------------------- MODULE MCNeighborPriorityQueue ----------------------
(* Three nodes, two distances (so that ties happen) and lists of length 1 and 2. *)
EXTENDS NeighborPriorityQueue

MCIds == 0 .. 2
MCDists == 0 .. 1
MCCapacities == 1 .. 2
=============================================================================
