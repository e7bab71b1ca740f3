---------------------------- MODULE MCRefinement ----------------------------
(* Up to four candidates with distances from a set of three, batches of one
   and two, every refinement mode. *)
EXTENDS Refinement

MCMaxCandidates == 4
MCDists == 0 .. 2
MCKSearches == 1 .. 2
MCBatchSizes == 1 .. 2
MCStreaks == 0 .. 2
MCModes == {[kind |-> "total"], [kind |-> "early"], [kind |-> "count", value |-> 1],
            [kind |-> "ratio", value |-> 3]}
=============================================================================
