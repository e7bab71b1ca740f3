-------------------------- MODULE MCCandidateStages --------------------------
(* Up to three partitions, every selection of pairs and all flags; three      *)
(* nodes in one to five buckets; two threads; six records of three      *)
(* sizes, one larger than a new buffer, two of one pair.                      *)
EXTENDS CandidateStages

CONSTANTS t1, t2, r1, r2, r3, r4, r5, r6, old

MCPs == 1 .. 3
MCThreads == {t1, t2}
MCNs == {3}
MCBs == {1, 2, 3, 5}
MCRecords == {r1, r2, r3, r4, r5, r6}
MCOrigin == [r \in MCRecords |-> CASE r = r1 -> Self [] r \in {r2, r3} -> <<0, 1>>
                                   [] r = r4 -> <<0, 2>> [] r \in {r5, r6} -> <<1, 2>>]
MCGid == [r \in MCRecords \cup {old} |->
            CASE r = r1 -> 0 [] r = r2 -> 1 [] r = r3 -> 0 [] r \in {r4, r5, r6} -> 2 [] OTHER -> 1]
MCCount == [r \in MCRecords \cup {old} |-> CASE r = r1 -> 2 [] r = r3 -> 9 [] OTHER -> 1]
=============================================================================
