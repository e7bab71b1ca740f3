--------------------------- MODULE MCSearchDriver ---------------------------
(* Two threads share one scratch space, so that one has to wait; three
   queries for each of up to two list lengths, some of them below K. *)
EXTENDS SearchDriver

CONSTANTS t1, t2, s1

MCThreads == {t1, t2}
MCScratches == {s1}
MCLs == 1 .. 3
MCRecallAts == {2}
MCRecalls == {0, 90}
=============================================================================
