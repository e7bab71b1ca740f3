---------------------------- MODULE MCMemoryIndex ----------------------------
(* Three slots and three tags, lists of one neighbour with a slack of two, two
   threads.  The index is static, or dynamic with one or two frozen points, with
   or without concurrent consolidation: five operations are enough to insert,
   delete, consolidate, insert into the released slot and query, or to save a
   built index, load it, delete, consolidate and save with holes.  *)
EXTENDS MemoryIndex

CONSTANTS t1, t2

MCThreads == {t1, t2}
Symmetric == Permutations(MCThreads)
Mode(dynamic, conc, frozen, max_ops) ==
    [dynamic |-> dynamic, conc |-> conc, frozen |-> frozen, max_ops |-> max_ops]
MCModes == {Mode(TRUE, FALSE, 1, 5), Mode(TRUE, TRUE, 1, 4), Mode(TRUE, FALSE, 2, 4),
            Mode(FALSE, FALSE, 0, 2)}
=============================================================================
