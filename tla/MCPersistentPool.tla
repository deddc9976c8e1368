-------------------------- MODULE MCPersistentPool --------------------------
(* Small instances of the worker pool.                                     *)
EXTENDS PersistentPool, TLC

CONSTANTS t1, t2, t3

TwoThreads    == {t1, t2}
ThreeThreads  == {t1, t2, t3}
ThreeSymmetry == Permutations(ThreeThreads)
=============================================================================
