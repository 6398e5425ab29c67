------------------------------ MODULE MCBarrier ------------------------------
(* Four threads of one block that call SyncThreads up to three times each. *)
EXTENDS Barrier, TLC

Symmetry == Permutations(Thread)
=============================================================================
