------------------------------- MODULE MCJIT -------------------------------
(* Two goroutines and two contexts, neither of which the code tells apart; *)
(* one mishap, which may be a crash or a damaged file.                     *)
EXTENDS JIT, TLC

Alike == Permutations(Caller) \cup Permutations(Ctx)
=============================================================================
