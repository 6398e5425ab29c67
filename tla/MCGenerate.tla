----------------------------- MODULE MCGenerate -----------------------------
(* Two kernels with two versions each, one architecture. *)
EXTENDS Generate, TLC
CONSTANTS v1, v2
Compute == {75}
TwoKernels == {1, 2}
OneKernel == {1}
Alike == Permutations({v1, v2})
=============================================================================
