------------------------------ MODULE MCRunCPU ------------------------------
(* Three workers, grids of up to four blocks. *)
EXTENDS RunCPU
=============================================================================
