------------------------------ MODULE MCStream ------------------------------
(* Two goroutines share a stream; one of them waits, both launch and close. *)
EXTENDS Stream
=============================================================================
