----------------------------- MODULE MCContext -----------------------------
(* Two goroutines and two Contexts around one device, one cache key. *)
EXTENDS Context
=============================================================================
