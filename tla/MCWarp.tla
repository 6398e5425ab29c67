------------------------------- MODULE MCWarp -------------------------------
(* A short warp: shuffles from a lane that is there and from one that is   *)
(* not, and a vote.                                                        *)
EXTENDS Warp

TwoCalls ==
  {[op |-> "Shuffle", src |-> 1, val |-> 5], [op |-> "Vote", src |-> 0, val |-> 1]}
=============================================================================
