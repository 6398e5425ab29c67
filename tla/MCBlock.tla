------------------------------- MODULE MCBlock -------------------------------
(* Three threads, a warp of two and a warp of one, that call the barrier   *)
(* and the warp, twice in the warp of two, and may begin with a tile, a    *)
(* block size or another vote.                                             *)
EXTENDS Block

TwoWarps == [t \in {1, 2, 3} |-> IF t = 3 THEN 1 ELSE 0]

Call(kind, arg) == [kind |-> kind, arg |-> arg]
Sync == Call("sync", "sync")
Shuffle == Call("warp", "Shuffle")
Ballot == Call("warp", "Ballot")
Static == Call("tile", "f32x4")
Sized == Call("dynTile", "f32x8")
Assume == Call("assume", 2)
RightSize == Call("assume", 3)
Dies == Call("panic", 0)

MCCalls == {Sync, Shuffle, Ballot, Static, Sized, Assume, RightSize, Dies}
MCMay == <<<<MCCalls, {Sync, Shuffle}>>,
           <<{Static, Ballot, Sync, Shuffle}, {Sync, Shuffle}>>,
           <<{Sync, Shuffle, Static, Sized, Dies}>>>>
=============================================================================
