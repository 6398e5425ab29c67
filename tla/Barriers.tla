------------------------------ MODULE Barriers ------------------------------
(***************************************************************************)
(* The two reusable barriers of package gpu as values: what each critical  *)
(* section of gpu.barrier and gpu.warpBarrier does to the struct its mutex *)
(* guards.  A generation (a barrierGen, a warpGen) is its position in the    *)
(* order in which generations are opened: `cur' numbers the one being      *)
(* assembled, and the channel of generation g is closed exactly when       *)
(* g < cur.                                                                *)
(***************************************************************************)
EXTENDS Integers, Sequences

----------------------------------------------------------------------------
(* gpu.barrier: n threads still in the kernel, count of them arrived.      *)

NewBarrier(size) == [n |-> size, count |-> 0, cur |-> 0]

ReleaseKeepsCount(b) == [b EXCEPT !.cur = @ + 1]   \* faulty: no reset
ReleaseLocked(b) == [b EXCEPT !.count = 0, !.cur = @ + 1]

(* The first half of wait: the arrival is counted, and it releases the     *)
(* generation when it is the last one missing.                             *)
AssembledOneShort(b) == b.count + 1 >= b.n          \* faulty: off by one
Assembled(b) == b.count >= b.n

Arrive(b) ==
  LET joined == [b EXCEPT !.count = @ + 1]
  IN IF Assembled(joined) THEN ReleaseLocked(joined) ELSE joined

(* The second half of wait, after its timer fired: a waiter whose          *)
(* generation is still being assembled takes its arrival back.             *)
TakeBackNothing(b) == b                             \* faulty: forgotten
TakeBack(b) == [b EXCEPT !.count = @ - 1]

(* abandon: one participant fewer, which may complete the generation.      *)
AbandonSilently(b) == [b EXCEPT !.n = @ - 1]        \* faulty: no release
Abandon(b) ==
  LET left == [b EXCEPT !.n = @ - 1]
  IN IF left.n > 0 /\ Assembled(left) THEN ReleaseLocked(left) ELSE left

----------------------------------------------------------------------------
(* gpu.warpBarrier: the same, and which lanes have arrived; `opened' holds *)
(* the mask every released generation was published with (warpGen.mask).   *)

NewWarpBarrier(size) ==
  [n |-> size, count |-> 0, mask |-> {}, cur |-> 0, opened |-> <<>>]

WarpReleaseKeepsMask(b) ==                          \* faulty: no reset
  [b EXCEPT !.count = 0, !.cur = @ + 1, !.opened = Append(@, b.mask)]
WarpReleaseLocked(b) ==
  [b EXCEPT !.count = 0, !.mask = {}, !.cur = @ + 1,
            !.opened = Append(@, b.mask)]

WarpArrive(b, lane) ==
  LET joined == [b EXCEPT !.count = @ + 1, !.mask = @ \union {lane}]
  IN IF Assembled(joined) THEN WarpReleaseLocked(joined) ELSE joined

WarpTakeBack(b, lane) == [b EXCEPT !.count = @ - 1, !.mask = @ \ {lane}]

WarpAbandon(b) ==
  LET left == [b EXCEPT !.n = @ - 1]
  IN IF left.n > 0 /\ Assembled(left) THEN WarpReleaseLocked(left) ELSE left

(* The mask of a generation whose channel is closed.                       *)
OpenedMask(b, gen) == b.opened[gen + 1]

=============================================================================
