----------------------------- MODULE Rendezvous -----------------------------
(***************************************************************************)
(* What a barrier of package gpu promises its threads, with no counter, no *)
(* mutex and no generation: the threads that wait are let go together, at  *)
(* the moment every thread still in the kernel is waiting, and not before. *)
(* A thread that leaves the kernel stops being waited for; a thread may    *)
(* give up, but only on a rendezvous that has not happened.                *)
(***************************************************************************)
CONSTANT Thread

VARIABLES
  status,   \* "out" of the barrier, "in" it, "freed" from it or "gone"
  gaveUp    \* the threads that gave up a wait at least once

rvars == <<status, gaveUp>>

Init ==
  /\ status = [t \in Thread |-> "out"]
  /\ gaveUp = {}

(* Everybody who has not left is waiting. *)
AllIn(st) == \A t \in Thread : st[t] \in {"in", "gone"}

Free(st) == [t \in Thread |-> IF st[t] = "in" THEN "freed" ELSE st[t]]

(* A thread starts to wait while somebody else has not arrived. *)
Enter(t) ==
  /\ status[t] = "out"
  /\ status' = [status EXCEPT ![t] = "in"]
  /\ ~ AllIn(status')
  /\ UNCHANGED gaveUp

(* The last thread to arrive frees the others and does not wait itself. *)
Complete(t) ==
  /\ status[t] = "out"
  /\ AllIn([status EXCEPT ![t] = "in"])
  /\ status' = Free(status)
  /\ UNCHANGED gaveUp

Return(t) ==
  /\ status[t] = "freed"
  /\ status' = [status EXCEPT ![t] = "out"]
  /\ UNCHANGED gaveUp

GiveUp(t) ==
  /\ status[t] = "in"
  /\ status' = [status EXCEPT ![t] = "out"]
  /\ gaveUp' = gaveUp \union {t}

(* A departure frees the others when it was all they waited for. *)
Leave(t) ==
  /\ status[t] = "out"
  /\ LET after == [status EXCEPT ![t] = "gone"]
     IN status' = IF AllIn(after) THEN Free(after) ELSE after
  /\ UNCHANGED gaveUp

Next ==
  \E t \in Thread :
    Enter(t) \/ Complete(t) \/ Return(t) \/ GiveUp(t) \/ Leave(t)

Spec == Init /\ [][Next]_rvars
=============================================================================
