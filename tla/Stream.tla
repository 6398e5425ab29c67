------------------------------- MODULE Stream -------------------------------
(***************************************************************************)
(* cuda.Stream: goroutines that share one stream, and the device that      *)
(* works through it.  Every load, store and compare-and-swap of the two    *)
(* flags is a step, and so is every driver call, because nothing holds a   *)
(* lock across them.  The driver (the device's queue, blocking             *)
(* synchronisation, refusal of a destroyed handle, sticky faults) is not   *)
(* part of the source and modelled from how the source uses it.            *)
(***************************************************************************)
EXTENDS Integers, FiniteSets

CONSTANTS
  Goroutine,   \* everybody who has the *Stream
  Waiters,     \* those of them that call Sync and Wait
  MaxWork      \* bound: operations ever queued on the stream

ASSUME WaitersAssumption == Waiters \subseteq Goroutine
ASSUME MaxWorkAssumption == MaxWork \in Nat

VARIABLES
  queued,      \* driver: operations put on the stream so far
  completed,   \* driver: how many of them have finished, in order
  faulted,     \* driver: the device hit a sticky fault
  destroyed,   \* driver: cuStreamDestroy calls it accepted
  poisoned,    \* Context.poisoned is set
  abandoned,   \* Stream.abandoned
  closed,      \* Stream.closed
  pc,          \* where each goroutine is, "idle" outside every method
  mark,        \* what was queued when each goroutine's last driver call began
  left,        \* the work the last cancelled Wait left behind (history)
  failed       \* a call that was to destroy the stream returned an error (history)

driver == <<queued, completed, faulted, destroyed>>
flags == <<abandoned, closed>>
streamVars == <<driver, poisoned, flags, pc, mark, left, failed>>

StreamInit ==
  /\ queued = 0
  /\ completed = 0
  /\ faulted = FALSE
  /\ destroyed = 0
  /\ poisoned = FALSE
  /\ abandoned = FALSE
  /\ closed = FALSE
  /\ pc = [g \in Goroutine |-> "idle"]
  /\ mark = [g \in Goroutine |-> 0]
  /\ left = 0
  /\ failed = FALSE

Goto(g, where) == pc' = [pc EXCEPT ![g] = where]

(* The device finishes an operation, or faults on it. *)
Complete ==
  /\ completed < queued
  /\ ~ faulted
  /\ completed' = completed + 1
  /\ UNCHANGED <<queued, faulted, destroyed, poisoned, flags, pc, mark, left, failed>>

Fault ==
  /\ completed < queued
  /\ faulted' = TRUE
  /\ UNCHANGED <<queued, completed, destroyed, poisoned, flags, pc, mark, left, failed>>

(* A method is called. *)
Call(g) ==
  /\ pc[g] = "idle"
  /\ \/ queued < MaxWork /\ Goto(g, "launch")
     \/ g \in Waiters /\ pc' \in {[pc EXCEPT ![g] = m] : m \in {"sync", "query"}}
     \/ \E m \in {"close", "closeAbandoned"} : Goto(g, m)
  /\ UNCHANGED <<driver, poisoned, flags, mark, left, failed>>

(* Context.call: bind refuses a poisoned context, or fails itself;         *)
(* otherwise the driver call is issued.                                    *)
Issued == [launch |-> "launching", sync |-> "syncing",
           query |-> "querying", destroy |-> "destroying"]

Bind(g) ==
  /\ pc[g] \in DOMAIN Issued
  /\ \/ ~ poisoned /\ Goto(g, Issued[pc[g]]) /\ UNCHANGED failed
     \/ Goto(g, "idle") /\ failed' = (failed \/ pc[g] = "destroy")
  /\ mark' = [mark EXCEPT ![g] = queued]
  /\ UNCHANGED <<driver, poisoned, flags, left>>

(* The driver answers: a sticky code is recorded by fault; another, which  *)
(* it always has for a handle that was destroyed, is returned and nothing  *)
(* has happened; otherwise the call does its work.                         *)
Fails(g, at) ==
  /\ pc[g] = at
  /\ Goto(g, "idle")
  /\ failed' = (failed \/ at = "destroying")
  /\ UNCHANGED <<driver, flags, mark, left>>

Faults(g, at) ==
  /\ faulted
  /\ poisoned' = TRUE
  /\ Fails(g, at)

Refused(g, at) ==
  /\ ~ faulted
  /\ UNCHANGED poisoned
  /\ Fails(g, at)

Answers(g, at) == pc[g] = at /\ ~ faulted /\ destroyed = 0

DriverFails(g) ==
  \E at \in {"launching", "syncing", "querying", "destroying"} :
    Faults(g, at) \/ Refused(g, at)

(* Launch, UploadAsync, DownloadAsync *)
Launched(g) ==
  /\ Answers(g, "launching")
  /\ queued' = queued + 1
  /\ Goto(g, "idle")
  /\ UNCHANGED <<completed, faulted, destroyed, poisoned, flags, mark, left, failed>>

(* cuStreamSynchronize returns when what was queued before it is done. *)
Synced(g) ==
  /\ Answers(g, "syncing")
  /\ completed >= mark[g]
  /\ Goto(g, "clear")
  /\ UNCHANGED <<driver, poisoned, flags, mark, left, failed>>

(* Done, as Wait uses it. *)
Queried(g) ==
  /\ Answers(g, "querying")
  /\ Goto(g, IF completed = queued THEN "clear" ELSE "select")
  /\ mark' = [mark EXCEPT ![g] = queued]
  /\ UNCHANGED <<driver, poisoned, flags, left, failed>>

(* Faulty variant: Wait looks only once and then waits for its context.    *)
PollNoMore(g) ==
  /\ pc[g] = "select"
  /\ UNCHANGED streamVars

(* case <-timer.C: look again. *)
PollAgain(g) ==
  /\ pc[g] = "select"
  /\ Goto(g, "query")
  /\ UNCHANGED <<driver, poisoned, flags, mark, left, failed>>

(* Faulty variant: a cancelled Wait leaves no mark.                        *)
CancelUnmarked(g) ==
  /\ pc[g] = "select"
  /\ left' = mark[g]
  /\ Goto(g, "idle")
  /\ UNCHANGED <<driver, poisoned, flags, mark, failed>>

(* case <-ctx.Done() *)
Cancel(g) ==
  /\ pc[g] = "select"
  /\ abandoned' = TRUE
  /\ left' = mark[g]
  /\ Goto(g, "idle")
  /\ UNCHANGED <<driver, poisoned, closed, mark, failed>>

(* The stream drained: Sync and Wait end with abandoned.Store(false). *)
Clear(g) ==
  /\ pc[g] = "clear"
  /\ abandoned' = FALSE
  /\ Goto(g, "idle")
  /\ UNCHANGED <<driver, poisoned, closed, mark, left, failed>>

(* Close and CloseAbandoned up to destroy. *)
LoadClosed(g) ==
  /\ pc[g] \in {"close", "closeAbandoned"}
  /\ Goto(g, IF closed THEN "idle" ELSE IF pc[g] = "close" THEN "checkBusy" ELSE "cas")
  /\ UNCHANGED <<driver, poisoned, flags, mark, left, failed>>

LoadAbandoned(g) ==
  /\ pc[g] = "checkBusy"
  /\ Goto(g, IF abandoned THEN "idle" ELSE "casClean")
  /\ UNCHANGED <<driver, poisoned, flags, mark, left, failed>>

(* Faulty variant: destroy sets the flag without a compare-and-swap.       *)
SetClosed(g) ==
  /\ pc[g] \in {"cas", "casClean"}
  /\ closed' = TRUE
  /\ Goto(g, "destroy")
  /\ UNCHANGED <<driver, poisoned, abandoned, mark, left, failed>>

SwapClosed(g) ==
  /\ pc[g] \in {"cas", "casClean"}
  /\ closed' = TRUE
  /\ Goto(g, IF closed THEN "idle" ELSE "destroy")
  /\ UNCHANGED <<driver, poisoned, abandoned, mark, left, failed>>

Destroyed(g) ==
  /\ pc[g] = "destroying"
  /\ ~ faulted
  /\ destroyed' = destroyed + 1
  /\ Goto(g, "idle")
  /\ UNCHANGED <<queued, completed, faulted, poisoned, flags, mark, left, failed>>

Run(g) ==
  \/ Bind(g) \/ DriverFails(g) \/ Launched(g) \/ Synced(g) \/ Queried(g)
  \/ PollAgain(g) \/ Clear(g) \/ LoadClosed(g)
  \/ LoadAbandoned(g) \/ SwapClosed(g) \/ Destroyed(g)

StreamNext ==
  Complete \/ Fault \/ \E g \in Goroutine : Call(g) \/ Run(g) \/ Cancel(g)

(* The device works through its queue until it faults, and goroutines run. *)
(* Nobody promises to cancel a context: Cancel is not fair, so a Wait must *)
(* return through its timer.                                               *)
Fairness ==
  /\ WF_streamVars(Complete)
  /\ \A g \in Goroutine : WF_streamVars(Run(g))

StreamSpec == StreamInit /\ [][StreamNext]_streamVars /\ Fairness

----------------------------------------------------------------------------
Locations ==
  {"idle", "clear", "select", "close", "closeAbandoned", "checkBusy", "cas",
   "casClean", "launch", "sync", "query", "destroy", "launching", "syncing",
   "querying", "destroying"}

TypeOK ==
  /\ queued \in Nat
  /\ completed \in 0..queued
  /\ pc \in [Goroutine -> Locations]
  /\ mark \in [Goroutine -> 0..queued]
  /\ left \in 0..queued
  /\ faulted \in BOOLEAN /\ poisoned \in BOOLEAN
  /\ abandoned \in BOOLEAN /\ closed \in BOOLEAN /\ failed \in BOOLEAN
  /\ destroyed \in 0..1

(* Close refuses a stream whose Wait was cancelled and that has not        *)
(* drained since: when Close finds the mark clear, all the work a          *)
(* cancelled Wait left behind has finished.                                *)
CloseSeesTheTruth ==
  [][\A g \in Goroutine :
       LoadAbandoned(g) /\ pc'[g] = "casClean" => completed >= left]_streamVars

(* However many Close and CloseAbandoned race, a closed stream is a stream *)
(* the driver destroyed, or one that some goroutine is just destroying, or *)
(* one whose destroy failed and whose caller was told: no stream is left   *)
(* to the driver behind nothing but successes.  And the driver is never    *)
(* handed a stream it has already destroyed.                               *)
ClosedMeansDestroyed ==
  LET destroying == \E g \in Goroutine : pc[g] \in {"destroy", "destroying"}
  IN /\ closed => destroyed = 1 \/ destroying \/ failed
     /\ destroyed = 1 => closed
     /\ destroyed <= 1

(* Every method returns: a Wait because it polls a device that makes       *)
(* progress or reports its fault, a Sync likewise.                         *)
EveryCallReturns ==
  \A g \in Goroutine : pc[g] # "idle" ~> pc[g] = "idle"

----------------------------------------------------------------------------
(* Why they hold: the parts of the inductive invariant.                    *)

(* The compare-and-swap lets one goroutine on to destroy, and only while   *)
(* the driver still has the stream.                                        *)
Destroyer == {g \in Goroutine : pc[g] \in {"destroy", "destroying"}}

OneDestroyer ==
  /\ \A g, h \in Destroyer : g = h
  /\ Destroyer # {} => closed /\ destroyed = 0

(* What a waiter knows: the work a cancelled Wait left behind was queued   *)
(* before the waiter's last look, and about to clear the mark it has seen  *)
(* that work finished.                                                     *)
Waiting == {"sync", "query", "syncing", "querying", "select", "clear"}

WaitersKnow ==
  /\ \A g \in Goroutine : pc[g] \in Waiting => g \in Waiters
  /\ \A g \in Waiters : left <= mark[g]
  /\ \A g \in Goroutine : pc[g] = "clear" => mark[g] <= completed
  /\ ~ abandoned => left <= completed

IInv == TypeOK /\ OneDestroyer /\ ClosedMeansDestroyed
=============================================================================
