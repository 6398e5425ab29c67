------------------------------- MODULE Barrier -------------------------------
(***************************************************************************)
(* gpu.barrier under its threads: Ctx.SyncThreads and the end of a thread. *)
(* Every step is one critical section of barrier.mu, or one of the steps   *)
(* between two of them: the waiter's select seeing the closed channel, or  *)
(* its timer.  The timer may fire at any time, because nothing in the code *)
(* relates it to the speed of the other threads; after it fired the        *)
(* barrier may still be released before the waiter has the mutex again.    *)
(***************************************************************************)
EXTENDS Barriers, FiniteSets

CONSTANTS
  Thread,     \* the threads of one block
  MaxCalls    \* bound: SyncThreads calls one thread makes

ASSUME ThreadAssumption == IsFiniteSet(Thread) /\ Thread # {}
ASSUME MaxCallsAssumption == MaxCalls \in Nat

VARIABLES
  bar,       \* blockState.bar
  pc,        \* where each thread is
  gen,       \* the `gen := b.cur' of the last wait of each thread
  gaveUp,    \* threads whose wait returned false, which SyncThreads reports
  calls      \* how many SyncThreads calls each thread has begun (history)

vars == <<bar, pc, gen, gaveUp, calls>>

Init ==
  /\ bar = NewBarrier(Cardinality(Thread))
  /\ pc = [t \in Thread |-> "kernel"]
  /\ gen = [t \in Thread |-> 0]
  /\ gaveUp = {}
  /\ calls = [t \in Thread |-> 0]

(* SyncThreads up to the unlock: the arrival.  The thread that completes   *)
(* the generation goes straight on.                                        *)
Wait(t) ==
  /\ pc[t] = "kernel"
  /\ calls[t] < MaxCalls
  /\ calls' = [calls EXCEPT ![t] = @ + 1]
  /\ gen' = [gen EXCEPT ![t] = bar.cur]
  /\ bar' = Arrive(bar)
  /\ pc' = [pc EXCEPT ![t] = IF bar'.cur = bar.cur THEN "waiting" ELSE "kernel"]
  /\ UNCHANGED gaveUp

(* case <-gen.done *)
Wake(t) ==
  /\ pc[t] = "waiting"
  /\ gen[t] # bar.cur
  /\ pc' = [pc EXCEPT ![t] = "kernel"]
  /\ UNCHANGED <<bar, gen, gaveUp, calls>>

(* case <-timer.C: select may take it even when the channel is closed. *)
TimerFires(t) ==
  /\ pc[t] = "waiting"
  /\ pc' = [pc EXCEPT ![t] = "expired"]
  /\ UNCHANGED <<bar, gen, gaveUp, calls>>

(* The critical section behind the timer, and the report of SyncThreads.   *)
Expire(t) ==
  /\ pc[t] = "expired"
  /\ pc' = [pc EXCEPT ![t] = "kernel"]
  /\ IF gen[t] # bar.cur
       THEN UNCHANGED <<bar, gaveUp>>
       ELSE /\ bar' = TakeBack(bar)
            /\ gaveUp' = gaveUp \union {t}
  /\ UNCHANGED <<gen, calls>>

(* The deferred bar.abandon() of a thread that returned or panicked. *)
Leave(t) ==
  /\ pc[t] = "kernel"
  /\ pc' = [pc EXCEPT ![t] = "left"]
  /\ bar' = Abandon(bar)
  /\ UNCHANGED <<gen, gaveUp, calls>>

Step(t) == Wait(t) \/ Wake(t) \/ TimerFires(t) \/ Expire(t) \/ Leave(t)

Next == \E t \in Thread : Step(t)

Spec == Init /\ [][Next]_vars

----------------------------------------------------------------------------
TypeOK ==
  /\ bar \in [n : Nat, count : Nat, cur : Nat]
  /\ pc \in [Thread -> {"kernel", "waiting", "expired", "left"}]
  /\ gen \in [Thread -> Nat]
  /\ gaveUp \in SUBSET Thread
  /\ calls \in [Thread -> Nat]

Live == {t \in Thread : pc[t] # "left"}
Blocked == {t \in Thread : pc[t] \in {"waiting", "expired"}}
Waiting == {t \in Blocked : gen[t] = bar.cur}

(* The two counters are the two sets they stand for, at every moment the   *)
(* mutex is free: whatever timers fire and whoever leaves, no arrival is   *)
(* counted twice, left behind by a waiter that gave up, or carried into    *)
(* the next generation (barrier.wait, releaseLocked, abandon).             *)
CountersExact ==
  /\ bar.count = Cardinality(Waiting)
  /\ bar.n = Cardinality(Live)

(* No lost release: while anybody waits in the generation being assembled, *)
(* some thread of the block has neither arrived nor left.  The last arrival*)
(* and the last departure both release.                                    *)
NoLostRelease == Waiting # {} => Waiting # Live

(* The barrier is reusable: a thread still in the kernel that never gave   *)
(* up is in step with the barrier.  It has begun exactly as many calls as  *)
(* generations were released, plus the one it waits in; in particular a    *)
(* generation is never released again before all its sleepers woke up.     *)
InStep ==
  \A t \in Live \ gaveUp :
    IF t \in Waiting
      THEN calls[t] = bar.cur + 1
      ELSE /\ calls[t] = bar.cur
           /\ t \in Blocked => gen[t] + 1 = bar.cur

(* No waiter remembers a generation that does not exist yet. *)
GenBound == \A t \in Blocked : gen[t] <= bar.cur

(* The inductive invariant: the three above are inductive together with it.*)
IInv == TypeOK /\ CountersExact /\ NoLostRelease /\ InStep /\ GenBound

(* The barrier keeps the promise of Rendezvous: a thread is freed exactly  *)
(* when everybody still in the kernel had arrived.                         *)
Status ==
  [t \in Thread |->
     CASE pc[t] = "left" -> "gone"
       [] pc[t] = "kernel" -> "out"
       [] t \in Waiting -> "in"
       [] OTHER -> "freed"]

Promise == INSTANCE Rendezvous WITH status <- Status

KeepsPromise == Promise!Spec
=============================================================================
