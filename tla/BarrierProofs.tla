---------------------------- MODULE BarrierProofs ----------------------------
(***************************************************************************)
(* Proofs about gpu.barrier for every block size and every number of       *)
(* SyncThreads calls: the counters are exact, no release is lost, a thread *)
(* that never gave up is in step with the generations, and the barrier     *)
(* implements Rendezvous.                                                  *)
(***************************************************************************)
EXTENDS Barrier, FiniteSetTheorems, TLAPS

(* Any set of threads is finite, so the counters compare with cardinals.   *)
LEMMA ThreadSets ==
  ASSUME NEW S \in SUBSET Thread
  PROVE  IsFiniteSet(S) /\ Cardinality(S) \in Nat
BY ThreadAssumption, FS_Subset, FS_CardinalityType

(* The sets behind the counters are sets of threads, and a waiter is live. *)
LEMMA Shape == Live \in SUBSET Thread /\ Waiting \in SUBSET Live
BY DEF Live, Waiting, Blocked

(* A live thread that is not blocked closes the generation exactly when    *)
(* the arrivals, its own counted, are everybody.                           *)
LEMMA LastArrival ==
  ASSUME TypeOK, CountersExact, NEW t \in Live \ Waiting
  PROVE  /\ bar.count + 1 >= bar.n => Waiting \union {t} = Live
         /\ bar.count + 1 < bar.n => Waiting \union {t} # Live
         /\ Cardinality(Waiting \union {t}) = bar.count + 1
<1>1. /\ IsFiniteSet(Waiting) /\ IsFiniteSet(Live)
      /\ Waiting \union {t} \in SUBSET Live
  BY Shape, ThreadSets
<1>2. Cardinality(Waiting \union {t}) = bar.count + 1
  BY <1>1, FS_AddElement DEF CountersExact
<1>3. /\ Cardinality(Waiting \union {t}) <= bar.n
      /\ Cardinality(Waiting \union {t}) = bar.n => Waiting \union {t} = Live
  BY <1>1, FS_Subset DEF CountersExact
<1>4. bar.n \in Nat /\ bar.count \in Nat
  BY DEF TypeOK
<1>5. Waiting \union {t} = Live => bar.count + 1 = bar.n
  BY <1>2 DEF CountersExact
<1> QED BY <1>2, <1>3, <1>4, <1>5

(* The same for a departure: the threads left over are all waiting when    *)
(* the count has reached their number.                                     *)
LEMMA LastDeparture ==
  ASSUME TypeOK, CountersExact, NEW t \in Live \ Waiting
  PROVE  /\ bar.n - 1 \in Nat
         /\ Cardinality(Live \ {t}) = bar.n - 1
         /\ bar.count >= bar.n - 1 => Waiting = Live \ {t}
         /\ bar.count < bar.n - 1 => Waiting # Live \ {t}
         /\ bar.n - 1 = 0 => Live \ {t} = {}
<1>1. /\ IsFiniteSet(Live) /\ IsFiniteSet(Live \ {t})
      /\ Waiting \in SUBSET (Live \ {t})
  BY Shape, ThreadSets
<1>2. Cardinality(Live \ {t}) = bar.n - 1
  BY <1>1, FS_RemoveElement DEF CountersExact
<1>3. /\ bar.count <= Cardinality(Live \ {t})
      /\ bar.count = Cardinality(Live \ {t}) => Waiting = Live \ {t}
  BY <1>1, FS_Subset DEF CountersExact
<1>4. Waiting = Live \ {t} => bar.count = Cardinality(Live \ {t})
  BY DEF CountersExact
<1>5. Cardinality(Live \ {t}) \in Nat
  BY <1>1, FS_CardinalityType
<1>6. Cardinality(Live \ {t}) = 0 => Live \ {t} = {}
  BY <1>1, FS_EmptySet
<1>7. bar.n \in Nat /\ bar.count \in Nat
  BY DEF TypeOK
<1> QED BY <1>2, <1>3, <1>4, <1>5, <1>6, <1>7

----------------------------------------------------------------------------
LEMMA InitIInv == Init => IInv
<1> SUFFICES ASSUME Init PROVE IInv
  OBVIOUS
<1>1. Cardinality(Thread) \in Nat /\ IsFiniteSet(Thread)
  BY ThreadAssumption, FS_CardinalityType
<1>2. Live = Thread /\ Waiting = {} /\ Blocked = {}
  BY DEF Init, Live, Waiting, Blocked
<1>3. TypeOK
  BY <1>1 DEF Init, TypeOK, NewBarrier
<1>4. CountersExact
  BY <1>2, FS_EmptySet DEF Init, CountersExact, NewBarrier
<1>5. InStep
  BY <1>2 DEF Init, InStep, NewBarrier
<1> QED BY <1>2, <1>3, <1>4, <1>5 DEF IInv, NoLostRelease, GenBound

(* An arrival that is not the last one. *)
LEMMA WaitJoins ==
  ASSUME IInv, NEW t \in Thread, Wait(t), bar.count + 1 < bar.n
  PROVE  IInv'
<1> USE DEF Wait, Arrive, Assembled, ReleaseLocked
<1>1. bar.n \in Nat /\ bar.count \in Nat /\ bar.cur \in Nat
  BY DEF IInv, TypeOK
<1>2. bar' = [bar EXCEPT !.count = @ + 1] /\ bar'.cur = bar.cur
  BY <1>1 DEF IInv, TypeOK
<1>3. pc' = [pc EXCEPT ![t] = "waiting"] /\ gen' = [gen EXCEPT ![t] = bar.cur]
  BY <1>2
<1>4. TypeOK'
  BY <1>1, <1>2, <1>3 DEF IInv, TypeOK
<1>5. t \in Live \ Waiting /\ t \notin Blocked
  BY DEF Live, Waiting, Blocked
<1>6. /\ Live' = Live
      /\ Blocked' = Blocked \union {t}
      /\ Waiting' = Waiting \union {t}
  BY <1>2, <1>3, <1>5 DEF Live, Waiting, Blocked, IInv, TypeOK
<1>7. CountersExact'
  BY <1>1, <1>2, <1>5, <1>6, LastArrival DEF IInv, CountersExact, TypeOK
<1>8. NoLostRelease'
  BY <1>5, <1>6, LastArrival DEF IInv, NoLostRelease
<1>9. InStep'
  BY <1>1, <1>2, <1>3, <1>5, <1>6 DEF IInv, InStep, TypeOK, Live
<1>10. GenBound'
  BY <1>1, <1>2, <1>3, <1>6 DEF IInv, GenBound, TypeOK, Blocked
<1> QED BY <1>4, <1>7, <1>8, <1>9, <1>10 DEF IInv

(* The last arrival: nobody waits any more, and the generation is over. *)
LEMMA WaitReleases ==
  ASSUME IInv, NEW t \in Thread, Wait(t), bar.count + 1 >= bar.n
  PROVE  IInv'
<1> USE DEF Wait, Arrive, Assembled, ReleaseLocked
<1>1. bar.n \in Nat /\ bar.count \in Nat /\ bar.cur \in Nat
  BY DEF IInv, TypeOK
<1>2. bar' = [n |-> bar.n, count |-> 0, cur |-> bar.cur + 1]
  BY <1>1 DEF IInv, TypeOK
<1>3. pc' = pc /\ gen' = [gen EXCEPT ![t] = bar.cur]
  BY <1>1, <1>2 DEF IInv, TypeOK
<1>4. TypeOK'
  BY <1>1, <1>2, <1>3 DEF IInv, TypeOK
<1>5. t \in Live \ Waiting /\ t \notin Blocked
  BY DEF Live, Waiting, Blocked
<1>6. Live' = Live /\ Blocked' = Blocked
  BY <1>3 DEF Live, Blocked
<1>7. Waiting' = {}
  BY <1>1, <1>2, <1>3, <1>5 DEF Waiting, Blocked, IInv, TypeOK, GenBound
<1>8. CountersExact'
  BY <1>2, <1>6, <1>7, FS_EmptySet DEF IInv, CountersExact
<1>9. Waiting \union {t} = Live
  BY <1>5, LastArrival DEF IInv
<1>10. InStep'
  <2> SUFFICES ASSUME NEW s \in Live \ gaveUp
               PROVE  /\ calls'[s] = bar'.cur
                      /\ s \in Blocked => gen'[s] + 1 = bar'.cur
    BY <1>6, <1>7 DEF InStep
  <2>1. CASE s = t
    BY <2>1, <1>1, <1>2, <1>5 DEF IInv, InStep, TypeOK
  <2>2. CASE s # t
    <3>1. s \in Waiting /\ s \in Thread
      BY <2>2, <1>9 DEF Live
    <3> QED BY <2>2, <3>1, <1>1, <1>2, <1>3 DEF IInv, InStep, TypeOK, Waiting
  <2> QED BY <2>1, <2>2
<1>11. GenBound'
  BY <1>1, <1>2, <1>3, <1>5, <1>6 DEF IInv, GenBound, TypeOK, Blocked
<1> QED BY <1>4, <1>7, <1>8, <1>10, <1>11 DEF IInv, NoLostRelease

LEMMA WaitStep ==
  ASSUME IInv, NEW t \in Thread, Wait(t)
  PROVE  IInv'
<1>1. bar.n \in Nat /\ bar.count \in Nat
  BY DEF IInv, TypeOK
<1> QED BY <1>1, WaitJoins, WaitReleases

(* A waiter of a closed generation wakes. *)
LEMMA WakeStep ==
  ASSUME IInv, NEW t \in Thread, Wake(t)
  PROVE  IInv'
<1> USE DEF Wake
<1>1. TypeOK'
  BY DEF IInv, TypeOK
<1>2. Live' = Live /\ Waiting' = Waiting /\ Blocked' = Blocked \ {t}
  BY DEF Live, Waiting, Blocked, IInv, TypeOK
<1>3. CountersExact' /\ NoLostRelease'
  BY <1>2 DEF IInv, CountersExact, NoLostRelease
<1>4. InStep' /\ GenBound'
  BY <1>2 DEF IInv, InStep, GenBound
<1> QED BY <1>1, <1>3, <1>4 DEF IInv

LEMMA TimerFiresStep ==
  ASSUME IInv, NEW t \in Thread, TimerFires(t)
  PROVE  IInv'
<1> USE DEF TimerFires
<1>1. TypeOK'
  BY DEF IInv, TypeOK
<1>2. Live' = Live /\ Waiting' = Waiting /\ Blocked' = Blocked
  BY DEF Live, Waiting, Blocked, IInv, TypeOK
<1> QED BY <1>1, <1>2 DEF IInv, CountersExact, NoLostRelease, InStep, GenBound

(* The timer's critical section: an arrival of this generation is taken    *)
(* back, one of an earlier generation is not.                              *)
LEMMA ExpireStep ==
  ASSUME IInv, NEW t \in Thread, Expire(t)
  PROVE  IInv'
<1> USE DEF Expire
<1>1. CASE gen[t] # bar.cur
  <2> USE <1>1
  <2>1. TypeOK'
    BY DEF IInv, TypeOK
  <2>2. Live' = Live /\ Waiting' = Waiting /\ Blocked' = Blocked \ {t}
    BY DEF Live, Waiting, Blocked, IInv, TypeOK
  <2>3. CountersExact' /\ NoLostRelease'
    BY <2>2 DEF IInv, CountersExact, NoLostRelease
  <2>4. InStep' /\ GenBound'
    BY <2>2 DEF IInv, InStep, GenBound
  <2> QED BY <2>1, <2>3, <2>4 DEF IInv
<1>2. CASE gen[t] = bar.cur
  <2> USE <1>2
  <2>1. bar' = [bar EXCEPT !.count = @ - 1] /\ gaveUp' = gaveUp \union {t}
    BY DEF TakeBack
  <2>2. t \in Waiting
    BY DEF Waiting, Blocked
  <2>3. IsFiniteSet(Waiting) /\ Waiting # {}
    BY <2>2, Shape, ThreadSets
  <2>4. /\ Cardinality(Waiting \ {t}) = bar.count - 1
        /\ bar.count - 1 \in Nat
    <3>1. /\ IsFiniteSet(Waiting \ {t})
          /\ Cardinality(Waiting \ {t}) = Cardinality(Waiting) - 1
      BY <2>2, <2>3, FS_RemoveElement
    <3>2. Cardinality(Waiting \ {t}) \in Nat
      BY <3>1, FS_CardinalityType
    <3> QED BY <3>1, <3>2 DEF IInv, CountersExact
  <2>5. TypeOK'
    BY <2>1, <2>4 DEF IInv, TypeOK
  <2>6. /\ Live' = Live
        /\ Waiting' = Waiting \ {t}
        /\ Blocked' = Blocked \ {t}
        /\ bar'.cur = bar.cur
    BY <2>1 DEF Live, Waiting, Blocked, IInv, TypeOK
  <2>7. CountersExact'
    BY <2>1, <2>4, <2>6 DEF IInv, CountersExact, TypeOK
  <2>8. NoLostRelease'
    BY <2>2, <2>6, Shape DEF NoLostRelease
  <2>9. InStep' /\ GenBound'
    BY <2>1, <2>6 DEF IInv, InStep, GenBound
  <2> QED BY <2>5, <2>7, <2>8, <2>9 DEF IInv
<1> QED BY <1>1, <1>2

(* A departure, whether or not it was the one the others waited for. *)
LEMMA LeaveStep ==
  ASSUME IInv, NEW t \in Thread, Leave(t)
  PROVE  IInv'
<1> USE DEF Leave
<1>1. bar.n \in Nat /\ bar.count \in Nat /\ bar.cur \in Nat
  BY DEF IInv, TypeOK
<1>2. t \in Live \ Waiting /\ t \notin Blocked
  BY DEF Live, Waiting, Blocked
<1>3. Live' = Live \ {t} /\ Blocked' = Blocked /\ bar.n - 1 \in Nat
  <2>1. Live' = Live \ {t} /\ Blocked' = Blocked
    BY DEF Live, Blocked, IInv, TypeOK
  <2> QED BY <1>2, <2>1, LastDeparture DEF IInv
<1>4. CASE bar.n - 1 > 0 /\ bar.count >= bar.n - 1
  <2>1. /\ bar' = [n |-> bar.n - 1, count |-> 0, cur |-> bar.cur + 1]
    BY <1>4 DEF Abandon, Assembled, ReleaseLocked, IInv, TypeOK
  <2>2. TypeOK'
    BY <1>1, <1>3, <2>1 DEF IInv, TypeOK
  <2>3. Waiting' = {}
    BY <1>1, <1>3, <2>1 DEF Waiting, IInv, GenBound, TypeOK, Blocked
  <2>4. CountersExact'
    BY <1>2, <1>3, <2>1, <2>3, LastDeparture, FS_EmptySet DEF IInv, CountersExact
  <2>5. Waiting = Live'
    BY <1>2, <1>3, <1>4, LastDeparture DEF IInv
  <2>6. InStep'
    BY <1>1, <1>3, <2>1, <2>3, <2>5 DEF IInv, InStep, TypeOK, Live, Waiting
  <2>7. GenBound'
    BY <1>1, <1>3, <2>1 DEF IInv, GenBound, TypeOK, Blocked
  <2> QED BY <2>2, <2>3, <2>4, <2>6, <2>7 DEF IInv, NoLostRelease
<1>5. CASE ~ (bar.n - 1 > 0 /\ bar.count >= bar.n - 1)
  <2>1. bar' = [n |-> bar.n - 1, count |-> bar.count, cur |-> bar.cur]
    BY <1>5 DEF Abandon, Assembled, IInv, TypeOK
  <2>2. TypeOK'
    BY <1>1, <1>3, <2>1 DEF IInv, TypeOK
  <2>3. Waiting' = Waiting
    BY <1>3, <2>1 DEF Waiting
  <2>4. CountersExact'
    BY <1>2, <1>3, <2>1, <2>3, LastDeparture DEF IInv, CountersExact
  <2>5. NoLostRelease'
    <3>1. CASE bar.n - 1 = 0
      BY <3>1, <1>2, <1>3, <2>3, Shape, LastDeparture DEF NoLostRelease, IInv
    <3>2. CASE bar.n - 1 # 0
      BY <3>2, <1>1, <1>2, <1>3, <1>5, <2>3, LastDeparture
         DEF NoLostRelease, IInv
    <3> QED BY <3>1, <3>2
  <2>6. InStep' /\ GenBound'
    BY <1>3, <2>1, <2>3 DEF IInv, InStep, GenBound
  <2> QED BY <2>2, <2>4, <2>5, <2>6 DEF IInv
<1> QED BY <1>4, <1>5

LEMMA NextIInv == IInv /\ [Next]_vars => IInv'
<1> SUFFICES ASSUME IInv, [Next]_vars PROVE IInv'
  OBVIOUS
<1>1. CASE UNCHANGED vars
  BY <1>1 DEF vars, IInv, TypeOK, CountersExact, NoLostRelease, InStep,
              GenBound, Live, Waiting, Blocked
<1>2. ASSUME NEW t \in Thread, Step(t) PROVE IInv'
  BY <1>2, WaitStep, WakeStep, TimerFiresStep, ExpireStep, LeaveStep DEF Step
<1> QED BY <1>1, <1>2 DEF Next

THEOREM Invariance == Spec => []IInv
BY InitIInv, NextIInv, PTL DEF Spec

(* The state of the barrier stays well typed. *)
THEOREM TypeCorrect == Spec => []TypeOK
<1>1. IInv => TypeOK
  BY DEF IInv
<1> QED BY <1>1, Invariance, PTL

(* barrier.count and barrier.n are exact for every block. *)
THEOREM CountersAreExact == Spec => []CountersExact
<1>1. IInv => CountersExact
  BY DEF IInv
<1> QED BY <1>1, Invariance, PTL

(* No block has a generation that is complete and not released. *)
THEOREM ReleaseIsNeverLost == Spec => []NoLostRelease
<1>1. IInv => NoLostRelease
  BY DEF IInv
<1> QED BY <1>1, Invariance, PTL

(* A thread that never gave up is in step with the generations. *)
THEOREM ThreadsAreInStep == Spec => []InStep
<1>1. IInv => InStep
  BY DEF IInv
<1> QED BY <1>1, Invariance, PTL

----------------------------------------------------------------------------
(* The refinement: the value of Status in terms of the two sets. *)
LEMMA StatusOf ==
  ASSUME TypeOK, NEW t \in Thread
  PROVE  /\ Status \in [Thread -> {"gone", "out", "in", "freed"}]
         /\ Status[t] = "gone" <=> t \notin Live
         /\ Status[t] = "in" <=> t \in Waiting
         /\ Status[t] = "out" <=> t \in Live \ Blocked
         /\ Status[t] = "freed" <=> t \in Blocked \ Waiting
BY DEF Status, TypeOK, Live, Waiting, Blocked

LEMMA InitMaps == Init => Promise!Init
<1> SUFFICES ASSUME Init PROVE Promise!Init
  OBVIOUS
<1>1. \A t \in Thread : t \in Live \ Blocked
  BY DEF Init, Live, Blocked
<1>2. \A t \in Thread : Status[t] = "out"
  BY <1>1, InitIInv, StatusOf DEF IInv
<1>3. Status = [t \in Thread |-> Status[t]]
  BY DEF Status
<1> QED BY <1>2, <1>3, Zenon DEF Init, Promise!Init

(* An arrival is Enter, or Complete when it closes the generation. *)
LEMMA WaitMaps ==
  ASSUME IInv, NEW t \in Thread, Wait(t)
  PROVE  Promise!Enter(t) \/ Promise!Complete(t)
<1>1. bar.n \in Nat /\ bar.count \in Nat /\ bar.cur \in Nat /\ TypeOK
  BY DEF IInv, TypeOK
<1>2. t \in Live \ Waiting /\ t \notin Blocked /\ Status[t] = "out"
  BY <1>1, StatusOf DEF Live, Waiting, Blocked, Wait
<1>3. TypeOK' /\ UNCHANGED gaveUp
  BY WaitStep DEF IInv, Wait
<1>4. CASE bar.count + 1 < bar.n
  <2>1. bar' = [n |-> bar.n, count |-> bar.count + 1, cur |-> bar.cur]
    BY <1>4, <1>1 DEF Wait, Arrive, Assembled, ReleaseLocked, TypeOK
  <2>2. /\ pc' = [pc EXCEPT ![t] = "waiting"]
        /\ gen' = [gen EXCEPT ![t] = bar.cur]
    BY <2>1 DEF Wait
  <2>3. Status' = [Status EXCEPT ![t] = "in"]
    BY <1>1, <2>1, <2>2 DEF Status, Waiting, Blocked, TypeOK
  <2>4. Live' = Live /\ Waiting' = Waiting \union {t}
    BY <1>1, <1>2, <2>1, <2>2 DEF Live, Waiting, Blocked, TypeOK
  <2>5. Waiting' # Live'
    BY <1>2, <1>4, <2>4, LastArrival DEF IInv
  <2>6. PICK s \in Live : s \notin Waiting /\ s # t
    BY <1>2, <2>4, <2>5, Shape
  <2>7. ~ Promise!AllIn(Status')
    BY <1>1, <2>3, <2>6, Shape, StatusOf DEF Promise!AllIn
  <2> QED BY <1>2, <1>3, <2>3, <2>7 DEF Promise!Enter
<1>5. CASE bar.count + 1 >= bar.n
  <2>1. bar' = [n |-> bar.n, count |-> 0, cur |-> bar.cur + 1]
    BY <1>5, <1>1 DEF Wait, Arrive, Assembled, ReleaseLocked, TypeOK
  <2>2. pc' = pc /\ gen' = [gen EXCEPT ![t] = bar.cur]
    BY <1>1, <2>1 DEF Wait, TypeOK
  <2>3. Status' = Promise!Free(Status)
    BY <1>1, <1>2, <2>1, <2>2
       DEF Status, Waiting, Blocked, TypeOK, Promise!Free, IInv, GenBound
  <2>4. Waiting \union {t} = Live
    BY <1>2, <1>5, LastArrival DEF IInv
  <2>5. Promise!AllIn([Status EXCEPT ![t] = "in"])
    BY <1>1, <2>4, StatusOf DEF Promise!AllIn
  <2> QED BY <1>2, <1>3, <2>3, <2>5 DEF Promise!Complete
<1> QED BY <1>1, <1>4, <1>5

LEMMA WakeMaps ==
  ASSUME IInv, NEW t \in Thread, Wake(t)
  PROVE  Promise!Return(t)
BY DEF IInv, TypeOK, Wake, Promise!Return, Status, Waiting, Blocked

LEMMA TimerFiresMaps ==
  ASSUME IInv, NEW t \in Thread, TimerFires(t)
  PROVE  UNCHANGED <<Status, gaveUp>>
BY DEF IInv, TypeOK, TimerFires, Status, Waiting, Blocked

(* A timer that came too late is a Return, any other one a GiveUp. *)
LEMMA ExpireMaps ==
  ASSUME IInv, NEW t \in Thread, Expire(t)
  PROVE  Promise!Return(t) \/ Promise!GiveUp(t)
<1>1. CASE gen[t] # bar.cur
  <2>1. UNCHANGED <<bar, gen, gaveUp>> /\ pc' = [pc EXCEPT ![t] = "kernel"]
    BY <1>1 DEF Expire
  <2>2. Status[t] = "freed"
    BY <1>1, StatusOf DEF IInv, Expire, Waiting, Blocked
  <2>3. Status' = [Status EXCEPT ![t] = "out"]
    BY <2>1 DEF IInv, TypeOK, Status, Waiting, Blocked
  <2> QED BY <2>1, <2>2, <2>3 DEF Promise!Return
<1>2. CASE gen[t] = bar.cur
  <2>1. bar'.cur = bar.cur /\ gaveUp' = gaveUp \union {t}
    BY <1>2 DEF Expire, TakeBack, IInv, TypeOK
  <2>2. gen' = gen /\ pc' = [pc EXCEPT ![t] = "kernel"]
    BY DEF Expire
  <2>3. Status[t] = "in"
    BY <1>2, StatusOf DEF IInv, Expire, Waiting, Blocked
  <2>4. Status' = [Status EXCEPT ![t] = "out"]
    BY <2>1, <2>2 DEF IInv, TypeOK, Status, Waiting, Blocked
  <2> QED BY <2>1, <2>3, <2>4 DEF Promise!GiveUp
<1> QED BY <1>1, <1>2

LEMMA LeaveMaps ==
  ASSUME IInv, NEW t \in Thread, Leave(t)
  PROVE  Promise!Leave(t)
<1> DEFINE after == [Status EXCEPT ![t] = "gone"]
<1>1. bar.n \in Nat /\ bar.count \in Nat /\ bar.cur \in Nat /\ TypeOK
  BY DEF IInv, TypeOK
<1>2. t \in Live \ Waiting /\ Status[t] = "out"
  BY <1>1, StatusOf DEF Live, Waiting, Blocked, Leave
<1>3. Promise!AllIn(after) <=> Waiting = Live \ {t}
  <2>1. Waiting \subseteq Live /\ Live \subseteq Thread
    BY Shape
  <2>2. Promise!AllIn(after) <=>
          \A s \in Thread : s = t \/ s \in Waiting \/ s \notin Live
    BY <1>1, StatusOf DEF Promise!AllIn
  <2> QED BY <1>2, <2>1, <2>2
<1>4. pc' = [pc EXCEPT ![t] = "left"] /\ gen' = gen /\ gaveUp' = gaveUp
  BY DEF Leave
<1>5. CASE bar.n - 1 > 0 /\ bar.count >= bar.n - 1
  <2>1. bar' = [n |-> bar.n - 1, count |-> 0, cur |-> bar.cur + 1]
    BY <1>5, <1>1 DEF Leave, Abandon, Assembled, ReleaseLocked, TypeOK
  <2>2. Promise!AllIn(after)
    BY <1>2, <1>3, <1>5, LastDeparture DEF IInv
  <2>3. Status' = Promise!Free(after)
    BY <1>1, <1>2, <1>4, <2>1
       DEF Status, Waiting, Blocked, TypeOK, Promise!Free, IInv, GenBound
  <2> QED BY <1>2, <1>4, <2>2, <2>3 DEF Promise!Leave
<1>6. CASE ~ (bar.n - 1 > 0 /\ bar.count >= bar.n - 1)
  <2>1. bar' = [n |-> bar.n - 1, count |-> bar.count, cur |-> bar.cur]
    BY <1>6, <1>1 DEF Leave, Abandon, Assembled, TypeOK
  <2>2. Status' = after
    BY <1>1, <1>4, <2>1 DEF Status, Waiting, Blocked, TypeOK
  <2>3. CASE bar.n - 1 = 0
    <3>1. Live \ {t} = {} /\ Waiting = {}
      BY <2>3, <1>2, Shape, LastDeparture DEF IInv
    <3>2. after = Promise!Free(after)
      BY <1>1, <3>1, StatusOf DEF Promise!Free
    <3> QED BY <1>2, <1>4, <2>2, <3>2 DEF Promise!Leave
  <2>4. CASE bar.n - 1 # 0
    <3>1. ~ Promise!AllIn(after)
      BY <2>4, <1>1, <1>2, <1>3, <1>6, LastDeparture DEF IInv
    <3> QED BY <1>2, <1>4, <2>2, <3>1 DEF Promise!Leave
  <2> QED BY <2>3, <2>4
<1> QED BY <1>5, <1>6

LEMMA NextMaps ==
  IInv /\ [Next]_vars => [Promise!Next]_<<Status, gaveUp>>
<1> SUFFICES ASSUME IInv, [Next]_vars
             PROVE  Promise!Next \/ UNCHANGED <<Status, gaveUp>>
  OBVIOUS
<1>1. CASE UNCHANGED vars
  BY <1>1 DEF vars, Status, Waiting, Blocked
<1>2. ASSUME NEW t \in Thread, Step(t)
      PROVE  Promise!Next \/ UNCHANGED <<Status, gaveUp>>
  BY <1>2, WaitMaps, WakeMaps, TimerFiresMaps, ExpireMaps, LeaveMaps
     DEF Step, Promise!Next
<1> QED BY <1>1, <1>2 DEF Next

(* The barrier, with its counters, its timers and its generations, does    *)
(* nothing the counter-free Rendezvous would not: a thread passes          *)
(* SyncThreads only with everybody still in the kernel.                    *)
THEOREM Refinement == Spec => KeepsPromise
BY InitMaps, NextMaps, Invariance, PTL
   DEF KeepsPromise, Spec, Promise!Spec, Promise!rvars
=============================================================================
