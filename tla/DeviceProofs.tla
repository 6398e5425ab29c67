---------------------------- MODULE DeviceProofs ----------------------------
(***************************************************************************)
(* What runs on the device and what it leaves there.                       *)
(*                                                                         *)
(* Streams: for any number of goroutines that share one, it is destroyed   *)
(* once, whoever closes it, and - when one goroutine does the waiting -    *)
(* Close refuses a stream that a cancelled Wait left busy.                 *)
(*                                                                         *)
(* Tile: for any block size, any limit on taps, any signals, filters and   *)
(* factor, any graph the author can draw and whatever call of the driver's *)
(* fails, a tensor that is computed is what the author's operations say,   *)
(* fused or step by step; every buffer comes home; and step by step each   *)
(* operation is launched once.  Each loop and each recursion has a lemma   *)
(* that gives it as a function of how far it has come; the rest is         *)
(* induction over the numbers, stated for sets.                            *)
(***************************************************************************)
EXTENDS Stream, Tile, SequenceTheorems, FiniteSetTheorems, WellFoundedInduction, TLAPS

-----------------------------------------------------------------------------
(* Streams.                                                                *)

(* A fresh stream. *)
LEMMA StreamInitIInv == StreamInit => IInv /\ WaitersKnow
  <1>1. StreamInit => TypeOK
    <2>. SUFFICES ASSUME StreamInit PROVE TypeOK
      OBVIOUS
    <2>1. 0 \in 0..0 /\ 0 \in 0..1
      OBVIOUS
    <2>2. mark \in [Goroutine -> 0..queued] /\ pc \in [Goroutine -> Locations]
      BY <2>1 DEF StreamInit, Locations
    <2>. QED
      BY <2>1, <2>2 DEF StreamInit, TypeOK
  <1>2. StreamInit => OneDestroyer /\ ClosedMeansDestroyed
    BY DEF StreamInit, OneDestroyer, Destroyer, ClosedMeansDestroyed
  <1>3. StreamInit => WaitersKnow
    BY WaitersAssumption DEF StreamInit, WaitersKnow, Waiting
  <1>. QED
    BY <1>1, <1>2, <1>3 DEF IInv

(* The device works on, or faults. *)
LEMMA DeviceStep ==
  ASSUME IInv, Complete \/ Fault
  PROVE  IInv'
  <1>. USE DEF IInv, Complete, Fault, driver, flags
  <1>1. TypeOK'
    <2>1. CASE Complete
      BY <2>1 DEF TypeOK
    <2>2. CASE Fault
      BY <2>2 DEF TypeOK
    <2>. QED
      BY <2>1, <2>2
  <1>2. OneDestroyer' /\ ClosedMeansDestroyed'
    BY DEF OneDestroyer, Destroyer, ClosedMeansDestroyed
  <1>. QED
    BY <1>1, <1>2

(* The goroutines' steps keep the types. *)
LEMMA StreamTypeStep ==
  ASSUME IInv, NEW g \in Goroutine, Call(g) \/ Run(g) \/ Cancel(g)
  PROVE  TypeOK'
  <1>. USE DEF IInv, TypeOK, Goto, driver, flags, Locations
  <1>1. CASE Call(g)
    BY <1>1 DEF Call
  <1>2. CASE Bind(g)
    <2>1. pc' \in [Goroutine -> Locations]
      BY <1>2 DEF Bind, Issued
    <2>2. failed' \in BOOLEAN
      BY <1>2, Zenon DEF Bind
    <2>3. mark' = [mark EXCEPT ![g] = queued] /\ UNCHANGED <<driver, poisoned, flags, left>>
      BY <1>2 DEF Bind
    <2>. QED
      BY <2>1, <2>2, <2>3
  <1>3. CASE DriverFails(g)
    BY <1>3 DEF DriverFails, Fails, Faults, Refused
  <1>4. CASE Launched(g)
    BY <1>4 DEF Launched, Answers
  <1>5. CASE Synced(g)
    BY <1>5 DEF Synced, Answers
  <1>6. CASE Queried(g)
    BY <1>6 DEF Queried, Answers
  <1>7. CASE PollAgain(g) \/ Clear(g) \/ Cancel(g)
    <2>1. CASE PollAgain(g)
      BY <2>1 DEF PollAgain
    <2>2. CASE Clear(g)
      BY <2>2 DEF Clear
    <2>3. CASE Cancel(g)
      BY <2>3 DEF Cancel
    <2> QED BY <1>7, <2>1, <2>2, <2>3
  <1>8. CASE LoadClosed(g) \/ LoadAbandoned(g) \/ SwapClosed(g)
    BY <1>8 DEF LoadClosed, LoadAbandoned, SwapClosed
  <1>9. CASE Destroyed(g)
    BY <1>9 DEF Destroyed, OneDestroyer, Destroyer
  <1>. QED
    BY <1>1, <1>2, <1>3, <1>4, <1>5, <1>6, <1>7, <1>8, <1>9 DEF Run

(* ... and the exclusion of destroy. *)
LEMMA DestroyStep ==
  ASSUME IInv, NEW g \in Goroutine, Call(g) \/ Run(g) \/ Cancel(g)
  PROVE  OneDestroyer' /\ ClosedMeansDestroyed'
  <1>. USE DEF IInv, TypeOK, OneDestroyer, Destroyer, ClosedMeansDestroyed, Goto, driver,
               flags
  <1>1. CASE Call(g)
    BY <1>1 DEF Call
  <1>2. CASE Bind(g)
    BY <1>2 DEF Bind, Issued
  <1>3. CASE DriverFails(g)
    BY <1>3 DEF DriverFails, Fails, Faults, Refused
  <1>4. CASE Launched(g) \/ Synced(g) \/ Queried(g)
    BY <1>4 DEF Launched, Synced, Queried, Answers
  <1>5. CASE PollAgain(g) \/ Clear(g) \/ Cancel(g)
    BY <1>5 DEF PollAgain, Clear, Cancel
  <1>6. CASE LoadClosed(g) \/ LoadAbandoned(g)
    BY <1>6 DEF LoadClosed, LoadAbandoned
  <1>7. CASE SwapClosed(g)
    BY <1>7 DEF SwapClosed
  <1>8. CASE Destroyed(g)
    BY <1>8 DEF Destroyed
  <1>. QED
    BY <1>1, <1>2, <1>3, <1>4, <1>5, <1>6, <1>7, <1>8 DEF Run

(* Every step keeps the invariant. *)
LEMMA StreamNextIInv == IInv /\ [StreamNext]_streamVars => IInv'
  <1>. SUFFICES ASSUME IInv, [StreamNext]_streamVars PROVE IInv'
    OBVIOUS
  <1>1. CASE UNCHANGED streamVars
    BY <1>1 DEF streamVars, driver, flags, IInv, TypeOK, OneDestroyer, Destroyer,
                ClosedMeansDestroyed
  <1>2. ASSUME NEW g \in Goroutine, Call(g) \/ Run(g) \/ Cancel(g) PROVE IInv'
    BY <1>2, StreamTypeStep, DestroyStep DEF IInv
  <1>. QED
    BY <1>1, <1>2, DeviceStep DEF StreamNext

(* The inductive invariant holds. *)
THEOREM StreamInvariance == StreamSpec => []IInv
  BY StreamInitIInv, StreamNextIInv, PTL DEF StreamSpec

(* The state of the stream stays well typed. *)
THEOREM StreamTypeCorrect == StreamSpec => []TypeOK
  <1>1. IInv => TypeOK
    BY DEF IInv
  <1>. QED
    BY <1>1, StreamInvariance, PTL

(* However many Close and CloseAbandoned race, the driver is handed the    *)
(* stream once, and a closed stream is destroyed, being destroyed, or one  *)
(* whose destroy failed with an error.                                     *)
THEOREM ClosedIsDestroyed == StreamSpec => []ClosedMeansDestroyed
  <1>1. IInv => ClosedMeansDestroyed
    BY DEF IInv
  <1>. QED
    BY <1>1, StreamInvariance, PTL

----------------------------------------------------------------------------
(* With one goroutine that waits, what it knows of the stream is true. *)
LEMMA WaitersStep ==
  ASSUME \A g, h \in Waiters : g = h, IInv, WaitersKnow, [StreamNext]_streamVars
  PROVE  WaitersKnow'
  <1>. USE WaitersAssumption DEF IInv, TypeOK, WaitersKnow, Waiting, Goto, driver, flags
  <1>1. CASE UNCHANGED streamVars
    BY <1>1 DEF streamVars
  <1>2. CASE Complete \/ Fault
    BY <1>2 DEF Complete, Fault
  <1>3. ASSUME NEW g \in Goroutine, Call(g) PROVE WaitersKnow'
    BY <1>3 DEF Call
  <1>4. ASSUME NEW g \in Goroutine, Run(g) \/ Cancel(g) PROVE WaitersKnow'
    <2>1. CASE Bind(g)
      BY <2>1 DEF Bind, Issued
    <2>2. CASE DriverFails(g)
      BY <2>2 DEF DriverFails, Fails, Faults, Refused
    <2>3. CASE Launched(g) \/ Synced(g)
      BY <2>3 DEF Launched, Synced, Answers
    <2>4. CASE Queried(g)
      BY <2>4 DEF Queried, Answers
    <2>5. CASE PollAgain(g) \/ LoadClosed(g) \/ LoadAbandoned(g) \/ SwapClosed(g)
               \/ Destroyed(g)
      BY <2>5 DEF PollAgain, LoadClosed, LoadAbandoned, SwapClosed, Destroyed
    <2>6. CASE Clear(g)
      BY <2>6 DEF Clear
    <2>7. CASE Cancel(g)
      BY <2>7 DEF Cancel
    <2>. QED
      BY <1>4, <2>1, <2>2, <2>3, <2>4, <2>5, <2>6, <2>7 DEF Run
  <1>. QED
    BY <1>1, <1>2, <1>3, <1>4 DEF StreamNext

(* Close never takes a stream for drained that a cancelled Wait left busy, *)
(* as long as one goroutine does the waiting; two that wait can wipe each  *)
(* other's mark.                                                           *)
THEOREM CloseIsNotFooled ==
  ASSUME \A g, h \in Waiters : g = h
  PROVE  StreamSpec => CloseSeesTheTruth
  <1>1. IInv /\ WaitersKnow /\ [StreamNext]_streamVars =>
          [\A g \in Goroutine :
             LoadAbandoned(g) /\ pc'[g] = "casClean" => completed >= left]_streamVars
    BY DEF IInv, TypeOK, WaitersKnow, LoadAbandoned, Goto
  <1>2. IInv /\ WaitersKnow /\ [StreamNext]_streamVars => WaitersKnow'
    BY WaitersStep
  <1>. QED
    BY <1>1, <1>2, StreamInitIInv, StreamInvariance, PTL DEF StreamSpec, CloseSeesTheTruth

-----------------------------------------------------------------------------
(* Numbers, and functions of them.                                         *)

(* A set of numbers that has 0, and each number's successor with it, has them all. *)
LEMMA Least ==
  ASSUME NEW T \in SUBSET Nat, T # {}
  PROVE  \E n \in T : \A k \in T : n <= k
<1> DEFINE R == OpToRel(<, Nat)
<1>1. IsWellFoundedOn(R, Nat)
  BY NatLessThanWellFounded
<1>2. PICK n \in T : \A k \in T : <<k, n>> \notin R
  <2> HIDE DEF R
  <2> QED BY <1>1, WFMin
<1>3. \A k \in T : ~(k < n)
  BY <1>2 DEF R, OpToRel
<1>4. \A k \in T : n <= k
  <2> SUFFICES ASSUME NEW k \in T PROVE n <= k
    OBVIOUS
  <2>1. n \in Nat /\ k \in Nat
    BY <1>2
  <2> QED BY <1>3, <2>1
<1> QED BY <1>2, <1>4

(* Induction over the numbers, as a fact about a set. *)
LEMMA Induction ==
  ASSUME NEW T, 0 \in T, \A n \in Nat : n \in T => n + 1 \in T
  PROVE  \A n \in Nat : n \in T
<1> SUFFICES ASSUME {n \in Nat : n \notin T} # {} PROVE FALSE
  OBVIOUS
<1>1. PICK n \in {n \in Nat : n \notin T} : \A k \in {k \in Nat : k \notin T} : n <= k
  BY Least
<1>2. n \in Nat /\ n # 0
  BY <1>1
<1>3. n - 1 \in Nat /\ ~(n <= n - 1)
  BY <1>2
<1>4. n - 1 \in T
  BY <1>1, <1>3
<1>5. n - 1 + 1 = n
  BY <1>2
<1> QED BY <1>1, <1>3, <1>4, <1>5

(* The same, from all the numbers below. *)
LEMMA StrongInduction ==
  ASSUME NEW T, \A n \in Nat : (\A k \in 0 .. n - 1 : k \in T) => n \in T
  PROVE  \A n \in Nat : n \in T
<1> SUFFICES ASSUME {n \in Nat : n \notin T} # {} PROVE FALSE
  OBVIOUS
<1>1. PICK n \in {n \in Nat : n \notin T} : \A k \in {k \in Nat : k \notin T} : n <= k
  BY Least
<1>2. \A k \in 0 .. n - 1 : k \in T
  BY <1>1
<1> QED BY <1>1, <1>2

(* Euclid: what div and % are. *)
LEMMA Division ==
  ASSUME NEW a \in Nat, NEW b \in Nat \ {0}
  PROVE  /\ a \div b \in Nat
         /\ a % b \in 0 .. b - 1
         /\ a = b * (a \div b) + (a % b)
OBVIOUS

(* There is one function of no arguments. *)
LEMMA NoArguments == ASSUME NEW f, f = [x \in DOMAIN f |-> f[x]], DOMAIN f = {} PROVE f = <<>>
OBVIOUS

-----------------------------------------------------------------------------
(* Memory: what a call may rely on and keep.                               *)

Buffer == [ptr : Nat, n : Nat]
Tidy(m) ==
  /\ m = [live |-> m.live, poisoned |-> m.poisoned, astray |-> m.astray, slices |-> m.slices]
  /\ m.poisoned \in BOOLEAN
  /\ m.astray = FALSE
  /\ m.slices \in Seq(Buffer)

Sized(xs, n) == DOMAIN xs = 0 .. n - 1
Apart(live) ==
  /\ live = [b \in DOMAIN live |-> live[b]]
  /\ DOMAIN live \subseteq Nat \ {0}
  /\ \A b \in DOMAIN live : \E n \in Nat \ {0} : Sized(live[b], n)
  /\ \A b, c \in DOMAIN live :
       \/ b = c
       \/ b + Cardinality(DOMAIN live[b]) <= c
       \/ c + Cardinality(DOMAIN live[c]) <= b
  /\ \E N \in Nat : \A b \in DOMAIN live : b + Cardinality(DOMAIN live[b]) <= N
Owns(m, B) ==
  /\ \A s \in B : /\ m.slices[s].n # 0
                  /\ m.slices[s].ptr \in DOMAIN m.live
                  /\ Sized(m.live[m.slices[s].ptr], m.slices[s].n)
  /\ \A s, t \in B : m.slices[s].ptr = m.slices[t].ptr => s = t
  /\ \A b \in DOMAIN m.live : \E s \in B : m.slices[s].ptr = b
Good(m, B) ==
  /\ Tidy(m)
  /\ B \subseteq DOMAIN m.slices
  /\ ~m.poisoned => Apart(m.live) /\ Owns(m, B)

Content(m, s) == m.live[m.slices[s].ptr]
Keeps(m, x, B) ==
  /\ Len(m.slices) <= Len(x.slices)
  /\ ~x.poisoned =>
       /\ ~m.poisoned
       /\ \A s \in B : x.slices[s] = m.slices[s] /\ Content(x, s) = Content(m, s)

(* An array of n elements has n elements. *)
LEMMA SizedCard ==
  ASSUME NEW xs, NEW n \in Nat, Sized(xs, n)
  PROVE  Cardinality(DOMAIN xs) = n
<1>1. Cardinality(0 .. n - 1) = n
  <2>1. CASE n = 0
    BY <2>1, FS_EmptySet
  <2>2. CASE n # 0
    BY <2>2, FS_Interval
  <2> QED BY <2>1, <2>2
<1> QED BY <1>1 DEF Sized

(* A buffer ends behind where it begins. *)
LEMMA Ends ==
  ASSUME NEW m, Apart(m.live), NEW b \in DOMAIN m.live
  PROVE  /\ b \in Nat /\ End(m, b) \in Nat /\ b < End(m, b)
         /\ End(m, b) = b + Cardinality(DOMAIN m.live[b])
<1>1. PICK n \in Nat \ {0} : Sized(m.live[b], n)
  BY DEF Apart
<1>2. Cardinality(DOMAIN m.live[b]) = n
  BY <1>1, SizedCard
<1>3. b \in Nat
  BY DEF Apart
<1>4. End(m, b) = b + Cardinality(DOMAIN m.live[b])
  BY DEF End
<1> QED BY <1>2, <1>3, <1>4

(* A bounded set of numbers has a highest one. *)
LEMMA Highest ==
  ASSUME NEW T \in SUBSET Nat, T # {}, NEW N \in Nat, \A k \in T : k <= N
  PROVE  \E n \in T : \A k \in T : k <= n
<1> DEFINE D == {N - k : k \in T}
<1>1. D \in SUBSET Nat /\ D # {}
  <2>1. \A k \in T : N - k \in Nat
    OBVIOUS
  <2> QED BY <2>1
<1>2. PICK d \in D : \A k \in D : d <= k
  BY <1>1, Least
<1>3. PICK n \in T : d = N - n
  BY <1>2
<1>4. ASSUME NEW k \in T PROVE k <= n
  <2>1. N - k \in D
    OBVIOUS
  <2>2. d <= N - k
    BY <2>1, <1>2
  <2> QED BY <2>2, <1>3
<1> QED BY <1>4

(* What the driver hands out meets nothing that is live. *)
LEMMA RoomIsFree ==
  ASSUME NEW m, Apart(m.live), NEW n \in Nat
  PROVE  /\ Room(m, n) \in Nat \ {0}
         /\ \A b \in DOMAIN m.live : Room(m, n) + n <= b \/ End(m, b) <= Room(m, n)
<1> DEFINE E == {End(m, b) : b \in DOMAIN m.live}
           Fits(a) == \A b \in DOMAIN m.live : a + n <= b \/ End(m, b) <= a
           S == {a \in {1} \union E : Fits(a)}
<1>1. E \in SUBSET Nat /\ 0 \notin E
  BY Ends
<1>2. S # {}
  <2>1. CASE E = {}
    <3>1. 1 \in S
      BY <2>1
    <3> QED BY <3>1
  <2>2. CASE E # {}
    <3>1. PICK N \in Nat : \A b \in DOMAIN m.live : b + Cardinality(DOMAIN m.live[b]) <= N
      BY DEF Apart
    <3>2. \A k \in E : k <= N
      BY <3>1, Ends
    <3> HIDE DEF E
    <3>3. PICK e \in E : \A k \in E : k <= e
      BY <1>1, <2>2, <3>2, Highest
    <3> USE DEF E
    <3>4. e \in S
      BY <3>3
    <3> QED BY <3>4
  <2> QED BY <2>1, <2>2
<1>3. S \in SUBSET Nat /\ 0 \notin S
  BY <1>1
<1>4. PICK a \in S : \A k \in S : a <= k
  <2> HIDE DEF S
  <2> QED BY <1>2, <1>3, Least
<1>5. Room(m, n) \in S
  <2>1. Room(m, n) = CHOOSE x \in S : \A y \in S : x <= y
    BY DEF Room, Min
  <2> QED BY <2>1, <1>4
<1> QED BY <1>3, <1>5

Errors == {"failed", "sticky", "poisoned"}

(* What Context.call may leave. *)
LEMMA CallOutcomes ==
  ASSUME NEW m, NEW done, NEW failures, NEW o \in call(m, done, failures)
  PROVE  \/ m.poisoned /\ o.mem = m /\ o.err = "poisoned"
         \/ ~m.poisoned /\ o.mem \in done /\ o.err = ""
         \/ ~m.poisoned /\ o.mem = fault(m, o.err) /\ o.err \in failures
<1>1. CASE m.poisoned
  BY <1>1 DEF call
<1>2. CASE ~m.poisoned
  <2>1. \/ o \in {[mem |-> x, err |-> ""] : x \in done}
        \/ o \in {[mem |-> fault(m, e), err |-> e] : e \in failures}
    BY <1>2 DEF call
  <2>2. CASE o \in {[mem |-> x, err |-> ""] : x \in done}
    <3>1. PICK x \in done : o = [mem |-> x, err |-> ""]
      BY <2>2
    <3> QED BY <1>2, <3>1
  <2>3. CASE o \in {[mem |-> fault(m, e), err |-> e] : e \in failures}
    <3>1. PICK e \in failures : o = [mem |-> fault(m, e), err |-> e]
      BY <2>3
    <3>2. o.err = e
      BY <3>1
    <3> QED BY <1>2, <3>1, <3>2
  <2> QED BY <2>1, <2>2, <2>3
<1> QED BY <1>1, <1>2

(* Nothing done keeps everything. *)
LEMMA GoodSame ==
  ASSUME NEW m, NEW B, Good(m, B)
  PROVE  Keeps(m, m, B)
BY DEF Good, Tidy, Keeps

(* A failure that fault remembers keeps what is owned. *)
LEMMA Failing ==
  ASSUME NEW m, NEW B, Good(m, B), ~m.poisoned, NEW e, NEW x, x = fault(m, e)
  PROVE  Good(x, B) /\ Keeps(m, x, B) /\ x.slices = m.slices /\ (e = "sticky" => x.poisoned)
<1>1. x = [live |-> m.live, poisoned |-> e = "sticky", astray |-> m.astray, slices |-> m.slices]
  BY DEF Good, Tidy, fault
<1>2. x.slices = m.slices /\ x.live = m.live /\ x.poisoned = (e = "sticky") /\ x.astray = m.astray
  BY <1>1
<1>3. Tidy(x)
  BY <1>1, <1>2 DEF Good, Tidy
<1>4. Owns(m, B) => Owns(x, B)
  BY <1>2 DEF Owns
<1>5. Good(x, B)
  BY <1>2, <1>3, <1>4 DEF Good
<1>6. Keeps(m, x, B)
  BY <1>2 DEF Good, Tidy, Keeps, Content
<1> QED BY <1>2, <1>5, <1>6

(* A call that fails leaves the context good and the buffers as they were. *)
LEMMA CallFails ==
  ASSUME NEW m, NEW B, Good(m, B), NEW done, NEW failures, failures \subseteq AnyFailure,
         NEW o \in call(m, done, failures)
  PROVE  /\ o.err = "" => ~m.poisoned /\ o.mem \in done
         /\ o.err # "" => o.err \in Errors /\ Good(o.mem, B) /\ Keeps(m, o.mem, B) /\ o.mem.slices = m.slices
         /\ o.err # "" /\ o.err # "failed" => o.mem.poisoned
<1>1. CASE m.poisoned /\ o.mem = m /\ o.err = "poisoned"
  BY <1>1, GoodSame DEF Errors
<1>2. CASE ~m.poisoned /\ o.mem \in done /\ o.err = ""
  BY <1>2
<1>3. CASE ~m.poisoned /\ o.mem = fault(m, o.err) /\ o.err \in failures
  <2>1. Good(o.mem, B) /\ Keeps(m, o.mem, B) /\ o.mem.slices = m.slices
    BY <1>3, Failing
  <2>2. o.err = "sticky" => o.mem.poisoned
    BY <1>3, Failing
  <2>3. o.err = "failed" \/ o.err = "sticky"
    BY <1>3 DEF AnyFailure
  <2> QED BY <2>1, <2>2, <2>3 DEF Errors
<1> QED BY <1>1, <1>2, <1>3, CallOutcomes

(* x is m with a buffer more, s, of n numbers. *)
Added(m, x, B, s, n) ==
  /\ s = Len(m.slices) + 1 /\ n # 0
  /\ Good(x, B \union {s}) /\ ~x.poisoned
  /\ Len(x.slices) = s /\ x.slices[s].n = n
  /\ Keeps(m, x, B)

(* A new Slice over a new buffer. *)
LEMMA Taken ==
  ASSUME NEW m, NEW B, Good(m, B), ~m.poisoned, NEW n \in Nat \ {0},
         NEW x, x = Wrapped(Allocated(m, n), Room(m, n), n),
         NEW s, s = Len(m.slices) + 1
  PROVE  Added(m, x, B, s, n)
<1> DEFINE p == Room(m, n)
           blank == [i \in 0 .. n - 1 |-> Junk]
           live == With(m.live, p, blank)
<1>1. Apart(m.live) /\ Owns(m, B) /\ Tidy(m) /\ B \subseteq DOMAIN m.slices
  BY DEF Good
<1>2. p \in Nat \ {0} /\ \A b \in DOMAIN m.live : p + n <= b \/ End(m, b) <= p
  BY <1>1, RoomIsFree
<1>3. \A b \in DOMAIN m.live : /\ b \in Nat /\ End(m, b) \in Nat /\ b < End(m, b)
                               /\ End(m, b) = b + Cardinality(DOMAIN m.live[b])
  BY <1>1, Ends
<1> HIDE DEF p
<1>4. p \notin DOMAIN m.live
  <2> SUFFICES ASSUME p \in DOMAIN m.live PROVE FALSE
    OBVIOUS
  <2>1. p + n <= p \/ End(m, p) <= p
    BY <1>2
  <2> QED BY <2>1, <1>2, <1>3
<1>5. Sized(blank, n)
  BY DEF Sized
<1>6. Cardinality(DOMAIN blank) = n
  BY <1>5, SizedCard
<1> HIDE DEF blank
<1>7. /\ live = [b \in DOMAIN live |-> live[b]]
      /\ DOMAIN live = DOMAIN m.live \union {p}
      /\ live[p] = blank
      /\ \A b \in DOMAIN m.live : live[b] = m.live[b]
  BY <1>4 DEF With
<1> HIDE DEF live
<1>8. Apart(live)
  <2>1. DOMAIN live \subseteq Nat \ {0}
    BY <1>1, <1>2, <1>7 DEF Apart
  <2>2. \A b \in DOMAIN live : \E k \in Nat \ {0} : Sized(live[b], k)
    BY <1>1, <1>5, <1>7 DEF Apart
  <2>3. \A b \in DOMAIN m.live : b + Cardinality(DOMAIN live[b]) = End(m, b)
    BY <1>3, <1>7
  <2>4. p + Cardinality(DOMAIN live[p]) = p + n
    BY <1>6, <1>7
  <2>5. ASSUME NEW b \in DOMAIN live, NEW c \in DOMAIN live
        PROVE  \/ b = c
               \/ b + Cardinality(DOMAIN live[b]) <= c
               \/ c + Cardinality(DOMAIN live[c]) <= b
    <3>1. CASE b \in DOMAIN m.live /\ c \in DOMAIN m.live
      BY <3>1, <1>1, <1>7 DEF Apart
    <3>2. CASE b = p /\ c = p
      BY <3>2
    <3>3. CASE b = p /\ c \in DOMAIN m.live
      <4>1. p + n <= c \/ End(m, c) <= p
        BY <3>3, <1>2
      <4>2. c + Cardinality(DOMAIN live[c]) = End(m, c)
        BY <2>3, <3>3
      <4> QED BY <4>1, <4>2, <2>4, <3>3
    <3>4. CASE c = p /\ b \in DOMAIN m.live
      <4>1. p + n <= b \/ End(m, b) <= p
        BY <3>4, <1>2
      <4>2. b + Cardinality(DOMAIN live[b]) = End(m, b)
        BY <2>3, <3>4
      <4> QED BY <4>1, <4>2, <2>4, <3>4
    <3> QED BY <3>1, <3>2, <3>3, <3>4, <1>7
  <2>6. \E N \in Nat : \A b \in DOMAIN live : b + Cardinality(DOMAIN live[b]) <= N
    <3>1. PICK N \in Nat : \A b \in DOMAIN m.live : b + Cardinality(DOMAIN m.live[b]) <= N
      BY <1>1 DEF Apart
    <3>2. \A b \in DOMAIN m.live : End(m, b) <= N
      BY <3>1, <1>3
    <3>3. N + p + n \in Nat
      BY <1>2
    <3>4. ASSUME NEW b \in DOMAIN live PROVE b + Cardinality(DOMAIN live[b]) <= N + p + n
      <4>1. CASE b = p
        BY <4>1, <2>4, <1>2
      <4>2. CASE b \in DOMAIN m.live
        <5>1. End(m, b) <= N /\ End(m, b) \in Nat
          BY <4>2, <3>2, <1>3
        <5>2. b + Cardinality(DOMAIN live[b]) = End(m, b)
          BY <4>2, <2>3
        <5> QED BY <5>1, <5>2, <1>2
      <4> QED BY <4>1, <4>2, <1>7
    <3> QED BY <3>3, <3>4
  <2> QED BY <1>7, <2>1, <2>2, <2>5, <2>6 DEF Apart
<1> DEFINE buffer == [ptr |-> p, n |-> n]
<1>9. buffer \in Buffer /\ buffer.ptr = p /\ buffer.n = n
  BY <1>2 DEF Buffer
<1>10. x = [live |-> live, poisoned |-> m.poisoned, astray |-> m.astray, slices |-> Append(m.slices, buffer)]
  BY <1>1 DEF Tidy, Allocated, Wrapped, live, blank, p
<1> HIDE DEF buffer
<1>11. /\ x.live = live /\ x.poisoned = m.poisoned /\ x.astray = m.astray
       /\ x.slices = Append(m.slices, buffer)
  BY <1>10
<1>12. /\ m.slices \in Seq(Buffer)
       /\ x.slices \in Seq(Buffer) /\ Len(x.slices) = s /\ x.slices[s] = buffer
       /\ \A t \in DOMAIN m.slices : x.slices[t] = m.slices[t]
       /\ DOMAIN m.slices = 1 .. Len(m.slices) /\ DOMAIN x.slices = 1 .. s
  BY <1>1, <1>9, <1>11, AppendProperties DEF Tidy
<1>13. Tidy(x)
  <2>1. x = [live |-> x.live, poisoned |-> x.poisoned, astray |-> x.astray, slices |-> x.slices]
    BY <1>10, <1>11
  <2> QED BY <2>1, <1>1, <1>11, <1>12 DEF Tidy
<1>14. Len(m.slices) \in Nat /\ s \notin B
  BY <1>1, <1>12
<1>15. Owns(x, B \union {s})
  <2>1. \A t \in B : /\ x.slices[t] = m.slices[t]
                     /\ m.slices[t].n # 0 /\ m.slices[t].ptr \in DOMAIN m.live
                     /\ m.slices[t].ptr # p
                     /\ Sized(m.live[m.slices[t].ptr], m.slices[t].n)
    BY <1>1, <1>4, <1>12 DEF Owns
  <2>2. ASSUME NEW t \in B \union {s}
        PROVE  /\ x.slices[t].n # 0
               /\ x.slices[t].ptr \in DOMAIN x.live
               /\ Sized(x.live[x.slices[t].ptr], x.slices[t].n)
    <3>1. CASE t = s
      BY <3>1, <1>5, <1>7, <1>9, <1>11, <1>12
    <3>2. CASE t \in B
      <4>1. x.slices[t] = m.slices[t]
        BY <3>2, <2>1
      <4>2. x.live[m.slices[t].ptr] = m.live[m.slices[t].ptr] /\ m.slices[t].ptr \in DOMAIN x.live
        BY <3>2, <2>1, <1>7, <1>11
      <4> QED BY <3>2, <4>1, <4>2, <2>1
    <3> QED BY <3>1, <3>2
  <2>3. ASSUME NEW t \in B \union {s}, NEW u \in B \union {s}, x.slices[t].ptr = x.slices[u].ptr
        PROVE  t = u
    <3>1. x.slices[s].ptr = p
      BY <1>9, <1>12
    <3>2. CASE t \in B /\ u \in B
      <4>1. m.slices[t].ptr = m.slices[u].ptr
        BY <3>2, <2>1, <2>3
      <4> QED BY <4>1, <3>2, <1>1 DEF Owns
    <3>3. CASE t = s \/ u = s
      BY <3>1, <3>3, <2>1, <2>3
    <3> QED BY <3>2, <3>3
  <2>4. ASSUME NEW b \in DOMAIN x.live PROVE \E t \in B \union {s} : x.slices[t].ptr = b
    <3>1. CASE b = p
      BY <3>1, <1>9, <1>12
    <3>2. CASE b \in DOMAIN m.live
      <4>1. PICK t \in B : m.slices[t].ptr = b
        BY <3>2, <1>1 DEF Owns
      <4> QED BY <4>1, <2>1
    <3> QED BY <3>1, <3>2, <1>7, <1>11
  <2> QED BY <2>2, <2>3, <2>4 DEF Owns
<1>16. Good(x, B \union {s})
  BY <1>1, <1>8, <1>11, <1>12, <1>13, <1>14, <1>15 DEF Good
<1>17. Keeps(m, x, B)
  <2>1. ASSUME NEW t \in B PROVE x.slices[t] = m.slices[t] /\ Content(x, t) = Content(m, t)
    <3>1. x.slices[t] = m.slices[t]
      BY <1>1, <1>12
    <3>2. m.slices[t].ptr \in DOMAIN m.live
      BY <1>1 DEF Owns
    <3> QED BY <3>1, <3>2, <1>7, <1>11 DEF Content
  <2>2. Len(m.slices) <= Len(x.slices)
    BY <1>12, <1>14
  <2> QED BY <2>1, <2>2, <1>11 DEF Keeps
<1> QED BY <1>9, <1>11, <1>12, <1>16, <1>17 DEF Added

(* An operation that failed: whatever it took is given back. *)
Broken(m, o, B) == o.err \in Errors /\ Good(o.mem, B) /\ Keeps(m, o.mem, B)

(* NewSlice: a buffer more, or nothing changed but the failure. *)
LEMMA NewSliceOutcomes ==
  ASSUME NEW m, NEW B, Good(m, B), NEW n \in Nat, NEW o \in NewSlice(m, n)
  PROVE  /\ o.err = "" => Added(m, o.mem, B, o.s, n)
         /\ o.err # "" => Broken(m, o, B)
<1> DEFINE done == IF n = 0 THEN {} ELSE {Allocated(m, n)}
           After(a) == {[mem |-> Wrapped(a.mem, Room(m, n), n),
                         err |-> "", s |-> Len(m.slices) + 1]}
<1>1. PICK a \in Alloc(m, n) : o \in IF a.err = "" THEN After(a) ELSE {a}
  BY DEF NewSlice, Then
<1>2. a \in call(m, done, AnyFailure)
  BY <1>1 DEF Alloc
<1>3. CASE a.err = ""
  <2>1. ~m.poisoned /\ a.mem \in done
    BY <1>2, <1>3, CallFails DEF Errors
  <2>2. n # 0 /\ a.mem = Allocated(m, n)
    BY <2>1
  <2>3. o = [mem |-> Wrapped(a.mem, Room(m, n), n),
             err |-> "", s |-> Len(m.slices) + 1]
    BY <1>1, <1>3
  <2>4. /\ o.err = "" /\ o.s = Len(m.slices) + 1
        /\ o.mem = Wrapped(Allocated(m, n), Room(m, n), n)
    BY <2>2, <2>3
  <2> HIDE DEF After
  <2>5. n \in Nat \ {0}
    BY <2>2
  <2>6. o.mem = Wrapped(Allocated(m, n), Room(m, n), n)
    BY <2>2, <2>4
  <2> QED BY <2>1, <2>4, <2>5, <2>6, Taken
<1>4. CASE a.err # ""
  <2>1. o = a
    BY <1>1, <1>4
  <2> HIDE DEF After, done
  <2>2. AnyFailure \subseteq AnyFailure
    OBVIOUS
  <2>3. Broken(m, a, B)
    BY <1>2, <1>4, <2>2, CallFails DEF Broken
  <2> QED BY <2>1, <2>3, <1>4
<1> QED BY <1>3, <1>4

(* The driver is handed an address that is live: nothing is astray. *)
LEMMA HandedLive ==
  ASSUME NEW m, Tidy(m), NEW a \in DOMAIN m.live
  PROVE  Handed(m, a) = m
BY DEF Handed, Tidy

(* x is m with other contents in the buffer s. *)
Filled(m, x, B, s, xs) ==
  /\ Good(x, B) /\ ~x.poisoned
  /\ x.slices = m.slices
  /\ Content(x, s) = xs
  /\ Keeps(m, x, B \ {s})

(* A write into a buffer of ours changes that one. *)
LEMMA Overwritten ==
  ASSUME NEW m, NEW B, Good(m, B), ~m.poisoned, NEW s \in B, NEW xs, Sized(xs, m.slices[s].n),
         NEW x, x = Written(m, m.slices[s].ptr, xs)
  PROVE  Filled(m, x, B, s, xs)
<1> DEFINE a == m.slices[s].ptr
           live == [b \in DOMAIN m.live |-> IF b = a THEN xs ELSE m.live[b]]
<1>1. Apart(m.live) /\ Owns(m, B) /\ Tidy(m) /\ B \subseteq DOMAIN m.slices
  BY DEF Good
<1>2. a \in DOMAIN m.live /\ Sized(m.live[a], m.slices[s].n) /\ m.slices[s].n \in Nat
  <2>1. m.slices[s] \in Buffer
    BY <1>1 DEF Tidy
  <2> QED BY <1>1, <2>1 DEF Owns, Buffer
<1>3. x = [live |-> live, poisoned |-> m.poisoned, astray |-> m.astray, slices |-> m.slices]
  <2>1. x = [m EXCEPT !.live = [b \in DOMAIN @ |-> IF b = a THEN xs ELSE @[b]]]
    BY <1>1, <1>2, HandedLive DEF Written
  <2> QED BY <2>1, <1>1 DEF Tidy
<1>4. /\ x.live = live /\ x.poisoned = m.poisoned /\ x.astray = m.astray /\ x.slices = m.slices
      /\ x = [live |-> x.live, poisoned |-> x.poisoned, astray |-> x.astray, slices |-> x.slices]
  BY <1>3
<1>5. /\ DOMAIN live = DOMAIN m.live
      /\ live = [b \in DOMAIN live |-> live[b]]
      /\ live[a] = xs
      /\ \A b \in DOMAIN m.live : b # a => live[b] = m.live[b]
      /\ \A b \in DOMAIN m.live : DOMAIN live[b] = DOMAIN m.live[b]
  BY <1>2 DEF Sized
<1> HIDE DEF live, a
<1>6. Apart(live)
  BY <1>1, <1>5 DEF Apart, Sized
<1>7. Tidy(x)
  BY <1>1, <1>4 DEF Tidy
<1>8. Owns(x, B)
  <2>1. \A t \in B : m.slices[t].ptr \in DOMAIN m.live /\ Sized(m.live[m.slices[t].ptr], m.slices[t].n)
    BY <1>1 DEF Owns
  <2>2. \A t \in B : m.slices[t].ptr \in DOMAIN live /\ Sized(live[m.slices[t].ptr], m.slices[t].n)
    BY <2>1, <1>5 DEF Sized
  <2> QED BY <2>2, <1>1, <1>4, <1>5 DEF Owns
<1>9. Good(x, B) /\ ~x.poisoned /\ x.slices = m.slices
  BY <1>1, <1>4, <1>6, <1>7, <1>8 DEF Good
<1>10. Content(x, s) = xs
  BY <1>4, <1>5 DEF Content, a
<1>11. ASSUME NEW t \in B \ {s} PROVE Content(x, t) = Content(m, t)
  <2>1. m.slices[t].ptr \in DOMAIN m.live /\ m.slices[t].ptr # a
    BY <1>1 DEF Owns, a
  <2> QED BY <2>1, <1>4, <1>5 DEF Content
<1>12. Keeps(m, x, B \ {s})
  <2>1. Len(m.slices) <= Len(x.slices)
    BY <1>1, <1>4 DEF Tidy
  <2> QED BY <2>1, <1>4, <1>11 DEF Keeps
<1> QED BY <1>9, <1>10, <1>12 DEF Filled

(* The array of a sequence has its length. *)
LEMMA ArrayIs ==
  ASSUME NEW T, NEW xs \in Seq(T)
  PROVE  /\ Sized(Array(xs), Len(xs))
         /\ Array(xs) = [i \in 0 .. Len(xs) - 1 |-> xs[i + 1]]
BY DEF Array, Sized

(* CopyFrom: the buffer holds the values, or the call failed. *)
LEMMA CopyFromOutcomes ==
  ASSUME NEW m, NEW B, Good(m, B), NEW s \in B, NEW T, NEW xs \in Seq(T), Len(xs) = m.slices[s].n, Len(xs) # 0,
         NEW o \in CopyFrom(m, s, xs)
  PROVE  /\ o.err = "" => ~m.poisoned /\ Filled(m, o.mem, B, s, Array(xs))
         /\ o.err # "" => Broken(m, o, B)
<1> DEFINE done == {Written(m, m.slices[s].ptr, Array(xs))}
<1>1. o \in call(m, done, AnyFailure)
  BY DEF CopyFrom
<1>2. Sized(Array(xs), m.slices[s].n)
  BY ArrayIs
<1>3. CASE o.err = ""
  <2> HIDE DEF done
  <2>1. ~m.poisoned /\ o.mem \in done
    BY <1>1, <1>3, CallFails
  <2> USE DEF done
  <2>2. o.mem = Written(m, m.slices[s].ptr, Array(xs))
    BY <2>1
  <2> QED BY <2>1, <2>2, <1>2, <1>3, Overwritten
<1>4. CASE o.err # ""
  <2> HIDE DEF done
  <2> QED BY <1>1, <1>4, CallFails DEF Broken
<1> QED BY <1>3, <1>4

(* A free takes the buffer from those that are owned, whatever the driver says. *)
LEMMA Released ==
  ASSUME NEW m, NEW B, Good(m, B), ~m.poisoned, NEW s \in B,
         NEW x, x = Emptied(Freed(m, m.slices[s].ptr), s)
  PROVE  Good(x, B \ {s}) /\ Keeps(m, x, B \ {s}) /\ ~x.poisoned
<1> DEFINE a == m.slices[s].ptr
           live == [b \in DOMAIN m.live \ {a} |-> m.live[b]]
           buffer == [m.slices[s] EXCEPT !.ptr = 0]
           slices == [m.slices EXCEPT ![s] = buffer]
<1>1. Apart(m.live) /\ Owns(m, B) /\ Tidy(m) /\ B \subseteq DOMAIN m.slices
  BY DEF Good
<1>2. a \in DOMAIN m.live /\ m.slices \in Seq(Buffer) /\ s \in DOMAIN m.slices
  BY <1>1 DEF Owns, Tidy
<1>3. x = [live |-> live, poisoned |-> m.poisoned, astray |-> m.astray, slices |-> slices]
  <2>1. x = Emptied([m EXCEPT !.live = [b \in DOMAIN @ \ {a} |-> @[b]]], s)
    BY <1>1, <1>2, HandedLive DEF Freed
  <2>2. [m EXCEPT !.live = [b \in DOMAIN @ \ {a} |-> @[b]]]
          = [live |-> live, poisoned |-> m.poisoned, astray |-> m.astray, slices |-> m.slices]
    BY <1>1 DEF Tidy
  <2> QED BY <2>1, <2>2 DEF Emptied
<1>4. /\ x.live = live /\ x.poisoned = m.poisoned /\ x.astray = m.astray /\ x.slices = slices
      /\ x = [live |-> x.live, poisoned |-> x.poisoned, astray |-> x.astray, slices |-> x.slices]
  BY <1>3
<1>5. /\ slices \in Seq(Buffer) /\ Len(slices) = Len(m.slices) /\ DOMAIN slices = DOMAIN m.slices
      /\ \A t \in DOMAIN m.slices : t # s => slices[t] = m.slices[t]
  <2>1. buffer \in Buffer
    <3>1. m.slices[s] \in Buffer
      BY <1>2
    <3> QED BY <3>1 DEF Buffer
  <2> HIDE DEF buffer
  <2> QED BY <1>2, <2>1
<1>6. /\ DOMAIN live = DOMAIN m.live \ {a}
      /\ live = [b \in DOMAIN live |-> live[b]]
      /\ \A b \in DOMAIN live : live[b] = m.live[b]
  OBVIOUS
<1>7. \A t \in B \ {s} : m.slices[t].ptr # a
  BY <1>1 DEF Owns
<1> HIDE DEF live, a, slices, buffer
<1>8. Apart(live)
  BY <1>1, <1>6 DEF Apart
<1>9. Tidy(x)
  BY <1>1, <1>4, <1>5 DEF Tidy
<1>10. \A t \in B \ {s} : x.slices[t] = m.slices[t] /\ m.slices[t].ptr \in DOMAIN live
  BY <1>1, <1>4, <1>5, <1>6, <1>7 DEF Owns
<1>11. Owns(x, B \ {s})
  <2>1. ASSUME NEW b \in DOMAIN x.live PROVE \E t \in B \ {s} : x.slices[t].ptr = b
    <3>1. b \in DOMAIN m.live /\ b # a
      BY <1>4, <1>6
    <3>2. PICK t \in B : m.slices[t].ptr = b
      BY <1>1, <3>1 DEF Owns
    <3>3. t # s
      BY <3>1, <3>2 DEF a
    <3> QED BY <3>2, <3>3, <1>10
  <2>2. \A t \in B \ {s} : /\ x.slices[t].n # 0
                           /\ x.slices[t].ptr \in DOMAIN x.live
                           /\ Sized(x.live[x.slices[t].ptr], x.slices[t].n)
    BY <1>1, <1>4, <1>6, <1>10 DEF Owns
  <2>3. \A t, u \in B \ {s} : x.slices[t].ptr = x.slices[u].ptr => t = u
    BY <1>1, <1>10 DEF Owns
  <2> QED BY <2>1, <2>2, <2>3 DEF Owns
<1>12. Good(x, B \ {s}) /\ ~x.poisoned
  BY <1>1, <1>4, <1>5, <1>8, <1>9, <1>11 DEF Good
<1>13. Keeps(m, x, B \ {s})
  <2>1. Len(m.slices) <= Len(x.slices)
    BY <1>2, <1>4, <1>5
  <2>2. \A t \in B \ {s} : Content(x, t) = Content(m, t)
    BY <1>4, <1>6, <1>10 DEF Content
  <2> QED BY <2>1, <2>2, <1>4, <1>10 DEF Keeps
<1> QED BY <1>12, <1>13

(* What two operations one after the other keep. *)
LEMMA KeepsOn ==
  ASSUME NEW m, NEW x, NEW y, NEW B, NEW C, NEW D, Good(m, D),
         Keeps(m, x, B), Keeps(x, y, C), Tidy(x), Tidy(y), NEW E, E \subseteq B, E \subseteq C
  PROVE  Keeps(m, y, E)
<1>1. Len(m.slices) \in Nat /\ Len(x.slices) \in Nat /\ Len(y.slices) \in Nat
  BY DEF Good, Tidy
<1>2. Len(m.slices) <= Len(y.slices)
  BY <1>1 DEF Keeps
<1>3. ASSUME ~y.poisoned
      PROVE  ~m.poisoned /\ \A s \in E : y.slices[s] = m.slices[s] /\ Content(y, s) = Content(m, s)
  <2>1. ~x.poisoned /\ \A s \in E : y.slices[s] = x.slices[s] /\ Content(y, s) = Content(x, s)
    BY <1>3 DEF Keeps
  <2>2. ~m.poisoned /\ \A s \in E : x.slices[s] = m.slices[s] /\ Content(x, s) = Content(m, s)
    BY <2>1 DEF Keeps
  <2> QED BY <2>1, <2>2
<1> QED BY <1>2, <1>3 DEF Keeps

(* Free on a poisoned context: the Slice lets go of what only the driver can free. *)
LEMMA EmptiedPoisoned ==
  ASSUME NEW m, NEW B, Good(m, B), m.poisoned, NEW s \in B, NEW x, x = Emptied(m, s)
  PROVE  Good(x, B \ {s}) /\ Keeps(m, x, B \ {s})
<1> DEFINE buffer == [m.slices[s] EXCEPT !.ptr = 0]
           slices == [m.slices EXCEPT ![s] = buffer]
<1>1. Tidy(m) /\ s \in DOMAIN m.slices /\ m.slices \in Seq(Buffer) /\ B \subseteq DOMAIN m.slices
  BY DEF Good, Tidy
<1>2. x = [live |-> m.live, poisoned |-> m.poisoned, astray |-> m.astray, slices |-> slices]
  BY <1>1 DEF Tidy, Emptied
<1>3. slices \in Seq(Buffer) /\ Len(slices) = Len(m.slices) /\ DOMAIN slices = DOMAIN m.slices
  <2>1. buffer \in Buffer
    <3>1. m.slices[s] \in Buffer
      BY <1>1
    <3> QED BY <3>1 DEF Buffer
  <2> HIDE DEF buffer
  <2> QED BY <1>1, <2>1
<1> HIDE DEF slices
<1>4. x.poisoned /\ x.slices = slices /\ x.astray = m.astray /\ x.poisoned = m.poisoned
  BY <1>2
<1>5. x = [live |-> x.live, poisoned |-> x.poisoned, astray |-> x.astray, slices |-> x.slices]
  BY <1>2
<1>6. Tidy(x)
  BY <1>1, <1>3, <1>4, <1>5 DEF Tidy
<1>7. Len(m.slices) <= Len(x.slices)
  BY <1>1, <1>3, <1>4
<1>8. Good(x, B \ {s})
  BY <1>1, <1>3, <1>4, <1>6 DEF Good
<1> QED BY <1>4, <1>7, <1>8 DEF Keeps

(* Free, whatever the driver says: the buffer is no longer owned, the others are as they were. *)
LEMMA FreeOutcomes ==
  ASSUME NEW m, NEW B, Good(m, B), NEW s \in B, NEW x \in Free(m, s)
  PROVE  Good(x, B \ {s}) /\ Keeps(m, x, B \ {s})
<1> DEFINE a == m.slices[s].ptr
           done == {Freed(m, a)}
<1>1. CASE a = 0
  <2>1. x = m
    BY <1>1 DEF Free
  <2>2. m.poisoned
    BY <1>1 DEF Good, Owns, Apart
  <2>3. Good(m, B \ {s})
    BY <2>2 DEF Good
  <2> QED BY <2>1, <2>3, GoodSame
<1>2. CASE a # 0
  <2>1. PICK o \in call(m, done, {"sticky"}) : x = Emptied(o.mem, s)
    BY <1>2 DEF Free
  <2>2. \/ m.poisoned /\ o.mem = m
        \/ ~m.poisoned /\ o.mem = Freed(m, a)
        \/ ~m.poisoned /\ o.mem = fault(m, "sticky")
    <3> HIDE DEF done
    <3>1. \/ m.poisoned /\ o.mem = m
          \/ ~m.poisoned /\ o.mem \in done
          \/ ~m.poisoned /\ o.mem = fault(m, o.err) /\ o.err \in {"sticky"}
      BY <2>1, CallOutcomes
    <3> QED BY <3>1 DEF done
  <2>3. CASE m.poisoned /\ o.mem = m
    BY <2>1, <2>3, EmptiedPoisoned
  <2>4. CASE ~m.poisoned /\ o.mem = Freed(m, a)
    BY <2>1, <2>4, Released
  <2>5. CASE ~m.poisoned /\ o.mem = fault(m, "sticky")
    <3>1. Good(o.mem, B) /\ Keeps(m, o.mem, B) /\ o.mem.poisoned
      BY <2>5, Failing
    <3>2. Good(x, B \ {s}) /\ Keeps(o.mem, x, B \ {s})
      BY <2>1, <3>1, EmptiedPoisoned
    <3>3. Tidy(o.mem) /\ Tidy(x) /\ B \ {s} \subseteq B
      BY <3>1, <3>2 DEF Good
    <3>4. Keeps(m, x, B \ {s})
      BY <3>1, <3>2, <3>3, KeepsOn
    <3> QED BY <3>2, <3>4
  <2> QED BY <2>2, <2>3, <2>4, <2>5
<1> QED BY <1>1, <1>2

(* f[k] is what k frees may leave. *)
FreesAre(m, owned, f) ==
  /\ f[0] = {m}
  /\ \A k \in 1 .. Len(owned) : f[k] = UNION {Free(x, owned[k]) : x \in f[k - 1]}
  /\ FreeAll(m, owned) = f[Len(owned)]

(* A loop over a list, as a function of how far it has come. *)
LEMMA FreeAllLoop ==
  ASSUME NEW m, NEW T, NEW owned \in Seq(T)
  PROVE  \E f : FreesAre(m, owned, f)
<1> DEFINE G(f, k) == IF k = 0 THEN {m} ELSE UNION {Free(x, owned[k]) : x \in f[k - 1]}
           T0 == {j \in Nat : \E f : f = [k \in 0 .. j |-> G(f, k)]}
<1>0. Len(owned) \in Nat
  OBVIOUS
<1>1. 0 \in T0
  <2>1. [k \in 0 .. 0 |-> {m}] = [k \in 0 .. 0 |-> G([i \in 0 .. 0 |-> {m}], k)]
    OBVIOUS
  <2> QED BY <2>1
<1>2. ASSUME NEW j \in Nat, j \in T0 PROVE j + 1 \in T0
  <2>1. PICK f : f = [k \in 0 .. j |-> G(f, k)]
    BY <1>2
  <2> DEFINE g == [k \in 0 .. j + 1 |-> IF k = j + 1 THEN G(f, j + 1) ELSE f[k]]
  <2>2. ASSUME NEW k \in 0 .. j + 1 PROVE g[k] = G(g, k)
    <3>1. k # 0 => g[k - 1] = f[k - 1]
      OBVIOUS
    <3>2. k # j + 1 => f[k] = G(f, k)
      BY <2>1
    <3>3. g[k] = G(f, k)
      BY <3>2
    <3>4. G(f, k) = G(g, k)
      BY <3>1
    <3> QED BY <3>3, <3>4
  <2>3. g = [k \in 0 .. j + 1 |-> G(g, k)]
    BY <2>2
  <2> HIDE DEF g
  <2>4. \E h : h = [k \in 0 .. j + 1 |-> G(h, k)]
    BY <2>3
  <2>5. j + 1 \in Nat
    OBVIOUS
  <2> QED BY <2>4, <2>5
<1>3. Len(owned) \in T0
  <2> HIDE DEF T0
  <2> QED BY <1>0, <1>1, <1>2, Induction
<1> DEFINE after == CHOOSE f : f = [k \in 0 .. Len(owned) |-> G(f, k)]
<1>4. after = [k \in 0 .. Len(owned) |-> G(after, k)]
  BY <1>3
<1>5. FreeAll(m, owned) = after[Len(owned)]
  BY DEF FreeAll
<1> HIDE DEF after
<1>6. \A k \in 0 .. Len(owned) : after[k] = G(after, k)
  BY <1>4
<1>7. after[0] = {m}
  <2>1. 0 \in 0 .. Len(owned)
    BY <1>0
  <2> QED BY <2>1, <1>6
<1>8. ASSUME NEW k \in 1 .. Len(owned)
      PROVE  after[k] = UNION {Free(x, owned[k]) : x \in after[k - 1]}
  <2>1. k \in 0 .. Len(owned) /\ k # 0
    BY <1>0
  <2> QED BY <2>1, <1>6
<1> QED BY <1>5, <1>7, <1>8 DEF FreesAre

Members(s) == {s[i] : i \in 1 .. Len(s)}
Distinct(s) == \A i, j \in 1 .. Len(s) : s[i] = s[j] => i = j

(* The members of a sequence with one more. *)
LEMMA Appended ==
  ASSUME NEW T, NEW s \in Seq(T), NEW e \in T
  PROVE  /\ Append(s, e) \in Seq(T)
         /\ Members(Append(s, e)) = Members(s) \union {e}
         /\ Distinct(s) /\ e \notin Members(s) => Distinct(Append(s, e))
<1> DEFINE n == Len(s)
           t == Append(s, e)
<1>1. /\ t \in Seq(T) /\ Len(t) = n + 1 /\ n \in Nat /\ t[n + 1] = e
      /\ \A i \in 1 .. n : t[i] = s[i]
  BY AppendProperties
<1> HIDE DEF t
<1>2. ASSUME NEW y \in Members(t) PROVE y \in Members(s) \union {e}
  <2>1. PICK i \in 1 .. n + 1 : y = t[i]
    BY <1>1 DEF Members
  <2>2. CASE i = n + 1
    BY <2>1, <2>2, <1>1
  <2>3. CASE i \in 1 .. n
    BY <2>1, <2>3, <1>1 DEF Members
  <2> QED BY <2>2, <2>3, <1>1
<1>3. ASSUME NEW y \in Members(s) \union {e} PROVE y \in Members(t)
  <2>1. CASE y = e
    <3>1. n + 1 \in 1 .. Len(t)
      BY <1>1
    <3> QED BY <2>1, <3>1, <1>1 DEF Members
  <2>2. CASE y \in Members(s)
    <3>1. PICK i \in 1 .. n : y = s[i]
      BY <2>2 DEF Members
    <3>2. i \in 1 .. Len(t) /\ y = t[i]
      BY <1>1, <3>1
    <3> QED BY <3>2 DEF Members
  <2> QED BY <2>1, <2>2
<1>4. ASSUME Distinct(s), e \notin Members(s) PROVE Distinct(t)
  <2>1. ASSUME NEW i \in 1 .. n + 1, NEW j \in 1 .. n + 1, t[i] = t[j] PROVE i = j
    <3>1. \A k \in 1 .. n : t[k] # t[n + 1]
      BY <1>1, <1>4 DEF Members
    <3>2. CASE i \in 1 .. n /\ j \in 1 .. n
      BY <3>2, <2>1, <1>1, <1>4 DEF Distinct
    <3>3. CASE i = n + 1 \/ j = n + 1
      BY <3>1, <3>3, <2>1, <1>1
    <3> QED BY <3>2, <3>3, <1>1
  <2> QED BY <2>1, <1>1 DEF Distinct
<1>5. Members(t) = Members(s) \union {e}
  BY <1>2, <1>3
<1> QED BY <1>1, <1>4, <1>5 DEF t

(* Freeing all that is owned, one after the other. *)
LEMMA FreeAllOutcomes ==
  ASSUME NEW m, NEW B, Good(m, B), NEW owned \in Seq(B), Distinct(owned), NEW x \in FreeAll(m, owned)
  PROVE  Good(x, B \ Members(owned)) /\ Keeps(m, x, B \ Members(owned))
<1> DEFINE n == Len(owned)
           Left(k) == B \ {owned[i] : i \in 1 .. k}
<1>11. \E f : FreesAre(m, owned, f)
  BY FreeAllLoop
<1>12. PICK f : FreesAre(m, owned, f)
  BY <1>11
<1>1. /\ f[0] = {m}
      /\ \A k \in 1 .. n : f[k] = UNION {Free(y, owned[k]) : y \in f[k - 1]}
      /\ FreeAll(m, owned) = f[n]
  BY <1>12 DEF FreesAre
<1> DEFINE T == {k \in Nat : k <= n => \A y \in f[k] : Good(y, Left(k)) /\ Keeps(m, y, Left(k))}
<1>2. 0 \in T
  <2>1. Left(0) = B
    OBVIOUS
  <2> HIDE DEF Left
  <2> QED BY <1>1, <2>1, GoodSame
<1>3. ASSUME NEW k \in Nat, k \in T PROVE k + 1 \in T
  <2> SUFFICES ASSUME k + 1 <= n, NEW y \in f[k + 1]
               PROVE  Good(y, Left(k + 1)) /\ Keeps(m, y, Left(k + 1))
    OBVIOUS
  <2>1. k + 1 \in 1 .. n /\ k + 1 - 1 = k /\ k <= n
    OBVIOUS
  <2>2. f[k + 1] = UNION {Free(z, owned[k + 1]) : z \in f[k]}
    BY <1>1, <2>1
  <2>3. PICK z \in f[k] : y \in Free(z, owned[k + 1])
    BY <2>2
  <2>4. Good(z, Left(k)) /\ Keeps(m, z, Left(k))
    BY <1>3, <2>1, <2>3
  <2>5. owned[k + 1] \in Left(k)
    BY <2>1 DEF Distinct
  <2>6. Left(k + 1) = Left(k) \ {owned[k + 1]}
    BY <2>1
  <2> HIDE DEF Left
  <2>7. Good(y, Left(k + 1)) /\ Keeps(z, y, Left(k + 1))
    BY <2>3, <2>4, <2>5, <2>6, FreeOutcomes
  <2>8. Tidy(z) /\ Tidy(y) /\ Left(k + 1) \subseteq Left(k) /\ Left(k + 1) \subseteq Left(k + 1)
    BY <2>4, <2>6, <2>7 DEF Good
  <2>9. Keeps(m, y, Left(k + 1))
    BY <2>4, <2>7, <2>8, KeepsOn
  <2> QED BY <2>7, <2>9
<1>4. n \in T /\ n \in Nat
  <2> HIDE DEF T
  <2> QED BY <1>2, <1>3, Induction
<1>5. Left(n) = B \ Members(owned)
  BY DEF Members
<1>6. \A y \in f[n] : Good(y, Left(n)) /\ Keeps(m, y, Left(n))
  <2> HIDE DEF Left
  <2> QED BY <1>4
<1> HIDE DEF Left
<1> QED BY <1>1, <1>5, <1>6

(* Upload: a buffer with the values, or none: the copy that fails gives its buffer back. *)
LEMMA UploadOutcomes ==
  ASSUME NEW m, NEW B, Good(m, B), NEW T, NEW xs \in Seq(T), NEW o \in Upload(m, xs)
  PROVE  /\ o.err = "" => Added(m, o.mem, B, o.s, Len(xs)) /\ Content(o.mem, o.s) = Array(xs)
         /\ o.err # "" => Broken(m, o, B)
<1> DEFINE After(a) == UNION {IF c.err = "" THEN {[mem |-> c.mem, err |-> "", s |-> a.s]}
                              ELSE {[mem |-> x, err |-> c.err] : x \in Free(c.mem, a.s)} :
                                c \in CopyFrom(a.mem, a.s, xs)}
<1>1. PICK a \in NewSlice(m, Len(xs)) : o \in IF a.err = "" THEN After(a) ELSE {a}
  BY DEF Upload, Then
<1>2. /\ a.err = "" => Added(m, a.mem, B, a.s, Len(xs))
      /\ a.err # "" => Broken(m, a, B)
  <2>1. Len(xs) \in Nat
    OBVIOUS
  <2> HIDE DEF After
  <2> QED BY <2>1, <1>1, NewSliceOutcomes
<1>3. CASE a.err # ""
  <2>1. o = a
    BY <1>1, <1>3
  <2> QED BY <2>1, <1>2, <1>3
<1>4. CASE a.err = ""
  <2>1. Added(m, a.mem, B, a.s, Len(xs))
    BY <1>2, <1>4
  <2> DEFINE C == B \union {a.s}
  <2>2. Good(a.mem, C) /\ a.s \in C /\ Len(xs) = a.mem.slices[a.s].n /\ Len(xs) # 0
    BY <2>1 DEF Added
  <2>3. PICK c \in CopyFrom(a.mem, a.s, xs) :
          o \in IF c.err = "" THEN {[mem |-> c.mem, err |-> "", s |-> a.s]}
                ELSE {[mem |-> x, err |-> c.err] : x \in Free(c.mem, a.s)}
    BY <1>1, <1>4
  <2>4. /\ c.err = "" => ~a.mem.poisoned /\ Filled(a.mem, c.mem, C, a.s, Array(xs))
        /\ c.err # "" => Broken(a.mem, c, C)
    BY <2>2, <2>3, CopyFromOutcomes
  <2>5. a.s = Len(m.slices) + 1 /\ Len(m.slices) \in Nat /\ B \subseteq DOMAIN m.slices
        /\ DOMAIN m.slices = 1 .. Len(m.slices) /\ Keeps(m, a.mem, B) /\ Tidy(a.mem)
    BY <2>1, <2>2 DEF Added, Good, Tidy
  <2>6. C \ {a.s} = B
    BY <2>5
  <2> HIDE DEF C
  <2>7. CASE c.err = ""
    <3>1. o = [mem |-> c.mem, err |-> "", s |-> a.s]
      BY <2>3, <2>7
    <3>2. o.mem = c.mem /\ o.err = "" /\ o.s = a.s
      BY <3>1
    <3>3. Filled(a.mem, c.mem, C, a.s, Array(xs))
      BY <2>4, <2>7
    <3>4. Good(c.mem, C) /\ ~c.mem.poisoned /\ c.mem.slices = a.mem.slices /\ Content(c.mem, a.s) = Array(xs)
          /\ Keeps(a.mem, c.mem, B)
      BY <3>3, <2>6 DEF Filled
    <3>5. Tidy(c.mem) /\ B \subseteq B
      BY <3>4 DEF Good
    <3>6. Keeps(m, c.mem, B)
      BY <3>4, <3>5, <2>5, KeepsOn
    <3>7. Added(m, c.mem, B, a.s, Len(xs))
      BY <2>1, <3>4, <3>6 DEF Added, C
    <3> QED BY <3>2, <3>4, <3>7
  <2>8. CASE c.err # ""
    <3>1. PICK x \in Free(c.mem, a.s) : o = [mem |-> x, err |-> c.err]
      BY <2>3, <2>8
    <3>2. o.mem = x /\ o.err = c.err
      BY <3>1
    <3>3. c.err \in Errors /\ Good(c.mem, C) /\ Keeps(a.mem, c.mem, C)
      BY <2>4, <2>8 DEF Broken
    <3>4. Good(x, B) /\ Keeps(c.mem, x, B)
      <4>1. Good(x, C \ {a.s}) /\ Keeps(c.mem, x, C \ {a.s})
        BY <2>2, <3>1, <3>3, FreeOutcomes
      <4> QED BY <4>1, <2>6
    <3>5. Tidy(c.mem) /\ Tidy(x) /\ B \subseteq C /\ B \subseteq B
      BY <3>3, <3>4 DEF Good, C
    <3>6. Keeps(m, c.mem, B)
      BY <2>5, <3>3, <3>5, KeepsOn
    <3>7. Keeps(m, x, B)
      BY <3>4, <3>5, <3>6, KeepsOn
    <3> QED BY <2>8, <3>2, <3>3, <3>4, <3>7 DEF Broken
  <2> QED BY <2>7, <2>8
<1> QED BY <1>3, <1>4

-----------------------------------------------------------------------------
(* The loops and the recursions, as functions of how far they have come.   *)

Kept(S, list, x) == IF x \in S THEN Append(list, x) ELSE list
AfterInput(outcomes, ns, n) == Then(outcomes, LAMBDA o : uploadInput(o, ns[n]))
AfterStep(outcomes, n) == Then(outcomes, LAMBDA o : step(o, n))

AllInputs(ns, output, inputs) == ThenEach(output, inputs, LAMBDA o, n : uploadInput(o, ns[n]))

(* The same for the loop that skips the other nodes. *)
LEMMA OnlyLoop ==
  ASSUME NEW S, NEW T, NEW xs \in Seq(T)
  PROVE  \E f : /\ f[0] = <<>>
                /\ \A k \in 1 .. Len(xs) : f[k] = Kept(S, f[k - 1], xs[k])
                /\ Only(S, xs) = f[Len(xs)]
<1> DEFINE G(f, k) == IF k = 0 THEN <<>> ELSE Kept(S, f[k - 1], xs[k])
           T0 == {j \in Nat : \E f : f = [k \in 0 .. j |-> G(f, k)]}
<1>0. Len(xs) \in Nat
  OBVIOUS
<1>1. 0 \in T0
  <2>1. [k \in 0 .. 0 |-> <<>>] = [k \in 0 .. 0 |-> G([i \in 0 .. 0 |-> <<>>], k)]
    OBVIOUS
  <2> QED BY <2>1
<1>2. ASSUME NEW j \in Nat, j \in T0 PROVE j + 1 \in T0
  <2>1. PICK f : f = [k \in 0 .. j |-> G(f, k)]
    BY <1>2
  <2> DEFINE g == [k \in 0 .. j + 1 |-> IF k = j + 1 THEN G(f, j + 1) ELSE f[k]]
  <2>2. ASSUME NEW k \in 0 .. j + 1 PROVE g[k] = G(g, k)
    <3>1. k # 0 => g[k - 1] = f[k - 1]
      OBVIOUS
    <3>2. k # j + 1 => f[k] = G(f, k)
      BY <2>1
    <3>3. g[k] = G(f, k)
      BY <3>2
    <3>4. G(f, k) = G(g, k)
      BY <3>1
    <3> QED BY <3>3, <3>4
  <2>3. g = [k \in 0 .. j + 1 |-> G(g, k)]
    BY <2>2
  <2> HIDE DEF g
  <2>4. \E h : h = [k \in 0 .. j + 1 |-> G(h, k)]
    BY <2>3
  <2>5. j + 1 \in Nat
    OBVIOUS
  <2> QED BY <2>4, <2>5
<1>3. Len(xs) \in T0
  <2> HIDE DEF T0
  <2> QED BY <1>0, <1>1, <1>2, Induction
<1> DEFINE after == CHOOSE f : f = [k \in 0 .. Len(xs) |-> G(f, k)]
<1>4. after = [k \in 0 .. Len(xs) |-> G(after, k)]
  BY <1>3
<1>5. Only(S, xs) = after[Len(xs)]
  BY DEF Only, Kept
<1> HIDE DEF after
<1>6. \A k \in 0 .. Len(xs) : after[k] = G(after, k)
  BY <1>4
<1>7. after[0] = <<>>
  <2>1. 0 \in 0 .. Len(xs)
    BY <1>0
  <2> QED BY <2>1, <1>6
<1>8. ASSUME NEW k \in 1 .. Len(xs)
      PROVE  after[k] = Kept(S, after[k - 1], xs[k])
  <2>1. k \in 0 .. Len(xs) /\ k # 0
    BY <1>0
  <2> QED BY <2>1, <1>6
<1> QED BY <1>5, <1>7, <1>8

(* f[k] is what the list is after k of xs. *)
PassedAre(follow, list, xs, f) ==
  /\ f[0] = list
  /\ \A k \in 1 .. Len(xs) : f[k] = follow[xs[k]][f[k - 1]]
  /\ Passed(follow, list, xs) = f[Len(xs)]

(* The same for the list that is handed on. *)
LEMMA PassedLoop ==
  ASSUME NEW follow, NEW list, NEW T, NEW xs \in Seq(T)
  PROVE  \E f : PassedAre(follow, list, xs, f)
<1> DEFINE G(f, k) == IF k = 0 THEN list ELSE follow[xs[k]][f[k - 1]]
           T0 == {j \in Nat : \E f : f = [k \in 0 .. j |-> G(f, k)]}
<1>0. Len(xs) \in Nat
  OBVIOUS
<1>1. 0 \in T0
  <2>1. [k \in 0 .. 0 |-> list] = [k \in 0 .. 0 |-> G([i \in 0 .. 0 |-> list], k)]
    OBVIOUS
  <2> QED BY <2>1
<1>2. ASSUME NEW j \in Nat, j \in T0 PROVE j + 1 \in T0
  <2>1. PICK f : f = [k \in 0 .. j |-> G(f, k)]
    BY <1>2
  <2> DEFINE g == [k \in 0 .. j + 1 |-> IF k = j + 1 THEN G(f, j + 1) ELSE f[k]]
  <2>2. ASSUME NEW k \in 0 .. j + 1 PROVE g[k] = G(g, k)
    <3>1. k # 0 => g[k - 1] = f[k - 1]
      OBVIOUS
    <3>2. k # j + 1 => f[k] = G(f, k)
      BY <2>1
    <3>3. g[k] = G(f, k)
      BY <3>2
    <3>4. G(f, k) = G(g, k)
      BY <3>1
    <3> QED BY <3>3, <3>4
  <2>3. g = [k \in 0 .. j + 1 |-> G(g, k)]
    BY <2>2
  <2> HIDE DEF g
  <2>4. \E h : h = [k \in 0 .. j + 1 |-> G(h, k)]
    BY <2>3
  <2>5. j + 1 \in Nat
    OBVIOUS
  <2> QED BY <2>4, <2>5
<1>3. Len(xs) \in T0
  <2> HIDE DEF T0
  <2> QED BY <1>0, <1>1, <1>2, Induction
<1> DEFINE after == CHOOSE f : f = [k \in 0 .. Len(xs) |-> G(f, k)]
<1>4. after = [k \in 0 .. Len(xs) |-> G(after, k)]
  BY <1>3
<1>5. Passed(follow, list, xs) = after[Len(xs)]
  BY DEF Passed
<1> HIDE DEF after
<1>6. \A k \in 0 .. Len(xs) : after[k] = G(after, k)
  BY <1>4
<1>7. after[0] = list
  <2>1. 0 \in 0 .. Len(xs)
    BY <1>0
  <2> QED BY <2>1, <1>6
<1>8. ASSUME NEW k \in 1 .. Len(xs)
      PROVE  after[k] = follow[xs[k]][after[k - 1]]
  <2>1. k \in 0 .. Len(xs) /\ k # 0
    BY <1>0
  <2> QED BY <2>1, <1>6
<1> QED BY <1>5, <1>7, <1>8 DEF PassedAre

(* f[k] is what the locals of a block are after k windows. *)
WindowsAre(ns, held, windows, base, outLen, f) ==
  /\ f[0] = <<>>
  /\ \A k \in 1 .. Len(windows) :
       f[k] = With(f[k - 1], windows[k], windowed(ns, held, f[k - 1], windows[k], base, outLen))
  /\ Windows(ns, held, windows, base, outLen) = f[Len(windows)]

(* The same for the windows of a block. *)
LEMMA WindowsLoop ==
  ASSUME NEW ns, NEW held, NEW T, NEW windows \in Seq(T), NEW base, NEW outLen
  PROVE  \E f : WindowsAre(ns, held, windows, base, outLen, f)
<1> DEFINE G(f, k) == IF k = 0 THEN <<>> ELSE With(f[k - 1], windows[k], windowed(ns, held, f[k - 1], windows[k], base, outLen))
           T0 == {j \in Nat : \E f : f = [k \in 0 .. j |-> G(f, k)]}
<1>0. Len(windows) \in Nat
  OBVIOUS
<1>1. 0 \in T0
  <2>1. [k \in 0 .. 0 |-> <<>>] = [k \in 0 .. 0 |-> G([i \in 0 .. 0 |-> <<>>], k)]
    OBVIOUS
  <2> QED BY <2>1
<1>2. ASSUME NEW j \in Nat, j \in T0 PROVE j + 1 \in T0
  <2>1. PICK f : f = [k \in 0 .. j |-> G(f, k)]
    BY <1>2
  <2> DEFINE g == [k \in 0 .. j + 1 |-> IF k = j + 1 THEN G(f, j + 1) ELSE f[k]]
  <2>2. ASSUME NEW k \in 0 .. j + 1 PROVE g[k] = G(g, k)
    <3>1. k # 0 => g[k - 1] = f[k - 1]
      OBVIOUS
    <3>2. k # j + 1 => f[k] = G(f, k)
      BY <2>1
    <3>3. g[k] = G(f, k)
      BY <3>2
    <3>4. G(f, k) = G(g, k)
      BY <3>1
    <3> QED BY <3>3, <3>4
  <2>3. g = [k \in 0 .. j + 1 |-> G(g, k)]
    BY <2>2
  <2> HIDE DEF g
  <2>4. \E h : h = [k \in 0 .. j + 1 |-> G(h, k)]
    BY <2>3
  <2>5. j + 1 \in Nat
    OBVIOUS
  <2> QED BY <2>4, <2>5
<1>3. Len(windows) \in T0
  <2> HIDE DEF T0
  <2> QED BY <1>0, <1>1, <1>2, Induction
<1> DEFINE after == CHOOSE f : f = [k \in 0 .. Len(windows) |-> G(f, k)]
<1>4. after = [k \in 0 .. Len(windows) |-> G(after, k)]
  BY <1>3
<1>5. Windows(ns, held, windows, base, outLen) = after[Len(windows)]
  BY DEF Windows
<1> HIDE DEF after
<1>6. \A k \in 0 .. Len(windows) : after[k] = G(after, k)
  BY <1>4
<1>7. after[0] = <<>>
  <2>1. 0 \in 0 .. Len(windows)
    BY <1>0
  <2> QED BY <2>1, <1>6
<1>8. ASSUME NEW k \in 1 .. Len(windows)
      PROVE  after[k] = With(after[k - 1], windows[k], windowed(ns, held, after[k - 1], windows[k], base, outLen))
  <2>1. k \in 0 .. Len(windows) /\ k # 0
    BY <1>0
  <2> QED BY <2>1, <1>6
<1> QED BY <1>5, <1>7, <1>8 DEF WindowsAre

(* The same for the inputs that run loads. *)
LEMMA InputsLoop ==
  ASSUME NEW ns, NEW output, NEW T, NEW inputs \in Seq(T)
  PROVE  \E f : /\ f[0] = output
                /\ \A k \in 1 .. Len(inputs) : f[k] = AfterInput(f[k - 1], ns, inputs[k])
                /\ AllInputs(ns, output, inputs) = f[Len(inputs)]
<1> DEFINE G(f, k) == IF k = 0 THEN output ELSE AfterInput(f[k - 1], ns, inputs[k])
           T0 == {j \in Nat : \E f : f = [k \in 0 .. j |-> G(f, k)]}
<1>0. Len(inputs) \in Nat
  OBVIOUS
<1>1. 0 \in T0
  <2>1. [k \in 0 .. 0 |-> output] = [k \in 0 .. 0 |-> G([i \in 0 .. 0 |-> output], k)]
    OBVIOUS
  <2> QED BY <2>1
<1>2. ASSUME NEW j \in Nat, j \in T0 PROVE j + 1 \in T0
  <2>1. PICK f : f = [k \in 0 .. j |-> G(f, k)]
    BY <1>2
  <2> DEFINE g == [k \in 0 .. j + 1 |-> IF k = j + 1 THEN G(f, j + 1) ELSE f[k]]
  <2>2. ASSUME NEW k \in 0 .. j + 1 PROVE g[k] = G(g, k)
    <3>1. k # 0 => g[k - 1] = f[k - 1]
      OBVIOUS
    <3>2. k # j + 1 => f[k] = G(f, k)
      BY <2>1
    <3>3. g[k] = G(f, k)
      BY <3>2
    <3>4. G(f, k) = G(g, k)
      BY <3>1
    <3> QED BY <3>3, <3>4
  <2>3. g = [k \in 0 .. j + 1 |-> G(g, k)]
    BY <2>2
  <2> HIDE DEF g
  <2>4. \E h : h = [k \in 0 .. j + 1 |-> G(h, k)]
    BY <2>3
  <2>5. j + 1 \in Nat
    OBVIOUS
  <2> QED BY <2>4, <2>5
<1>3. Len(inputs) \in T0
  <2> HIDE DEF T0
  <2> QED BY <1>0, <1>1, <1>2, Induction
<1> DEFINE after == CHOOSE f : f = [k \in 0 .. Len(inputs) |-> G(f, k)]
<1>4. after = [k \in 0 .. Len(inputs) |-> G(after, k)]
  BY <1>3
<1>5. AllInputs(ns, output, inputs) = after[Len(inputs)]
  BY DEF AllInputs, ThenEach, AfterInput
<1> HIDE DEF after
<1>6. \A k \in 0 .. Len(inputs) : after[k] = G(after, k)
  BY <1>4
<1>7. after[0] = output
  <2>1. 0 \in 0 .. Len(inputs)
    BY <1>0
  <2> QED BY <2>1, <1>6
<1>8. ASSUME NEW k \in 1 .. Len(inputs)
      PROVE  after[k] = AfterInput(after[k - 1], ns, inputs[k])
  <2>1. k \in 0 .. Len(inputs) /\ k # 0
    BY <1>0
  <2> QED BY <2>1, <1>6
<1> QED BY <1>5, <1>7, <1>8

(* The same for the operations of MaterializeStepwise. *)
LEMMA StepsLoop ==
  ASSUME NEW start, NEW T, NEW xs \in Seq(T)
  PROVE  \E f : /\ f[0] = start
                /\ \A k \in 1 .. Len(xs) : f[k] = AfterStep(f[k - 1], xs[k])
                /\ ThenEach(start, xs, step) = f[Len(xs)]
<1> DEFINE G(f, k) == IF k = 0 THEN start ELSE AfterStep(f[k - 1], xs[k])
           T0 == {j \in Nat : \E f : f = [k \in 0 .. j |-> G(f, k)]}
<1>0. Len(xs) \in Nat
  OBVIOUS
<1>1. 0 \in T0
  <2>1. [k \in 0 .. 0 |-> start] = [k \in 0 .. 0 |-> G([i \in 0 .. 0 |-> start], k)]
    OBVIOUS
  <2> QED BY <2>1
<1>2. ASSUME NEW j \in Nat, j \in T0 PROVE j + 1 \in T0
  <2>1. PICK f : f = [k \in 0 .. j |-> G(f, k)]
    BY <1>2
  <2> DEFINE g == [k \in 0 .. j + 1 |-> IF k = j + 1 THEN G(f, j + 1) ELSE f[k]]
  <2>2. ASSUME NEW k \in 0 .. j + 1 PROVE g[k] = G(g, k)
    <3>1. k # 0 => g[k - 1] = f[k - 1]
      OBVIOUS
    <3>2. k # j + 1 => f[k] = G(f, k)
      BY <2>1
    <3>3. g[k] = G(f, k)
      BY <3>2
    <3>4. G(f, k) = G(g, k)
      BY <3>1
    <3> QED BY <3>3, <3>4
  <2>3. g = [k \in 0 .. j + 1 |-> G(g, k)]
    BY <2>2
  <2> HIDE DEF g
  <2>4. \E h : h = [k \in 0 .. j + 1 |-> G(h, k)]
    BY <2>3
  <2>5. j + 1 \in Nat
    OBVIOUS
  <2> QED BY <2>4, <2>5
<1>3. Len(xs) \in T0
  <2> HIDE DEF T0
  <2> QED BY <1>0, <1>1, <1>2, Induction
<1> DEFINE after == CHOOSE f : f = [k \in 0 .. Len(xs) |-> G(f, k)]
<1>4. after = [k \in 0 .. Len(xs) |-> G(after, k)]
  BY <1>3
<1>5. ThenEach(start, xs, step) = after[Len(xs)]
  BY DEF ThenEach, AfterStep
<1> HIDE DEF after
<1>6. \A k \in 0 .. Len(xs) : after[k] = G(after, k)
  BY <1>4
<1>7. after[0] = start
  <2>1. 0 \in 0 .. Len(xs)
    BY <1>0
  <2> QED BY <2>1, <1>6
<1>8. ASSUME NEW k \in 1 .. Len(xs)
      PROVE  after[k] = AfterStep(after[k - 1], xs[k])
  <2>1. k \in 0 .. Len(xs) /\ k # 0
    BY <1>0
  <2> QED BY <2>1, <1>6
<1> QED BY <1>5, <1>7, <1>8

(* A graph: every node computes from nodes made before it. *)
Arity == [opInput |-> 0, opScale |-> 1, opUnary |-> 1, opAdd |-> 2, opMul |-> 2, opHypot |-> 2, opFIR |-> 2]
Shaped(ns) ==
  /\ \E N \in Nat : DOMAIN ns = 1 .. N
  /\ \A n \in DOMAIN ns :
       /\ ns[n].args \in Seq(1 .. n - 1)
       /\ ns[n].kind \in DOMAIN Arity
       /\ Len(ns[n].args) = Arity[ns[n].kind]

(* How many arguments each kind of node has. *)
LEMMA Arities ==
  ASSUME NEW ns, Shaped(ns), NEW n \in DOMAIN ns
  PROVE  /\ ns[n].args \in Seq(1 .. n - 1)
         /\ DOMAIN ns[n].args = 1 .. Len(ns[n].args)
         /\ Len(ns[n].args) \in 0 .. 2
         /\ ns[n].kind \in {"opInput", "opScale", "opUnary", "opAdd", "opMul", "opHypot", "opFIR"}
         /\ ns[n].kind = "opInput" => Len(ns[n].args) = 0
         /\ ns[n].kind \in {"opScale", "opUnary"} => Len(ns[n].args) = 1
         /\ ns[n].kind \in {"opAdd", "opMul", "opHypot", "opFIR"} => Len(ns[n].args) = 2
<1>1. DOMAIN Arity = {"opInput", "opScale", "opUnary", "opAdd", "opMul", "opHypot", "opFIR"}
  BY DEF Arity
<1>2. /\ Arity["opInput"] = 0 /\ Arity["opScale"] = 1 /\ Arity["opUnary"] = 1 /\ Arity["opAdd"] = 2
      /\ Arity["opMul"] = 2 /\ Arity["opHypot"] = 2 /\ Arity["opFIR"] = 2
  BY DEF Arity
<1>3. ns[n].args \in Seq(1 .. n - 1) /\ ns[n].kind \in DOMAIN Arity /\ Len(ns[n].args) = Arity[ns[n].kind]
  BY DEF Shaped
<1> QED BY <1>1, <1>2, <1>3

(* A node is made after its arguments. *)
LEMMA Arguments ==
  ASSUME NEW ns, Shaped(ns), NEW n \in DOMAIN ns, NEW i \in DOMAIN ns[n].args
  PROVE  ns[n].args[i] \in DOMAIN ns /\ ns[n].args[i] \in 1 .. n - 1 /\ n \in Nat
<1>1. PICK N \in Nat : DOMAIN ns = 1 .. N
  BY DEF Shaped
<1>2. ns[n].args[i] \in 1 .. n - 1
  BY DEF Shaped
<1> QED BY <1>1, <1>2

(* A recursion through the arguments, as a function of the node. *)
LEMMA ContainsFIRIs ==
  ASSUME NEW ns, Shaped(ns)
  PROVE  \E f : /\ \A n \in DOMAIN ns : f[n] = (ns[n].kind = "opFIR" \/ \E i \in DOMAIN ns[n].args : f[ns[n].args[i]])
                /\ \A r \in DOMAIN ns : containsFIR(ns, r) = f[r]
<1> DEFINE G(f, n) == (ns[n].kind = "opFIR" \/ \E i \in DOMAIN ns[n].args : f[ns[n].args[i]])
<1>1. PICK N \in Nat : DOMAIN ns = 1 .. N
  BY DEF Shaped
<1>2. ASSUME NEW f, NEW g, NEW n \in 1 .. N, \A k \in 1 .. n - 1 : f[k] = g[k] PROVE G(f, n) = G(g, n)
  <2>1. \A i \in DOMAIN ns[n].args : f[ns[n].args[i]] = g[ns[n].args[i]]
    BY <1>1, <1>2, Arguments
  <2> QED BY <2>1
<1> HIDE DEF G
<1> DEFINE T0 == {j \in Nat : j <= N => \E f : f = [n \in 1 .. j |-> G(f, n)]}
<1>3. 0 \in T0
  <2> DEFINE h == [n \in 1 .. 0 |-> 0]
  <2>1. h = [n \in 1 .. 0 |-> G(h, n)]
    OBVIOUS
  <2> HIDE DEF h
  <2> QED BY <2>1
<1>4. ASSUME NEW j \in Nat, j \in T0 PROVE j + 1 \in T0
  <2> SUFFICES ASSUME j + 1 <= N PROVE \E h : h = [n \in 1 .. j + 1 |-> G(h, n)]
    OBVIOUS
  <2>1. PICK f : f = [n \in 1 .. j |-> G(f, n)]
    BY <1>4
  <2> DEFINE g == [n \in 1 .. j + 1 |-> IF n = j + 1 THEN G(f, j + 1) ELSE f[n]]
  <2>2. \A k \in 1 .. j : g[k] = f[k]
    OBVIOUS
  <2>3. ASSUME NEW n \in 1 .. j + 1 PROVE g[n] = G(g, n)
    <3>1. n \in 1 .. N /\ \A k \in 1 .. n - 1 : f[k] = g[k]
      BY <1>1, <2>2
    <3>2. n # j + 1 => f[n] = G(f, n)
      BY <2>1
    <3>3. g[n] = G(f, n)
      BY <3>2
    <3> HIDE DEF g
    <3> QED BY <3>1, <3>3, <1>2
  <2>4. g = [n \in 1 .. j + 1 |-> G(g, n)]
    BY <2>3
  <2> HIDE DEF g
  <2> QED BY <2>4
<1>5. N \in T0
  <2> HIDE DEF T0
  <2> QED BY <1>1, <1>3, <1>4, Induction
<1> DEFINE order == CHOOSE f : f = [n \in DOMAIN ns |-> G(f, n)]
<1>6. order = [n \in DOMAIN ns |-> G(order, n)]
  <2>1. \E f : f = [n \in DOMAIN ns |-> G(f, n)]
    BY <1>1, <1>5
  <2> QED BY <2>1
<1>7. \A r \in DOMAIN ns : containsFIR(ns, r) = order[r]
  BY DEF containsFIR, G
<1> HIDE DEF order
<1>8. \A n \in DOMAIN ns : order[n] = (ns[n].kind = "opFIR" \/ \E i \in DOMAIN ns[n].args : order[ns[n].args[i]])
  <2>1. \A n \in DOMAIN ns : order[n] = G(order, n)
    BY <1>6
  <2> QED BY <2>1 DEF G
<1> QED BY <1>7, <1>8

(* The same for the order in which MaterializeStepwise visits. *)
LEMMA VisitsIs ==
  ASSUME NEW ns, Shaped(ns)
  PROVE  \E f : /\ \A n \in DOMAIN ns : f[n] = Append(FlattenSeq([i \in DOMAIN ns[n].args |-> f[ns[n].args[i]]]), n)
                /\ \A r \in DOMAIN ns : visits(ns, r) = f[r]
<1> DEFINE G(f, n) == Append(FlattenSeq([i \in DOMAIN ns[n].args |-> f[ns[n].args[i]]]), n)
<1>1. PICK N \in Nat : DOMAIN ns = 1 .. N
  BY DEF Shaped
<1>2. ASSUME NEW f, NEW g, NEW n \in 1 .. N, \A k \in 1 .. n - 1 : f[k] = g[k] PROVE G(f, n) = G(g, n)
  <2>1. \A i \in DOMAIN ns[n].args : f[ns[n].args[i]] = g[ns[n].args[i]]
    BY <1>1, <1>2, Arguments
  <2>2. [i \in DOMAIN ns[n].args |-> f[ns[n].args[i]]] = [i \in DOMAIN ns[n].args |-> g[ns[n].args[i]]]
    BY <2>1
  <2> QED BY <2>2
<1> HIDE DEF G
<1> DEFINE T0 == {j \in Nat : j <= N => \E f : f = [n \in 1 .. j |-> G(f, n)]}
<1>3. 0 \in T0
  <2> DEFINE h == [n \in 1 .. 0 |-> 0]
  <2>1. h = [n \in 1 .. 0 |-> G(h, n)]
    OBVIOUS
  <2> HIDE DEF h
  <2> QED BY <2>1
<1>4. ASSUME NEW j \in Nat, j \in T0 PROVE j + 1 \in T0
  <2> SUFFICES ASSUME j + 1 <= N PROVE \E h : h = [n \in 1 .. j + 1 |-> G(h, n)]
    OBVIOUS
  <2>1. PICK f : f = [n \in 1 .. j |-> G(f, n)]
    BY <1>4
  <2> DEFINE g == [n \in 1 .. j + 1 |-> IF n = j + 1 THEN G(f, j + 1) ELSE f[n]]
  <2>2. \A k \in 1 .. j : g[k] = f[k]
    OBVIOUS
  <2>3. ASSUME NEW n \in 1 .. j + 1 PROVE g[n] = G(g, n)
    <3>1. n \in 1 .. N /\ \A k \in 1 .. n - 1 : f[k] = g[k]
      BY <1>1, <2>2
    <3>2. n # j + 1 => f[n] = G(f, n)
      BY <2>1
    <3>3. g[n] = G(f, n)
      BY <3>2
    <3> HIDE DEF g
    <3> QED BY <3>1, <3>3, <1>2
  <2>4. g = [n \in 1 .. j + 1 |-> G(g, n)]
    BY <2>3
  <2> HIDE DEF g
  <2> QED BY <2>4
<1>5. N \in T0
  <2> HIDE DEF T0
  <2> QED BY <1>1, <1>3, <1>4, Induction
<1> DEFINE order == CHOOSE f : f = [n \in DOMAIN ns |-> G(f, n)]
<1>6. order = [n \in DOMAIN ns |-> G(order, n)]
  <2>1. \E f : f = [n \in DOMAIN ns |-> G(f, n)]
    BY <1>1, <1>5
  <2> QED BY <2>1
<1>7. \A r \in DOMAIN ns : visits(ns, r) = order[r]
  BY DEF visits, G
<1> HIDE DEF order
<1>8. \A n \in DOMAIN ns : order[n] = Append(FlattenSeq([i \in DOMAIN ns[n].args |-> order[ns[n].args[i]]]), n)
  <2>1. \A n \in DOMAIN ns : order[n] = G(order, n)
    BY <1>6
  <2> QED BY <2>1 DEF G
<1> QED BY <1>7, <1>8

(* What is handed on depends on those it is handed to. *)
LEMMA PassedSame ==
  ASSUME NEW f, NEW g, NEW list, NEW T, NEW xs \in Seq(T), \A i \in DOMAIN xs : f[xs[i]] = g[xs[i]]
  PROVE  Passed(f, list, xs) = Passed(g, list, xs)
<1>11. (\E a : PassedAre(f, list, xs, a)) /\ (\E b : PassedAre(g, list, xs, b))
  BY PassedLoop
<1>12. PICK a : PassedAre(f, list, xs, a)
  BY <1>11
<1>13. PICK b : PassedAre(g, list, xs, b)
  BY <1>11
<1>1. /\ a[0] = list
      /\ \A k \in 1 .. Len(xs) : a[k] = f[xs[k]][a[k - 1]]
      /\ Passed(f, list, xs) = a[Len(xs)]
  BY <1>12 DEF PassedAre
<1>2. /\ b[0] = list
      /\ \A k \in 1 .. Len(xs) : b[k] = g[xs[k]][b[k - 1]]
      /\ Passed(g, list, xs) = b[Len(xs)]
  BY <1>13 DEF PassedAre
<1> DEFINE T0 == {k \in Nat : k <= Len(xs) => a[k] = b[k]}
<1>3. 0 \in T0
  BY <1>1, <1>2
<1>4. ASSUME NEW k \in Nat, k \in T0 PROVE k + 1 \in T0
  <2> SUFFICES ASSUME k + 1 <= Len(xs) PROVE a[k + 1] = b[k + 1]
    OBVIOUS
  <2>1. k + 1 \in 1 .. Len(xs) /\ k + 1 - 1 = k /\ k <= Len(xs) /\ k + 1 \in DOMAIN xs
    OBVIOUS
  <2>2. a[k + 1] = f[xs[k + 1]][a[k]] /\ b[k + 1] = g[xs[k + 1]][b[k]]
    BY <2>1, <1>1, <1>2
  <2>3. a[k] = b[k]
    BY <2>1, <1>4
  <2>4. f[xs[k + 1]] = g[xs[k + 1]]
    BY <2>1
  <2> QED BY <2>2, <2>3, <2>4
<1>5. Len(xs) \in Nat
  OBVIOUS
<1>6. Len(xs) \in T0
  <2> HIDE DEF T0
  <2> QED BY <1>3, <1>4, <1>5, Induction
<1> QED BY <1>1, <1>2, <1>6

Order(ns, order, n) ==
  [out \in Seq(DOMAIN ns) |->
     IF n \in Range(out) THEN out ELSE Append(Passed(order, out, ns[n].args), n)]

(* The same for postorder. *)
LEMMA PostorderIs ==
  ASSUME NEW ns, Shaped(ns)
  PROVE  \E f : /\ \A n \in DOMAIN ns : f[n] = Order(ns, f, n)
                /\ \A r \in DOMAIN ns : postorder(ns, r) = f[r][<<>>]
<1> DEFINE G(f, n) == Order(ns, f, n)
<1>1. PICK N \in Nat : DOMAIN ns = 1 .. N
  BY DEF Shaped
<1>2. ASSUME NEW f, NEW g, NEW n \in 1 .. N, \A k \in 1 .. n - 1 : f[k] = g[k] PROVE G(f, n) = G(g, n)
  <2>1. \A i \in DOMAIN ns[n].args : f[ns[n].args[i]] = g[ns[n].args[i]]
    BY <1>1, <1>2, Arguments
  <2>2. ns[n].args \in Seq(1 .. n - 1)
    BY <1>1 DEF Shaped
  <2> DEFINE xs == ns[n].args
  <2>3. ASSUME NEW out PROVE Passed(f, out, xs) = Passed(g, out, xs)
    <3>1. xs \in Seq(1 .. n - 1) /\ \A i \in DOMAIN xs : f[xs[i]] = g[xs[i]]
      BY <2>1, <2>2
    <3> HIDE DEF xs
    <3> QED BY <3>1, PassedSame
  <2> QED BY <2>3 DEF Order
<1> HIDE DEF G
<1> DEFINE T0 == {j \in Nat : j <= N => \E f : f = [n \in 1 .. j |-> G(f, n)]}
<1>3. 0 \in T0
  <2> DEFINE h == [n \in 1 .. 0 |-> 0]
  <2>1. h = [n \in 1 .. 0 |-> G(h, n)]
    OBVIOUS
  <2> HIDE DEF h
  <2> QED BY <2>1
<1>4. ASSUME NEW j \in Nat, j \in T0 PROVE j + 1 \in T0
  <2> SUFFICES ASSUME j + 1 <= N PROVE \E h : h = [n \in 1 .. j + 1 |-> G(h, n)]
    OBVIOUS
  <2>1. PICK f : f = [n \in 1 .. j |-> G(f, n)]
    BY <1>4
  <2> DEFINE g == [n \in 1 .. j + 1 |-> IF n = j + 1 THEN G(f, j + 1) ELSE f[n]]
  <2>2. \A k \in 1 .. j : g[k] = f[k]
    OBVIOUS
  <2>3. ASSUME NEW n \in 1 .. j + 1 PROVE g[n] = G(g, n)
    <3>1. n \in 1 .. N /\ \A k \in 1 .. n - 1 : f[k] = g[k]
      BY <1>1, <2>2
    <3>2. n # j + 1 => f[n] = G(f, n)
      BY <2>1
    <3>3. g[n] = G(f, n)
      BY <3>2
    <3> HIDE DEF g
    <3> QED BY <3>1, <3>3, <1>2
  <2>4. g = [n \in 1 .. j + 1 |-> G(g, n)]
    BY <2>3
  <2> HIDE DEF g
  <2> QED BY <2>4
<1>5. N \in T0
  <2> HIDE DEF T0
  <2> QED BY <1>1, <1>3, <1>4, Induction
<1> DEFINE order == CHOOSE f : f = [n \in DOMAIN ns |-> G(f, n)]
<1>6. order = [n \in DOMAIN ns |-> G(order, n)]
  <2>1. \E f : f = [n \in DOMAIN ns |-> G(f, n)]
    BY <1>1, <1>5
  <2> QED BY <2>1
<1>7. \A r \in DOMAIN ns : postorder(ns, r) = order[r][<<>>]
  BY DEF postorder, Order, G
<1> HIDE DEF order
<1>8. \A n \in DOMAIN ns : order[n] = Order(ns, order, n)
  <2>1. \A n \in DOMAIN ns : order[n] = G(order, n)
    BY <1>6
  <2> QED BY <2>1 DEF G
<1> QED BY <1>7, <1>8

Value(ns, held, local, i, v, n) ==
  LET arg(j) == v[ns[n].args[j]]
  IN  CASE n \in DOMAIN local -> local[n]
        [] ns[n].kind = "opInput" -> Read(held[n], i)
        [] ns[n].kind = "opScale" -> ns[n].scale * arg(1)
        [] ns[n].kind = "opAdd" -> arg(1) + arg(2)
        [] ns[n].kind = "opMul" -> arg(1) * arg(2)
        [] ns[n].kind = "opUnary" -> Apply1[ns[n].cfn][arg(1)]
        [] ns[n].kind = "opHypot" -> hypotf(arg(1), arg(2))
        [] OTHER -> 0

(* The same for the expression of a node. *)
LEMMA ExprIs ==
  ASSUME NEW ns, Shaped(ns), NEW held, NEW local, NEW i
  PROVE  \E f : /\ \A n \in DOMAIN ns : f[n] = Value(ns, held, local, i, f, n)
                /\ \A r \in DOMAIN ns : expr(ns, held, local, r, i) = f[r]
<1> DEFINE G(f, n) == Value(ns, held, local, i, f, n)
<1>1. PICK N \in Nat : DOMAIN ns = 1 .. N
  BY DEF Shaped
<1>2. ASSUME NEW f, NEW g, NEW n \in 1 .. N, \A k \in 1 .. n - 1 : f[k] = g[k] PROVE G(f, n) = G(g, n)
  <2>1. \A j \in DOMAIN ns[n].args : f[ns[n].args[j]] = g[ns[n].args[j]]
    BY <1>1, <1>2, Arguments
  <2>2. /\ ns[n].kind \in {"opScale", "opUnary"} => 1 \in DOMAIN ns[n].args
        /\ ns[n].kind \in {"opAdd", "opMul", "opHypot"} => 1 \in DOMAIN ns[n].args /\ 2 \in DOMAIN ns[n].args
    BY <1>1, Arities
  <2> QED BY <2>1, <2>2 DEF Value
<1> HIDE DEF G
<1> DEFINE T0 == {j \in Nat : j <= N => \E f : f = [n \in 1 .. j |-> G(f, n)]}
<1>3. 0 \in T0
  <2> DEFINE h == [n \in 1 .. 0 |-> 0]
  <2>1. h = [n \in 1 .. 0 |-> G(h, n)]
    OBVIOUS
  <2> HIDE DEF h
  <2> QED BY <2>1
<1>4. ASSUME NEW j \in Nat, j \in T0 PROVE j + 1 \in T0
  <2> SUFFICES ASSUME j + 1 <= N PROVE \E h : h = [n \in 1 .. j + 1 |-> G(h, n)]
    OBVIOUS
  <2>1. PICK f : f = [n \in 1 .. j |-> G(f, n)]
    BY <1>4
  <2> DEFINE g == [n \in 1 .. j + 1 |-> IF n = j + 1 THEN G(f, j + 1) ELSE f[n]]
  <2>2. \A k \in 1 .. j : g[k] = f[k]
    OBVIOUS
  <2>3. ASSUME NEW n \in 1 .. j + 1 PROVE g[n] = G(g, n)
    <3>1. n \in 1 .. N /\ \A k \in 1 .. n - 1 : f[k] = g[k]
      BY <1>1, <2>2
    <3>2. n # j + 1 => f[n] = G(f, n)
      BY <2>1
    <3>3. g[n] = G(f, n)
      BY <3>2
    <3> HIDE DEF g
    <3> QED BY <3>1, <3>3, <1>2
  <2>4. g = [n \in 1 .. j + 1 |-> G(g, n)]
    BY <2>3
  <2> HIDE DEF g
  <2> QED BY <2>4
<1>5. N \in T0
  <2> HIDE DEF T0
  <2> QED BY <1>1, <1>3, <1>4, Induction
<1> DEFINE order == CHOOSE f : f = [n \in DOMAIN ns |-> G(f, n)]
<1>6. order = [n \in DOMAIN ns |-> G(order, n)]
  <2>1. \E f : f = [n \in DOMAIN ns |-> G(f, n)]
    BY <1>1, <1>5
  <2> QED BY <2>1
<1>7. \A r \in DOMAIN ns : expr(ns, held, local, r, i) = order[r]
  BY DEF expr, Value, G
<1> HIDE DEF order
<1>8. \A n \in DOMAIN ns : order[n] = Value(ns, held, local, i, order, n)
  <2>1. \A n \in DOMAIN ns : order[n] = G(order, n)
    BY <1>6
  <2> QED BY <2>1 DEF G
<1> QED BY <1>7, <1>8

(* The nodes that are not skipped. *)
LEMMA OnlyThose ==
  ASSUME NEW S, NEW T, NEW xs \in Seq(T)
  PROVE  Only(S, xs) \in Seq(T) /\ Members(Only(S, xs)) = Members(xs) \intersect S
<1> DEFINE n == Len(xs)
           Sofar(k) == {xs[i] : i \in 1 .. k}
<1>1. PICK f : /\ f[0] = <<>>
               /\ \A k \in 1 .. n : f[k] = Kept(S, f[k - 1], xs[k])
               /\ Only(S, xs) = f[n]
  BY OnlyLoop
<1> DEFINE T0 == {k \in Nat : k <= n => f[k] \in Seq(T) /\ Members(f[k]) = Sofar(k) \intersect S}
<1>2. 0 \in T0
  <2>1. <<>> \in Seq(T) /\ Members(<<>>) = {}
    BY DEF Members
  <2>2. Sofar(0) = {}
    OBVIOUS
  <2> HIDE DEF Sofar
  <2> QED BY <1>1, <2>1, <2>2
<1>3. ASSUME NEW k \in Nat, k \in T0 PROVE k + 1 \in T0
  <2> SUFFICES ASSUME k + 1 <= n PROVE f[k + 1] \in Seq(T) /\ Members(f[k + 1]) = Sofar(k + 1) \intersect S
    OBVIOUS
  <2> DEFINE x == xs[k + 1]
  <2>1. k + 1 \in 1 .. n /\ k + 1 - 1 = k /\ k <= n /\ x \in T
    OBVIOUS
  <2>2. f[k + 1] = Kept(S, f[k], x)
    BY <1>1, <2>1
  <2>3. f[k] \in Seq(T) /\ Members(f[k]) = Sofar(k) \intersect S
    BY <1>3, <2>1
  <2>4. Sofar(k + 1) = Sofar(k) \union {x}
    BY <2>1
  <2> HIDE DEF Sofar, x
  <2>5. CASE x \in S
    <3>1. f[k + 1] = Append(f[k], x)
      BY <2>2, <2>5 DEF Kept
    <3>2. Append(f[k], x) \in Seq(T) /\ Members(Append(f[k], x)) = Members(f[k]) \union {x}
      BY <2>1, <2>3, Appended
    <3> QED BY <2>3, <2>4, <2>5, <3>1, <3>2
  <2>6. CASE x \notin S
    <3>1. f[k + 1] = f[k]
      BY <2>2, <2>6 DEF Kept
    <3> QED BY <2>3, <2>4, <2>6, <3>1
  <2> QED BY <2>5, <2>6
<1>4. n \in Nat
  OBVIOUS
<1>5. n \in T0
  <2> HIDE DEF T0
  <2> QED BY <1>2, <1>3, <1>4, Induction
<1>6. Sofar(n) = Members(xs)
  BY DEF Members
<1>7. f[n] \in Seq(T) /\ Members(f[n]) = Sofar(n) \intersect S
  <2> HIDE DEF Sofar
  <2> QED BY <1>4, <1>5
<1> QED BY <1>1, <1>6, <1>7

(* The members of a sequence are its range. *)
LEMMA MembersToSet ==
  ASSUME NEW T, NEW s \in Seq(T)
  PROVE  Members(s) = ToSet(s) /\ Members(s) = Range(s) /\ Members(s) \subseteq T
BY DEF Members, ToSet, Range

Cat(s, t) == s \o t

(* FlattenSeq for the two arguments a node may have. *)
LEMMA Flattened ==
  ASSUME NEW T, NEW s, DOMAIN s = 1 .. Len(s), Len(s) \in 0 .. 2, s = [i \in 1 .. Len(s) |-> s[i]],
         \A i \in 1 .. Len(s) : s[i] \in Seq(T)
  PROVE  /\ Len(s) = 0 => FlattenSeq(s) = <<>>
         /\ Len(s) = 1 => FlattenSeq(s) = s[1]
         /\ Len(s) = 2 => FlattenSeq(s) = s[1] \o s[2]
<1> DEFINE G(f, i) == IF i = 1 THEN s[i] ELSE Cat(f[i - 1], s[i])
           flatten == CHOOSE f : f = [i \in 1 .. Len(s) |-> G(f, i)]
<1>1. Len(s) # 0 => FlattenSeq(s) = flatten[Len(s)]
  BY DEF FlattenSeq, Cat
<1>2. CASE Len(s) = 0
  BY <1>2 DEF FlattenSeq
<1>3. CASE Len(s) = 1
  <2> DEFINE g == [i \in 1 .. 1 |-> s[1]]
  <2>1. g = [i \in 1 .. Len(s) |-> G(g, i)]
    BY <1>3
  <2>2. flatten = [i \in 1 .. Len(s) |-> G(flatten, i)]
    <3> HIDE DEF g
    <3>1. \E f : f = [i \in 1 .. Len(s) |-> G(f, i)]
      BY <2>1
    <3> QED BY <3>1
  <2> HIDE DEF flatten
  <2>3. flatten[1] = s[1]
    BY <1>3, <2>2
  <2> QED BY <1>1, <1>3, <2>3
<1>4. CASE Len(s) = 2
  <2> DEFINE g == [i \in 1 .. 2 |-> IF i = 1 THEN s[1] ELSE Cat(s[1], s[2])]
  <2>1. g = [i \in 1 .. Len(s) |-> G(g, i)]
    <3>1. ASSUME NEW i \in 1 .. 2 PROVE g[i] = G(g, i)
      <4>1. i = 1 \/ i = 2
        OBVIOUS
      <4>2. g[1] = s[1] /\ g[2] = Cat(s[1], s[2])
        OBVIOUS
      <4> HIDE DEF g
      <4> QED BY <4>1, <4>2
    <3> QED BY <1>4, <3>1
  <2>2. flatten = [i \in 1 .. Len(s) |-> G(flatten, i)]
    <3> HIDE DEF g
    <3>1. \E f : f = [i \in 1 .. Len(s) |-> G(f, i)]
      BY <2>1
    <3> QED BY <3>1
  <2> HIDE DEF flatten
  <2>3. flatten[1] = G(flatten, 1) /\ flatten[2] = G(flatten, 2)
    <3>1. 1 \in 1 .. Len(s) /\ 2 \in 1 .. Len(s)
      BY <1>4
    <3> HIDE DEF G
    <3> QED BY <2>2, <3>1
  <2>4. flatten[2] = s[1] \o s[2]
    <3>1. flatten[1] = s[1]
      BY <2>3
    <3>2. flatten[2] = Cat(flatten[1], s[2])
      BY <2>3
    <3> QED BY <3>1, <3>2 DEF Cat
  <2> QED BY <1>1, <1>4, <2>4
<1> QED BY <1>2, <1>3, <1>4

(* Whatever is in the list, its arguments come before it. *)
Ready(ns, s) ==
  \A k \in 1 .. Len(s) : \A i \in DOMAIN ns[s[k]].args : \E j \in 1 .. k - 1 : s[j] = ns[s[k]].args[i]

(* Two lists, each with every argument before its node, joined. *)
LEMMA Joined ==
  ASSUME NEW T, NEW s \in Seq(T), NEW t \in Seq(T)
  PROVE  /\ s \o t \in Seq(T)
         /\ Members(s \o t) = Members(s) \union Members(t)
         /\ \A ns : Ready(ns, s) /\ Ready(ns, t) => Ready(ns, s \o t)
<1> DEFINE u == s \o t
           m == Len(s)
           n == Len(t)
<1>1. /\ u \in Seq(T) /\ Len(u) = m + n /\ m \in Nat /\ n \in Nat
      /\ \A i \in 1 .. m : u[i] = s[i]
      /\ \A i \in 1 .. n : u[m + i] = t[i]
  BY ConcatProperties
<1> HIDE DEF u
<1>2. \A i \in m + 1 .. m + n : i - m \in 1 .. n /\ u[i] = t[i - m]
  <2> SUFFICES ASSUME NEW i \in m + 1 .. m + n PROVE i - m \in 1 .. n /\ u[i] = t[i - m]
    OBVIOUS
  <2>1. i - m \in 1 .. n /\ m + (i - m) = i
    BY <1>1
  <2> QED BY <1>1, <2>1
<1>3. ASSUME NEW y \in Members(u) PROVE y \in Members(s) \union Members(t)
  <2>1. PICK i \in 1 .. m + n : y = u[i]
    BY <1>1 DEF Members
  <2>2. CASE i \in 1 .. m
    BY <2>1, <2>2, <1>1 DEF Members
  <2>3. CASE i \in m + 1 .. m + n
    BY <2>1, <2>3, <1>2 DEF Members
  <2> QED BY <1>1, <2>2, <2>3
<1>4. ASSUME NEW y \in Members(s) \union Members(t) PROVE y \in Members(u)
  <2>1. CASE y \in Members(s)
    <3>1. PICK i \in 1 .. m : y = s[i]
      BY <2>1 DEF Members
    <3>2. i \in 1 .. Len(u) /\ y = u[i]
      BY <1>1, <3>1
    <3> QED BY <3>2 DEF Members
  <2>2. CASE y \in Members(t)
    <3>1. PICK i \in 1 .. n : y = t[i]
      BY <2>2 DEF Members
    <3>2. m + i \in 1 .. Len(u) /\ y = u[m + i]
      BY <1>1, <3>1
    <3> QED BY <3>2 DEF Members
  <2> QED BY <2>1, <2>2
<1>5. ASSUME NEW ns, Ready(ns, s), Ready(ns, t), NEW k \in 1 .. Len(u), NEW i \in DOMAIN ns[u[k]].args
      PROVE  \E j \in 1 .. k - 1 : u[j] = ns[u[k]].args[i]
  <2>1. CASE k \in 1 .. m
    <3>1. u[k] = s[k]
      BY <1>1, <2>1
    <3>2. PICK j \in 1 .. k - 1 : s[j] = ns[s[k]].args[i]
      BY <1>5, <2>1, <3>1 DEF Ready
    <3>3. u[j] = s[j]
      BY <1>1, <2>1
    <3> QED BY <3>1, <3>2, <3>3
  <2>2. CASE k \in m + 1 .. m + n
    <3>1. u[k] = t[k - m] /\ k - m \in 1 .. n
      BY <1>2, <2>2
    <3>2. PICK j \in 1 .. k - m - 1 : t[j] = ns[t[k - m]].args[i]
      BY <1>5, <3>1 DEF Ready
    <3>3. j \in 1 .. n /\ m + j \in 1 .. k - 1
      BY <1>1, <3>1, <2>2
    <3>4. u[m + j] = t[j]
      BY <1>1, <3>3
    <3> QED BY <3>1, <3>2, <3>3, <3>4
  <2> QED BY <1>1, <2>1, <2>2
<1>6. Members(u) = Members(s) \union Members(t)
  BY <1>3, <1>4
<1>7. ASSUME NEW ns, Ready(ns, s), Ready(ns, t) PROVE Ready(ns, u)
  <2>1. \A k \in 1 .. Len(u) : \A i \in DOMAIN ns[u[k]].args : \E j \in 1 .. k - 1 : u[j] = ns[u[k]].args[i]
    BY <1>5, <1>7
  <2> QED BY <2>1 DEF Ready
<1> QED BY <1>1, <1>6, <1>7 DEF u

(* A node may follow its arguments. *)
LEMMA ReadyAppended ==
  ASSUME NEW T, NEW s \in Seq(T), NEW e \in T, NEW ns, Ready(ns, s),
         \A i \in DOMAIN ns[e].args : ns[e].args[i] \in Members(s)
  PROVE  Ready(ns, Append(s, e))
<1> DEFINE n == Len(s)
           t == Append(s, e)
<1>1. /\ t \in Seq(T) /\ Len(t) = n + 1 /\ n \in Nat /\ t[n + 1] = e
      /\ \A i \in 1 .. n : t[i] = s[i]
  BY AppendProperties
<1> HIDE DEF t
<1>2. ASSUME NEW k \in 1 .. n + 1, NEW i \in DOMAIN ns[t[k]].args
      PROVE  \E j \in 1 .. k - 1 : t[j] = ns[t[k]].args[i]
  <2>1. CASE k \in 1 .. n
    <3>1. t[k] = s[k]
      BY <1>1, <2>1
    <3>2. PICK j \in 1 .. k - 1 : s[j] = ns[s[k]].args[i]
      BY <2>1, <3>1 DEF Ready
    <3>3. t[j] = s[j]
      BY <1>1, <2>1
    <3> QED BY <3>1, <3>2, <3>3
  <2>2. CASE k = n + 1
    <3>1. t[k] = e
      BY <1>1, <2>2
    <3>2. PICK j \in 1 .. n : s[j] = ns[e].args[i]
      BY <3>1 DEF Members
    <3>3. j \in 1 .. k - 1 /\ t[j] = s[j]
      BY <1>1, <2>2
    <3> QED BY <3>1, <3>2, <3>3
  <2> QED BY <1>1, <2>1, <2>2
<1> QED BY <1>1, <1>2 DEF Ready, t

(* Every node is visited after its arguments. *)
LEMMA VisitsInOrder ==
  ASSUME NEW ns, Shaped(ns), NEW root \in DOMAIN ns
  PROVE  /\ visits(ns, root) \in Seq(DOMAIN ns)
         /\ Ready(ns, visits(ns, root))
         /\ root \in Members(visits(ns, root))
<1>1. PICK f : /\ \A n \in DOMAIN ns : f[n] = Append(FlattenSeq([i \in DOMAIN ns[n].args |-> f[ns[n].args[i]]]), n)
               /\ \A r \in DOMAIN ns : visits(ns, r) = f[r]
  BY VisitsIs
<1>2. PICK N \in Nat : DOMAIN ns = 1 .. N
  BY DEF Shaped
<1> DEFINE Fine(n) == f[n] \in Seq(DOMAIN ns) /\ Ready(ns, f[n]) /\ n \in Members(f[n])
           T0 == {n \in Nat : n \in DOMAIN ns => Fine(n)}
<1>3. ASSUME NEW n \in Nat, \A k \in 0 .. n - 1 : k \in T0 PROVE n \in T0
  <2> SUFFICES ASSUME n \in DOMAIN ns PROVE Fine(n)
    OBVIOUS
  <2> DEFINE args == ns[n].args
             s == [i \in DOMAIN args |-> f[args[i]]]
  <2>1. DOMAIN args = 1 .. Len(args) /\ Len(args) \in 0 .. 2
    BY Arities
  <2>2. ASSUME NEW i \in DOMAIN args PROVE Fine(args[i])
    <3>1. args[i] \in DOMAIN ns /\ args[i] \in 0 .. n - 1
      BY Arguments
    <3> QED BY <1>3, <3>1
  <2> HIDE DEF Fine
  <2>3. DOMAIN s = 1 .. Len(args) /\ Len(s) = Len(args) /\ s = [i \in 1 .. Len(s) |-> s[i]]
        /\ \A i \in 1 .. Len(s) : s[i] = f[args[i]] /\ s[i] \in Seq(DOMAIN ns)
    <3>1. DOMAIN s = 1 .. Len(args)
      BY <2>1
    <3>2. Len(s) = Len(args)
      BY <2>1, <3>1
    <3> QED BY <2>1, <2>2, <3>1, <3>2 DEF Fine
  <2>4. /\ Len(s) = 0 => FlattenSeq(s) = <<>>
        /\ Len(s) = 1 => FlattenSeq(s) = s[1]
        /\ Len(s) = 2 => FlattenSeq(s) = s[1] \o s[2]
    <3> HIDE DEF s
    <3> QED BY <2>1, <2>3, Flattened
  <2> DEFINE flat == FlattenSeq(s)
  <2>5. f[n] = Append(flat, n)
    BY <1>1
  <2> HIDE DEF s
  <2>6. flat \in Seq(DOMAIN ns) /\ Ready(ns, flat) /\ \A i \in DOMAIN args : args[i] \in Members(flat)
    <3> HIDE DEF args
    <3>1. CASE Len(args) = 0
      <4>1. flat = <<>> /\ DOMAIN args = {}
        BY <2>1, <2>3, <2>4, <3>1
      <4> QED BY <4>1 DEF Ready
    <3>2. CASE Len(args) = 1
      <4>1. flat = f[args[1]] /\ DOMAIN args = {1}
        BY <2>1, <2>3, <2>4, <3>2
      <4> HIDE DEF flat
      <4> QED BY <4>1, <2>2 DEF Fine
    <3>3. CASE Len(args) = 2
      <4>1. flat = f[args[1]] \o f[args[2]] /\ DOMAIN args = {1, 2}
        <5>1. 1 .. 2 = {1, 2}
          OBVIOUS
        <5> QED BY <5>1, <2>1, <2>3, <2>4, <3>3
      <4> HIDE DEF flat
      <4>2. Fine(args[1]) /\ Fine(args[2])
        BY <4>1, <2>2
      <4>3. flat \in Seq(DOMAIN ns) /\ Ready(ns, flat) /\ Members(flat) = Members(f[args[1]]) \union Members(f[args[2]])
        BY <4>1, <4>2, Joined DEF Fine
      <4> QED BY <4>1, <4>2, <4>3 DEF Fine
    <3> QED BY <2>1, <3>1, <3>2, <3>3
  <2> HIDE DEF flat
  <2>7. Append(flat, n) \in Seq(DOMAIN ns) /\ Members(Append(flat, n)) = Members(flat) \union {n}
    BY <2>6, Appended
  <2>8. Ready(ns, Append(flat, n))
    BY <2>6, ReadyAppended
  <2> QED BY <2>5, <2>7, <2>8 DEF Fine
<1>4. \A n \in Nat : n \in T0
  <2> HIDE DEF T0
  <2> QED BY <1>3, StrongInduction
<1>5. Fine(root)
  <2> HIDE DEF Fine
  <2> QED BY <1>2, <1>4
<1> QED BY <1>1, <1>5

(* The arguments of what is in the list are in it. *)
Closed(ns, P) == \A n \in P : \A i \in DOMAIN ns[n].args : ns[n].args[i] \in P

(* What a recursion from n adds to a list. *)
Extends(ns, list, longer, n) ==
  /\ longer \in Seq(DOMAIN ns)
  /\ Closed(ns, Members(longer))
  /\ Members(list) \subseteq Members(longer)
  /\ n \in Members(longer)

(* A list handed to the arguments of a node grows and has them all. *)
LEMMA PassedExtends ==
  ASSUME NEW ns, Shaped(ns), NEW f, NEW n \in DOMAIN ns,
         NEW list \in Seq(DOMAIN ns), Closed(ns, Members(list)),
         \A i \in DOMAIN ns[n].args : \A out \in Seq(DOMAIN ns) :
           Closed(ns, Members(out)) => Extends(ns, out, f[ns[n].args[i]][out], ns[n].args[i])
  PROVE  /\ Passed(f, list, ns[n].args) \in Seq(DOMAIN ns)
         /\ Closed(ns, Members(Passed(f, list, ns[n].args)))
         /\ Members(list) \subseteq Members(Passed(f, list, ns[n].args))
         /\ \A i \in DOMAIN ns[n].args : ns[n].args[i] \in Members(Passed(f, list, ns[n].args))
<1> DEFINE args == ns[n].args
           L == Len(args)
<1>1. args \in Seq(1 .. n - 1) /\ DOMAIN args = 1 .. L /\ L \in Nat
  BY Arities
<1>11. \E a : PassedAre(f, list, args, a)
  <2> HIDE DEF args
  <2> QED BY <1>1, PassedLoop
<1>12. PICK a : PassedAre(f, list, args, a)
  BY <1>11
<1>2. /\ a[0] = list
      /\ \A k \in 1 .. L : a[k] = f[args[k]][a[k - 1]]
      /\ Passed(f, list, args) = a[L]
  BY <1>12 DEF PassedAre
<1>3. \A i \in 1 .. L : \A out \in Seq(DOMAIN ns) :
        Closed(ns, Members(out)) => Extends(ns, out, f[args[i]][out], args[i])
  BY <1>1
<1> HIDE DEF args, L
<1> DEFINE Sofar(k) == /\ a[k] \in Seq(DOMAIN ns)
                       /\ Closed(ns, Members(a[k]))
                       /\ Members(list) \subseteq Members(a[k])
                       /\ \A i \in 1 .. k : args[i] \in Members(a[k])
           T0 == {k \in Nat : k <= L => Sofar(k)}
<1>4. 0 \in T0
  BY <1>2
<1>5. ASSUME NEW k \in Nat, k \in T0 PROVE k + 1 \in T0
  <2> SUFFICES ASSUME k + 1 <= L PROVE Sofar(k + 1)
    OBVIOUS
  <2>1. k + 1 \in 1 .. L /\ k + 1 - 1 = k /\ k <= L
    BY <1>1
  <2>2. Sofar(k)
    BY <1>5, <2>1
  <2>3. a[k + 1] = f[args[k + 1]][a[k]]
    BY <1>2, <2>1
  <2>4. Extends(ns, a[k], a[k + 1], args[k + 1])
    BY <1>3, <2>1, <2>2, <2>3
  <2>5. \A i \in 1 .. k + 1 : args[i] \in Members(a[k + 1])
    <3> SUFFICES ASSUME NEW i \in 1 .. k + 1 PROVE args[i] \in Members(a[k + 1])
      OBVIOUS
    <3>1. i \in 1 .. k \/ i = k + 1
      OBVIOUS
    <3> QED BY <3>1, <2>2, <2>4 DEF Extends
  <2> QED BY <2>2, <2>4, <2>5 DEF Extends
<1>6. L \in T0
  <2> HIDE DEF T0
  <2> QED BY <1>1, <1>4, <1>5, Induction
<1>7. Sofar(L)
  BY <1>1, <1>6
<1> QED BY <1>1, <1>2, <1>7 DEF args, L

(* postorder lists the root, and with a node its arguments. *)
LEMMA PostorderClosed ==
  ASSUME NEW ns, Shaped(ns), NEW root \in DOMAIN ns
  PROVE  /\ postorder(ns, root) \in Seq(DOMAIN ns)
         /\ Closed(ns, Members(postorder(ns, root)))
         /\ root \in Members(postorder(ns, root))
<1>1. PICK f : /\ \A n \in DOMAIN ns : f[n] = Order(ns, f, n)
               /\ \A r \in DOMAIN ns : postorder(ns, r) = f[r][<<>>]
  BY PostorderIs
<1>2. PICK N \in Nat : DOMAIN ns = 1 .. N
  BY DEF Shaped
<1> DEFINE Fine(n) == \A out \in Seq(DOMAIN ns) : Closed(ns, Members(out)) => Extends(ns, out, f[n][out], n)
           T0 == {n \in Nat : n \in DOMAIN ns => Fine(n)}
<1>3. ASSUME NEW n \in Nat, \A k \in 0 .. n - 1 : k \in T0 PROVE n \in T0
  <2> SUFFICES ASSUME n \in DOMAIN ns, NEW out \in Seq(DOMAIN ns), Closed(ns, Members(out))
               PROVE  Extends(ns, out, f[n][out], n)
    OBVIOUS
  <2>1. ASSUME NEW i \in DOMAIN ns[n].args PROVE Fine(ns[n].args[i])
    <3>1. ns[n].args[i] \in DOMAIN ns /\ ns[n].args[i] \in 0 .. n - 1
      BY Arguments
    <3> QED BY <1>3, <3>1
  <2> DEFINE list == Passed(f, out, ns[n].args)
  <2>2. f[n][out] = IF n \in Range(out) THEN out ELSE Append(list, n)
    BY <1>1 DEF Order
  <2>3. Range(out) = Members(out)
    BY MembersToSet
  <2>4. CASE n \in Members(out)
    BY <2>2, <2>3, <2>4 DEF Extends
  <2>5. CASE n \notin Members(out)
    <3>1. /\ list \in Seq(DOMAIN ns) /\ Closed(ns, Members(list))
          /\ Members(out) \subseteq Members(list)
          /\ \A i \in DOMAIN ns[n].args : ns[n].args[i] \in Members(list)
      BY <2>1, PassedExtends
    <3> HIDE DEF list
    <3>2. Append(list, n) \in Seq(DOMAIN ns) /\ Members(Append(list, n)) = Members(list) \union {n}
      BY <3>1, Appended
    <3>3. Closed(ns, Members(list) \union {n})
      BY <3>1 DEF Closed
    <3>4. f[n][out] = Append(list, n)
      BY <2>2, <2>3, <2>5
    <3> QED BY <3>1, <3>2, <3>3, <3>4 DEF Extends
  <2> QED BY <2>4, <2>5
<1>4. \A n \in Nat : n \in T0
  <2> HIDE DEF T0
  <2> QED BY <1>3, StrongInduction
<1>5. Fine(root)
  <2> HIDE DEF Fine
  <2> QED BY <1>2, <1>4
<1>6. <<>> \in Seq(DOMAIN ns) /\ Members(<<>>) = {}
  BY DEF Members
<1>7. Closed(ns, Members(<<>>))
  BY <1>6 DEF Closed
<1>8. Extends(ns, <<>>, f[root][<<>>], root)
  BY <1>5, <1>6, <1>7
<1> QED BY <1>1, <1>8 DEF Extends

-----------------------------------------------------------------------------
(* What the nodes of a graph are worth, and that the kernel computes it.   *)

AnArray(xs, n) == xs = [i \in 0 .. n - 1 |-> xs[i]]

(* No node of its expression is a filter. *)
Plain(ns, x) ==
  \E S \in SUBSET DOMAIN ns :
    x \in S /\ \A s \in S : ns[s].kind # "opFIR" /\ \A i \in DOMAIN ns[s].args : ns[s].args[i] \in S

(* What the author's operations see to. *)
SoundNode(ns, n) ==
  /\ ns[n].n \in Nat
  /\ ns[n].kind # "opFIR" => \A i \in DOMAIN ns[n].args : ns[ns[n].args[i]].n = ns[n].n
  /\ ns[n].kind = "opFIR" =>
       /\ ns[ns[n].args[1]].n = ns[n].n
       /\ Plain(ns, ns[n].args[1])
       /\ ns[ns[n].args[2]].kind = "opInput"
       /\ ns[ns[n].args[2]].n \in 1 .. MaxTaps
WellMade(ns) == Shaped(ns) /\ \A n \in DOMAIN ns : SoundNode(ns, n)

(* The values that the nodes of a graph have, given those of its inputs. *)
Tap(array, j) == IF j >= 0 THEN array[j] ELSE 0
Sum(h, taps, array, i) == SumFunction([k \in 0 .. taps - 1 |-> h[k] * Tap(array, i - k)])
Result(ns, val, n, i) ==
  LET arg(j) == val[ns[n].args[j]]
  IN  CASE ns[n].kind = "opScale" -> ns[n].scale * arg(1)[i]
        [] ns[n].kind = "opAdd" -> arg(1)[i] + arg(2)[i]
        [] ns[n].kind = "opMul" -> arg(1)[i] * arg(2)[i]
        [] ns[n].kind = "opUnary" -> Apply1[ns[n].cfn][arg(1)[i]]
        [] ns[n].kind = "opHypot" -> hypotf(arg(1)[i], arg(2)[i])
        [] OTHER -> Sum(arg(2), ns[ns[n].args[2]].n, arg(1), i)
Solves(ns, val) ==
  \A n \in DOMAIN ns :
    /\ AnArray(val[n], ns[n].n)
    /\ ns[n].kind # "opInput" => \A i \in 0 .. ns[n].n - 1 : val[n][i] = Result(ns, val, n, i)

(* A node read at i: either it is in a local, which is right, or it is a node that is not a filter *)
(* and its arguments are of this sort.                                                            *)
Readable(ns, val, held, local, L, i, S) ==
  /\ S \subseteq DOMAIN ns
  /\ \A n \in S :
       /\ ns[n].n = L
       /\ n \in DOMAIN local => ns[n].kind = "opFIR" /\ local[n] = val[n][i]
       /\ n \notin DOMAIN local =>
            /\ ns[n].kind # "opFIR"
            /\ \A j \in DOMAIN ns[n].args : ns[n].args[j] \in S
            /\ ns[n].kind = "opInput" => held[n] = val[n]

(* The expression that is generated for a node is worth what the node is. *)
LEMMA EvalAgrees ==
  ASSUME NEW ns, Shaped(ns), NEW val, Solves(ns, val), NEW held, NEW local, NEW L \in Nat, NEW i \in 0 .. L - 1,
         NEW S, Readable(ns, val, held, local, L, i, S), NEW r \in S
  PROVE  expr(ns, held, local, r, i) = val[r][i]
<1>1. PICK f : /\ \A n \in DOMAIN ns : f[n] = Value(ns, held, local, i, f, n)
               /\ \A n \in DOMAIN ns : expr(ns, held, local, n, i) = f[n]
  BY ExprIs
<1>2. PICK N \in Nat : DOMAIN ns = 1 .. N
  BY DEF Shaped
<1> DEFINE T0 == {n \in Nat : n \in S => f[n] = val[n][i]}
<1>3. ASSUME NEW n \in Nat, \A k \in 0 .. n - 1 : k \in T0 PROVE n \in T0
  <2> SUFFICES ASSUME n \in S PROVE f[n] = val[n][i]
    OBVIOUS
  <2>1. n \in DOMAIN ns /\ ns[n].n = L /\ f[n] = Value(ns, held, local, i, f, n)
    BY <1>1 DEF Readable
  <2>2. CASE n \in DOMAIN local
    <3>1. Value(ns, held, local, i, f, n) = local[n]
      BY <2>1, <2>2 DEF Value, Readable
    <3> QED BY <2>1, <2>2, <3>1 DEF Readable
  <2>3. CASE n \notin DOMAIN local /\ ns[n].kind = "opInput"
    <3>1. Value(ns, held, local, i, f, n) = Read(held[n], i)
      BY <2>3 DEF Value
    <3>2. held[n] = val[n] /\ DOMAIN val[n] = 0 .. L - 1
      BY <2>1, <2>3 DEF Readable, Solves, AnArray
    <3> QED BY <2>1, <3>1, <3>2 DEF Read
  <2>4. CASE n \notin DOMAIN local /\ ns[n].kind # "opInput"
    <3>1. ns[n].kind \in {"opScale", "opUnary", "opAdd", "opMul", "opHypot"}
      BY <2>1, <2>4, Arities DEF Readable
    <3>2. ASSUME NEW j \in DOMAIN ns[n].args PROVE f[ns[n].args[j]] = val[ns[n].args[j]][i]
      <4>1. ns[n].args[j] \in S /\ ns[n].args[j] \in 0 .. n - 1
        BY <2>1, <2>4, Arguments DEF Readable
      <4> QED BY <1>3, <4>1
    <3>3. val[n][i] = Result(ns, val, n, i)
      BY <2>1, <2>4 DEF Solves
    <3>4. /\ 1 \in DOMAIN ns[n].args
          /\ ns[n].kind \in {"opAdd", "opMul", "opHypot"} => 2 \in DOMAIN ns[n].args
      BY <2>1, <3>1, Arities
    <3>5. Value(ns, held, local, i, f, n) = Result(ns, val, n, i)
      <4>1. CASE ns[n].kind = "opScale"
        BY <2>4, <3>2, <3>4, <4>1 DEF Value, Result
      <4>2. CASE ns[n].kind = "opUnary"
        BY <2>4, <3>2, <3>4, <4>2 DEF Value, Result
      <4>3. CASE ns[n].kind = "opAdd"
        BY <2>4, <3>2, <3>4, <4>3 DEF Value, Result
      <4>4. CASE ns[n].kind = "opMul"
        BY <2>4, <3>2, <3>4, <4>4 DEF Value, Result
      <4>5. CASE ns[n].kind = "opHypot"
        BY <2>4, <3>2, <3>4, <4>5 DEF Value, Result
      <4> QED BY <3>1, <4>1, <4>2, <4>3, <4>4, <4>5
    <3> QED BY <2>1, <3>3, <3>5
  <2> QED BY <2>2, <2>3, <2>4
<1>4. \A n \in Nat : n \in T0
  <2> HIDE DEF T0
  <2> QED BY <1>3, StrongInduction
<1>5. r \in DOMAIN ns /\ r \in Nat
  BY <1>2 DEF Readable
<1> QED BY <1>1, <1>4, <1>5

(* The smaller of two. *)
LEMMA Smaller == ASSUME NEW a \in Int, NEW b \in Int, b <= a PROVE Min({a, b}) = b
<1>1. Min({a, b}) = CHOOSE x \in {a, b} : \A y \in {a, b} : x <= y
  BY DEF Min
<1> QED BY <1>1

(* The buffers of a graph's inputs, for the nodes of P; and locals, which only filters have. *)
HeldRight(ns, val, held, P) == \A n \in P : ns[n].kind = "opInput" => held[n] = val[n]
OnlyFilters(ns, locals) == \A n \in DOMAIN locals : n \in DOMAIN ns /\ ns[n].kind = "opFIR"

(* The window of a filter, tile and halo and all: each thread within the output has its sum. *)
LEMMA WindowRight ==
  ASSUME SizesAssumption,
         NEW ns, WellMade(ns), NEW val, Solves(ns, val), NEW P \in SUBSET DOMAIN ns, Closed(ns, P),
         NEW held, HeldRight(ns, val, held, P),
         NEW locals, OnlyFilters(ns, locals), NEW n \in P, ns[n].kind = "opFIR",
         NEW base \in Nat, NEW t \in Threads, base + t < ns[n].n
  PROVE  windowed(ns, held, locals, n, base, ns[n].n)[t] = val[n][base + t]
<1> DEFINE L == ns[n].n
           a == ns[n].args[1]
           b == ns[n].args[2]
           h == held[b]
           taps == Cardinality(DOMAIN h)
           staged(k) == LET src == base + k - (taps - 1)
                        IN  IF Inside(src, L)
                            THEN expr(ns, held, LocalsOf(locals, k % BlockSize), a, src)
                            ELSE 0
           top == Min({BlockSize + MaxTaps, BlockSize + taps - 1})
           tile == [k \in 0 .. top - 1 |-> staged(k)]
           mine == [k \in DOMAIN h |-> h[k] * Read(tile, t + taps - 1 - k)]
           i == base + t
           theirs == [k \in 0 .. ns[b].n - 1 |-> val[b][k] * Tap(val[a], i - k)]
<1>1. windowed(ns, held, locals, n, base, ns[n].n)[t] = SumFunction(mine)
  BY DEF windowed
<1>2. /\ Shaped(ns) /\ SoundNode(ns, n) /\ L \in Nat
      /\ ns[n].args[1] \in P /\ ns[n].args[2] \in P /\ a \in P /\ b \in P
  <2>1. Shaped(ns) /\ SoundNode(ns, n) /\ L \in Nat
    BY DEF WellMade, SoundNode
  <2>2. 1 \in DOMAIN ns[n].args /\ 2 \in DOMAIN ns[n].args
    BY <2>1, Arities
  <2> QED BY <2>1, <2>2 DEF Closed
<1>3. ns[a].n = L /\ Plain(ns, a) /\ ns[b].kind = "opInput" /\ ns[b].n \in 1 .. MaxTaps
  BY <1>2 DEF SoundNode
<1>4. h = val[b] /\ DOMAIN h = 0 .. ns[b].n - 1 /\ ns[b].n \in Nat
  <2> HIDE DEF b
  <2>1. b \in P /\ b \in DOMAIN ns /\ ns[b].kind = "opInput" /\ ns[b].n \in Nat
    BY <1>2, <1>3, SizesAssumption
  <2>2. h = val[b]
    BY <2>1 DEF HeldRight
  <2>3. DOMAIN val[b] = 0 .. ns[b].n - 1
    BY <2>1 DEF Solves, AnArray
  <2> QED BY <2>1, <2>2, <2>3
<1>5. taps = ns[b].n
  BY <1>4, SizedCard DEF Sized
<1>6. i \in 0 .. L - 1
  BY <1>2 DEF Threads
<1>7. val[n][i] = SumFunction(theirs)
  <2>1. val[n][i] = Result(ns, val, n, i)
    BY <1>2, <1>6 DEF Solves
  <2>2. Result(ns, val, n, i) = Sum(val[b], ns[b].n, val[a], i)
    BY DEF Result
  <2> QED BY <2>1, <2>2 DEF Sum
<1>8. ASSUME NEW u, NEW src \in 0 .. L - 1 PROVE expr(ns, held, LocalsOf(locals, u), a, src) = val[a][src]
  <2>1. PICK S \in SUBSET DOMAIN ns :
          a \in S /\ \A s \in S : ns[s].kind # "opFIR" /\ \A j \in DOMAIN ns[s].args : ns[s].args[j] \in S
    BY <1>3 DEF Plain
  <2> DEFINE S2 == {x \in P \intersect S : ns[x].n = L}
             local == LocalsOf(locals, u)
  <2>2. DOMAIN local = DOMAIN locals
    BY DEF LocalsOf
  <2> HIDE DEF local
  <2>3. ASSUME NEW x \in S2
        PROVE  /\ x \in DOMAIN ns /\ ns[x].n = L /\ x \notin DOMAIN local /\ ns[x].kind # "opFIR"
               /\ ns[x].kind = "opInput" => held[x] = val[x]
               /\ \A j \in DOMAIN ns[x].args : ns[x].args[j] \in S2
    <3>1. x \in DOMAIN ns /\ ns[x].n = L /\ ns[x].kind # "opFIR" /\ x \notin DOMAIN local
      BY <2>1, <2>2 DEF OnlyFilters
    <3>2. ns[x].kind = "opInput" => held[x] = val[x]
      BY DEF HeldRight
    <3>3. \A j \in DOMAIN ns[x].args : ns[x].args[j] \in S /\ ns[x].args[j] \in P /\ ns[ns[x].args[j]].n = L
      BY <3>1, <2>1 DEF Closed, WellMade, SoundNode
    <3> QED BY <3>1, <3>2, <3>3
  <2>4. a \in S2
    BY <1>2, <1>3, <2>1
  <2> HIDE DEF S2
  <2>5. Readable(ns, val, held, local, L, src, S2)
    BY <2>3 DEF Readable
  <2> QED BY <1>2, <2>4, <2>5, EvalAgrees DEF local
<1>9. top = BlockSize + taps - 1
  BY <1>3, <1>5, Smaller, SizesAssumption
<1>10. ASSUME NEW k \in 0 .. taps - 1 PROVE Read(tile, t + taps - 1 - k) = Tap(val[a], i - k)
  <2> DEFINE x == t + taps - 1 - k
  <2>1. /\ x \in 0 .. BlockSize + taps - 1 - 1 /\ base + x - (taps - 1) = i - k
        /\ i - k \in Int /\ i - k < L /\ (i - k >= 0 => i - k \in 0 .. L - 1)
    <3>1. taps \in Nat /\ k \in Nat /\ k <= taps - 1 /\ t \in Nat /\ t <= BlockSize - 1 /\ BlockSize \in Nat
      BY <1>4, <1>5, SizesAssumption DEF Threads
    <3> HIDE DEF taps
    <3> QED BY <3>1, <1>2, <1>6
  <2>2. x \in 0 .. top - 1
    <3>1. taps \in Nat /\ BlockSize \in Nat
      BY <1>4, <1>5, SizesAssumption
    <3> HIDE DEF top, taps, x
    <3> QED BY <1>9, <2>1, <3>1
  <2>3. Read(tile, x) = staged(x)
    <3> HIDE DEF top, staged, x
    <3> QED BY <2>2 DEF Read
  <2>4. staged(x) = Tap(val[a], i - k)
    <3> DEFINE src == base + x - (taps - 1)
    <3>1. staged(x) = IF Inside(src, L) THEN expr(ns, held, LocalsOf(locals, x % BlockSize), a, src) ELSE 0
      OBVIOUS
    <3> HIDE DEF staged
    <3>2. src = i - k
      BY <2>1
    <3> HIDE DEF src, i, x, L
    <3>3. CASE i - k >= 0
      <4>1. Inside(src, L) /\ src \in 0 .. L - 1 /\ Tap(val[a], i - k) = val[a][src]
        BY <2>1, <3>2, <3>3 DEF Inside, Tap
      <4> QED BY <3>1, <4>1, <1>8
    <3>4. CASE ~(i - k >= 0)
      BY <2>1, <3>1, <3>2, <3>4 DEF Inside, Tap
    <3> QED BY <3>3, <3>4
  <2>5. x = t + taps - 1 - k
    OBVIOUS
  <2> HIDE DEF staged, tile, taps, a, i, x
  <2> QED BY <2>3, <2>4, <2>5
<1>11. mine = theirs
  <2> HIDE DEF tile, taps, h, i, a, b
  <2>1. DOMAIN h = 0 .. taps - 1 /\ DOMAIN h = 0 .. ns[b].n - 1
    BY <1>4, <1>5
  <2>2. ASSUME NEW k \in DOMAIN h
        PROVE  h[k] * Read(tile, t + taps - 1 - k) = val[b][k] * Tap(val[a], i - k)
    BY <2>1, <1>4, <1>10
  <2> QED BY <2>1, <2>2
<1> QED BY <1>1, <1>7, <1>11

(* The thread of an element, in a grid that covers the output. *)
LEMMA Blocks ==
  ASSUME NEW b \in Nat \ {0}, NEW L \in Nat, NEW i \in 0 .. L - 1, NEW grid, grid = (L + b - 1) \div b
  PROVE  /\ i < grid * b
         /\ i \div b \in 0 .. grid - 1 /\ i % b \in 0 .. b - 1
         /\ (i \div b) * b + (i % b) = i /\ (i \div b) * b \in Nat
<1>1. L + b - 1 \in Nat /\ i \in Nat
  OBVIOUS
<1>2. grid \in Nat /\ (L + b - 1) % b \in 0 .. b - 1 /\ L + b - 1 = b * grid + ((L + b - 1) % b)
  BY <1>1, Division
<1>3. i \div b \in Nat /\ i % b \in 0 .. b - 1 /\ i = b * (i \div b) + (i % b)
  BY <1>1, Division
<1> DEFINE q == i \div b
           r == i % b
           s == (L + b - 1) % b
<1> HIDE DEF q, r, s
<1>4. b * grid \in Nat /\ b * q \in Nat /\ grid * b = b * grid /\ q * b = b * q
  BY <1>2, <1>3 DEF q
<1>5. i < b * grid
  <2>1. s \in 0 .. b - 1 /\ L + b - 1 = b * grid + s
    BY <1>2 DEF s
  <2> QED BY <2>1, <1>4
<1>6. q < grid
  <2> SUFFICES ASSUME q >= grid PROVE FALSE
    BY <1>2, <1>3 DEF q
  <2>1. q - grid \in Nat /\ b * (q - grid) \in Nat
    BY <1>2, <1>3 DEF q
  <2>2. b * q = b * grid + b * (q - grid)
    BY <1>2, <1>3 DEF q
  <2> QED BY <1>3, <1>4, <1>5, <2>1, <2>2 DEF q
<1> QED BY <1>2, <1>3, <1>4, <1>5, <1>6 DEF q, r

(* The locals of a block: one for each filter, right for the threads within the output. *)
LocalsRight(ns, val, locals, base, L) ==
  \A n \in DOMAIN locals : ns[n].n = L => \A t \in Threads : base + t < L => locals[n][t] = val[n][base + t]

(* Each window of a block in its turn. *)
LEMMA WindowsRight ==
  ASSUME SizesAssumption,
         NEW ns, WellMade(ns), NEW val, Solves(ns, val), NEW P \in SUBSET DOMAIN ns, Closed(ns, P),
         NEW held, HeldRight(ns, val, held, P),
         NEW windows \in Seq(P), \A n \in Members(windows) : ns[n].kind = "opFIR", NEW base \in Nat, NEW L
  PROVE  /\ DOMAIN Windows(ns, held, windows, base, L) = Members(windows)
         /\ LocalsRight(ns, val, Windows(ns, held, windows, base, L), base, L)
<1>11. \E f : WindowsAre(ns, held, windows, base, L, f)
  BY WindowsLoop
<1>12. PICK f : WindowsAre(ns, held, windows, base, L, f)
  BY <1>11
<1>1. /\ f[0] = <<>>
      /\ \A k \in 1 .. Len(windows) :
           f[k] = With(f[k - 1], windows[k], windowed(ns, held, f[k - 1], windows[k], base, L))
      /\ Windows(ns, held, windows, base, L) = f[Len(windows)]
  BY <1>12 DEF WindowsAre
<1> DEFINE N == Len(windows)
           Sofar(k) == DOMAIN f[k] = {windows[j] : j \in 1 .. k} /\ LocalsRight(ns, val, f[k], base, L)
           T0 == {k \in Nat : k <= N => Sofar(k)}
<1>2. N \in Nat /\ \A k \in 1 .. N : windows[k] \in P /\ ns[windows[k]].kind = "opFIR"
  BY DEF Members
<1>3. 0 \in T0
  <2>1. DOMAIN f[0] = {} /\ {windows[j] : j \in 1 .. 0} = {}
    BY <1>1
  <2> QED BY <2>1 DEF LocalsRight
<1>4. ASSUME NEW k \in Nat, k \in T0 PROVE k + 1 \in T0
  <2> SUFFICES ASSUME k + 1 <= N PROVE Sofar(k + 1)
    OBVIOUS
  <2> DEFINE n == windows[k + 1]
             W == windowed(ns, held, f[k], n, base, L)
  <2>1. Sofar(k) /\ n \in P /\ ns[n].kind = "opFIR" /\ k + 1 \in 1 .. N
    BY <1>2, <1>4
  <2>2. f[k + 1] = With(f[k], n, W)
    BY <1>1, <2>1
  <2>3. OnlyFilters(ns, f[k])
    BY <1>2, <2>1 DEF OnlyFilters
  <2>4. ASSUME ns[n].n = L, NEW t \in Threads, base + t < L PROVE W[t] = val[n][base + t]
    BY <2>1, <2>3, <2>4, WindowRight
  <2> HIDE DEF W
  <2>5. /\ DOMAIN f[k + 1] = DOMAIN f[k] \union {n}
        /\ f[k + 1][n] = W
        /\ \A x \in DOMAIN f[k] : x # n => f[k + 1][x] = f[k][x]
    BY <2>2 DEF With
  <2>6. DOMAIN f[k + 1] = {windows[j] : j \in 1 .. k + 1}
    <3>1. 1 .. k + 1 = (1 .. k) \union {k + 1}
      OBVIOUS
    <3>2. {windows[j] : j \in 1 .. k + 1} = {windows[j] : j \in 1 .. k} \union {n}
      BY <3>1
    <3> QED BY <2>1, <2>5, <3>2
  <2>7. LocalsRight(ns, val, f[k + 1], base, L)
    <3> HIDE DEF n
    <3> QED BY <2>1, <2>4, <2>5 DEF LocalsRight
  <2> QED BY <2>6, <2>7
<1>5. N \in T0
  <2> HIDE DEF T0
  <2> QED BY <1>2, <1>3, <1>4, Induction
<1>6. Sofar(N)
  BY <1>2, <1>5
<1>7. {windows[j] : j \in 1 .. N} = Members(windows)
  BY DEF Members
<1> QED BY <1>1, <1>6, <1>7

(* generate's kernel on a grid that covers the output, the last block half full or not, computes what the
   root of the graph is worth, element for element (codegen.go generate, run.go grid). *)
THEOREM FusedKernelIsRight ==
  ASSUME SizesAssumption,
         NEW ns, WellMade(ns), NEW val, Solves(ns, val), NEW root \in DOMAIN ns, NEW held,
         HeldRight(ns, val, held, Members(postorder(ns, root))),
         NEW grid, grid = (ns[root].n + BlockSize - 1) \div BlockSize
  PROVE  fused(ns, root, held, ns[root].n, grid) = val[root]
<1> DEFINE L == ns[root].n
           all == postorder(ns, root)
           P == Members(all)
           windows == Only(OfKind(ns, "opFIR"), all)
           blocks == [b \in 0 .. grid - 1 |-> Windows(ns, held, windows, b * BlockSize, L)]
           at(i) == IF i < grid * BlockSize
                    THEN expr(ns, held, LocalsOf(blocks[i \div BlockSize], i % BlockSize), root, i)
                    ELSE Junk
<1>1. fused(ns, root, held, L, grid) = [i \in 0 .. L - 1 |-> at(i)]
  BY DEF fused
<1>2. Shaped(ns) /\ L \in Nat /\ val[root] = [i \in 0 .. L - 1 |-> val[root][i]]
  BY DEF WellMade, SoundNode, Solves, AnArray
<1>3. /\ all \in Seq(DOMAIN ns) /\ Closed(ns, P) /\ root \in P /\ P \subseteq DOMAIN ns
  BY <1>2, PostorderClosed, MembersToSet
<1> HIDE DEF all
<1>4. /\ windows \in Seq(P) /\ Members(windows) = P \intersect OfKind(ns, "opFIR")
      /\ \A n \in Members(windows) : ns[n].kind = "opFIR"
  <2>1. all \in Seq(P)
    BY <1>3 DEF Members
  <2>2. windows \in Seq(P) /\ Members(windows) = P \intersect OfKind(ns, "opFIR")
    <3> HIDE DEF P
    <3>1. Only(OfKind(ns, "opFIR"), all) \in Seq(P)
          /\ Members(Only(OfKind(ns, "opFIR"), all)) = Members(all) \intersect OfKind(ns, "opFIR")
      BY <2>1, OnlyThose
    <3> QED BY <3>1 DEF P
  <2> QED BY <2>2 DEF OfKind
<1> HIDE DEF windows
<1>5. ASSUME NEW i \in 0 .. L - 1 PROVE at(i) = val[root][i]
  <2> DEFINE q == i \div BlockSize
             t == i % BlockSize
             locals == Windows(ns, held, windows, q * BlockSize, L)
             S == {n \in P : ns[n].n = L}
             local == LocalsOf(locals, t)
  <2>1. /\ i < grid * BlockSize /\ q \in 0 .. grid - 1 /\ t \in Threads
        /\ q * BlockSize + t = i /\ q * BlockSize \in Nat
    BY <1>2, Blocks, SizesAssumption DEF Threads
  <2> HIDE DEF q, t
  <2>2. at(i) = expr(ns, held, local, root, i)
    BY <2>1 DEF q, t
  <2>3. DOMAIN locals = Members(windows) /\ LocalsRight(ns, val, locals, q * BlockSize, L)
    BY <1>3, <1>4, <2>1, WindowsRight DEF all
  <2> HIDE DEF locals
  <2>4. ASSUME NEW n \in DOMAIN locals, ns[n].n = L PROVE local[n] = val[n][i] /\ ns[n].kind = "opFIR"
    <3>1. local[n] = locals[n][t]
      BY DEF LocalsOf
    <3>2. locals[n][t] = val[n][q * BlockSize + t]
      <4>1. q * BlockSize + t < L
        BY <1>2, <2>1
      <4> QED BY <2>1, <2>3, <2>4, <4>1 DEF LocalsRight
    <3> QED BY <1>4, <2>1, <2>3, <3>1, <3>2
  <2>5. DOMAIN local = Members(windows)
    BY <2>3 DEF LocalsOf
  <2> HIDE DEF local
  <2>6. ASSUME NEW n \in S
        PROVE  /\ n \in DOMAIN ns /\ ns[n].n = L
               /\ n \in DOMAIN local => ns[n].kind = "opFIR" /\ local[n] = val[n][i]
               /\ n \notin DOMAIN local =>
                    /\ ns[n].kind # "opFIR"
                    /\ \A j \in DOMAIN ns[n].args : ns[n].args[j] \in S
                    /\ ns[n].kind = "opInput" => held[n] = val[n]
    <3>1. n \in P /\ n \in DOMAIN ns /\ ns[n].n = L
      BY <1>3
    <3>2. n \in DOMAIN local => ns[n].kind = "opFIR" /\ local[n] = val[n][i]
      BY <2>3, <2>4, <2>5, <3>1
    <3>3. n \notin DOMAIN local => ns[n].kind # "opFIR"
      BY <1>4, <2>5, <3>1 DEF OfKind
    <3>4. ns[n].kind # "opFIR" => \A j \in DOMAIN ns[n].args : ns[n].args[j] \in P /\ ns[ns[n].args[j]].n = L
      BY <1>3, <3>1 DEF Closed, WellMade, SoundNode
    <3>5. ns[n].kind = "opInput" => held[n] = val[n]
      BY <3>1 DEF HeldRight, all
    <3> QED BY <3>1, <3>2, <3>3, <3>4, <3>5
  <2>7. root \in S
    BY <1>3
  <2> HIDE DEF S
  <2>8. Readable(ns, val, held, local, L, i, S)
    BY <2>6 DEF Readable
  <2>9. expr(ns, held, local, root, i) = val[root][i]
    BY <1>2, <2>7, <2>8, EvalAgrees
  <2> QED BY <2>2, <2>9
<1> HIDE DEF at
<1>6. [i \in 0 .. L - 1 |-> at(i)] = [i \in 0 .. L - 1 |-> val[root][i]]
  BY <1>5
<1> QED BY <1>1, <1>2, <1>6

-----------------------------------------------------------------------------
(* run.                                                                    *)

(* Download: what the buffer holds, or the call failed. *)
LEMMA DownloadOutcomes ==
  ASSUME NEW m, NEW B, Good(m, B), ~m.poisoned, NEW s \in B, NEW o \in Download(m, s)
  PROVE  /\ o.err = "" => o.mem = m /\ o.vals = Listed(Content(m, s))
         /\ o.err # "" => Broken(m, o, B)
<1> DEFINE a == m.slices[s].ptr
           After(d) == {[mem |-> d.mem, err |-> "",
                         vals |-> IF a \in DOMAIN m.live THEN Listed(m.live[a]) ELSE <<>>]}
<1>1. a \in DOMAIN m.live /\ m.slices[s].n # 0 /\ Tidy(m)
  BY DEF Good, Owns
<1>2. PICK d \in call(m, {Handed(m, a)}, AnyFailure) : o \in IF d.err = "" THEN After(d) ELSE {d}
  BY <1>1 DEF Download, Then
<1>3. Handed(m, a) = m
  BY <1>1, HandedLive
<1> HIDE DEF a
<1>6. AnyFailure \subseteq AnyFailure /\ d \in call(m, {Handed(m, a)}, AnyFailure)
  BY <1>2
<1>4. CASE d.err = ""
  <2>1. d.mem \in {Handed(m, a)}
    <3> HIDE DEF After
    <3> DEFINE done == {Handed(m, a)}
    <3>1. d \in call(m, done, AnyFailure)
      BY <1>6
    <3> HIDE DEF done
    <3>2. d.mem \in done
      BY <1>4, <1>6, <3>1, CallFails
    <3> QED BY <3>2 DEF done
  <2>2. o = [mem |-> d.mem, err |-> "", vals |-> Listed(m.live[a])]
    BY <1>1, <1>2, <1>4
  <2>3. o.mem = d.mem /\ o.err = "" /\ o.vals = Listed(m.live[a])
    BY <2>2
  <2> QED BY <1>3, <2>1, <2>3 DEF Content, a
<1>5. CASE d.err # ""
  <2>1. o = d
    BY <1>2, <1>5
  <2> HIDE DEF After
  <2>3. Broken(m, d, B)
    BY <1>5, <1>6, CallFails DEF Broken
  <2> QED BY <2>1, <2>3, <1>5
<1> QED BY <1>4, <1>5

(* The least of a set of numbers is one of them. *)
LEMMA LeastIs == ASSUME NEW T \in SUBSET Nat, T # {} PROVE Min(T) \in T
<1>1. \E n \in T : \A k \in T : n <= k
  BY Least
<1>2. Min(T) = CHOOSE x \in T : \A y \in T : x <= y
  BY DEF Min
<1> QED BY <1>1, <1>2

Place(s, e) == SelectInSeq(s, LAMBDA x : x = e)

(* Where a member of a sequence is first found. *)
LEMMA Selected ==
  ASSUME NEW T, NEW s \in Seq(T), NEW e \in Members(s)
  PROVE  Place(s, e) \in 1 .. Len(s) /\ s[Place(s, e)] = e
<1> DEFINE I == {i \in 1 .. Len(s) : s[i] = e}
<1>1. I # {} /\ I \in SUBSET Nat
  BY DEF Members
<1>2. Place(s, e) = Min(I)
  BY <1>1 DEF Place, SelectInSeq
<1>3. Min(I) \in I
  <2> HIDE DEF I
  <2> QED BY <1>1, LeastIs
<1> QED BY <1>2, <1>3

(* The arguments of a launch: the output's buffer, then one for each input, with its value. *)
Inputs(ns, root) == Only(OfKind(ns, "opInput"), postorder(ns, root))
Given(ns, val, m, B, inputs, args, N) ==
  /\ DOMAIN args = 1 .. N + 1
  /\ args[1] \in B
  /\ \A k \in 1 .. N : /\ args[k + 1] \in B
                       /\ args[k + 1] # args[1]
                       /\ Content(m, args[k + 1]) = val[inputs[k]]

(* The inputs of the kernel are those of the nodes below the root. *)
LEMMA InputsOf ==
  ASSUME NEW ns, Shaped(ns), NEW root \in DOMAIN ns
  PROVE  /\ Inputs(ns, root) \in Seq(DOMAIN ns)
         /\ Members(Inputs(ns, root)) = Members(postorder(ns, root)) \intersect OfKind(ns, "opInput")
         /\ \A k \in 1 .. Len(Inputs(ns, root)) : ns[Inputs(ns, root)[k]].kind = "opInput"
<1>1. postorder(ns, root) \in Seq(DOMAIN ns)
  BY PostorderClosed
<1>2. /\ Inputs(ns, root) \in Seq(DOMAIN ns)
      /\ Members(Inputs(ns, root)) = Members(postorder(ns, root)) \intersect OfKind(ns, "opInput")
  BY <1>1, OnlyThose DEF Inputs
<1>3. ASSUME NEW k \in 1 .. Len(Inputs(ns, root)) PROVE ns[Inputs(ns, root)[k]].kind = "opInput"
  <2>1. Inputs(ns, root)[k] \in Members(Inputs(ns, root))
    BY DEF Members
  <2> QED BY <1>2, <2>1 DEF OfKind
<1> QED BY <1>2, <1>3

(* The kernel is given, for each input, a buffer with its values. *)
LEMMA HeldOfLaunch ==
  ASSUME NEW ns, Shaped(ns), NEW root \in DOMAIN ns, NEW val, NEW m, NEW B, Good(m, B), ~m.poisoned,
         NEW inputs, inputs = Inputs(ns, root), NEW args, Given(ns, val, m, B, inputs, args, Len(inputs))
  PROVE  HeldRight(ns, val, Held(m, inputs, args), Members(postorder(ns, root)))
<1> SUFFICES ASSUME NEW n \in Members(postorder(ns, root)), ns[n].kind = "opInput"
             PROVE  Held(m, inputs, args)[n] = val[n]
  BY DEF HeldRight
<1>1. /\ inputs \in Seq(DOMAIN ns) /\ Members(postorder(ns, root)) \subseteq DOMAIN ns
      /\ Members(inputs) = Members(postorder(ns, root)) \intersect OfKind(ns, "opInput")
  BY InputsOf, PostorderClosed, MembersToSet
<1>2. n \in Members(inputs) /\ n \in ToSet(inputs)
  <2>1. n \in Members(inputs)
    BY <1>1 DEF OfKind
  <2> QED BY <1>1, <2>1, MembersToSet
<1> DEFINE k == Place(inputs, n)
<1>3. k \in 1 .. Len(inputs) /\ inputs[k] = n
  BY <1>1, <1>2, Selected
<1>4. Held(m, inputs, args)[n] = IF m.slices[args[1 + k]].ptr \in DOMAIN m.live
                                 THEN m.live[m.slices[args[1 + k]].ptr] ELSE <<>>
  BY <1>2 DEF Held, Place
<1> HIDE DEF k
<1>5. 1 + k = k + 1
  BY <1>1, <1>3
<1>6. args[1 + k] \in B /\ Content(m, args[1 + k]) = val[n]
  BY <1>3, <1>5 DEF Given
<1>7. m.slices[args[1 + k]].ptr \in DOMAIN m.live
  BY <1>6 DEF Good, Owns
<1> QED BY <1>4, <1>6, <1>7 DEF Content

(* What checkAliasing refuses does not happen: buffers that are live are apart. *)
THEOREM RunNeverAliases ==
  ASSUME NEW ns, NEW val, NEW m, NEW B, Good(m, B), ~m.poisoned, NEW inputs, NEW N \in Nat,
         NEW args, Given(ns, val, m, B, inputs, args, N), Len(args) = N + 1
  PROVE  ~checkAliasing(m, args)
<1> SUFFICES ASSUME NEW j \in 2 .. N + 1, Meet(m.slices[args[1]], m.slices[args[j]])
             PROVE  FALSE
  BY DEF checkAliasing
<1> DEFINE s == args[1]
           t == args[j]
<1>1. s \in B /\ t \in B /\ t # s
  <2>1. j - 1 \in 1 .. N /\ j - 1 + 1 = j
    OBVIOUS
  <2>2. args[j - 1 + 1] \in B /\ args[j - 1 + 1] # args[1]
    BY <2>1 DEF Given
  <2> QED BY <2>1, <2>2 DEF Given
<1> HIDE DEF s, t
<1> DEFINE p == m.slices[s].ptr
           q == m.slices[t].ptr
<1>2. /\ p \in DOMAIN m.live /\ q \in DOMAIN m.live /\ p # q
      /\ Sized(m.live[p], m.slices[s].n) /\ Sized(m.live[q], m.slices[t].n)
  BY <1>1 DEF Good, Owns
<1>3. m.slices[s] \in Buffer /\ m.slices[t] \in Buffer
  BY <1>1, ElementOfSeq DEF Good, Tidy
<1>4. m.slices[s].n \in Nat /\ m.slices[t].n \in Nat /\ p \in Nat /\ q \in Nat
  BY <1>3 DEF Buffer
<1>5. Cardinality(DOMAIN m.live[p]) = m.slices[s].n /\ Cardinality(DOMAIN m.live[q]) = m.slices[t].n
  BY <1>2, <1>4, SizedCard
<1>6. p + m.slices[s].n <= q \/ q + m.slices[t].n <= p
  BY <1>2, <1>5 DEF Good, Apart
<1>7. Meet(m.slices[s], m.slices[t])
  BY DEF s, t
<1> QED BY <1>4, <1>6, <1>7 DEF Meet

(* The launch: the output buffer holds what the root is worth, or the call failed. *)
LEMMA LaunchOutcomes ==
  ASSUME SizesAssumption,
         NEW ns, WellMade(ns), NEW val, Solves(ns, val), NEW root \in DOMAIN ns,
         NEW m, NEW B, Good(m, B), ~m.poisoned,
         NEW inputs, inputs = Inputs(ns, root), NEW args, Given(ns, val, m, B, inputs, args, Len(inputs)),
         m.slices[args[1]].n = ns[root].n,
         NEW grid, grid = (ns[root].n + BlockSize - 1) \div BlockSize,
         NEW o \in LaunchSync(m, ns, root, inputs, args, grid)
  PROVE  /\ o.err = "" => ~m.poisoned /\ Filled(m, o.mem, B, args[1], val[root])
         /\ o.err # "" => Broken(m, o, B)
<1> DEFINE s == args[1]
           out == m.slices[s]
           used == [m EXCEPT !.astray = @ \/ \E j \in DOMAIN args : m.slices[args[j]].ptr \notin DOMAIN m.live]
           computed == fused(ns, root, Held(m, inputs, args), out.n, grid)
           done == Written(used, out.ptr, computed)
           first == IF grid = 0 THEN {} ELSE {used}
<1>1. PICK l \in call(m, first, AnyFailure) :
        o \in IF l.err = "" THEN call(l.mem, {done}, {"sticky"}) ELSE {l}
  BY DEF LaunchSync, Then
<1>2. Shaped(ns) /\ s \in B /\ Tidy(m)
  BY DEF WellMade, Given, Good
<1>3. used = m
  <2>1. \A j \in DOMAIN args : args[j] \in B
    <3> SUFFICES ASSUME NEW j \in DOMAIN args PROVE args[j] \in B
      OBVIOUS
    <3>1. inputs \in Seq(DOMAIN ns)
      BY <1>2, InputsOf
    <3>2. j \in 1 .. Len(inputs) + 1
      BY DEF Given
    <3>3. CASE j = 1
      BY <3>3 DEF Given
    <3>4. CASE j # 1
      <4>1. j - 1 \in 1 .. Len(inputs) /\ j - 1 + 1 = j
        BY <3>1, <3>2, <3>4
      <4>2. args[j - 1 + 1] \in B
        BY <4>1 DEF Given
      <4> QED BY <4>1, <4>2
    <3> QED BY <3>3, <3>4
  <2>2. \A j \in DOMAIN args : m.slices[args[j]].ptr \in DOMAIN m.live
    BY <2>1 DEF Good, Owns
  <2> QED BY <1>2, <2>2 DEF Tidy
<1> HIDE DEF used
<1>4. HeldRight(ns, val, Held(m, inputs, args), Members(postorder(ns, root)))
  BY <1>2, HeldOfLaunch
<1>5. computed = val[root]
  BY <1>4, FusedKernelIsRight
<1>6. Sized(val[root], m.slices[s].n)
  <2>1. root \in DOMAIN ns /\ m.slices[s].n = ns[root].n
    OBVIOUS
  <2>2. AnArray(val[root], ns[root].n)
    BY <2>1 DEF Solves
  <2> QED BY <2>1, <2>2 DEF AnArray, Sized
<1> DEFINE x == Written(m, m.slices[s].ptr, val[root])
<1>7. Filled(m, x, B, s, val[root])
  <2> HIDE DEF x
  <2>1. x = Written(m, m.slices[s].ptr, val[root])
    BY DEF x
  <2> HIDE DEF s
  <2> QED BY <1>2, <1>6, <2>1, Overwritten
<1>8. done = x
  BY <1>3, <1>5
<1> HIDE DEF done, x, first
<1>9. CASE l.err # ""
  <2>1. o = l
    BY <1>1, <1>9
  <2>2. AnyFailure \subseteq AnyFailure
    OBVIOUS
  <2>3. Broken(m, l, B)
    BY <1>1, <1>9, <2>2, CallFails DEF Broken
  <2> QED BY <2>1, <2>3, <1>9
<1>10. CASE l.err = ""
  <2>1. AnyFailure \subseteq AnyFailure
    OBVIOUS
  <2>2. l.mem \in first
    BY <1>1, <1>10, <2>1, CallFails
  <2>3. l.mem = m
    BY <2>2, <1>3 DEF first
  <2>4. o \in call(m, {x}, {"sticky"})
    BY <1>1, <1>8, <1>10, <2>3
  <2>5. {"sticky"} \subseteq AnyFailure
    BY DEF AnyFailure
  <2>6. CASE o.err = ""
    <3>1. o.mem \in {x}
      BY <2>4, <2>5, <2>6, CallFails
    <3> QED BY <1>7, <2>6, <3>1
  <2>7. CASE o.err # ""
    <3>1. Broken(m, o, B)
      BY <2>4, <2>5, <2>7, CallFails DEF Broken
    <3> QED BY <2>7, <3>1
  <2> QED BY <2>6, <2>7
<1> QED BY <1>9, <1>10

(* A call that was given the buffers B, and has taken others. *)
Everything(o, B) == B \union Members(o.owned)
InOrder(m, o, B) ==
  /\ o.owned \in Seq(Nat)
  /\ Distinct(o.owned)
  /\ Members(o.owned) \intersect B = {}
  /\ Good(o.mem, Everything(o, B))
  /\ Keeps(m, o.mem, B)
  /\ o.err # "" => o.err \in Errors
  /\ o.err = "" => ~o.mem.poisoned

(* A call that fails takes nothing. *)
LEMMA OrderAfterFailure ==
  ASSUME NEW m, NEW B, Good(m, B), NEW o, InOrder(m, o, B), NEW u, Broken(o.mem, u, Everything(o, B)),
         NEW x, x.mem = u.mem, x.err = u.err, x.owned = o.owned
  PROVE  InOrder(m, x, B) /\ x.err # ""
<1>1. Everything(x, B) = Everything(o, B) /\ B \subseteq Everything(o, B) /\ B \subseteq B
  BY DEF Everything
<1>2. u.err \in Errors /\ Good(u.mem, Everything(o, B)) /\ Keeps(o.mem, u.mem, Everything(o, B))
  BY DEF Broken
<1>3. Keeps(m, o.mem, B) /\ Good(o.mem, Everything(o, B))
  BY DEF InOrder
<1>4. Tidy(u.mem) /\ Tidy(o.mem)
  BY <1>2, <1>3 DEF Good
<1>5. Keeps(m, u.mem, B)
  BY <1>1, <1>2, <1>3, <1>4, KeepsOn
<1>6. x.err \in Errors /\ x.err # ""
  BY <1>2 DEF Errors
<1> QED BY <1>1, <1>2, <1>5, <1>6 DEF InOrder

Ok(o) == o.err = ""
Plus(s, e) == Append(s, e)
Took(m, B, o, s, x) ==
  /\ InOrder(m, x, B)
  /\ s \in Nat /\ s \notin Everything(o, B)
  /\ Everything(x, B) = Everything(o, B) \union {s}

(* A call that takes one buffer. *)
LEMMA OrderAfterMore ==
  ASSUME NEW m, NEW B, Good(m, B), NEW o, InOrder(m, o, B), NEW n, NEW s,
         NEW x, Added(o.mem, x.mem, Everything(o, B), s, n), Ok(x), x.owned = Plus(o.owned, s)
  PROVE  Took(m, B, o, s, x)
<1> DEFINE C == Everything(o, B)
<1>1. /\ s = Len(o.mem.slices) + 1 /\ Good(x.mem, C \union {s}) /\ ~x.mem.poisoned
      /\ Keeps(o.mem, x.mem, C) /\ Tidy(x.mem)
  BY DEF Added, Good
<1>2. Good(o.mem, C) /\ Keeps(m, o.mem, B) /\ Tidy(o.mem) /\ o.owned \in Seq(Nat) /\ Distinct(o.owned)
      /\ Members(o.owned) \intersect B = {}
  BY DEF InOrder, Good
<1>3. s \in Nat /\ s \notin C
  <2>1. C \subseteq DOMAIN o.mem.slices /\ o.mem.slices \in Seq(Buffer)
    BY <1>2 DEF Good, Tidy
  <2> DEFINE all == o.mem.slices
  <2>2. all \in Seq(Buffer) /\ s = Len(all) + 1 /\ C \subseteq DOMAIN all
    BY <1>1, <2>1
  <2> HIDE DEF C, all
  <2>3. DOMAIN all = 1 .. Len(all) /\ Len(all) \in Nat
    BY <2>2
  <2> QED BY <2>2, <2>3
<1>4. /\ x.owned \in Seq(Nat) /\ Members(x.owned) = Members(o.owned) \union {s}
      /\ s \notin Members(o.owned) => Distinct(x.owned)
  <2> DEFINE more == Plus(o.owned, s)
  <2>1. more \in Seq(Nat) /\ Members(more) = Members(o.owned) \union {s}
        /\ (Distinct(o.owned) /\ s \notin Members(o.owned) => Distinct(more))
    BY <1>2, <1>3, Appended DEF Plus
  <2>2. x.owned = more
    OBVIOUS
  <2> HIDE DEF more
  <2> QED BY <1>2, <2>1, <2>2
<1>5. s \notin Members(o.owned) /\ s \notin B
  BY <1>3 DEF Everything
<1>6. Everything(x, B) = C \union {s}
  BY <1>4 DEF Everything
<1>7. B \subseteq C /\ B \subseteq B
  BY DEF Everything
<1>8. Keeps(m, x.mem, B)
  <2> HIDE DEF C
  <2> QED BY <1>1, <1>2, <1>7, KeepsOn
<1>9. Members(x.owned) \intersect B = {}
  BY <1>2, <1>4, <1>5
<1>10. InOrder(m, x, B)
  BY <1>1, <1>4, <1>5, <1>6, <1>8, <1>9 DEF InOrder, Ok
<1> QED BY <1>3, <1>6, <1>10 DEF Took

(* A call that writes into a buffer of ours. *)
LEMMA OrderAfterWrite ==
  ASSUME NEW m, NEW B, Good(m, B), NEW o, InOrder(m, o, B), NEW s \in Members(o.owned), NEW xs, NEW y,
         Filled(o.mem, y, Everything(o, B), s, xs),
         NEW x, x.mem = y, Ok(x), x.owned = o.owned
  PROVE  InOrder(m, x, B)
<1>1. /\ Good(y, Everything(o, B)) /\ ~y.poisoned /\ Keeps(o.mem, y, Everything(o, B) \ {s}) /\ Tidy(y)
  BY DEF Filled, Good
<1>2. Keeps(m, o.mem, B) /\ Tidy(o.mem) /\ Members(o.owned) \intersect B = {}
  BY DEF InOrder, Good
<1>3. B \subseteq Everything(o, B) \ {s} /\ B \subseteq B
  BY <1>2 DEF Everything
<1>4. Keeps(m, y, B)
  BY <1>1, <1>2, <1>3, KeepsOn
<1>5. Everything(x, B) = Everything(o, B)
  BY DEF Everything
<1> QED BY <1>1, <1>4, <1>5 DEF InOrder, Ok

(* The inputs a graph is run on: their data, or buffers that hold it. *)
Supplied(ns, val, m, B) ==
  \A n \in DOMAIN ns : ns[n].kind = "opInput" =>
    /\ ns[n].dev = 0 => ns[n].host \in Seq(Int) /\ Len(ns[n].host) = ns[n].n /\ val[n] = Array(ns[n].host)
    /\ ns[n].dev # 0 => ns[n].dev \in B /\ ns[n].dev \in Nat /\ (~m.poisoned => Content(m, ns[n].dev) = val[n])
OnDevice(ns) == \A n \in DOMAIN ns : ns[n].kind = "opInput" => ns[n].dev # 0

ARun(o) == o = [mem |-> o.mem, err |-> o.err, owned |-> o.owned, args |-> o.args]
WithArgs(ns, val, B, inputs, o, k, L) ==
  /\ o.args \in Seq(Nat) /\ Len(o.args) = k + 1
  /\ Len(o.owned) # 0 /\ o.args[1] = o.owned[1]
  /\ o.mem.slices[o.args[1]].n = L
  /\ Given(ns, val, o.mem, Everything(o, B), inputs, o.args, k)
  /\ OnDevice(ns) => Len(o.owned) = 1
Underway(ns, val, m, B, inputs, o, k, L) ==
  /\ ARun(o) /\ InOrder(m, o, B)
  /\ o.err = "" => WithArgs(ns, val, B, inputs, o, k, L)

(* One more argument, the buffers that are there left as they are. *)
LEMMA OneMoreArgument ==
  ASSUME NEW ns, NEW val, NEW m, NEW B, NEW inputs, NEW L, NEW k \in Nat, NEW o, InOrder(m, o, B),
         WithArgs(ns, val, B, inputs, o, k, L),
         NEW s \in Nat,
         NEW x, ~x.mem.poisoned, x.args = Plus(o.args, s), x.owned \in Seq(Nat), Len(x.owned) # 0, x.owned[1] = o.owned[1],
         Keeps(o.mem, x.mem, Everything(o, B)), Everything(o, B) \subseteq Everything(x, B),
         s \in Everything(x, B), s # o.args[1], Content(x.mem, s) = val[inputs[k + 1]],
         OnDevice(ns) => Len(x.owned) = 1
  PROVE  WithArgs(ns, val, B, inputs, x, k + 1, L)
<1> DEFINE C == Everything(o, B)
           D == Everything(x, B)
           args == o.args
           more == x.args
<1>1. /\ args \in Seq(Nat) /\ Len(args) = k + 1 /\ args[1] \in C
      /\ \A j \in 1 .. k : args[j + 1] \in C /\ args[j + 1] # args[1] /\ Content(o.mem, args[j + 1]) = val[inputs[j]]
  BY DEF WithArgs, Given
<1>2. /\ more \in Seq(Nat) /\ Len(more) = k + 2 /\ more[k + 2] = s
      /\ \A j \in 1 .. k + 1 : more[j] = args[j]
  <2>1. k + 1 + 1 = k + 2
    OBVIOUS
  <2> QED BY <1>1, <2>1, AppendProperties DEF Plus
<1>3. DOMAIN more = 1 .. k + 2
  BY <1>2
<1>4. C \subseteq D /\ s \in D /\ s # args[1]
  OBVIOUS
<1>5. \A c \in C : x.mem.slices[c] = o.mem.slices[c] /\ Content(x.mem, c) = Content(o.mem, c)
  BY DEF Keeps
<1>6. o.args[1] = o.owned[1] /\ o.mem.slices[o.args[1]].n = L
  BY DEF WithArgs
<1> HIDE DEF C, D, args, more
<1>7. more[1] = args[1] /\ more[1] \in D
  BY <1>1, <1>2, <1>4
<1>8. ASSUME NEW j \in 1 .. k + 1
      PROVE  more[j + 1] \in D /\ more[j + 1] # more[1] /\ Content(x.mem, more[j + 1]) = val[inputs[j]]
  <2>1. CASE j = k + 1
    <3>1. j + 1 = k + 2
      BY <2>1
    <3> QED BY <2>1, <3>1, <1>2, <1>4, <1>7
  <2>2. CASE j # k + 1
    <3>1. j \in 1 .. k /\ j + 1 \in 1 .. k + 1
      BY <2>2
    <3>2. more[j + 1] = args[j + 1]
      BY <3>1, <1>2
    <3>3. args[j + 1] \in C /\ args[j + 1] # args[1] /\ Content(o.mem, args[j + 1]) = val[inputs[j]]
      BY <3>1, <1>1
    <3> QED BY <3>2, <3>3, <1>4, <1>5, <1>7
  <2> QED BY <2>1, <2>2
<1>9. k + 1 + 1 = k + 2
  OBVIOUS
<1>10. Given(ns, val, x.mem, D, inputs, more, k + 1)
  BY <1>3, <1>7, <1>8, <1>9 DEF Given
<1>11. x.mem.slices[more[1]].n = L /\ more[1] = x.owned[1]
  <2>1. args[1] = o.args[1]
    BY DEF args
  <2>2. x.mem.slices[args[1]] = o.mem.slices[args[1]]
    BY <1>1, <1>5
  <2> QED BY <1>6, <1>7, <2>1, <2>2
<1>12. x.args = more /\ Everything(x, B) = D
  BY DEF more, D
<1> QED BY <1>2, <1>9, <1>10, <1>11, <1>12 DEF WithArgs

(* The records of run, field by field. *)
LEMMA CarryIs ==
  ASSUME NEW o, ARun(o), NEW u
  PROVE  /\ ARun(Carry(o, u)) /\ Carry(o, u).mem = u.mem /\ Carry(o, u).err = u.err
         /\ Carry(o, u).owned = o.owned /\ Carry(o, u).args = o.args
<1> DEFINE x == Carry(o, u)
<1>1. x = [o EXCEPT !.mem = u.mem, !.err = u.err]
  BY DEF Carry
<1> HIDE DEF x
<1>2. x = [mem |-> u.mem, err |-> u.err, owned |-> o.owned, args |-> o.args]
  BY <1>1 DEF ARun
<1>3. ARun(x) /\ x.mem = u.mem /\ x.err = u.err /\ x.owned = o.owned /\ x.args = o.args
  BY <1>2 DEF ARun
<1> QED BY <1>3 DEF x

(* The same, for an input that is on the device. *)
LEMMA InPlaceIs ==
  ASSUME NEW o, ARun(o), NEW s
  PROVE  /\ ARun(InPlace(o, s)) /\ InPlace(o, s).mem = o.mem /\ InPlace(o, s).err = o.err
         /\ InPlace(o, s).owned = o.owned /\ InPlace(o, s).args = Plus(o.args, s)
<1> DEFINE more == Append(o.args, s)
           x == InPlace(o, s)
<1>1. x = [o EXCEPT !.args = more]
  BY DEF InPlace
<1>2. Plus(o.args, s) = more
  BY DEF Plus
<1> HIDE DEF more, x
<1>3. x = [mem |-> o.mem, err |-> o.err, owned |-> o.owned, args |-> more]
  BY <1>1 DEF ARun
<1>4. ARun(x) /\ x.mem = o.mem /\ x.err = o.err /\ x.owned = o.owned /\ x.args = Plus(o.args, s)
  BY <1>2, <1>3 DEF ARun
<1> QED BY <1>4 DEF x

(* The same, for a buffer that run owns. *)
LEMMA GiveToIs ==
  ASSUME NEW o, NEW s
  PROVE  /\ ARun(GiveTo(o, s)) /\ GiveTo(o, s).mem = o.mem /\ GiveTo(o, s).err = o.err
         /\ GiveTo(o, s).owned = Plus(o.owned, s) /\ GiveTo(o, s).args = Plus(o.args, s)
<1>1. GiveTo(o, s) = [mem |-> o.mem, err |-> o.err, owned |-> Plus(o.owned, s), args |-> Plus(o.args, s)]
  BY DEF GiveTo, Plus
<1> QED BY <1>1 DEF ARun

(* The same, after a call. *)
LEMMA GiveMoreIs ==
  ASSUME NEW o, ARun(o), NEW u, NEW s
  PROVE  /\ ARun(GiveTo(Carry(o, u), s))
         /\ GiveTo(Carry(o, u), s).mem = u.mem /\ GiveTo(Carry(o, u), s).err = u.err
         /\ GiveTo(Carry(o, u), s).owned = Plus(o.owned, s) /\ GiveTo(Carry(o, u), s).args = Plus(o.args, s)
<1> DEFINE x == GiveTo(Carry(o, u), s)
<1>1. /\ x.mem = Carry(o, u).mem /\ x.err = Carry(o, u).err /\ x.owned = Plus(Carry(o, u).owned, s)
      /\ x.args = Plus(Carry(o, u).args, s) /\ ARun(x)
  BY GiveToIs
<1> QED BY <1>1, CarryIs

(* The first of a sequence stays the first. *)
LEMMA FirstStays ==
  ASSUME NEW s \in Seq(Nat), NEW e \in Nat
  PROVE  /\ Plus(s, e) \in Seq(Nat) /\ Len(Plus(s, e)) = Len(s) + 1 /\ Len(Plus(s, e)) # 0
         /\ Len(s) # 0 => Plus(s, e)[1] = s[1] /\ s[1] \in Members(s)
         /\ Len(s) = 0 => Plus(s, e)[1] = e
<1> DEFINE t == Plus(s, e)
<1>1. /\ t \in Seq(Nat) /\ Len(t) = Len(s) + 1 /\ t[Len(s) + 1] = e
      /\ \A i \in 1 .. Len(s) : t[i] = s[i]
  BY AppendProperties DEF Plus
<1>2. Len(s) \in Nat
  OBVIOUS
<1> HIDE DEF t
<1> QED BY <1>1, <1>2 DEF Members, t

(* One more input of the kernel, loaded or used where it is. *)
LEMMA InputGiven ==
  ASSUME NEW ns, NEW val, NEW m, NEW B, Good(m, B), Supplied(ns, val, m, B), NEW inputs, NEW k \in Nat, NEW L,
         NEW n, n = inputs[k + 1], n \in DOMAIN ns, ns[n].kind = "opInput",
         NEW o, Underway(ns, val, m, B, inputs, o, k, L), Ok(o), NEW x \in uploadInput(o, ns[n])
  PROVE  Underway(ns, val, m, B, inputs, x, k + 1, L)
<1> DEFINE C == Everything(o, B)
           d == ns[n].dev
<1>1. ARun(o) /\ InOrder(m, o, B) /\ WithArgs(ns, val, B, inputs, o, k, L) /\ o.err = ""
  BY DEF Underway, Ok
<1>2. /\ Good(o.mem, C) /\ ~o.mem.poisoned /\ Keeps(m, o.mem, B) /\ o.owned \in Seq(Nat)
      /\ Members(o.owned) \intersect B = {}
  BY <1>1 DEF InOrder
<1>3. o.args \in Seq(Nat) /\ Len(o.owned) # 0 /\ o.args[1] = o.owned[1] /\ (OnDevice(ns) => Len(o.owned) = 1)
      /\ o.args[1] \in C
  BY <1>1 DEF WithArgs, Given
<1>4. o.owned[1] \in Members(o.owned)
  <2>1. Len(o.owned) \in Nat
    BY <1>2
  <2> QED BY <1>3, <2>1 DEF Members
<1>5. CASE d # 0
  <2>1. x = InPlace(o, d)
    BY <1>5 DEF uploadInput
  <2>2. ARun(x) /\ x.mem = o.mem /\ x.err = o.err /\ x.owned = o.owned /\ x.args = Plus(o.args, d)
    BY <1>1, <2>1, InPlaceIs
  <2>3. InOrder(m, x, B) /\ Everything(x, B) = C
    BY <1>1, <2>2 DEF InOrder, Everything
  <2>4. d \in B /\ d \in Nat /\ (~m.poisoned => Content(m, d) = val[n])
    BY <1>5 DEF Supplied
  <2>5. Content(x.mem, d) = val[inputs[k + 1]]
    BY <1>2, <2>2, <2>4 DEF Keeps
  <2>6. Keeps(o.mem, x.mem, C)
    BY <1>2, <2>2, GoodSame
  <2>7. d \in Everything(x, B) /\ d # o.args[1] /\ C \subseteq Everything(x, B)
    BY <1>2, <1>3, <1>4, <2>3, <2>4 DEF Everything
  <2>8. WithArgs(ns, val, B, inputs, x, k + 1, L)
    <3> HIDE DEF d
    <3> QED BY <1>1, <1>2, <1>3, <2>2, <2>4, <2>5, <2>6, <2>7, OneMoreArgument
  <2> QED BY <2>2, <2>3, <2>8 DEF Underway
<1>6. CASE d = 0
  <2>1. PICK u \in Upload(o.mem, ns[n].host) : x = IF u.err # "" THEN Carry(o, u) ELSE GiveTo(Carry(o, u), u.s)
    BY <1>6 DEF uploadInput
  <2>2. ns[n].host \in Seq(Int) /\ val[n] = Array(ns[n].host)
    BY <1>6 DEF Supplied
  <2>3. /\ u.err = "" => Added(o.mem, u.mem, C, u.s, Len(ns[n].host)) /\ Content(u.mem, u.s) = Array(ns[n].host)
        /\ u.err # "" => Broken(o.mem, u, C)
    BY <1>2, <2>1, <2>2, UploadOutcomes
  <2>4. CASE u.err # ""
    <3>1. ARun(x) /\ x.mem = u.mem /\ x.err = u.err /\ x.owned = o.owned
      BY <1>1, <2>1, <2>4, CarryIs
    <3>2. InOrder(m, x, B) /\ x.err # ""
      BY <1>1, <2>3, <2>4, <3>1, OrderAfterFailure
    <3> QED BY <3>1, <3>2 DEF Underway
  <2>5. CASE u.err = ""
    <3>1. x = GiveTo(Carry(o, u), u.s)
      BY <2>1, <2>5
    <3>2. ARun(x) /\ x.mem = u.mem /\ x.err = u.err /\ x.owned = Plus(o.owned, u.s) /\ x.args = Plus(o.args, u.s)
      <4> DEFINE s == u.s
      <4> HIDE DEF s
      <4>1. /\ ARun(GiveTo(Carry(o, u), s))
            /\ GiveTo(Carry(o, u), s).mem = u.mem /\ GiveTo(Carry(o, u), s).err = u.err
            /\ GiveTo(Carry(o, u), s).owned = Plus(o.owned, s) /\ GiveTo(Carry(o, u), s).args = Plus(o.args, s)
        <5>1. ARun(o)
          BY <1>1
        <5> QED BY ONLY <5>1, GiveMoreIs
      <4> QED BY <3>1, <4>1 DEF s
    <3>3. Added(o.mem, u.mem, C, u.s, Len(ns[n].host)) /\ Ok(x)
      BY <2>3, <2>5, <3>2 DEF Ok
    <3>4. InOrder(m, x, B) /\ u.s \in Nat /\ u.s \notin C /\ Everything(x, B) = C \union {u.s}
      <4>1. Added(o.mem, x.mem, C, u.s, Len(ns[n].host))
        BY <3>2, <3>3
      <4>2. Took(m, B, o, u.s, x)
        BY <1>1, <3>2, <3>3, <4>1, OrderAfterMore
      <4> QED BY <4>2 DEF Took
    <3>5. x.owned \in Seq(Nat) /\ Len(x.owned) # 0 /\ x.owned[1] = o.owned[1]
      <4>1. o.owned \in Seq(Nat) /\ u.s \in Nat /\ Len(o.owned) # 0
        BY <1>2, <1>3, <3>4
      <4>2. /\ Plus(o.owned, u.s) \in Seq(Nat) /\ Len(Plus(o.owned, u.s)) # 0
            /\ Plus(o.owned, u.s)[1] = o.owned[1]
        BY <4>1, FirstStays
      <4> QED BY <3>2, <4>2
    <3>6. ~x.mem.poisoned /\ Keeps(o.mem, x.mem, C)
      BY <3>2, <3>3 DEF Added
    <3>7. Content(x.mem, u.s) = val[inputs[k + 1]]
      BY <2>2, <2>3, <2>5, <3>2
    <3>8. u.s \in Everything(x, B) /\ u.s # o.args[1] /\ C \subseteq Everything(x, B)
      BY <1>3, <3>4
    <3>9. ~OnDevice(ns)
      BY <1>6 DEF OnDevice
    <3>10. WithArgs(ns, val, B, inputs, x, k + 1, L)
      BY <1>1, <3>2, <3>4, <3>5, <3>6, <3>7, <3>8, <3>9, OneMoreArgument
    <3> QED BY <3>2, <3>4, <3>10 DEF Underway
  <2> QED BY <2>4, <2>5
<1> QED BY <1>5, <1>6

(* The stages of run: the module loaded, the output allocated, the inputs given, the buffers compared. *)
Bare(l) == [mem |-> l.mem, err |-> l.err, owned |-> <<>>, args |-> <<>>]
Loaded(m) == {Bare(l) : l \in call(m, {m}, AnyFailure)}
WithOutput(o, n) == {IF a.err # "" THEN Carry(o, a) ELSE GiveTo(Carry(o, a), a.s) : a \in NewSlice(o.mem, n)}
Output(m, n) == Then(Loaded(m), LAMBDA o : WithOutput(o, n))
AllGiven(m, ns, root) == AllInputs(ns, Output(m, ns[root].n), Inputs(ns, root))
Checked(o) == IF o.err = "" /\ checkAliasing(o.mem, o.args) THEN Carry(o, [mem |-> o.mem, err |-> "alias"]) ELSE o
Grid(ns, root) == (ns[root].n + BlockSize - 1) \div BlockSize
Ended(o, ns, root) == {Carry(o, l) : l \in LaunchSync(o.mem, ns, root, Inputs(ns, root), o.args, Grid(ns, root))}

(* run in its parts. *)
LEMMA RunIs ==
  ASSUME NEW m, NEW ns, NEW root
  PROVE  run(m, ns, root) = Then({Checked(o) : o \in AllGiven(m, ns, root)}, LAMBDA o : Ended(o, ns, root))
BY DEF run, Loaded, Bare, WithOutput, Output, AllGiven, AllInputs, Checked, Grid, Ended, Inputs

(* The kernel is loaded. *)
LEMMA LoadedOutcomes ==
  ASSUME NEW m, NEW B, Good(m, B), NEW o \in Loaded(m)
  PROVE  ARun(o) /\ o.owned = <<>> /\ o.args = <<>> /\ InOrder(m, o, B)
<1>1. PICK l \in call(m, {m}, AnyFailure) : o = Bare(l)
  BY DEF Loaded
<1>2. o = [mem |-> l.mem, err |-> l.err, owned |-> <<>>, args |-> <<>>]
  BY <1>1 DEF Bare
<1>3. o.mem = l.mem /\ o.err = l.err /\ o.owned = <<>> /\ o.args = <<>> /\ ARun(o)
  BY <1>2 DEF ARun
<1>4. Members(<<>>) = {} /\ <<>> \in Seq(Nat) /\ Distinct(<<>>)
  BY DEF Members, Distinct
<1>5. Everything(o, B) = B
  BY <1>3, <1>4 DEF Everything
<1>6. /\ l.err = "" => ~m.poisoned /\ l.mem \in {m}
      /\ l.err # "" => l.err \in Errors /\ Good(l.mem, B) /\ Keeps(m, l.mem, B)
  <2> DEFINE done == {m}
  <2>1. l \in call(m, done, AnyFailure) /\ AnyFailure \subseteq AnyFailure
    BY <1>1
  <2> HIDE DEF done
  <2>2. /\ l.err = "" => ~m.poisoned /\ l.mem \in done
        /\ l.err # "" => l.err \in Errors /\ Good(l.mem, B) /\ Keeps(m, l.mem, B)
    BY <2>1, CallFails
  <2> QED BY <2>2 DEF done
<1>7. Keeps(m, m, B)
  BY GoodSame
<1>8. InOrder(m, o, B)
  <2>1. CASE l.err = ""
    <3>1. l.mem = m /\ ~m.poisoned
      BY <1>6, <2>1
    <3> QED BY <1>3, <1>4, <1>5, <1>7, <2>1, <3>1 DEF InOrder
  <2>2. CASE l.err # ""
    BY <1>3, <1>4, <1>5, <1>6, <2>2 DEF InOrder
  <2> QED BY <2>1, <2>2
<1> QED BY <1>3, <1>8

(* The output buffer is taken. *)
LEMMA OutputOutcomes ==
  ASSUME NEW m, NEW B, Good(m, B), NEW L \in Nat, NEW x \in Output(m, L), NEW ns, NEW val, NEW inputs
  PROVE  Underway(ns, val, m, B, inputs, x, 0, L)
<1>1. PICK o \in Loaded(m) : x \in IF o.err = "" THEN WithOutput(o, L) ELSE {o}
  BY DEF Output, Then
<1>2. ARun(o) /\ o.owned = <<>> /\ o.args = <<>> /\ InOrder(m, o, B)
  BY <1>1, LoadedOutcomes
<1>3. CASE o.err # ""
  <2>1. x = o
    BY <1>1, <1>3
  <2> QED BY <1>2, <1>3, <2>1 DEF Underway
<1>4. CASE o.err = ""
  <2> DEFINE C == Everything(o, B)
  <2>1. PICK a \in NewSlice(o.mem, L) : x = IF a.err # "" THEN Carry(o, a) ELSE GiveTo(Carry(o, a), a.s)
    BY <1>1, <1>4 DEF WithOutput
  <2>2. Good(o.mem, C)
    BY <1>2 DEF InOrder
  <2> HIDE DEF C
  <2>3. /\ a.err = "" => Added(o.mem, a.mem, C, a.s, L)
        /\ a.err # "" => Broken(o.mem, a, C)
    BY <2>1, <2>2, NewSliceOutcomes
  <2>4. CASE a.err # ""
    <3>1. ARun(x) /\ x.mem = a.mem /\ x.err = a.err /\ x.owned = o.owned
      BY <1>2, <2>1, <2>4, CarryIs
    <3>2. InOrder(m, x, B) /\ x.err # ""
      BY <1>2, <2>3, <2>4, <3>1, OrderAfterFailure DEF C
    <3> QED BY <3>1, <3>2 DEF Underway
  <2>5. CASE a.err = ""
    <3> DEFINE s == a.s
    <3>1. x = GiveTo(Carry(o, a), s)
      BY <2>1, <2>5
    <3> HIDE DEF s
    <3>2. ARun(x) /\ x.mem = a.mem /\ x.err = a.err /\ x.owned = Plus(<<>>, s) /\ x.args = Plus(<<>>, s)
      <4>1. /\ ARun(GiveTo(Carry(o, a), s))
            /\ GiveTo(Carry(o, a), s).mem = a.mem /\ GiveTo(Carry(o, a), s).err = a.err
            /\ GiveTo(Carry(o, a), s).owned = Plus(o.owned, s) /\ GiveTo(Carry(o, a), s).args = Plus(o.args, s)
        <5>1. ARun(o)
          BY <1>2
        <5> QED BY ONLY <5>1, GiveMoreIs
      <4> QED BY <1>2, <3>1, <4>1
    <3>3. Added(o.mem, x.mem, C, s, L) /\ Ok(x)
      BY <2>3, <2>5, <3>2 DEF Ok, s
    <3>4. Took(m, B, o, s, x)
      BY <1>2, <3>2, <3>3, OrderAfterMore DEF C
    <3>5. InOrder(m, x, B) /\ s \in Nat /\ Everything(x, B) = C \union {s}
      BY <3>4 DEF Took, C
    <3>6. x.owned \in Seq(Nat) /\ Len(x.owned) = 1 /\ x.owned[1] = s
      <4>1. <<>> \in Seq(Nat) /\ Len(<<>>) = 0
        OBVIOUS
      <4>2. s \in Nat
        BY <3>5
      <4>3. /\ Plus(<<>>, s) \in Seq(Nat) /\ Len(Plus(<<>>, s)) = Len(<<>>) + 1
            /\ Plus(<<>>, s)[1] = s
        BY ONLY <4>1, <4>2, FirstStays
      <4> QED BY <3>2, <4>1, <4>3
    <3>7. x.args = x.owned
      BY <3>2
    <3>8. x.mem.slices[s].n = L
      BY <3>3 DEF Added
    <3>9. DOMAIN x.args = 1 .. 0 + 1 /\ Len(x.owned) # 0 /\ Len(x.args) = 0 + 1
      BY <3>6, <3>7
    <3>10. Given(ns, val, x.mem, Everything(x, B), inputs, x.args, 0)
      BY <3>5, <3>6, <3>7, <3>9 DEF Given
    <3>11. WithArgs(ns, val, B, inputs, x, 0, L)
      BY <3>6, <3>7, <3>8, <3>9, <3>10 DEF WithArgs
    <3> QED BY <3>2, <3>5, <3>11 DEF Underway
  <2> QED BY <2>4, <2>5
<1> QED BY <1>3, <1>4

(* All inputs are on the device. *)
LEMMA GivenAll ==
  ASSUME NEW ns, Shaped(ns), NEW root \in DOMAIN ns, ns[root].n \in Nat, NEW val,
         NEW m, NEW B, Good(m, B), Supplied(ns, val, m, B), NEW o \in AllGiven(m, ns, root)
  PROVE  Underway(ns, val, m, B, Inputs(ns, root), o, Len(Inputs(ns, root)), ns[root].n)
<1> DEFINE inputs == Inputs(ns, root)
           L == ns[root].n
           output == Output(m, L)
           N == Len(inputs)
<1>1. inputs \in Seq(DOMAIN ns) /\ N \in Nat
      /\ \A k \in 1 .. N : inputs[k] \in DOMAIN ns /\ ns[inputs[k]].kind = "opInput"
  <2>1. inputs \in Seq(DOMAIN ns) /\ \A k \in 1 .. N : ns[inputs[k]].kind = "opInput"
    BY InputsOf
  <2> HIDE DEF inputs
  <2>2. N \in Nat /\ \A k \in 1 .. N : inputs[k] \in DOMAIN ns
    BY <2>1
  <2> QED BY <2>1, <2>2
<1> HIDE DEF inputs, output
<1>2. PICK f : /\ f[0] = output
               /\ \A k \in 1 .. Len(inputs) : f[k] = AfterInput(f[k - 1], ns, inputs[k])
               /\ AllInputs(ns, output, inputs) = f[Len(inputs)]
  BY <1>1, InputsLoop
<1>3. o \in f[N]
  BY <1>2 DEF AllGiven, output, inputs
<1> DEFINE Right(x, k) == Underway(ns, val, m, B, inputs, x, k, L)
           T0 == {k \in Nat : k <= N => \A x \in f[k] : Right(x, k)}
<1>4. 0 \in T0
  <2>1. \A x \in output : Right(x, 0)
    BY OutputOutcomes DEF output
  <2> HIDE DEF Right
  <2> QED BY <1>2, <2>1
<1>5. ASSUME NEW k \in Nat, k \in T0 PROVE k + 1 \in T0
  <2> SUFFICES ASSUME k + 1 <= N, NEW x \in f[k + 1] PROVE Right(x, k + 1)
    OBVIOUS
  <2>1. k + 1 \in 1 .. N /\ k + 1 - 1 = k /\ k <= N
    BY <1>1
  <2>2. f[k + 1] = AfterInput(f[k], ns, inputs[k + 1])
    BY <1>2, <2>1
  <2>3. PICK y \in f[k] : x \in IF y.err = "" THEN uploadInput(y, ns[inputs[k + 1]]) ELSE {y}
    BY <2>2 DEF AfterInput, Then
  <2>4. Right(y, k)
    <3> HIDE DEF Right
    <3> QED BY <1>5, <2>1, <2>3
  <2>5. CASE y.err # ""
    <3>1. x = y
      BY <2>3, <2>5
    <3> QED BY <2>4, <2>5, <3>1 DEF Underway
  <2>6. CASE y.err = ""
    <3> DEFINE n == inputs[k + 1]
    <3>1. n = inputs[k + 1] /\ n \in DOMAIN ns /\ ns[n].kind = "opInput" /\ x \in uploadInput(y, ns[n]) /\ Ok(y)
      BY <1>1, <2>1, <2>3, <2>6 DEF Ok
    <3> HIDE DEF n
    <3> QED BY <2>4, <3>1, InputGiven
  <2> QED BY <2>5, <2>6
<1>6. N \in T0
  <2> HIDE DEF T0
  <2> QED BY <1>1, <1>4, <1>5, Induction
<1> QED BY <1>1, <1>3, <1>6 DEF inputs

Finished(ns, val, m, B, r, root) ==
  /\ ARun(r) /\ InOrder(m, r, B)
  /\ r.err = "" =>
       /\ Len(r.owned) # 0 /\ r.args # <<>> /\ r.args[1] = r.owned[1]
       /\ Content(r.mem, r.args[1]) = val[root]
       /\ OnDevice(ns) => Len(r.owned) = 1

(* run: the output is right and owned with what was loaded, or it failed; nothing that was there has changed. *)
LEMMA RunOutcomes ==
  ASSUME SizesAssumption,
         NEW ns, WellMade(ns), NEW val, Solves(ns, val), NEW root \in DOMAIN ns,
         NEW m, NEW B, Good(m, B), Supplied(ns, val, m, B), NEW r \in run(m, ns, root)
  PROVE  Finished(ns, val, m, B, r, root)
<1> DEFINE inputs == Inputs(ns, root)
           L == ns[root].n
           N == Len(inputs)
<1>1. Shaped(ns) /\ L \in Nat
  BY DEF WellMade, SoundNode
<1>2. inputs \in Seq(DOMAIN ns)
  BY <1>1, InputsOf
<1> HIDE DEF inputs
<1>3. N \in Nat
  BY <1>2
<1>4. PICK o \in AllGiven(m, ns, root) :
        r \in IF Checked(o).err = "" THEN Ended(Checked(o), ns, root) ELSE {Checked(o)}
  BY RunIs DEF Then
<1>5. Underway(ns, val, m, B, inputs, o, N, L)
  BY <1>1, GivenAll DEF inputs
<1> DEFINE C == Everything(o, B)
<1>6. ARun(o) /\ InOrder(m, o, B) /\ (o.err = "" => WithArgs(ns, val, B, inputs, o, N, L))
  BY <1>5 DEF Underway
<1>7. Good(o.mem, C) /\ Members(o.owned) \intersect B = {} /\ o.owned \in Seq(Nat) /\ (o.err = "" => ~o.mem.poisoned)
  BY <1>6 DEF InOrder
<1>8. Checked(o) = o
  <2>1. CASE o.err # ""
    BY <2>1 DEF Checked
  <2>2. CASE o.err = ""
    <3>1. Given(ns, val, o.mem, C, inputs, o.args, N) /\ Len(o.args) = N + 1
      BY <1>6, <2>2 DEF WithArgs
    <3>2. ~checkAliasing(o.mem, o.args)
      <4> HIDE DEF C
      <4> QED BY <1>3, <1>7, <2>2, <3>1, RunNeverAliases
    <3> QED BY <3>2 DEF Checked
  <2> QED BY <2>1, <2>2
<1>9. r \in IF o.err = "" THEN Ended(o, ns, root) ELSE {o}
  BY <1>4, <1>8
<1>10. CASE o.err # ""
  <2>1. r = o
    BY <1>9, <1>10
  <2> QED BY <1>6, <1>10, <2>1 DEF Finished
<1>11. CASE o.err = ""
  <2>1. PICK l \in LaunchSync(o.mem, ns, root, inputs, o.args, Grid(ns, root)) : r = Carry(o, l)
    BY <1>9, <1>11 DEF Ended, inputs
  <2>2. /\ o.args \in Seq(Nat) /\ Len(o.args) = N + 1
        /\ Len(o.owned) # 0 /\ o.args[1] = o.owned[1]
        /\ o.mem.slices[o.args[1]].n = L
        /\ Given(ns, val, o.mem, C, inputs, o.args, N)
        /\ OnDevice(ns) => Len(o.owned) = 1
    BY <1>6, <1>11 DEF WithArgs
  <2> DEFINE s == o.args[1]
             grid == Grid(ns, root)
  <2>3. grid = (ns[root].n + BlockSize - 1) \div BlockSize
    BY DEF Grid
  <2> HIDE DEF C, grid
  <2>4. /\ l.err = "" => ~o.mem.poisoned /\ Filled(o.mem, l.mem, C, s, val[root])
        /\ l.err # "" => Broken(o.mem, l, C)
    <3>1. inputs = Inputs(ns, root) /\ l \in LaunchSync(o.mem, ns, root, inputs, o.args, grid)
      BY <2>1 DEF inputs, grid
    <3> QED BY <1>7, <1>11, <2>2, <2>3, <3>1, LaunchOutcomes
  <2>5. ARun(r) /\ r.mem = l.mem /\ r.err = l.err /\ r.owned = o.owned /\ r.args = o.args
    BY <1>6, <2>1, CarryIs
  <2>6. CASE l.err # ""
    <3>1. InOrder(m, r, B) /\ r.err # ""
      BY <1>6, <2>4, <2>5, <2>6, OrderAfterFailure DEF C
    <3> QED BY <2>5, <3>1 DEF Finished
  <2>7. CASE l.err = ""
    <3>1. s \in Members(o.owned)
      <4>1. o.owned \in Seq(Nat) /\ Len(o.owned) # 0 /\ s = o.owned[1]
        BY <1>7, <2>2
      <4> HIDE DEF s
      <4>2. Len(o.owned) \in Nat
        BY ONLY <4>1
      <4> QED BY <4>1, <4>2 DEF Members
    <3>2. Filled(o.mem, r.mem, C, s, val[root]) /\ Ok(r)
      BY <2>4, <2>5, <2>7 DEF Ok
    <3> HIDE DEF s
    <3>3. InOrder(m, r, B)
      <4> DEFINE y == r.mem
      <4>1. r.mem = y /\ Filled(o.mem, y, Everything(o, B), s, val[root])
        BY <3>2 DEF C
      <4> HIDE DEF y
      <4> QED BY <1>6, <2>5, <3>1, <3>2, <4>1, OrderAfterWrite
    <3>4. Content(r.mem, s) = val[root]
      BY <3>2 DEF Filled
    <3>5. r.args # <<>>
      <4>1. Len(o.args) # 0
        BY <1>3, <2>2
      <4> QED BY <2>5, <4>1
    <3> QED BY <2>2, <2>5, <3>3, <3>4, <3>5 DEF Finished, s
  <2> QED BY <2>6, <2>7
<1> QED BY <1>10, <1>11

-----------------------------------------------------------------------------
(* MaterializeStepwise.                                                    *)

ANode(x) ==
  x = [kind |-> x.kind, n |-> x.n, args |-> x.args, host |-> x.host, dev |-> x.dev, scale |-> x.scale, cfn |-> x.cfn]

(* An argument, as an input of a graph of its own. *)
LEMMA AsInputIs ==
  ASSUME NEW x, ANode(x), NEW s
  PROVE  /\ AsInput(x, s).kind = "opInput" /\ AsInput(x, s).args = <<>> /\ AsInput(x, s).dev = s
         /\ AsInput(x, s).n = x.n
<1> DEFINE y == AsInput(x, s)
<1>1. y = [x EXCEPT !.kind = "opInput", !.args = <<>>, !.dev = s]
  BY DEF AsInput
<1> HIDE DEF y
<1>2. y = [kind |-> "opInput", n |-> x.n, args |-> <<>>, host |-> x.host, dev |-> s, scale |-> x.scale, cfn |-> x.cfn]
  BY <1>1 DEF ANode
<1>3. y.kind = "opInput" /\ y.args = <<>> /\ y.dev = s /\ y.n = x.n
  BY <1>2
<1> QED BY <1>3 DEF y

(* A node, as an operation on the first of a graph. *)
LEMMA OfTheFirstIs ==
  ASSUME NEW x, ANode(x)
  PROVE  /\ OfTheFirst(x).kind = x.kind /\ OfTheFirst(x).args = [i \in DOMAIN x.args |-> i]
         /\ OfTheFirst(x).n = x.n /\ OfTheFirst(x).scale = x.scale /\ OfTheFirst(x).cfn = x.cfn
<1> DEFINE y == OfTheFirst(x)
           args == [i \in DOMAIN x.args |-> i]
<1>1. y = [x EXCEPT !.args = args]
  BY DEF OfTheFirst
<1> HIDE DEF y, args
<1>2. y = [kind |-> x.kind, n |-> x.n, args |-> args, host |-> x.host, dev |-> x.dev, scale |-> x.scale, cfn |-> x.cfn]
  BY <1>1 DEF ANode
<1>3. y.kind = x.kind /\ y.args = args /\ y.n = x.n /\ y.scale = x.scale /\ y.cfn = x.cfn
  BY <1>2
<1> QED BY <1>3 DEF y, args

(* A node, and its arguments as inputs that are on the device, are a graph whose value is the node's. *)
ValueOfSingle(val, n) ==
  [j \in 1 .. Len(nodes[n].args) + 1 |-> IF j <= Len(nodes[n].args) THEN val[nodes[n].args[j]] ELSE val[n]]

(* The graph of one operation. *)
LEMMA SingleIs ==
  ASSUME NEW o, NEW n, \A x \in DOMAIN nodes : ANode(nodes[x]), WellMade(nodes), n \in DOMAIN nodes
  PROVE  /\ Len(nodes[n].args) \in 0 .. 2
         /\ DOMAIN single(o, n) = 1 .. Len(nodes[n].args) + 1
         /\ \A j \in 1 .. Len(nodes[n].args) :
              /\ single(o, n)[j].kind = "opInput" /\ single(o, n)[j].args = <<>>
              /\ single(o, n)[j].dev = o.cache[nodes[n].args[j]]
              /\ single(o, n)[j].n = nodes[nodes[n].args[j]].n
         /\ single(o, n)[Len(nodes[n].args) + 1].kind = nodes[n].kind
         /\ single(o, n)[Len(nodes[n].args) + 1].args = [i \in 1 .. Len(nodes[n].args) |-> i]
         /\ single(o, n)[Len(nodes[n].args) + 1].n = nodes[n].n
         /\ single(o, n)[Len(nodes[n].args) + 1].scale = nodes[n].scale
         /\ single(o, n)[Len(nodes[n].args) + 1].cfn = nodes[n].cfn
<1> DEFINE K == Len(nodes[n].args)
<1>1. K \in 0 .. 2 /\ DOMAIN nodes[n].args = 1 .. K
  BY Arities DEF WellMade
<1>2. /\ DOMAIN single(o, n) = 1 .. K + 1
      /\ \A j \in 1 .. K + 1 : single(o, n)[j] = IF j <= K THEN AsInput(nodes[nodes[n].args[j]], o.cache[nodes[n].args[j]])
                                                 ELSE OfTheFirst(nodes[n])
  BY DEF single
<1>3. single(o, n)[K + 1] = OfTheFirst(nodes[n])
  <2> HIDE DEF K
  <2>1. K + 1 \in 1 .. K + 1 /\ ~(K + 1 <= K)
    BY <1>1
  <2> QED BY <1>2, <2>1
<1>4. ASSUME NEW j \in 1 .. K
      PROVE  /\ single(o, n)[j].kind = "opInput" /\ single(o, n)[j].args = <<>>
             /\ single(o, n)[j].dev = o.cache[nodes[n].args[j]]
             /\ single(o, n)[j].n = nodes[nodes[n].args[j]].n
  <2> HIDE DEF K
  <2>1. j \in 1 .. K + 1 /\ j <= K
    BY <1>1
  <2>2. single(o, n)[j] = AsInput(nodes[nodes[n].args[j]], o.cache[nodes[n].args[j]])
    BY <1>2, <2>1
  <2>3. nodes[n].args[j] \in DOMAIN nodes
    BY <1>1, Arguments DEF WellMade
  <2>4. ANode(nodes[nodes[n].args[j]])
    BY <2>3
  <2> QED BY <2>2, <2>4, AsInputIs
<1> HIDE DEF K
<1>5. /\ single(o, n)[K + 1].kind = nodes[n].kind
      /\ single(o, n)[K + 1].args = [i \in 1 .. K |-> i]
      /\ single(o, n)[K + 1].n = nodes[n].n
      /\ single(o, n)[K + 1].scale = nodes[n].scale
      /\ single(o, n)[K + 1].cfn = nodes[n].cfn
  <2>1. ANode(nodes[n])
    OBVIOUS
  <2>2. OfTheFirst(nodes[n]).args = [i \in 1 .. K |-> i]
    BY <1>1, <2>1, OfTheFirstIs
  <2> QED BY <1>3, <2>1, <2>2, OfTheFirstIs
<1> QED BY <1>1, <1>2, <1>4, <1>5 DEF K

(* The arguments of that operation. *)
LEMMA FirstNumbers == ASSUME NEW K \in 0 .. 2 PROVE [i \in 1 .. K |-> i] \in Seq(1 .. K) /\ Len([i \in 1 .. K |-> i]) = K
OBVIOUS

(* The graph of one operation is well made, and worth what its node is worth. *)
LEMMA SingleRight ==
  ASSUME SizesAssumption, \A x \in DOMAIN nodes : ANode(nodes[x]), WellMade(nodes), NEW val, Solves(nodes, val),
         NEW o, NEW n, n \in DOMAIN nodes, nodes[n].kind # "opInput"
  PROVE  /\ WellMade(single(o, n))
         /\ Solves(single(o, n), ValueOfSingle(val, n))
         /\ Len(nodes[n].args) + 1 \in DOMAIN single(o, n)
         /\ ValueOfSingle(val, n)[Len(nodes[n].args) + 1] = val[n]
<1> DEFINE K == Len(nodes[n].args)
           args == nodes[n].args
           ns == single(o, n)
           w == ValueOfSingle(val, n)
           last == [i \in 1 .. K |-> i]
<1>1. /\ K \in 0 .. 2 /\ DOMAIN ns = 1 .. K + 1
      /\ \A j \in 1 .. K : ns[j].kind = "opInput" /\ ns[j].args = <<>> /\ ns[j].n = nodes[args[j]].n
      /\ ns[K + 1].kind = nodes[n].kind /\ ns[K + 1].args = last /\ ns[K + 1].n = nodes[n].n
      /\ ns[K + 1].scale = nodes[n].scale /\ ns[K + 1].cfn = nodes[n].cfn
  BY SingleIs
<1>2. /\ \A j \in 1 .. K : w[j] = val[args[j]]
      /\ w[K + 1] = val[n]
  <2> HIDE DEF K
  <2>1. w = [j \in 1 .. K + 1 |-> IF j <= K THEN val[args[j]] ELSE val[n]]
    BY DEF ValueOfSingle, K
  <2> HIDE DEF w
  <2>2. K \in Nat /\ K + 1 \in 1 .. K + 1 /\ ~(K + 1 <= K) /\ \A j \in 1 .. K : j \in 1 .. K + 1 /\ j <= K
    BY <1>1
  <2> QED BY <2>1, <2>2
<1>3. /\ Shaped(nodes) /\ SoundNode(nodes, n)
      /\ DOMAIN args = 1 .. K
      /\ nodes[n].kind \in {"opScale", "opUnary", "opAdd", "opMul", "opHypot", "opFIR"}
      /\ nodes[n].kind \in {"opScale", "opUnary"} => K = 1
      /\ nodes[n].kind \in {"opAdd", "opMul", "opHypot", "opFIR"} => K = 2
  BY Arities DEF WellMade
<1>4. ASSUME NEW j \in 1 .. K PROVE args[j] \in DOMAIN nodes /\ SoundNode(nodes, args[j])
  BY <1>3, Arguments DEF WellMade
<1> HIDE DEF ns, w, args
<1>5. /\ last \in Seq(1 .. K) /\ Len(last) = K /\ DOMAIN last = 1 .. K /\ \A i \in 1 .. K : last[i] = i
  <2> HIDE DEF K
  <2>1. last \in Seq(1 .. K) /\ Len(last) = K
    BY <1>1, FirstNumbers
  <2> QED BY <2>1
<1>6. nodes[n].kind \in DOMAIN Arity /\ Arity[nodes[n].kind] = K
  <2> HIDE DEF K
  <2> QED BY <1>1, <1>3 DEF Arity
<1> HIDE DEF last, K
<1>7. Shaped(ns)
  <2>1. K + 1 \in Nat
    BY <1>1
  <2>2. ASSUME NEW j \in DOMAIN ns
        PROVE  ns[j].args \in Seq(1 .. j - 1) /\ ns[j].kind \in DOMAIN Arity /\ Len(ns[j].args) = Arity[ns[j].kind]
    <3>1. CASE j = K + 1
      <4>1. K + 1 - 1 = K
        BY <1>1
      <4> QED BY <1>1, <1>5, <1>6, <3>1, <4>1
    <3>2. CASE j # K + 1
      <4>1. j \in 1 .. K
        BY <1>1, <3>2
      <4>2. ns[j].kind = "opInput" /\ ns[j].args = <<>>
        BY <1>1, <4>1
      <4>3. <<>> \in Seq(1 .. j - 1) /\ Len(<<>>) = 0
        OBVIOUS
      <4>4. "opInput" \in DOMAIN Arity /\ Arity["opInput"] = 0
        BY DEF Arity
      <4> QED BY <4>2, <4>3, <4>4
    <3> QED BY <3>1, <3>2
  <2> QED BY <1>1, <2>1, <2>2 DEF Shaped
<1>8. ASSUME NEW j \in 1 .. K
      PROVE  SoundNode(ns, j) /\ j \in DOMAIN ns /\ AnArray(w[j], ns[j].n) /\ ns[j].kind = "opInput"
  <2>1. ns[j].kind = "opInput" /\ ns[j].args = <<>> /\ ns[j].n \in Nat
    BY <1>1, <1>4 DEF SoundNode
  <2>2. DOMAIN <<>> = {}
    OBVIOUS
  <2>3. j \in DOMAIN ns
    BY <1>1
  <2>4. AnArray(w[j], ns[j].n)
    BY <1>1, <1>2, <1>4 DEF Solves
  <2> QED BY <2>1, <2>2, <2>3, <2>4 DEF SoundNode
<1>9. SoundNode(ns, K + 1) /\ K + 1 \in DOMAIN ns
  <2>1. K + 1 \in DOMAIN ns /\ K \in Nat
    BY <1>1
  <2>2. ns[K + 1].n \in Nat
    BY <1>1, <1>3 DEF SoundNode
  <2>3. ASSUME ns[K + 1].kind # "opFIR", NEW i \in DOMAIN ns[K + 1].args PROVE ns[ns[K + 1].args[i]].n = ns[K + 1].n
    <3>1. i \in 1 .. K /\ ns[K + 1].args[i] = i
      BY <1>1, <1>5
    <3>2. nodes[args[i]].n = nodes[n].n
      BY <1>1, <1>3, <2>3, <3>1 DEF SoundNode, args
    <3> QED BY <1>1, <3>1, <3>2
  <2>4. CASE ns[K + 1].kind = "opFIR"
    <3>1. K = 2 /\ 1 \in 1 .. K /\ 2 \in 1 .. K
      BY <1>1, <1>3, <2>4
    <3>2. ns[K + 1].args[1] = 1 /\ ns[K + 1].args[2] = 2
      BY <1>1, <1>5, <3>1
    <3>3. ns[1].n = ns[K + 1].n /\ ns[2].kind = "opInput" /\ ns[2].n \in 1 .. MaxTaps
      BY <1>1, <1>3, <2>4, <3>1 DEF SoundNode, args
    <3>4. Plain(ns, 1)
      <4>1. {1} \in SUBSET DOMAIN ns /\ ns[1].kind # "opFIR" /\ DOMAIN ns[1].args = {}
        BY <1>1, <3>1
      <4> QED BY <4>1 DEF Plain
    <3> QED BY <2>1, <2>2, <2>4, <3>2, <3>3, <3>4 DEF SoundNode
  <2>5. CASE ns[K + 1].kind # "opFIR"
    BY <2>1, <2>2, <2>3, <2>5 DEF SoundNode
  <2> QED BY <2>4, <2>5
<1>10. \A j \in DOMAIN ns : j \in 1 .. K \/ j = K + 1
  BY <1>1
<1>11. WellMade(ns)
  BY <1>7, <1>8, <1>9, <1>10 DEF WellMade
<1>12. Solves(ns, w)
  <2>1. AnArray(w[K + 1], ns[K + 1].n)
    BY <1>1, <1>2 DEF Solves
  <2>2. ASSUME NEW i \in 0 .. ns[K + 1].n - 1 PROVE w[K + 1][i] = Result(ns, w, K + 1, i)
    <3>1. val[n][i] = Result(nodes, val, n, i)
      BY <1>1, <2>2 DEF Solves
    <3>2. ASSUME NEW j \in 1 .. K PROVE w[ns[K + 1].args[j]] = val[args[j]] /\ ns[ns[K + 1].args[j]].n = nodes[args[j]].n
      BY <1>1, <1>2, <1>5
    <3>3. Result(nodes, val, n, i) = Result(ns, w, K + 1, i)
      <4>1. CASE nodes[n].kind = "opScale"
        BY <1>1, <1>3, <3>2, <4>1 DEF Result, args
      <4>2. CASE nodes[n].kind = "opUnary"
        BY <1>1, <1>3, <3>2, <4>2 DEF Result, args
      <4>3. CASE nodes[n].kind = "opAdd"
        BY <1>1, <1>3, <3>2, <4>3 DEF Result, args
      <4>4. CASE nodes[n].kind = "opMul"
        BY <1>1, <1>3, <3>2, <4>4 DEF Result, args
      <4>5. CASE nodes[n].kind = "opHypot"
        BY <1>1, <1>3, <3>2, <4>5 DEF Result, args
      <4>6. CASE nodes[n].kind = "opFIR"
        <5>1. K = 2 /\ 1 \in 1 .. K /\ 2 \in 1 .. K
          BY <1>3, <4>6
        <5>2. /\ w[ns[K + 1].args[1]] = val[args[1]]
              /\ w[ns[K + 1].args[2]] = val[args[2]] /\ ns[ns[K + 1].args[2]].n = nodes[args[2]].n
          BY <3>2, <5>1
        <5>3. Result(nodes, val, n, i) = Sum(val[args[2]], nodes[args[2]].n, val[args[1]], i)
          BY <4>6 DEF Result, args
        <5>4. Result(ns, w, K + 1, i) = Sum(w[ns[K + 1].args[2]], ns[ns[K + 1].args[2]].n, w[ns[K + 1].args[1]], i)
          BY <1>1, <4>6 DEF Result
        <5> QED BY <5>2, <5>3, <5>4
      <4> QED BY <1>3, <4>1, <4>2, <4>3, <4>4, <4>5, <4>6
    <3> QED BY <1>2, <3>1, <3>3
  <2> QED BY <1>8, <1>10, <2>1, <2>2 DEF Solves
<1> QED BY <1>2, <1>9, <1>11, <1>12 DEF ns, w, K

AStep(o) == o = [mem |-> o.mem, err |-> o.err, cache |-> o.cache, owned |-> o.owned, launches |-> o.launches]

(* The records of MaterializeStepwise, field by field. *)
LEMMA CarryStepIs ==
  ASSUME NEW o, AStep(o), NEW u
  PROVE  /\ AStep(Carry(o, u)) /\ Carry(o, u).mem = u.mem /\ Carry(o, u).err = u.err
         /\ Carry(o, u).owned = o.owned /\ Carry(o, u).cache = o.cache /\ Carry(o, u).launches = o.launches
<1> DEFINE x == Carry(o, u)
<1>1. x = [o EXCEPT !.mem = u.mem, !.err = u.err]
  BY DEF Carry
<1> HIDE DEF x
<1>2. x = [mem |-> u.mem, err |-> u.err, cache |-> o.cache, owned |-> o.owned, launches |-> o.launches]
  BY <1>1 DEF AStep
<1>3. AStep(x) /\ x.mem = u.mem /\ x.err = u.err /\ x.owned = o.owned /\ x.cache = o.cache /\ x.launches = o.launches
  BY <1>2 DEF AStep
<1> QED BY <1>3 DEF x

(* The same, after a launch. *)
LEMMA AfterLaunchIs ==
  ASSUME NEW o, AStep(o), NEW m, NEW e
  PROVE  /\ AStep(AfterLaunch(o, m, e)) /\ AfterLaunch(o, m, e).mem = m /\ AfterLaunch(o, m, e).err = e
         /\ AfterLaunch(o, m, e).owned = o.owned /\ AfterLaunch(o, m, e).cache = o.cache
         /\ AfterLaunch(o, m, e).launches = o.launches + 1
<1> DEFINE x == AfterLaunch(o, m, e)
           l == o.launches + 1
<1>1. x = [o EXCEPT !.mem = m, !.err = e, !.launches = l]
  BY DEF AfterLaunch
<1> HIDE DEF x, l
<1>2. x = [mem |-> m, err |-> e, cache |-> o.cache, owned |-> o.owned, launches |-> l]
  BY <1>1 DEF AStep
<1>3. AStep(x) /\ x.mem = m /\ x.err = e /\ x.owned = o.owned /\ x.cache = o.cache /\ x.launches = l
  BY <1>2 DEF AStep
<1> QED BY <1>3 DEF x, l

(* The same, with a result that is kept. *)
LEMMA KeepIs ==
  ASSUME NEW o, AStep(o), NEW n, NEW s
  PROVE  /\ AStep(Keep(o, n, s)) /\ Keep(o, n, s).mem = o.mem /\ Keep(o, n, s).err = o.err
         /\ Keep(o, n, s).owned = Plus(o.owned, s) /\ Keep(o, n, s).cache = With(o.cache, n, s)
         /\ Keep(o, n, s).launches = o.launches
<1> DEFINE x == Keep(o, n, s)
           more == Append(o.owned, s)
           cache == With(o.cache, n, s)
<1>1. x = [o EXCEPT !.owned = more, !.cache = cache]
  BY DEF Keep
<1>2. Plus(o.owned, s) = more
  BY DEF Plus
<1> HIDE DEF x, more, cache
<1>3. x = [mem |-> o.mem, err |-> o.err, cache |-> cache, owned |-> more, launches |-> o.launches]
  BY <1>1 DEF AStep
<1>4. AStep(x) /\ x.mem = o.mem /\ x.err = o.err /\ x.owned = more /\ x.cache = cache /\ x.launches = o.launches
  BY <1>3 DEF AStep
<1> QED BY <1>2, <1>4 DEF x, cache

(* What has been computed: each buffer's content, and as many launches as there are operations. *)
Operations(S) == {n \in S : nodes[n].kind # "opInput"}
Stored(val, o, S) ==
  /\ DOMAIN o.cache = S
  /\ IsFiniteSet(S)
  /\ \A n \in S : o.cache[n] \in Members(o.owned) /\ Content(o.mem, o.cache[n]) = val[n]
  /\ o.launches = Cardinality(Operations(S))
Stepped(val, m, o, S) ==
  /\ AStep(o) /\ InOrder(m, o, {})
  /\ o.err = "" => Stored(val, o, S)

(* One more result is kept. *)
LEMMA StoredMore ==
  ASSUME NEW val, NEW o, NEW S, Stored(val, o, S), NEW n, n \notin S, NEW s,
         NEW x, x.cache = With(o.cache, n, s), ~x.mem.poisoned, Keeps(o.mem, x.mem, Members(o.owned)),
         Members(x.owned) = Members(o.owned) \union {s}, Content(x.mem, s) = val[n],
         nodes[n].kind = "opInput" => x.launches = o.launches,
         nodes[n].kind # "opInput" => x.launches = o.launches + 1
  PROVE  Stored(val, x, S \union {n})
<1>1. DOMAIN x.cache = S \union {n} /\ x.cache[n] = s /\ \A y \in S : x.cache[y] = o.cache[y]
  BY DEF With, Stored
<1>2. IsFiniteSet(S \union {n})
  BY FS_AddElement DEF Stored
<1>3. \A y \in S : x.cache[y] \in Members(x.owned) /\ Content(x.mem, x.cache[y]) = val[y]
  BY <1>1 DEF Stored, Keeps
<1>4. x.launches = Cardinality(Operations(S \union {n}))
  <2>1. IsFiniteSet(Operations(S))
    BY FS_Subset DEF Stored, Operations
  <2>2. o.launches = Cardinality(Operations(S)) /\ n \notin Operations(S)
    BY DEF Stored, Operations
  <2>3. CASE nodes[n].kind = "opInput"
    <3>1. Operations(S \union {n}) = Operations(S)
      BY <2>3 DEF Operations
    <3> QED BY <2>2, <2>3, <3>1
  <2>4. CASE nodes[n].kind # "opInput"
    <3>1. Operations(S \union {n}) = Operations(S) \union {n}
      BY <2>4 DEF Operations
    <3>2. Cardinality(Operations(S) \union {n}) = Cardinality(Operations(S)) + 1
      BY <2>1, <2>2, FS_AddElement
    <3> QED BY <2>2, <2>4, <3>1, <3>2
  <2> QED BY <2>3, <2>4
<1> QED BY <1>1, <1>2, <1>3, <1>4 DEF Stored

(* One more buffer taken by a call of ours, whose other buffers it has left alone. *)
LEMMA OrderAfterTaking ==
  ASSUME NEW m, NEW B, Good(m, B), NEW o, InOrder(m, o, B), NEW s \in Nat, s \notin Everything(o, B),
         NEW x, Good(x.mem, Everything(o, B) \union {s}), ~x.mem.poisoned, Keeps(o.mem, x.mem, Everything(o, B)),
         Ok(x), x.owned = Plus(o.owned, s)
  PROVE  Took(m, B, o, s, x)
<1> DEFINE C == Everything(o, B)
<1>2. Good(o.mem, C) /\ Keeps(m, o.mem, B) /\ Tidy(o.mem) /\ o.owned \in Seq(Nat) /\ Distinct(o.owned)
      /\ Members(o.owned) \intersect B = {} /\ Tidy(x.mem)
  BY DEF InOrder, Good
<1>4. /\ x.owned \in Seq(Nat) /\ Members(x.owned) = Members(o.owned) \union {s}
      /\ s \notin Members(o.owned) => Distinct(x.owned)
  <2> DEFINE more == Plus(o.owned, s)
  <2>1. more \in Seq(Nat) /\ Members(more) = Members(o.owned) \union {s}
        /\ (Distinct(o.owned) /\ s \notin Members(o.owned) => Distinct(more))
    BY <1>2, Appended DEF Plus
  <2>2. x.owned = more
    OBVIOUS
  <2> HIDE DEF more
  <2> QED BY <1>2, <2>1, <2>2
<1>5. s \notin Members(o.owned) /\ s \notin B
  BY DEF Everything
<1>6. Everything(x, B) = C \union {s}
  BY <1>4 DEF Everything
<1>7. B \subseteq C /\ B \subseteq B
  BY DEF Everything
<1>8. Keeps(m, x.mem, B)
  <2> HIDE DEF C
  <2>1. Keeps(o.mem, x.mem, C)
    BY DEF C
  <2> QED BY <2>1, <1>2, <1>7, KeepsOn
<1>9. Members(x.owned) \intersect B = {}
  BY <1>2, <1>4, <1>5
<1>10. InOrder(m, x, B)
  BY <1>2, <1>4, <1>5, <1>6, <1>8, <1>9 DEF InOrder, Ok
<1> QED BY <1>6, <1>10 DEF Took

(* The author's graph, with what its inputs hold and so what each of its nodes is worth. *)
Worth(val) ==
  /\ \A x \in DOMAIN nodes : ANode(nodes[x])
  /\ WellMade(nodes)
  /\ Solves(nodes, val)
  /\ \A x \in DOMAIN nodes : nodes[x].kind = "opInput" =>
       /\ nodes[x].dev = 0
       /\ nodes[x].host \in Seq(Int) /\ Len(nodes[x].host) = nodes[x].n /\ val[x] = Array(nodes[x].host)

(* A step on an input. *)
LEMMA StepOnInput ==
  ASSUME NEW val, Worth(val), NEW m, Good(m, {}), NEW o, NEW S, Stepped(val, m, o, S), Ok(o),
         NEW n, n \in DOMAIN nodes, nodes[n].kind = "opInput", n \notin S,
         NEW u \in Upload(o.mem, nodes[n].host),
         NEW x, x = IF u.err # "" THEN Carry(o, u) ELSE Keep(Carry(o, u), n, u.s)
  PROVE  Stepped(val, m, x, S \union {n})
<1> DEFINE C == Everything(o, {})
<1>1. AStep(o) /\ InOrder(m, o, {}) /\ Stored(val, o, S)
  BY DEF Stepped, Ok
<1>2. Good(o.mem, C) /\ C = Members(o.owned)
  BY <1>1 DEF InOrder, Everything
<1>3. nodes[n].host \in Seq(Int) /\ val[n] = Array(nodes[n].host)
  BY DEF Worth
<1>4. /\ u.err = "" => Added(o.mem, u.mem, C, u.s, Len(nodes[n].host)) /\ Content(u.mem, u.s) = Array(nodes[n].host)
      /\ u.err # "" => Broken(o.mem, u, C)
  BY <1>2, <1>3, UploadOutcomes
<1> HIDE DEF C
<1> DEFINE c == Carry(o, u)
<1>5. AStep(c) /\ c.mem = u.mem /\ c.err = u.err /\ c.owned = o.owned /\ c.cache = o.cache /\ c.launches = o.launches
  <2>1. AStep(o)
    BY <1>1
  <2> QED BY ONLY <2>1, CarryStepIs
<1> HIDE DEF c
<1>6. CASE u.err # ""
  <2>1. x = c
    BY <1>6 DEF c
  <2>2. InOrder(m, x, {}) /\ x.err # ""
    <3>1. x.mem = u.mem /\ x.err = u.err /\ x.owned = o.owned
      BY <1>5, <2>1
    <3> QED BY <1>1, <1>4, <1>6, <3>1, OrderAfterFailure DEF C
  <2> QED BY <1>5, <2>1, <2>2 DEF Stepped
<1>7. CASE u.err = ""
  <2> DEFINE s == u.s
  <2>1. x = Keep(c, n, s)
    BY <1>7 DEF c
  <2> HIDE DEF s
  <2>2. AStep(x) /\ x.mem = c.mem /\ x.err = c.err /\ x.owned = Plus(c.owned, s) /\ x.cache = With(c.cache, n, s)
        /\ x.launches = c.launches
    <3>1. AStep(c)
      BY <1>5
    <3> QED BY ONLY <2>1, <3>1, KeepIs
  <2>3. Added(o.mem, x.mem, C, s, Len(nodes[n].host)) /\ Content(x.mem, s) = val[n] /\ Ok(x) /\ x.owned = Plus(o.owned, s)
    BY <1>3, <1>4, <1>5, <1>7, <2>2 DEF s, Ok
  <2>4. InOrder(m, x, {}) /\ Members(x.owned) = Members(o.owned) \union {s}
    <3>1. Took(m, {}, o, s, x)
      BY <1>1, <2>3, OrderAfterMore DEF C
    <3> QED BY <1>2, <3>1 DEF Took, Everything
  <2>5. ~x.mem.poisoned /\ Keeps(o.mem, x.mem, Members(o.owned))
    BY <1>2, <2>3 DEF Added
  <2>6. Stored(val, x, S \union {n})
    <3>1. x.cache = With(o.cache, n, s) /\ x.launches = o.launches /\ Content(x.mem, s) = val[n]
      BY <1>5, <2>2, <2>3
    <3>2. Members(x.owned) = Members(o.owned) \union {s}
      BY <2>4
    <3> QED BY <1>1, <2>5, <3>1, <3>2, StoredMore
  <2> QED BY <2>2, <2>4, <2>6 DEF Stepped
<1> QED BY <1>6, <1>7

(* A sequence of one. *)
LEMMA AloneIs ==
  ASSUME NEW s \in Seq(Nat), Len(s) = 1
  PROVE  Members(s) = {s[1]} /\ s[1] \in Nat
<1>1. 1 .. Len(s) = {1} /\ 1 \in DOMAIN s
  OBVIOUS
<1>2. Members(s) = {s[i] : i \in {1}}
  BY ONLY <1>1 DEF Members
<1>3. {s[i] : i \in {1}} = {s[1]}
  OBVIOUS
<1>4. s[1] \in Nat
  BY ONLY <1>1, s \in Seq(Nat)
<1> QED BY <1>2, <1>3, <1>4

(* A step on an operation: run, and its cleanup where it failed. *)
LEMMA StepOnOperation ==
  ASSUME SizesAssumption,
         NEW val, Worth(val), NEW m, Good(m, {}), NEW o, NEW S, Stepped(val, m, o, S), Ok(o),
         NEW n, n \in DOMAIN nodes, nodes[n].kind # "opInput", n \notin S,
         \A i \in DOMAIN nodes[n].args : nodes[n].args[i] \in S,
         NEW r \in run(o.mem, single(o, n), Len(nodes[n].args) + 1), NEW y \in CleanupFailed(r),
         NEW x, x = IF r.err # "" THEN AfterLaunch(o, y, r.err) ELSE Keep(AfterLaunch(o, y, ""), n, r.args[1])
  PROVE  Stepped(val, m, x, S \union {n})
<1> DEFINE C == Everything(o, {})
           K == Len(nodes[n].args)
           ns == single(o, n)
           w == ValueOfSingle(val, n)
<1>1. AStep(o) /\ InOrder(m, o, {}) /\ Stored(val, o, S)
  BY DEF Stepped, Ok
<1>2. Good(o.mem, C) /\ C = Members(o.owned) /\ Tidy(o.mem) /\ C \subseteq DOMAIN o.mem.slices
  BY <1>1 DEF InOrder, Everything, Good
<1>3. C \subseteq Nat /\ 0 \notin C
  <2>1. o.mem.slices \in Seq(Buffer)
    BY <1>2 DEF Tidy
  <2> DEFINE all == o.mem.slices
  <2> HIDE DEF C, all
  <2>2. C \subseteq DOMAIN all /\ all \in Seq(Buffer)
    BY <1>2, <2>1 DEF all
  <2>3. DOMAIN all = 1 .. Len(all) /\ Len(all) \in Nat
    BY ONLY <2>2
  <2>4. DOMAIN all \subseteq Nat /\ 0 \notin DOMAIN all
    BY ONLY <2>3
  <2> QED BY <2>2, <2>4
<1>4. WellMade(ns) /\ Solves(ns, w) /\ K + 1 \in DOMAIN ns /\ w[K + 1] = val[n]
  BY SingleRight DEF Worth
<1>5. /\ K \in 0 .. 2 /\ DOMAIN ns = 1 .. K + 1
      /\ \A j \in 1 .. K : ns[j].kind = "opInput" /\ ns[j].dev = o.cache[nodes[n].args[j]]
      /\ ns[K + 1].kind = nodes[n].kind
  <2>1. (\A x1 \in DOMAIN nodes : ANode(nodes[x1])) /\ WellMade(nodes) /\ n \in DOMAIN nodes
    BY DEF Worth
  <2>2. /\ Len(nodes[n].args) \in 0 .. 2
        /\ DOMAIN single(o, n) = 1 .. Len(nodes[n].args) + 1
        /\ \A j \in 1 .. Len(nodes[n].args) :
             /\ single(o, n)[j].kind = "opInput" /\ single(o, n)[j].args = <<>>
             /\ single(o, n)[j].dev = o.cache[nodes[n].args[j]]
             /\ single(o, n)[j].n = nodes[nodes[n].args[j]].n
        /\ single(o, n)[Len(nodes[n].args) + 1].kind = nodes[n].kind
        /\ single(o, n)[Len(nodes[n].args) + 1].args = [i \in 1 .. Len(nodes[n].args) |-> i]
        /\ single(o, n)[Len(nodes[n].args) + 1].n = nodes[n].n
        /\ single(o, n)[Len(nodes[n].args) + 1].scale = nodes[n].scale
        /\ single(o, n)[Len(nodes[n].args) + 1].cfn = nodes[n].cfn
    BY ONLY <2>1, SingleIs
  <2> QED BY ONLY <2>2
<1>6. \A j \in 1 .. K : /\ ns[j].dev \in C /\ ns[j].dev # 0 /\ ns[j].dev \in Nat
                        /\ Content(o.mem, ns[j].dev) = w[j]
  <2> SUFFICES ASSUME NEW j \in 1 .. K
               PROVE  ns[j].dev \in C /\ ns[j].dev # 0 /\ ns[j].dev \in Nat /\ Content(o.mem, ns[j].dev) = w[j]
    OBVIOUS
  <2>1. DOMAIN nodes[n].args = 1 .. K
    BY Arities DEF Worth, WellMade
  <2>2. nodes[n].args[j] \in S
    BY <2>1
  <2>3. w[j] = val[nodes[n].args[j]]
    <3>1. j \in 1 .. K + 1 /\ j <= K
      <4> HIDE DEF K
      <4>1. K \in 0 .. 2
        BY <1>5
      <4> QED BY ONLY <4>1, j \in 1 .. K
    <3> HIDE DEF K
    <3> QED BY <3>1 DEF ValueOfSingle, K
  <2> DEFINE a == nodes[n].args[j]
  <2> HIDE DEF C, ns, w, K, a
  <2>4. a \in S /\ w[j] = val[a] /\ ns[j].dev = o.cache[a]
    BY <1>5, <2>2, <2>3 DEF a
  <2>5. o.cache[a] \in C /\ Content(o.mem, o.cache[a]) = val[a]
    BY <1>1, <1>2, <2>4 DEF Stored
  <2>6. o.cache[a] \in Nat /\ o.cache[a] # 0
    BY <1>3, <2>5
  <2> QED BY <2>4, <2>5, <2>6
<1> HIDE DEF C, ns, w, K
<1>7. \A j \in DOMAIN ns : ns[j].kind = "opInput" => j \in 1 .. K
  <2>1. K \in 0 .. 2 /\ DOMAIN ns = 1 .. K + 1
    BY <1>5
  <2>2. \A j \in DOMAIN ns : j \in 1 .. K \/ j = K + 1
    BY ONLY <2>1
  <2>3. ns[K + 1].kind # "opInput"
    BY <1>5
  <2> QED BY <2>2, <2>3
<1>8. Supplied(ns, w, o.mem, C) /\ OnDevice(ns)
  BY <1>6, <1>7 DEF Supplied, OnDevice
<1>9. Finished(ns, w, o.mem, C, r, K + 1)
  <2>1. r \in run(o.mem, ns, K + 1)
    BY DEF ns, K
  <2> QED BY <1>2, <1>4, <1>8, <2>1, RunOutcomes
<1>10. /\ InOrder(o.mem, r, C) /\ r.owned \in Seq(Nat) /\ Distinct(r.owned) /\ Members(r.owned) \intersect C = {}
       /\ Good(r.mem, C \union Members(r.owned)) /\ Keeps(o.mem, r.mem, C)
       /\ r.err # "" => r.err \in Errors
       /\ r.err = "" => ~r.mem.poisoned
  BY <1>9 DEF Finished, InOrder, Everything
<1>11. CASE r.err # ""
  <2>1. y \in FreeAll(r.mem, r.owned)
    BY <1>11 DEF CleanupFailed
  <2> DEFINE D == C \union Members(r.owned)
  <2>2. Good(y, C) /\ Keeps(r.mem, y, C)
    <3>1. D \ Members(r.owned) = C
      BY <1>10
    <3>2. r.owned \in Seq(D)
      <4>1. r.owned \in Seq(Nat)
        BY <1>10
      <4> QED BY ONLY <4>1 DEF D, Members
    <3>3. Good(r.mem, D)
      BY <1>10
    <3> HIDE DEF D
    <3>4. Good(y, D \ Members(r.owned)) /\ Keeps(r.mem, y, D \ Members(r.owned))
      BY <1>10, <2>1, <3>2, <3>3, FreeAllOutcomes
    <3> QED BY <3>1, <3>4
  <2>3. Keeps(o.mem, y, C)
    <3>1. Tidy(r.mem) /\ Tidy(y) /\ C \subseteq C
      BY <1>10, <2>2 DEF Good
    <3> QED BY <1>2, <1>10, <2>2, <3>1, KeepsOn
  <2>4. x = AfterLaunch(o, y, r.err)
    BY <1>11
  <2>5. AStep(x) /\ x.mem = y /\ x.err = r.err /\ x.owned = o.owned
    <3>1. AStep(o)
      BY <1>1
    <3> QED BY ONLY <2>4, <3>1, AfterLaunchIs
  <2>6. Broken(o.mem, x, C)
    BY <1>10, <1>11, <2>2, <2>3, <2>5 DEF Broken
  <2>7. InOrder(m, x, {}) /\ x.err # ""
    <3>1. Broken(o.mem, x, Everything(o, {}))
      BY <2>6 DEF C
    <3> QED BY <1>1, <2>5, <3>1, OrderAfterFailure
  <2> QED BY <2>5, <2>7 DEF Stepped
<1>12. CASE r.err = ""
  <2>1. /\ Len(r.owned) = 1 /\ r.args[1] = r.owned[1] /\ Content(r.mem, r.args[1]) = val[n]
    BY <1>4, <1>8, <1>9, <1>12 DEF Finished
  <2>2. y = r.mem
    BY <1>12 DEF CleanupFailed
  <2> DEFINE s == r.args[1]
             l == AfterLaunch(o, y, "")
  <2>3. Members(r.owned) = {s} /\ s \in Nat
    BY <1>10, <2>1, AloneIs
  <2>4. x = Keep(l, n, s)
    BY <1>12
  <2> HIDE DEF s, l
  <2>5. AStep(l) /\ l.mem = r.mem /\ l.err = "" /\ l.owned = o.owned /\ l.cache = o.cache /\ l.launches = o.launches + 1
    <3>1. AStep(o)
      BY <1>1
    <3> DEFINE e == ""
    <3> HIDE DEF e
    <3>2. /\ AStep(AfterLaunch(o, y, e)) /\ AfterLaunch(o, y, e).mem = y /\ AfterLaunch(o, y, e).err = e
          /\ AfterLaunch(o, y, e).owned = o.owned /\ AfterLaunch(o, y, e).cache = o.cache
          /\ AfterLaunch(o, y, e).launches = o.launches + 1
      BY ONLY <3>1, AfterLaunchIs
    <3> QED BY ONLY <2>2, <3>2 DEF l, e
  <2>6. AStep(x) /\ x.mem = l.mem /\ x.err = l.err /\ x.owned = Plus(l.owned, s) /\ x.cache = With(l.cache, n, s)
        /\ x.launches = l.launches
    <3>1. AStep(l)
      BY <2>5
    <3> QED BY ONLY <2>4, <3>1, KeepIs
  <2>7. s \notin C /\ Good(x.mem, C \union {s}) /\ ~x.mem.poisoned /\ Keeps(o.mem, x.mem, C) /\ Ok(x)
        /\ x.owned = Plus(o.owned, s)
    BY <1>10, <1>12, <2>3, <2>5, <2>6 DEF Ok
  <2>8. InOrder(m, x, {}) /\ Members(x.owned) = Members(o.owned) \union {s}
    <3>1. /\ s \notin Everything(o, {}) /\ Good(x.mem, Everything(o, {}) \union {s}) /\ ~x.mem.poisoned
          /\ Keeps(o.mem, x.mem, Everything(o, {})) /\ Ok(x) /\ x.owned = Plus(o.owned, s)
      BY <2>7 DEF C
    <3>2. InOrder(m, o, {}) /\ s \in Nat /\ Good(m, {})
      BY <1>1, <2>3
    <3>3. Took(m, {}, o, s, x)
      BY ONLY <3>1, <3>2, OrderAfterTaking
    <3> QED BY <1>2, <3>3 DEF Took, Everything
  <2>9. Content(x.mem, s) = val[n]
    BY <2>1, <2>5, <2>6 DEF s
  <2>10. x.cache = With(o.cache, n, s) /\ x.launches = o.launches + 1
    BY <2>5, <2>6
  <2>11. Stored(val, x, S \union {n})
    BY <1>1, <1>2, <2>7, <2>8, <2>9, <2>10, StoredMore
  <2> QED BY <2>6, <2>8, <2>11 DEF Stepped
<1> QED BY <1>11, <1>12

(* A step, on a node whose arguments have been visited. *)
LEMMA StepOutcomes ==
  ASSUME SizesAssumption,
         NEW val, Worth(val), NEW m, Good(m, {}), NEW o, NEW S, Stepped(val, m, o, S), Ok(o),
         NEW n, n \in DOMAIN nodes, \A i \in DOMAIN nodes[n].args : nodes[n].args[i] \in S,
         NEW x \in step(o, n)
  PROVE  Stepped(val, m, x, S \union {n})
<1>1. DOMAIN o.cache = S
  BY DEF Stepped, Stored, Ok
<1>2. CASE n \in S
  <2>1. x = o
    BY <1>1, <1>2 DEF step, Cached
  <2>2. S \union {n} = S
    BY <1>2
  <2> QED BY <2>1, <2>2
<1>3. CASE n \notin S /\ nodes[n].kind = "opInput"
  <2>1. PICK u \in Upload(o.mem, nodes[n].host) : x = IF u.err # "" THEN Carry(o, u) ELSE Keep(Carry(o, u), n, u.s)
    BY <1>1, <1>3 DEF step, Cached
  <2> QED BY <1>3, <2>1, StepOnInput
<1>4. CASE n \notin S /\ nodes[n].kind # "opInput"
  <2>1. PICK r \in run(o.mem, single(o, n), Len(nodes[n].args) + 1) : \E y \in CleanupFailed(r) :
          x = IF r.err # "" THEN AfterLaunch(o, y, r.err) ELSE Keep(AfterLaunch(o, y, ""), n, r.args[1])
    BY <1>1, <1>4 DEF step, Cached
  <2>2. PICK y \in CleanupFailed(r) :
          x = IF r.err # "" THEN AfterLaunch(o, y, r.err) ELSE Keep(AfterLaunch(o, y, ""), n, r.args[1])
    BY <2>1
  <2> QED BY <1>4, <2>1, <2>2, StepOnOperation
<1> QED BY <1>2, <1>3, <1>4

AtStart(m, o) == o = [mem |-> m, err |-> "", cache |-> <<>>, owned |-> <<>>, launches |-> 0]

(* Nothing is in the empty sequence. *)
LEMMA NoMembers == Members(<<>>) = {} /\ <<>> \in Seq(Nat) /\ Distinct(<<>>)
BY DEF Members, Distinct

(* A call that has taken nothing yet. *)
LEMMA NothingTaken ==
  ASSUME NEW m, Good(m, {}), NEW o, o.owned = <<>>, Good(o.mem, {}), Keeps(m, o.mem, {}),
         o.err = "" => ~o.mem.poisoned, o.err # "" => o.err \in Errors
  PROVE  InOrder(m, o, {})
<1>1. Members(<<>>) = {} /\ <<>> \in Seq(Nat) /\ Distinct(<<>>)
  BY NoMembers
<1>2. Everything(o, {}) = {}
  BY <1>1 DEF Everything
<1> QED BY <1>1, <1>2 DEF InOrder

(* The first step is on an input. *)
LEMMA FirstStep ==
  ASSUME SizesAssumption,
         NEW val, Worth(val), NEW m, Good(m, {}), NEW o, AtStart(m, o),
         NEW n, n \in DOMAIN nodes, DOMAIN nodes[n].args = {}, NEW x \in step(o, n)
  PROVE  Stepped(val, m, x, {n})
<1>1. o.mem = m /\ o.err = "" /\ o.cache = <<>> /\ o.owned = <<>> /\ o.launches = 0 /\ AStep(o)
  BY DEF AtStart, AStep
<1>2. DOMAIN <<>> = {}
  OBVIOUS
<1>3. CASE ~m.poisoned
  <2>1. Keeps(m, m, {})
    BY GoodSame
  <2>2. InOrder(m, o, {})
    BY <1>1, <1>3, <2>1, NothingTaken
  <2>3. Stored(val, o, {})
    <3>1. Operations({}) = {}
      BY DEF Operations
    <3>2. Cardinality({}) = 0 /\ IsFiniteSet({})
      BY FS_EmptySet
    <3> QED BY <1>1, <1>2, <3>1, <3>2 DEF Stored
  <2>4. Stepped(val, m, o, {}) /\ Ok(o)
    BY <1>1, <2>2, <2>3 DEF Stepped, Ok
  <2>5. Stepped(val, m, x, {} \union {n})
    BY <2>4, StepOutcomes
  <2>6. {} \union {n} = {n}
    OBVIOUS
  <2> QED BY <2>5, <2>6
<1>4. CASE m.poisoned
  <2>1. nodes[n].kind = "opInput"
    <3>1. Shaped(nodes)
      BY DEF Worth, WellMade
    <3>2. nodes[n].kind # "opInput" => 1 \in DOMAIN nodes[n].args
      BY ONLY <3>1, n \in DOMAIN nodes, Arities
    <3> QED BY <3>2
  <2>2. PICK u \in Upload(m, nodes[n].host) : x = IF u.err # "" THEN Carry(o, u) ELSE Keep(Carry(o, u), n, u.s)
    BY <1>1, <1>2, <2>1 DEF step, Cached
  <2>3. nodes[n].host \in Seq(Int)
    BY <2>1 DEF Worth
  <2> DEFINE none == {}
             xs == nodes[n].host
  <2>4. Good(m, none)
    OBVIOUS
  <2> HIDE DEF none
  <2>5. /\ u.err = "" => Added(m, u.mem, none, u.s, Len(xs))
        /\ u.err # "" => Broken(m, u, none)
    BY ONLY <2>2, <2>3, <2>4, UploadOutcomes
  <2>6. u.err # "" /\ Broken(m, u, none)
    BY <1>4, <2>5 DEF Added, Keeps
  <2>7. AStep(x) /\ x.mem = u.mem /\ x.err = u.err /\ x.owned = <<>>
    <3>1. AStep(Carry(o, u)) /\ Carry(o, u).mem = u.mem /\ Carry(o, u).err = u.err /\ Carry(o, u).owned = o.owned
      BY <1>1, CarryStepIs
    <3> QED BY <1>1, <2>2, <2>6, <3>1
  <2>8. InOrder(m, x, {})
    BY <2>6, <2>7, NothingTaken DEF Broken, none
  <2> QED BY <2>6, <2>7, <2>8 DEF Stepped
<1> QED BY <1>3, <1>4

(* All the steps: every node visited has its result, computed once, or one of them failed. *)
LEMMA StepsOutcomes ==
  ASSUME SizesAssumption,
         NEW val, Worth(val), NEW m, Good(m, {}), NEW first, AtStart(m, first), NEW start, start = {first},
         NEW xs \in Seq(DOMAIN nodes), Ready(nodes, xs), Len(xs) # 0, NEW x \in ThenEach(start, xs, step)
  PROVE  Stepped(val, m, x, Members(xs))
<1>1. PICK f : /\ f[0] = start
               /\ \A k \in 1 .. Len(xs) : f[k] = AfterStep(f[k - 1], xs[k])
               /\ ThenEach(start, xs, step) = f[Len(xs)]
  BY StepsLoop
<1> DEFINE N == Len(xs)
           So(k) == {xs[j] : j \in 1 .. k}
           Right(o, k) == (k = 0 /\ AtStart(m, o)) \/ Stepped(val, m, o, So(k))
           T0 == {k \in Nat : k <= N => \A o \in f[k] : Right(o, k)}
<1>2. N \in Nat /\ \A k \in 1 .. N : xs[k] \in DOMAIN nodes
  OBVIOUS
<1>3. 0 \in T0
  <2>1. \A o \in start : AtStart(m, o)
    OBVIOUS
  <2> HIDE DEF AtStart
  <2> QED BY <1>1, <2>1
<1>4. ASSUME NEW k \in Nat, k \in T0 PROVE k + 1 \in T0
  <2> SUFFICES ASSUME k + 1 <= N, NEW z \in f[k + 1] PROVE Right(z, k + 1)
    OBVIOUS
  <2> DEFINE n == xs[k + 1]
  <2>1. k + 1 \in 1 .. N /\ k + 1 - 1 = k /\ k <= N
    BY <1>2
  <2>2. f[k + 1] = AfterStep(f[k], n)
    BY <1>1, <2>1
  <2>3. PICK o \in f[k] : z \in IF o.err = "" THEN step(o, n) ELSE {o}
    BY <2>2 DEF AfterStep, Then
  <2>4. Right(o, k)
    <3> HIDE DEF Right
    <3> QED BY <1>4, <2>1, <2>3
  <2>5. So(k + 1) = So(k) \union {n}
    <3>1. 1 .. k + 1 = (1 .. k) \union {k + 1}
      OBVIOUS
    <3> QED BY <3>1
  <2>6. n \in DOMAIN nodes /\ \A i \in DOMAIN nodes[n].args : nodes[n].args[i] \in So(k)
    <3>1. \A i \in DOMAIN nodes[n].args : \E j \in 1 .. k : xs[j] = nodes[n].args[i]
      BY <2>1 DEF Ready
    <3> QED BY <1>2, <2>1, <3>1
  <2> HIDE DEF So, n
  <2>7. CASE Stepped(val, m, o, So(k)) /\ o.err # ""
    <3>1. z = o
      BY <2>3, <2>7
    <3> QED BY <2>7, <3>1 DEF Stepped
  <2>8. CASE Stepped(val, m, o, So(k)) /\ o.err = ""
    <3>1. z \in step(o, n) /\ Ok(o)
      BY <2>3, <2>8 DEF Ok
    <3>2. Stepped(val, m, z, So(k) \union {n})
      BY <2>6, <2>8, <3>1, StepOutcomes
    <3> QED BY <2>5, <3>2
  <2>9. CASE k = 0 /\ AtStart(m, o)
    <3>1. So(k) = {}
      BY <2>9 DEF So
    <3>2. o.err = ""
      BY <2>9 DEF AtStart
    <3>3. z \in step(o, n)
      BY <2>3, <3>2
    <3>4. DOMAIN nodes[n].args = {}
      BY <2>6, <3>1
    <3>5. Stepped(val, m, z, {n})
      BY <2>6, <2>9, <3>3, <3>4, FirstStep
    <3>6. So(k + 1) = {n}
      BY <2>5, <3>1
    <3> QED BY <3>5, <3>6
  <2> QED BY <2>4, <2>7, <2>8, <2>9
<1>5. N \in T0
  <2> HIDE DEF T0
  <2> QED BY <1>2, <1>3, <1>4, Induction
<1>6. Right(x, N)
  BY <1>1, <1>2, <1>5
<1> QED BY <1>6 DEF Members

-----------------------------------------------------------------------------
(* What a call returns.                                                    *)

(* Between the author's calls: no Slice is within reach, and no buffer is live unless the context is poisoned. *)
AtHome(m) == Tidy(m) /\ m.slices = <<>> /\ (m.poisoned \/ m.live = <<>>)

(* A call begins with nothing that it owns. *)
LEMMA HomeIsGood ==
  ASSUME NEW m, AtHome(m)
  PROVE  Good(m, {})
<1>1. Tidy(m)
  BY DEF AtHome
<1>2. ASSUME ~m.poisoned PROVE Apart(m.live) /\ Owns(m, {})
  <2>1. m.live = <<>>
    BY <1>2 DEF AtHome
  <2>2. DOMAIN <<>> = {} /\ <<>> = [b \in {} |-> <<>>[b]]
    OBVIOUS
  <2>3. Apart(<<>>)
    BY <2>2 DEF Apart
  <2> QED BY <2>1, <2>2, <2>3 DEF Owns
<1> QED BY <1>1, <1>2 DEF Good

(* A call that owns nothing any more is over. *)
LEMMA ForgottenIsHome ==
  ASSUME NEW m, Good(m, {})
  PROVE  AtHome(Forgotten(m))
<1> DEFINE x == Forgotten(m)
<1>1. x = [m EXCEPT !.slices = <<>>]
  BY DEF Forgotten
<1>2. Tidy(m)
  BY DEF Good
<1> HIDE DEF x
<1>3. x = [live |-> m.live, poisoned |-> m.poisoned, astray |-> m.astray, slices |-> <<>>]
  BY <1>1, <1>2 DEF Tidy
<1>4. x.live = m.live /\ x.poisoned = m.poisoned /\ x.astray = m.astray /\ x.slices = <<>>
  BY <1>3
<1>5. Tidy(x)
  <2>1. <<>> \in Seq(Buffer)
    OBVIOUS
  <2>2. x = [live |-> x.live, poisoned |-> x.poisoned, astray |-> x.astray, slices |-> x.slices]
    BY <1>3
  <2> QED BY <1>2, <1>4, <2>1, <2>2 DEF Tidy
<1>6. ASSUME ~m.poisoned PROVE m.live = <<>>
  <2>1. DOMAIN m.live = {} /\ m.live = [b \in DOMAIN m.live |-> m.live[b]]
    BY <1>6 DEF Good, Owns, Apart
  <2> QED BY <2>1, NoArguments
<1>7. AtHome(x)
  BY <1>4, <1>5, <1>6 DEF AtHome
<1> QED BY <1>7 DEF x

(* What a call owns, for it to free. *)
Freeable(o, owned) == owned \in Seq(Nat) /\ Distinct(owned) /\ Good(o.mem, Members(owned))

(* The end of a call: all it owned is freed. *)
LEMMA OverOutcomes ==
  ASSUME NEW o, NEW owned, Freeable(o, owned), NEW launches, NEW vals, NEW a \in Over(o, owned, launches, vals)
  PROVE  AtHome(a.mem) /\ a.answer.err = o.err /\ a.answer.vals = vals /\ a.answer.launches = launches
<1>1. PICK m \in FreeAll(o.mem, owned) :
        a = [mem |-> Forgotten(m), answer |-> [err |-> o.err, vals |-> vals, launches |-> launches]]
  BY DEF Over
<1>2. a.mem = Forgotten(m) /\ a.answer.err = o.err /\ a.answer.vals = vals /\ a.answer.launches = launches
  BY <1>1
<1> DEFINE D == Members(owned)
           y == o.mem
<1>3. owned \in Seq(D) /\ Distinct(owned) /\ Good(y, D) /\ m \in FreeAll(y, owned)
  <2>1. owned \in Seq(Nat)
    BY DEF Freeable
  <2>2. owned \in Seq(D)
    BY ONLY <2>1 DEF Members
  <2> QED BY <1>1, <2>2 DEF Freeable
<1>4. D \ Members(owned) = {}
  OBVIOUS
<1> HIDE DEF D, y
<1>5. Good(m, D \ Members(owned))
  BY ONLY <1>3, FreeAllOutcomes
<1>6. Good(m, {})
  BY <1>4, <1>5
<1>7. AtHome(Forgotten(m))
  BY <1>6, ForgottenIsHome
<1> QED BY <1>2, <1>7

Returned(a, w) ==
  /\ AtHome(a.mem)
  /\ a.answer.err = "" => a.answer.vals = Listed(w)
  /\ a.answer.err # "" => a.answer.err \in Errors

(* The Slice a call is to return the contents of; and what it returned. *)
Fetchable(o, s, w) == o.err = "" => s \in Members(o.owned) /\ Content(o.mem, s) = w
Brought(a, o, w, launches) == Returned(a, w) /\ a.answer.launches = launches /\ (a.answer.err = "" => o.err = "")

(* The end of a call that is to return the contents of a Slice. *)
LEMMA DownloadedOutcomes ==
  ASSUME NEW m, NEW o, InOrder(m, o, {}), NEW s, NEW w, Fetchable(o, s, w),
         NEW launches, NEW a \in Downloaded(o, s, o.owned, launches)
  PROVE  Brought(a, o, w, launches)
<1> DEFINE C == Members(o.owned)
<1>1. /\ Good(o.mem, C) /\ o.owned \in Seq(Nat) /\ Distinct(o.owned)
      /\ o.err # "" => o.err \in Errors
      /\ o.err = "" => ~o.mem.poisoned
  BY DEF InOrder, Everything
<1>2. CASE o.err # ""
  <2>1. a \in Over(o, o.owned, launches, <<>>)
    BY <1>2 DEF Downloaded
  <2>2. Freeable(o, o.owned)
    BY <1>1 DEF Freeable
  <2>3. AtHome(a.mem) /\ a.answer.err = o.err /\ a.answer.launches = launches
    BY ONLY <2>1, <2>2, OverOutcomes
  <2> QED BY <1>1, <1>2, <2>3 DEF Returned, Brought
<1>3. CASE o.err = ""
  <2>1. PICK d \in Download(o.mem, s) : a \in Over(d, o.owned, launches, IF d.err = "" THEN d.vals ELSE <<>>)
    BY <1>3 DEF Downloaded
  <2>2. /\ d.err = "" => d.mem = o.mem /\ d.vals = Listed(Content(o.mem, s))
        /\ d.err # "" => Broken(o.mem, d, C)
    BY <1>1, <1>3, <2>1, DownloadOutcomes DEF Fetchable
  <2> DEFINE vals == IF d.err = "" THEN d.vals ELSE <<>>
  <2>3. Freeable(d, o.owned)
    BY <1>1, <2>2 DEF Freeable, Broken
  <2>4. AtHome(a.mem) /\ a.answer.err = d.err /\ a.answer.vals = vals /\ a.answer.launches = launches
    <3> HIDE DEF vals
    <3>1. a \in Over(d, o.owned, launches, vals)
      BY <2>1 DEF vals
    <3> QED BY ONLY <2>3, <3>1, OverOutcomes
  <2>5. s \in C /\ Content(o.mem, s) = w
    BY <1>3 DEF Fetchable
  <2> QED BY <1>3, <2>2, <2>4, <2>5 DEF Returned, Broken, Brought
<1> QED BY <1>2, <1>3

(* Materialize. *)
LEMMA MaterializedOutcomes ==
  ASSUME SizesAssumption, NEW val, Worth(val), NEW m, AtHome(m), NEW root, root \in DOMAIN nodes, NEW a \in Materialized(m, root)
  PROVE  Returned(a, val[root])
<1>1. Good(m, {}) /\ WellMade(nodes) /\ Solves(nodes, val)
  BY HomeIsGood DEF Worth
<1>2. Supplied(nodes, val, m, {})
  BY DEF Worth, Supplied
<1>3. PICK o \in run(m, nodes, root) : a \in Downloaded(o, IF o.args = <<>> THEN 0 ELSE o.args[1], o.owned, 1)
  BY DEF Materialized
<1>4. Finished(nodes, val, m, {}, o, root)
  <2> DEFINE none == {}
  <2>1. Good(m, none) /\ Supplied(nodes, val, m, none)
    BY <1>1, <1>2
  <2> HIDE DEF none
  <2>2. Finished(nodes, val, m, none, o, root)
    BY <1>1, <1>3, <2>1, RunOutcomes
  <2> QED BY <2>2 DEF none
<1> DEFINE s == IF o.args = <<>> THEN 0 ELSE o.args[1]
<1>5. InOrder(m, o, {}) /\ o.owned \in Seq(Nat)
  BY <1>4 DEF Finished, InOrder
<1>6. ASSUME o.err = "" PROVE s \in Members(o.owned) /\ Content(o.mem, s) = val[root]
  <2>1. Len(o.owned) # 0 /\ s = o.owned[1] /\ Content(o.mem, s) = val[root]
    BY <1>4, <1>6 DEF Finished
  <2> HIDE DEF s
  <2>2. Len(o.owned) \in Nat
    <3>1. o.owned \in Seq(Nat)
      BY <1>5
    <3> QED BY ONLY <3>1
  <2> QED BY <2>1, <2>2 DEF Members
<1>7. a \in Downloaded(o, s, o.owned, 1)
  BY <1>3
<1> HIDE DEF s
<1>8. Fetchable(o, s, val[root])
  BY <1>6 DEF Fetchable
<1>9. InOrder(m, o, {})
  BY <1>5
<1>10. Brought(a, o, val[root], 1)
  BY ONLY <1>7, <1>8, <1>9, DownloadedOutcomes
<1> QED BY <1>10 DEF Brought

(* MaterializeStepwise. *)
LEMMA StepwiseOutcomes ==
  ASSUME SizesAssumption, NEW val, Worth(val), NEW m, AtHome(m), NEW root, root \in DOMAIN nodes, NEW a \in Stepwise(m, root)
  PROVE  /\ Returned(a, val[root])
         /\ a.answer.err = "" => a.answer.launches = Cardinality(Operations(Range(visits(nodes, root))))
<1> DEFINE first == [mem |-> m, err |-> "", cache |-> <<>>, owned |-> <<>>, launches |-> 0]
           xs == visits(nodes, root)
           S == Members(xs)
<1>1. Good(m, {})
  BY HomeIsGood
<1>2. xs \in Seq(DOMAIN nodes) /\ Ready(nodes, xs) /\ root \in S
  BY VisitsInOrder DEF Worth, WellMade
<1>3. Range(xs) = S
  BY <1>2, MembersToSet
<1>4. PICK o \in ThenEach({first}, xs, step) :
        a \in Downloaded(o, IF root \in DOMAIN o.cache THEN o.cache[root] ELSE 0, o.owned, o.launches)
  BY DEF Stepwise
<1>5. AtStart(m, first)
  BY DEF AtStart
<1> HIDE DEF first, xs
<1>6. Len(xs) # 0
  BY <1>2 DEF Members
<1>7. Stepped(val, m, o, S)
  <2> DEFINE start == {first}
  <2>1. start = {first} /\ o \in ThenEach(start, xs, step)
    BY <1>4
  <2> HIDE DEF start
  <2> QED BY <1>1, <1>2, <1>5, <1>6, <2>1, StepsOutcomes
<1> DEFINE s == IF root \in DOMAIN o.cache THEN o.cache[root] ELSE 0
<1>8. InOrder(m, o, {})
  BY <1>7 DEF Stepped
<1>9. ASSUME o.err = "" PROVE s \in Members(o.owned) /\ Content(o.mem, s) = val[root] /\ o.launches = Cardinality(Operations(S))
  BY <1>2, <1>7, <1>9 DEF Stepped, Stored
<1>10. a \in Downloaded(o, s, o.owned, o.launches)
  BY <1>4
<1> HIDE DEF s
<1>11. Fetchable(o, s, val[root])
  BY <1>9 DEF Fetchable
<1>12. Brought(a, o, val[root], o.launches)
  BY ONLY <1>8, <1>10, <1>11, DownloadedOutcomes
<1> QED BY <1>3, <1>9, <1>12 DEF xs, Brought

-----------------------------------------------------------------------------
(* The author.                                                             *)

(* A graph, with what each of its nodes is worth. *)
Vertex == [kind : DOMAIN Arity, n : Nat, args : Seq(Nat), host : Seq(Int), dev : {0}, scale : Int,
           cfn : DOMAIN Apply1 \union {""}]
AnInput(x, w) == x.kind = "opInput" => Len(x.host) = x.n /\ w = Array(x.host)
Valued(ns, val) == WellMade(ns) /\ Solves(ns, val) /\ \A n \in DOMAIN ns : AnInput(ns[n], val[n])

(* ns with one node more. *)
Longer(ns, ms, N, x) == DOMAIN ns = 1 .. N /\ DOMAIN ms = 1 .. N + 1 /\ (\A k \in 1 .. N : ms[k] = ns[k]) /\ ms[N + 1] = x
Fitting(ns, N, x) ==
  /\ x \in Vertex
  /\ x.args \in Seq(1 .. N) /\ Len(x.args) = Arity[x.kind]
  /\ x.kind # "opFIR" => \A i \in DOMAIN x.args : ns[x.args[i]].n = x.n
  /\ x.kind = "opFIR" =>
       /\ ns[x.args[1]].n = x.n
       /\ Plain(ns, x.args[1])
       /\ ns[x.args[2]].kind = "opInput"
       /\ ns[x.args[2]].n \in 1 .. MaxTaps

(* A longer graph has no filter where there was none. *)
LEMMA PlainStays ==
  ASSUME NEW ns, NEW ms, NEW N \in Nat, NEW x, Longer(ns, ms, N, x), Shaped(ns), NEW y, Plain(ns, y)
  PROVE  Plain(ms, y)
<1>1. PICK S \in SUBSET DOMAIN ns :
         y \in S /\ \A s \in S : ns[s].kind # "opFIR" /\ \A i \in DOMAIN ns[s].args : ns[s].args[i] \in S
  BY DEF Plain
<1>2. S \in SUBSET DOMAIN ms /\ \A s \in S : ms[s] = ns[s]
  <2>1. \A s \in S : s \in 1 .. N /\ s \in 1 .. N + 1
    BY DEF Longer
  <2> QED BY <2>1 DEF Longer
<1> QED BY <1>1, <1>2 DEF Plain

(* A node more: the shape. *)
LEMMA OneMoreShaped ==
  ASSUME NEW ns, NEW ms, NEW N \in Nat, NEW x, Longer(ns, ms, N, x), Shaped(ns), Fitting(ns, N, x)
  PROVE  Shaped(ms)
<1>1. ASSUME NEW k \in 1 .. N + 1
      PROVE  ms[k].args \in Seq(1 .. k - 1) /\ ms[k].kind \in DOMAIN Arity /\ Len(ms[k].args) = Arity[ms[k].kind]
  <2>1. CASE k \in 1 .. N
    BY <2>1 DEF Shaped, Longer
  <2>2. CASE k = N + 1
    <3>1. ms[k] = x /\ k - 1 = N
      BY <2>2 DEF Longer
    <3>2. x.kind \in DOMAIN Arity
      BY DEF Fitting, Vertex
    <3> QED BY <3>1, <3>2 DEF Fitting
  <2> QED BY <2>1, <2>2
<1>2. DOMAIN ms = 1 .. N + 1 /\ N + 1 \in Nat
  BY DEF Longer
<1> QED BY <1>1, <1>2 DEF Shaped

(* A node more: what the operations see to. *)
LEMMA OneMoreIsSound ==
  ASSUME NEW ns, NEW ms, NEW N \in Nat, NEW x, Longer(ns, ms, N, x), WellMade(ns), Fitting(ns, N, x)
  PROVE  WellMade(ms)
<1>1. Shaped(ms) /\ Shaped(ns)
  BY OneMoreShaped DEF WellMade
<1>2. ASSUME NEW k \in 1 .. N, NEW i \in DOMAIN ns[k].args
      PROVE  ns[k].args[i] \in 1 .. N /\ ms[ns[k].args[i]] = ns[ns[k].args[i]]
  <2>1. k \in DOMAIN ns
    BY DEF Longer
  <2>2. ns[k].args[i] \in DOMAIN ns
    BY <1>1, <2>1, Arguments
  <2> QED BY <2>2 DEF Longer
<1>3. ASSUME NEW k \in 1 .. N PROVE SoundNode(ms, k)
  <2>1. SoundNode(ns, k) /\ ms[k] = ns[k] /\ k \in DOMAIN ns
    BY DEF WellMade, Longer
  <2>2. ns[k].n \in Nat
    BY <2>1 DEF SoundNode
  <2>3. CASE ns[k].kind # "opFIR"
    BY <1>2, <2>1, <2>2, <2>3 DEF SoundNode
  <2>4. CASE ns[k].kind = "opFIR"
    <3>1. 1 \in DOMAIN ns[k].args /\ 2 \in DOMAIN ns[k].args
      BY <1>1, <2>1, <2>4, Arities
    <3>2. ms[ns[k].args[1]] = ns[ns[k].args[1]] /\ ms[ns[k].args[2]] = ns[ns[k].args[2]]
      BY <1>2, <3>1
    <3>3. Plain(ms, ns[k].args[1])
      BY <1>1, <2>1, <2>4, PlainStays DEF SoundNode
    <3> QED BY <2>1, <2>2, <2>4, <3>2, <3>3 DEF SoundNode
  <2> QED BY <2>3, <2>4
<1>4. SoundNode(ms, N + 1)
  <2>1. ms[N + 1] = x /\ x.n \in Nat
    BY DEF Longer, Fitting, Vertex
  <2>2. ASSUME NEW i \in DOMAIN x.args PROVE ms[x.args[i]] = ns[x.args[i]]
    <3>1. x.args \in Seq(1 .. N)
      BY DEF Fitting
    <3>2. x.args[i] \in 1 .. N
      BY ONLY <3>1, i \in DOMAIN x.args
    <3> QED BY <3>2 DEF Longer
  <2>3. CASE x.kind # "opFIR"
    BY <2>1, <2>2, <2>3 DEF SoundNode, Fitting
  <2>4. CASE x.kind = "opFIR"
    <3>1. 1 \in DOMAIN x.args /\ 2 \in DOMAIN x.args
      <4>1. x.args \in Seq(1 .. N) /\ Len(x.args) = 2
        BY <2>4 DEF Fitting, Arity
      <4> QED BY ONLY <4>1
    <3>2. ms[x.args[1]] = ns[x.args[1]] /\ ms[x.args[2]] = ns[x.args[2]]
      BY <2>2, <3>1
    <3>3. Plain(ms, x.args[1])
      BY <1>1, <2>4, PlainStays DEF Fitting
    <3> QED BY <2>1, <2>4, <3>2, <3>3 DEF SoundNode, Fitting
  <2> QED BY <2>3, <2>4
<1>5. \A k \in DOMAIN ms : k \in 1 .. N \/ k = N + 1
  BY DEF Longer
<1> QED BY <1>1, <1>3, <1>4, <1>5 DEF WellMade

(* A node more: what the nodes are worth. *)
LEMMA OneMoreIsSolved ==
  ASSUME NEW ns, NEW ms, NEW N \in Nat, NEW x, Longer(ns, ms, N, x), NEW val, Valued(ns, val), Fitting(ns, N, x),
         NEW v, \A k \in 1 .. N : v[k] = val[k],
         AnArray(v[N + 1], x.n), AnInput(x, v[N + 1]),
         x.kind # "opInput" => \A i \in 0 .. x.n - 1 : v[N + 1][i] = Result(ms, v, N + 1, i)
  PROVE  Valued(ms, v)
<1>1. Shaped(ns) /\ WellMade(ms) /\ Shaped(ms)
  BY OneMoreIsSound DEF Valued, WellMade
<1>2. ASSUME NEW k \in 1 .. N
      PROVE  /\ AnArray(v[k], ms[k].n) /\ AnInput(ms[k], v[k])
             /\ ms[k].kind # "opInput" => \A i \in 0 .. ms[k].n - 1 : v[k][i] = Result(ms, v, k, i)
  <2>1. ms[k] = ns[k] /\ k \in DOMAIN ns /\ v[k] = val[k]
    BY DEF Longer
  <2>2. AnArray(v[k], ms[k].n) /\ AnInput(ms[k], v[k])
    BY <2>1 DEF Valued, Solves
  <2>3. ASSUME ms[k].kind # "opInput", NEW i \in 0 .. ms[k].n - 1 PROVE v[k][i] = Result(ms, v, k, i)
    <3>1. v[k][i] = Result(ns, val, k, i)
      BY <2>1, <2>3 DEF Valued, Solves
    <3>2. ASSUME NEW j \in DOMAIN ns[k].args
          PROVE  ms[ns[k].args[j]] = ns[ns[k].args[j]] /\ v[ns[k].args[j]] = val[ns[k].args[j]]
      <4>1. ns[k].args[j] \in DOMAIN ns
        BY <1>1, <2>1, Arguments
      <4> QED BY <4>1 DEF Longer
    <3>3. /\ 1 \in DOMAIN ns[k].args
          /\ ns[k].kind \in {"opAdd", "opMul", "opHypot", "opFIR"} => 2 \in DOMAIN ns[k].args
      BY <1>1, <2>1, <2>3, Arities
    <3>4. ns[k].kind \in {"opScale", "opUnary", "opAdd", "opMul", "opHypot", "opFIR"}
      BY <1>1, <2>1, <2>3 DEF Shaped, Arity
    <3>5. CASE ns[k].kind \in {"opScale", "opUnary"}
      <4>1. ms[k] = ns[k] /\ v[ns[k].args[1]] = val[ns[k].args[1]]
        BY <2>1, <3>2, <3>3
      <4> QED BY <3>1, <3>5, <4>1 DEF Result
    <3>6. CASE ns[k].kind \in {"opAdd", "opMul", "opHypot"}
      <4>1. ms[k] = ns[k] /\ v[ns[k].args[1]] = val[ns[k].args[1]] /\ v[ns[k].args[2]] = val[ns[k].args[2]]
        BY <2>1, <3>2, <3>3, <3>6
      <4> QED BY <3>1, <3>6, <4>1 DEF Result
    <3>7. CASE ns[k].kind = "opFIR"
      <4>1. /\ ms[k] = ns[k] /\ v[ns[k].args[1]] = val[ns[k].args[1]] /\ v[ns[k].args[2]] = val[ns[k].args[2]]
            /\ ms[ns[k].args[2]] = ns[ns[k].args[2]]
        BY <2>1, <3>2, <3>3, <3>7
      <4> QED BY <3>1, <3>7, <4>1 DEF Result
    <3> QED BY <3>4, <3>5, <3>6, <3>7
  <2> QED BY <2>2, <2>3
<1>3. ms[N + 1] = x
  BY DEF Longer
<1>4. \A k \in DOMAIN ms : k \in 1 .. N \/ k = N + 1
  BY DEF Longer
<1> QED BY <1>1, <1>2, <1>3, <1>4 DEF Valued, Solves

(* Append, for elements of any sort. *)
LEMMA AppendAny ==
  ASSUME NEW n \in Nat, NEW s, s = [i \in 1 .. n |-> s[i]], NEW x
  PROVE  Len(s) = n /\ Len(Append(s, x)) = n + 1 /\ Append(s, x) = [i \in 1 .. n + 1 |-> IF i = n + 1 THEN x ELSE s[i]]
<1> DEFINE S == {s[i] : i \in 1 .. n} \union {x}
<1>1. s \in [1 .. n -> S]
  BY ONLY s = [i \in 1 .. n |-> s[i]]
<1> HIDE DEF S
<1>2. s \in Seq(S) /\ Len(s) = n
  BY ONLY <1>1, n \in Nat
<1>3. x \in S
  BY DEF S
<1> DEFINE y == Append(s, x)
<1>4. y \in Seq(S) /\ Len(y) = n + 1 /\ (\A i \in 1 .. n : y[i] = s[i]) /\ y[n + 1] = x
  BY <1>2, <1>3, AppendProperties
<1> HIDE DEF y
<1>5. y = [i \in 1 .. n + 1 |-> y[i]]
  BY ONLY <1>4
<1>6. \A i \in 1 .. n + 1 : y[i] = IF i = n + 1 THEN x ELSE s[i]
  BY ONLY <1>4, n \in Nat
<1>7. y = [i \in 1 .. n + 1 |-> IF i = n + 1 THEN x ELSE s[i]]
  BY ONLY <1>5, <1>6
<1> QED BY <1>2, <1>4, <1>7 DEF y

(* nodes \o <<x>>, and nodes \o <<x, y>>. *)
LEMMA OneJoined ==
  ASSUME NEW ns \in Seq(Vertex), NEW x \in Vertex, NEW ms, ms = ns \o <<x>>
  PROVE  Len(ns) \in Nat /\ ms \in Seq(Vertex) /\ Len(ms) = Len(ns) + 1 /\ Longer(ns, ms, Len(ns), x)
<1> DEFINE new == <<x>>
<1>1. new \in Seq(Vertex) /\ Len(new) = 1 /\ new[1] = x
  OBVIOUS
<1> HIDE DEF new
<1>2. /\ ns \o new \in Seq(Vertex) /\ Len(ns \o new) = Len(ns) + Len(new)
      /\ \A i \in 1 .. Len(ns) + Len(new) : (ns \o new)[i] = IF i <= Len(ns) THEN ns[i] ELSE new[i - Len(ns)]
  BY <1>1, ConcatProperties
<1>3. ms = ns \o new
  BY DEF new
<1> DEFINE N == Len(ns)
<1>4. /\ ms \in Seq(Vertex) /\ Len(ms) = N + 1
      /\ \A i \in 1 .. N + 1 : ms[i] = IF i <= N THEN ns[i] ELSE new[i - N]
  BY <1>1, <1>2, <1>3
<1>5. N \in Nat /\ DOMAIN ns = 1 .. N
  OBVIOUS
<1>6. DOMAIN ms = 1 .. N + 1
  BY ONLY <1>4
<1> HIDE DEF N
<1>7. (\A k \in 1 .. N : ms[k] = ns[k]) /\ ms[N + 1] = x
  BY ONLY <1>1, <1>4, <1>5
<1> QED BY <1>4, <1>5, <1>6, <1>7 DEF Longer, N

(* The same for two nodes. *)
LEMMA TwoJoined ==
  ASSUME NEW ns \in Seq(Vertex), NEW x \in Vertex, NEW y \in Vertex, NEW ms, ms = ns \o <<x, y>>
  PROVE  /\ Len(ns) \in Nat /\ ms \in Seq(Vertex) /\ Len(ms) = Len(ns) + 2 /\ ns \o <<x>> \in Seq(Vertex)
         /\ Longer(ns, ns \o <<x>>, Len(ns), x) /\ Longer(ns \o <<x>>, ms, Len(ns) + 1, y)
<1> DEFINE new == <<x, y>>
           one == ns \o <<x>>
           N == Len(ns)
<1>1. new \in Seq(Vertex) /\ Len(new) = 2 /\ new[1] = x /\ new[2] = y
  OBVIOUS
<1>2. N \in Nat /\ one \in Seq(Vertex) /\ Len(one) = N + 1 /\ Longer(ns, one, N, x)
  BY OneJoined
<1> HIDE DEF new, one
<1>3. /\ ns \o new \in Seq(Vertex) /\ Len(ns \o new) = Len(ns) + Len(new)
      /\ \A i \in 1 .. Len(ns) + Len(new) : (ns \o new)[i] = IF i <= Len(ns) THEN ns[i] ELSE new[i - Len(ns)]
  BY <1>1, ConcatProperties
<1>4. ms = ns \o new
  BY DEF new
<1>5. /\ ms \in Seq(Vertex) /\ Len(ms) = N + 2
      /\ \A i \in 1 .. N + 2 : ms[i] = IF i <= N THEN ns[i] ELSE new[i - N]
  BY <1>1, <1>3, <1>4
<1> HIDE DEF N
<1>6. DOMAIN ms = 1 .. N + 1 + 1
  <2>1. DOMAIN ms = 1 .. N + 2
    BY ONLY <1>5
  <2>2. N + 2 = N + 1 + 1
    BY <1>2
  <2> QED BY <2>1, <2>2
<1>7. DOMAIN one = 1 .. N + 1
  BY <1>2 DEF Longer
<1>8. \A k \in 1 .. N + 1 : ms[k] = one[k]
  <2>1. (\A k \in 1 .. N : ms[k] = ns[k]) /\ ms[N + 1] = x
    <3>1. \A k \in 1 .. N : ms[k] = ns[k]
      BY ONLY <1>2, <1>5
    <3>2. N + 1 \in 1 .. N + 2 /\ ~(N + 1 <= N) /\ N + 1 - N = 1
      BY ONLY <1>2
    <3>3. ASSUME NEW j \in 1 .. N + 2, j = N + 1 PROVE ms[j] = new[1]
      <4>1. ~(j <= N) /\ j - N = 1
        BY <1>2, <3>3
      <4>2. ms[j] = new[j - N]
        BY <4>1, <1>5
      <4> QED BY <4>1, <4>2
    <3>5. ms[N + 1] = new[1]
      BY <3>2, <3>3
    <3> QED BY <1>1, <3>1, <3>5
  <2>2. (\A k \in 1 .. N : one[k] = ns[k]) /\ one[N + 1] = x
    BY <1>2 DEF Longer
  <2>3. \A k \in 1 .. N + 1 : k \in 1 .. N \/ k = N + 1
    BY <1>2
  <2> QED BY <2>1, <2>2, <2>3
<1>9. ms[N + 1 + 1] = y
  BY ONLY <1>1, <1>2, <1>5
<1> QED BY <1>2, <1>5, <1>6, <1>7, <1>8, <1>9 DEF Longer, N, one

(* The author's handles say what their nodes are worth. *)
Shifted(xs, n) == [i \in 0 .. n - 1 |-> xs[i + 1]]
AHandle(t, ns, val) ==
  /\ t = [node |-> t.node, means |-> t.means, legal |-> t.legal]
  /\ t.legal \in BOOLEAN
  /\ t.node \in DOMAIN ns
  /\ t.means = [i \in 1 .. ns[t.node].n |-> t.means[i]]
  /\ val[t.node] = Shifted(t.means, ns[t.node].n)
Handles(ts, ns, val) ==
  /\ Len(ts) \in Nat
  /\ ts = [a \in 1 .. Len(ts) |-> ts[a]]
  /\ \A a \in 1 .. Len(ts) : AHandle(ts[a], ns, val)

(* One more handle, over a graph that has grown or not. *)
LEMMA MoreHandles ==
  ASSUME NEW ts, NEW ns, NEW val, Handles(ts, ns, val), NEW ms, NEW v,
         DOMAIN ns \subseteq DOMAIN ms, \A k \in DOMAIN ns : ms[k] = ns[k] /\ v[k] = val[k],
         NEW t, AHandle(t, ms, v)
  PROVE  /\ Handles(Append(ts, t), ms, v) /\ Len(Append(ts, t)) = Len(ts) + 1
         /\ \A a \in 1 .. Len(ts) : Append(ts, t)[a] = ts[a]
         /\ Append(ts, t)[Len(ts) + 1] = t
<1> DEFINE n == Len(ts)
           us == Append(ts, t)
<1>1. n \in Nat /\ ts = [a \in 1 .. n |-> ts[a]]
  BY DEF Handles
<1>2. \A a \in 1 .. n : AHandle(ts[a], ms, v)
  BY DEF Handles, AHandle
<1> HIDE DEF n
<1>3. Len(us) = n + 1 /\ us = [i \in 1 .. n + 1 |-> IF i = n + 1 THEN t ELSE ts[i]]
  BY ONLY <1>1, AppendAny
<1> HIDE DEF us
<1>4. (\A a \in 1 .. n : us[a] = ts[a]) /\ us[n + 1] = t
  BY ONLY <1>1, <1>3
<1>5. us = [i \in 1 .. Len(us) |-> us[i]] /\ Len(us) \in Nat
  BY ONLY <1>1, <1>3
<1>6. \A a \in 1 .. Len(us) : AHandle(us[a], ms, v)
  <2>1. \A a \in 1 .. n + 1 : a \in 1 .. n \/ a = n + 1
    BY <1>1
  <2> QED BY <1>2, <1>3, <1>4, <2>1
<1> QED BY <1>3, <1>4, <1>5, <1>6 DEF Handles, us, n

(* A graph that the author has drawn, and what its next node would be worth at i. *)
Told(ts, e) ==
  /\ e \in BOOLEAN
  /\ e = FALSE => \A a \in 1 .. Len(ts) : ts[a].legal = TRUE
  /\ e = TRUE => Len(ts) # 0 /\ ts[Len(ts)].legal = FALSE
Drawn(ns, ts, e, val) == ns \in Seq(Vertex) /\ Valued(ns, val) /\ Handles(ts, ns, val) /\ Told(ts, e)
Worked(ns, val, x, i) ==
  LET arg(j) == val[x.args[j]]
  IN  CASE x.kind = "opScale" -> x.scale * arg(1)[i]
        [] x.kind = "opAdd" -> arg(1)[i] + arg(2)[i]
        [] x.kind = "opMul" -> arg(1)[i] * arg(2)[i]
        [] x.kind = "opUnary" -> Apply1[x.cfn][arg(1)[i]]
        [] x.kind = "opHypot" -> hypotf(arg(1)[i], arg(2)[i])
        [] OTHER -> Sum(arg(2), ns[x.args[2]].n, arg(1), i)

(* What the new node is worth, in the terms of the graph before it. *)
LEMMA ResultOfNew ==
  ASSUME NEW ns, NEW ms, NEW N \in Nat, NEW x, Longer(ns, ms, N, x), Fitting(ns, N, x), x.kind # "opInput",
         NEW val, NEW v, \A k \in 1 .. N : v[k] = val[k], NEW i
  PROVE  Result(ms, v, N + 1, i) = Worked(ns, val, x, i)
<1>1. ms[N + 1] = x
  BY DEF Longer
<1>2. ASSUME NEW j \in DOMAIN x.args PROVE ms[x.args[j]] = ns[x.args[j]] /\ v[x.args[j]] = val[x.args[j]]
  <2>1. x.args \in Seq(1 .. N)
    BY DEF Fitting
  <2>2. x.args[j] \in 1 .. N
    BY ONLY <2>1, j \in DOMAIN x.args
  <2> QED BY <2>2 DEF Longer
<1>3. x.kind \in {"opScale", "opUnary", "opAdd", "opMul", "opHypot", "opFIR"}
  BY DEF Fitting, Vertex, Arity
<1>4. /\ 1 \in DOMAIN x.args
      /\ x.kind \in {"opAdd", "opMul", "opHypot", "opFIR"} => 2 \in DOMAIN x.args
  <2>1. x.args \in Seq(1 .. N) /\ Len(x.args) = Arity[x.kind]
    BY DEF Fitting
  <2>2. Arity[x.kind] \in {1, 2} /\ (x.kind \in {"opAdd", "opMul", "opHypot", "opFIR"} => Arity[x.kind] = 2)
    BY <1>3 DEF Arity
  <2> DEFINE K == Arity[x.kind]
             xs == x.args
  <2>3. xs \in Seq(1 .. N) /\ Len(xs) = K /\ K \in {1, 2}
    BY <2>1, <2>2
  <2> HIDE DEF K, xs
  <2>4. 1 \in DOMAIN xs /\ (K = 2 => 2 \in DOMAIN xs)
    BY ONLY <2>3
  <2> QED BY <2>2, <2>4 DEF K, xs
<1>5. CASE x.kind \in {"opScale", "opUnary"}
  <2>1. v[x.args[1]] = val[x.args[1]]
    BY <1>2, <1>4
  <2> QED BY <1>1, <1>5, <2>1 DEF Result, Worked
<1>6. CASE x.kind \in {"opAdd", "opMul", "opHypot"}
  <2>1. v[x.args[1]] = val[x.args[1]] /\ v[x.args[2]] = val[x.args[2]]
    BY <1>2, <1>4, <1>6
  <2> QED BY <1>1, <1>6, <2>1 DEF Result, Worked
<1>7. CASE x.kind = "opFIR"
  <2>1. v[x.args[1]] = val[x.args[1]] /\ v[x.args[2]] = val[x.args[2]] /\ ms[x.args[2]] = ns[x.args[2]]
    BY <1>2, <1>4, <1>7
  <2> QED BY <1>1, <1>7, <2>1 DEF Result, Worked
<1> QED BY <1>3, <1>5, <1>6, <1>7

(* A node that joins a graph, with what it is worth: the author's operation says the same. *)
Joining(ns, val, x, means) ==
  /\ Fitting(ns, Len(ns), x)
  /\ means = [i \in 1 .. x.n |-> means[i]]
  /\ AnInput(x, Shifted(means, x.n))
  /\ x.kind # "opInput" => \A i \in 0 .. x.n - 1 : means[i + 1] = Worked(ns, val, x, i)
Extended(N, val, x, means) == [k \in 1 .. N + 1 |-> IF k = N + 1 THEN Shifted(means, x.n) ELSE val[k]]

(* A graph with a node more. *)
LEMMA NodeJoins ==
  ASSUME NEW ns \in Seq(Vertex), NEW val, Valued(ns, val), NEW x, NEW means, Joining(ns, val, x, means),
         NEW ms, Longer(ns, ms, Len(ns), x)
  PROVE  Valued(ms, Extended(Len(ns), val, x, means))
<1> DEFINE N == Len(ns)
           v == Extended(N, val, x, means)
           w == Shifted(means, x.n)
<1>1. N \in Nat
  OBVIOUS
<1>2. Fitting(ns, N, x) /\ Longer(ns, ms, N, x) /\ AnInput(x, w)
      /\ (x.kind # "opInput" => \A i \in 0 .. x.n - 1 : means[i + 1] = Worked(ns, val, x, i))
  BY DEF Joining
<1> HIDE DEF N
<1>3. (\A k \in 1 .. N : v[k] = val[k]) /\ v[N + 1] = w
  BY <1>1 DEF Extended
<1> HIDE DEF v
<1>4. AnArray(w, x.n)
  BY DEF AnArray, Shifted
<1>5. ASSUME x.kind # "opInput", NEW i \in 0 .. x.n - 1 PROVE w[i] = Result(ms, v, N + 1, i)
  <2>1. w[i] = means[i + 1]
    BY DEF Shifted
  <2>2. Result(ms, v, N + 1, i) = Worked(ns, val, x, i)
    BY <1>1, <1>2, <1>3, <1>5, ResultOfNew
  <2> QED BY <1>2, <1>5, <2>1, <2>2
<1>6. Valued(ms, v)
  BY <1>1, <1>2, <1>3, <1>4, <1>5, OneMoreIsSolved
<1> QED BY <1>6 DEF v, N

(* The handle of the new node. *)
LEMMA HandleOfNew ==
  ASSUME NEW ns \in Seq(Vertex), NEW val, NEW x, NEW means, Joining(ns, val, x, means),
         NEW ms, Longer(ns, ms, Len(ns), x), NEW k, k = Len(ns) + 1
  PROVE  /\ AHandle([node |-> k, means |-> means, legal |-> TRUE], ms, Extended(Len(ns), val, x, means))
         /\ DOMAIN ns \subseteq DOMAIN ms
         /\ \A j \in DOMAIN ns : ms[j] = ns[j] /\ Extended(Len(ns), val, x, means)[j] = val[j]
<1> DEFINE N == Len(ns)
           t == [node |-> k, means |-> means, legal |-> TRUE]
           v == Extended(N, val, x, means)
<1>1. N \in Nat /\ k = N + 1
  OBVIOUS
<1>2. DOMAIN ns = 1 .. N /\ DOMAIN ms = 1 .. N + 1 /\ (\A j \in 1 .. N : ms[j] = ns[j]) /\ ms[N + 1] = x
  BY DEF Longer
<1>3. means = [i \in 1 .. x.n |-> means[i]]
  BY DEF Joining
<1> HIDE DEF N
<1>4. (\A j \in 1 .. N : v[j] = val[j]) /\ v[N + 1] = Shifted(means, x.n)
  BY <1>1 DEF Extended
<1> HIDE DEF v
<1>5. t.node = N + 1 /\ t.means = means /\ t.legal = TRUE /\ t = [node |-> t.node, means |-> t.means, legal |-> t.legal]
  BY <1>1
<1> HIDE DEF t
<1>6. AHandle(t, ms, v)
  <2>1. t.node \in DOMAIN ms
    BY <1>1, <1>2, <1>5
  <2>2. ms[t.node] = x /\ v[t.node] = Shifted(means, x.n)
    BY <1>2, <1>4, <1>5
  <2> QED BY <1>3, <1>5, <2>1, <2>2 DEF AHandle
<1>7. 1 .. N \subseteq 1 .. N + 1
  BY <1>1
<1> QED BY <1>2, <1>4, <1>6, <1>7 DEF t, v, N

(* A graph without an error, still. *)
LEMMA ToldOfNew ==
  ASSUME NEW ts, Told(ts, FALSE), Len(ts) \in Nat, NEW us, Len(us) = Len(ts) + 1,
         \A a \in 1 .. Len(ts) : us[a] = ts[a], us[Len(ts) + 1].legal = TRUE
  PROVE  Told(us, FALSE)
<1> DEFINE n == Len(ts)
<1>1. n \in Nat /\ Len(us) = n + 1 /\ (\A a \in 1 .. n : us[a] = ts[a]) /\ us[n + 1].legal = TRUE
      /\ \A a \in 1 .. n : ts[a].legal = TRUE
  BY DEF Told
<1> HIDE DEF n
<1>2. \A a \in 1 .. n + 1 : a \in 1 .. n \/ a = n + 1
  BY <1>1
<1>3. \A a \in 1 .. Len(us) : us[a].legal = TRUE
  BY <1>1, <1>2
<1> QED BY <1>3 DEF Told

(* One of the author's operations that makes one node. *)
LEMMA OneAdded ==
  ASSUME NEW val, Drawn(nodes, tensors, err, val), err = FALSE, NEW x, NEW means, Joining(nodes, val, x, means),
         Add(<<x>>, means)
  PROVE  \E v : Drawn(nodes', tensors', err', v)
<1> DEFINE N == Len(nodes)
           v == Extended(N, val, x, means)
           t == [node |-> N + 1, means |-> means, legal |-> TRUE]
<1>1. nodes \in Seq(Vertex) /\ N \in Nat /\ x \in Vertex /\ Valued(nodes, val)
  BY DEF Drawn, Joining, Fitting
<1>2. nodes' \in Seq(Vertex) /\ Longer(nodes, nodes', N, x)
  <2>1. nodes' = nodes \o <<x>>
    BY DEF Add
  <2> QED BY ONLY <1>1, <2>1, OneJoined
<1>3. tensors' = Append(tensors, t) /\ err' = FALSE
  <2>1. tensors' = Append(tensors, [node |-> N + Len(<<x>>), means |-> means, legal |-> TRUE]) /\ err' = err
    BY DEF Add
  <2>2. Len(<<x>>) = 1
    OBVIOUS
  <2> QED BY <2>1, <2>2
<1>4. Valued(nodes', v)
  BY <1>1, <1>2, NodeJoins
<1>5. /\ AHandle(t, nodes', v) /\ DOMAIN nodes \subseteq DOMAIN nodes'
      /\ \A j \in DOMAIN nodes : nodes'[j] = nodes[j] /\ v[j] = val[j]
  BY <1>1, <1>2, HandleOfNew
<1>6. t.legal = TRUE
  OBVIOUS
<1>7. Handles(tensors, nodes, val) /\ Told(tensors, FALSE) /\ Len(tensors) \in Nat
  BY DEF Drawn, Handles
<1> DEFINE us == Append(tensors, t)
<1> HIDE DEF t, v
<1>8. /\ Handles(us, nodes', v) /\ Len(us) = Len(tensors) + 1
      /\ \A a \in 1 .. Len(tensors) : us[a] = tensors[a]
      /\ us[Len(tensors) + 1] = t
  BY ONLY <1>5, <1>7, MoreHandles
<1>9. us = tensors' /\ err' = FALSE
  BY <1>3
<1> HIDE DEF us, N
<1>10. Told(us, FALSE)
  BY <1>6, <1>7, <1>8, ToldOfNew
<1> QED BY <1>2, <1>4, <1>8, <1>9, <1>10 DEF Drawn

(* An operation the graph refuses. *)
LEMMA RefusedDrawn ==
  ASSUME NEW val, Drawn(nodes, tensors, err, val), NEW a, a \in DOMAIN tensors, Fail(a)
  PROVE  Drawn(nodes', tensors', err', val)
<1> DEFINE t == [tensors[a] EXCEPT !.legal = FALSE]
           us == Append(tensors, t)
<1>1. nodes' = nodes /\ err' = TRUE /\ tensors' = us
  BY DEF Fail
<1>2. Handles(tensors, nodes, val) /\ Len(tensors) \in Nat /\ DOMAIN tensors = 1 .. Len(tensors)
  BY DEF Drawn, Handles
<1>3. AHandle(tensors[a], nodes, val)
  BY <1>2 DEF Handles
<1>4. t = [node |-> tensors[a].node, means |-> tensors[a].means, legal |-> FALSE]
  <2> DEFINE r == tensors[a]
  <2>1. r = [node |-> r.node, means |-> r.means, legal |-> r.legal] /\ t = [r EXCEPT !.legal = FALSE]
    BY <1>3 DEF AHandle
  <2> HIDE DEF r, t
  <2>2. t = [node |-> r.node, means |-> r.means, legal |-> FALSE]
    BY ONLY <2>1
  <2> QED BY <2>2 DEF r
<1> HIDE DEF t
<1>5. t.node = tensors[a].node /\ t.means = tensors[a].means /\ t.legal = FALSE
  BY <1>4
<1>6. AHandle(t, nodes, val)
  BY <1>3, <1>4, <1>5 DEF AHandle
<1>7. /\ Handles(us, nodes, val) /\ Len(us) = Len(tensors) + 1 /\ us[Len(tensors) + 1] = t
  BY <1>2, <1>6, MoreHandles
<1> HIDE DEF us
<1>8. Told(us, TRUE)
  <2>1. us[Len(us)].legal = FALSE /\ Len(us) # 0
    BY <1>2, <1>5, <1>7
  <2> QED BY <2>1 DEF Told
<1> QED BY <1>1, <1>7, <1>8 DEF Drawn

(* What an operation is applied to. *)
LEMMA Operand ==
  ASSUME NEW val, Drawn(nodes, tensors, err, val), NEW a \in DOMAIN tensors
  PROVE  /\ tensors[a].node \in 1 .. Len(nodes) /\ tensors[a].node \in DOMAIN nodes /\ Len(nodes) \in Nat
         /\ NodeOf(a) \in Vertex /\ NodeOf(a).n \in Nat
         /\ NodeOf(a) = nodes[tensors[a].node]
         /\ DOMAIN Means(a) = 1 .. NodeOf(a).n
         /\ val[tensors[a].node] = Shifted(Means(a), NodeOf(a).n)
<1>1. AHandle(tensors[a], nodes, val)
  BY DEF Drawn, Handles
<1>2. DOMAIN nodes = 1 .. Len(nodes) /\ Len(nodes) \in Nat /\ \A k \in DOMAIN nodes : nodes[k] \in Vertex
  <2>1. nodes \in Seq(Vertex)
    BY DEF Drawn
  <2> QED BY ONLY <2>1
<1>3. tensors[a].node \in DOMAIN nodes /\ Means(a) = [i \in 1 .. NodeOf(a).n |-> Means(a)[i]]
      /\ val[tensors[a].node] = Shifted(Means(a), NodeOf(a).n)
  BY <1>1 DEF AHandle, NodeOf, Means
<1>4. NodeOf(a) \in Vertex
  BY <1>2, <1>3 DEF NodeOf
<1>5. NodeOf(a).n \in Nat
  BY <1>4 DEF Vertex
<1>6. DOMAIN Means(a) = 1 .. NodeOf(a).n
  <2> DEFINE f == Means(a)
             n == NodeOf(a).n
  <2>1. f = [i \in 1 .. n |-> f[i]]
    BY <1>3
  <2> HIDE DEF f, n
  <2>2. DOMAIN f = 1 .. n
    BY ONLY <2>1
  <2> QED BY <2>2 DEF f, n
<1> QED BY <1>2, <1>3, <1>4, <1>5, <1>6 DEF NodeOf

(* The arguments of an operation on one signal. *)
LEMMA OneArgument ==
  ASSUME NEW N \in Nat, NEW k \in 1 .. N
  PROVE  <<k>> \in Seq(1 .. N) /\ <<k>> \in Seq(Nat) /\ Len(<<k>>) = 1 /\ DOMAIN <<k>> = {1} /\ <<k>>[1] = k
OBVIOUS

(* The arguments of an operation on two. *)
LEMMA TwoArguments ==
  ASSUME NEW N \in Nat, NEW k \in 1 .. N, NEW j \in 1 .. N
  PROVE  /\ <<k, j>> \in Seq(1 .. N) /\ <<k, j>> \in Seq(Nat) /\ Len(<<k, j>>) = 2
         /\ DOMAIN <<k, j>> = {1, 2} /\ <<k, j>>[1] = k /\ <<k, j>>[2] = j
OBVIOUS

(* The array of a sequence, element by element. *)
LEMMA ShiftedAt ==
  ASSUME NEW n \in Nat, NEW f, NEW i \in 0 .. n - 1
  PROVE  i + 1 \in 1 .. n /\ Shifted(f, n)[i] = f[i + 1]
BY DEF Shifted

(* No values are values. *)
LEMMA NoneHeld == <<>> \in Seq(Int)
OBVIOUS

(* The kinds with one argument. *)
LEMMA KindsOfOne == \A kind \in {"opUnary", "opScale"} : kind \in DOMAIN Arity /\ Arity[kind] = 1 /\ kind # "opFIR"
BY DEF Arity

(* The kinds with two. *)
LEMMA KindsOfTwo ==
  \A kind \in {"opAdd", "opMul", "opHypot"} : kind \in DOMAIN Arity /\ Arity[kind] = 2 /\ kind # "opFIR"
BY DEF Arity

(* A node, field by field. *)
LEMMA IsVertex ==
  ASSUME NEW kind \in DOMAIN Arity, NEW n \in Nat, NEW args \in Seq(Nat), NEW host \in Seq(Int), NEW scale \in Int,
         NEW cfn \in DOMAIN Apply1 \union {""}
  PROVE  [kind |-> kind, n |-> n, args |-> args, host |-> host, dev |-> 0, scale |-> scale, cfn |-> cfn] \in Vertex
BY DEF Vertex

Wants(x, kind, n, k, scale, cfn) ==
  x = [kind |-> kind, n |-> n, args |-> <<k>>, host |-> <<>>, dev |-> 0, scale |-> scale, cfn |-> cfn]
Formed(ns, N, x, kind, n, k, scale, cfn) ==
  Fitting(ns, N, x) /\ x.kind = kind /\ x.n = n /\ x.args[1] = k /\ x.scale = scale /\ x.cfn = cfn

(* The node of an operation on one signal fits. *)
LEMMA OfOne ==
  ASSUME NEW x, NEW kind \in {"opUnary", "opScale"}, NEW n \in Nat, NEW N \in Nat, NEW k \in 1 .. N,
         NEW scale \in Int, NEW cfn \in DOMAIN Apply1 \union {""},
         Wants(x, kind, n, k, scale, cfn), NEW ns, ns[k].n = n
  PROVE  Formed(ns, N, x, kind, n, k, scale, cfn)
<1> DEFINE args == <<k>>
<1>1. args \in Seq(1 .. N) /\ args \in Seq(Nat) /\ Len(args) = 1 /\ DOMAIN args = {1} /\ args[1] = k
  BY OneArgument
<1> HIDE DEF args
<1>2. x = [kind |-> kind, n |-> n, args |-> args, host |-> <<>>, dev |-> 0, scale |-> scale, cfn |-> cfn]
  BY DEF args, Wants
<1>3. x.kind = kind /\ x.n = n /\ x.args = args /\ x.scale = scale /\ x.cfn = cfn
  BY ONLY <1>2
<1>4. kind \in DOMAIN Arity /\ Arity[kind] = 1 /\ kind # "opFIR"
  BY KindsOfOne
<1>5. x \in Vertex
  <2> DEFINE none == <<>>
  <2>1. none \in Seq(Int)
    BY NoneHeld
  <2> HIDE DEF none
  <2>2. x = [kind |-> kind, n |-> n, args |-> args, host |-> none, dev |-> 0, scale |-> scale, cfn |-> cfn]
    BY <1>2 DEF none
  <2>3. kind \in DOMAIN Arity /\ args \in Seq(Nat)
    BY <1>1, <1>4
  <2> QED BY ONLY <2>1, <2>2, <2>3, n \in Nat, scale \in Int, cfn \in DOMAIN Apply1 \union {""}, IsVertex
<1> QED BY <1>1, <1>3, <1>4, <1>5 DEF Fitting, Formed

(* Sqrt and Abs. *)
LEMMA UnaryDrawn ==
  ASSUME NEW val, Drawn(nodes, tensors, err, val), NEW a \in DOMAIN tensors, NEW cfn \in DOMAIN Apply1, Unary(a, cfn)
  PROVE  \E v : Drawn(nodes', tensors', err', v)
<1> DEFINE k == tensors[a].node
           n == NodeOf(a).n
           f == Means(a)
           x == [Node("opUnary", n, <<k>>) EXCEPT !.cfn = cfn]
           means == [i \in DOMAIN f |-> Apply1[cfn][f[i]]]
           N == Len(nodes)
<1>1. k \in 1 .. N /\ N \in Nat /\ n \in Nat /\ nodes[k].n = n /\ DOMAIN f = 1 .. n /\ val[k] = Shifted(f, n)
  BY Operand
<1>2. Add(<<x>>, means) /\ err = FALSE
  BY DEF Unary, MayBuild
<1>3. x = [kind |-> "opUnary", n |-> n, args |-> <<k>>, host |-> <<>>, dev |-> 0, scale |-> 0, cfn |-> cfn]
  <2> DEFINE args == <<k>>
             y == Node("opUnary", n, args)
  <2>1. y = [kind |-> "opUnary", n |-> n, args |-> args, host |-> <<>>, dev |-> 0, scale |-> 0, cfn |-> ""]
    BY DEF Node
  <2>2. x = [y EXCEPT !.cfn = cfn]
    OBVIOUS
  <2> HIDE DEF x, y, args, n
  <2>3. x = [kind |-> "opUnary", n |-> n, args |-> args, host |-> <<>>, dev |-> 0, scale |-> 0, cfn |-> cfn]
    BY ONLY <2>1, <2>2
  <2> QED BY <2>3 DEF args
<1> HIDE DEF x, k, n, N, f
<1>4. Fitting(nodes, N, x) /\ x.kind = "opUnary" /\ x.n = n /\ x.args[1] = k /\ x.cfn = cfn
  <2> DEFINE kind == "opUnary"
             scale == 0
             cf == cfn
             ns == nodes
  <2>1. kind \in {"opUnary", "opScale"} /\ scale \in Int /\ cf \in DOMAIN Apply1 \union {""}
    <3>1. kind \in {"opUnary", "opScale"} /\ scale \in Int
      OBVIOUS
    <3> QED BY ONLY <3>1, cfn \in DOMAIN Apply1
  <2>2. k \in 1 .. N /\ N \in Nat /\ n \in Nat /\ ns[k].n = n
    BY <1>1
  <2>3. Wants(x, kind, n, k, scale, cf)
    BY <1>3 DEF Wants
  <2> HIDE DEF kind, scale, cf, ns
  <2>4. Formed(ns, N, x, kind, n, k, scale, cf)
    BY ONLY <2>1, <2>2, <2>3, OfOne
  <2> QED BY <2>4 DEF Formed, kind, scale, cf, ns
<1>5. DOMAIN means = 1 .. n /\ means = [i \in 1 .. x.n |-> means[i]]
  BY <1>1, <1>4
<1>6. ASSUME NEW i \in 0 .. x.n - 1 PROVE means[i + 1] = Worked(nodes, val, x, i)
  <2>1. i + 1 \in 1 .. n /\ val[k][i] = f[i + 1]
    BY <1>1, <1>4, ShiftedAt
  <2>2. means[i + 1] = Apply1[cfn][f[i + 1]]
    BY <1>1, <2>1
  <2>3. Worked(nodes, val, x, i) = Apply1[cfn][val[k][i]]
    BY <1>4 DEF Worked
  <2> QED BY <2>1, <2>2, <2>3
<1> HIDE DEF means
<1>7. Joining(nodes, val, x, means)
  BY <1>4, <1>5, <1>6 DEF Joining, AnInput, N
<1> QED BY <1>2, <1>7, OneAdded

(* Scale. *)
LEMMA ScaleDrawn ==
  ASSUME DataAssumption, NEW val, Drawn(nodes, tensors, err, val), NEW a \in DOMAIN tensors, Scale(a)
  PROVE  \E v : Drawn(nodes', tensors', err', v)
<1> DEFINE k == tensors[a].node
           n == NodeOf(a).n
           f == Means(a)
           x == [Node("opScale", n, <<k>>) EXCEPT !.scale = Factor]
           means == [i \in DOMAIN f |-> Factor * f[i]]
           N == Len(nodes)
<1>1. k \in 1 .. N /\ N \in Nat /\ n \in Nat /\ nodes[k].n = n /\ DOMAIN f = 1 .. n /\ val[k] = Shifted(f, n)
  BY Operand
<1>2. Add(<<x>>, means) /\ err = FALSE
  BY DEF Scale, MayBuild
<1>3. x = [kind |-> "opScale", n |-> n, args |-> <<k>>, host |-> <<>>, dev |-> 0, scale |-> Factor, cfn |-> ""]
  <2> DEFINE args == <<k>>
             y == Node("opScale", n, args)
  <2>1. y = [kind |-> "opScale", n |-> n, args |-> args, host |-> <<>>, dev |-> 0, scale |-> 0, cfn |-> ""]
    BY DEF Node
  <2>2. x = [y EXCEPT !.scale = Factor]
    OBVIOUS
  <2> HIDE DEF x, y, args, n
  <2>3. x = [kind |-> "opScale", n |-> n, args |-> args, host |-> <<>>, dev |-> 0, scale |-> Factor, cfn |-> ""]
    BY ONLY <2>1, <2>2
  <2> QED BY <2>3 DEF args
<1>4. Factor \in Int
  BY DEF DataAssumption
<1> HIDE DEF x, k, n, N, f
<1>5. Fitting(nodes, N, x) /\ x.kind = "opScale" /\ x.n = n /\ x.args[1] = k /\ x.scale = Factor
  <2> DEFINE kind == "opScale"
             scale == Factor
             cf == ""
             ns == nodes
  <2>1. kind \in {"opUnary", "opScale"} /\ scale \in Int /\ cf \in DOMAIN Apply1 \union {""}
    BY <1>4
  <2>2. k \in 1 .. N /\ N \in Nat /\ n \in Nat /\ ns[k].n = n
    BY <1>1
  <2>3. Wants(x, kind, n, k, scale, cf)
    BY <1>3 DEF Wants
  <2> HIDE DEF kind, scale, cf, ns
  <2>4. Formed(ns, N, x, kind, n, k, scale, cf)
    BY ONLY <2>1, <2>2, <2>3, OfOne
  <2> QED BY <2>4 DEF Formed, kind, scale, cf, ns
<1>6. DOMAIN means = 1 .. n /\ means = [i \in 1 .. x.n |-> means[i]]
  BY <1>1, <1>5
<1>7. ASSUME NEW i \in 0 .. x.n - 1 PROVE means[i + 1] = Worked(nodes, val, x, i)
  <2>1. i + 1 \in 1 .. n /\ val[k][i] = f[i + 1]
    BY <1>1, <1>5, ShiftedAt
  <2>2. means[i + 1] = Factor * f[i + 1]
    BY <1>1, <2>1
  <2>3. Worked(nodes, val, x, i) = Factor * val[k][i]
    BY <1>5 DEF Worked
  <2> QED BY <2>1, <2>2, <2>3
<1> HIDE DEF means
<1>8. Joining(nodes, val, x, means)
  BY <1>5, <1>6, <1>7 DEF Joining, AnInput, N
<1> QED BY <1>2, <1>8, OneAdded

(* Add, Mul and Hypot, refused or not. *)
LEMMA BinaryDrawn ==
  ASSUME NEW val, Drawn(nodes, tensors, err, val), NEW a \in DOMAIN tensors,
         NEW b \in DOMAIN tensors \union {Elsewhere}, NEW kind \in {"opAdd", "opMul", "opHypot"}, binary(a, b, kind)
  PROVE  \E v : Drawn(nodes', tensors', err', v)
<1>1. CASE ~(b # Elsewhere /\ SameShape(a, b))
  <2>1. Fail(a)
    BY <1>1 DEF binary
  <2> QED BY <2>1, RefusedDrawn
<1>2. CASE b # Elsewhere /\ SameShape(a, b)
  <2> DEFINE k == tensors[a].node
             j == tensors[b].node
             n == NodeOf(a).n
             f == Means(a)
             g == Means(b)
             x == Node(kind, n, <<k, j>>)
             means == [i \in DOMAIN f |-> Paired(kind, f[i], g[i])]
             N == Len(nodes)
  <2>1. k \in 1 .. N /\ N \in Nat /\ n \in Nat /\ nodes[k].n = n /\ DOMAIN f = 1 .. n /\ val[k] = Shifted(f, n)
    BY Operand
  <2>2. j \in 1 .. N /\ nodes[j].n = n /\ val[j] = Shifted(g, n)
    <3>1. b \in DOMAIN tensors /\ NodeOf(b).n = n
      BY <1>2 DEF SameShape
    <3> QED BY <3>1, Operand
  <2>3. Add(<<x>>, means) /\ err = FALSE
    BY <1>2 DEF binary, MayBuild
  <2>4. x = [kind |-> kind, n |-> n, args |-> <<k, j>>, host |-> <<>>, dev |-> 0, scale |-> 0, cfn |-> ""]
    BY DEF Node
  <2> DEFINE args == <<k, j>>
  <2> HIDE DEF x, k, j, n, N, f, g
  <2>5. args \in Seq(1 .. N) /\ args \in Seq(Nat) /\ Len(args) = 2 /\ DOMAIN args = {1, 2} /\ args[1] = k /\ args[2] = j
    BY <2>1, <2>2, TwoArguments
  <2> HIDE DEF args
  <2>6. x = [kind |-> kind, n |-> n, args |-> args, host |-> <<>>, dev |-> 0, scale |-> 0, cfn |-> ""]
    BY <2>4 DEF args
  <2>7. x.kind = kind /\ x.n = n /\ x.args = args
    BY <2>6
  <2>8. Fitting(nodes, N, x)
    <3>1. kind \in DOMAIN Arity /\ Arity[kind] = 2 /\ kind # "opFIR"
      BY KindsOfTwo
    <3>2. x \in Vertex
      <4> DEFINE none == <<>>
                 scale == 0
                 cfn == ""
      <4>1. none \in Seq(Int) /\ scale \in Int /\ cfn \in DOMAIN Apply1 \union {""}
        BY NoneHeld
      <4> HIDE DEF none, scale, cfn
      <4>2. x = [kind |-> kind, n |-> n, args |-> args, host |-> none, dev |-> 0, scale |-> scale, cfn |-> cfn]
        BY <2>6 DEF none, scale, cfn
      <4>3. kind \in DOMAIN Arity /\ args \in Seq(Nat) /\ n \in Nat
        BY <2>1, <2>5, <3>1
      <4> QED BY ONLY <4>1, <4>2, <4>3, IsVertex
    <3> QED BY <2>1, <2>2, <2>5, <2>7, <3>1, <3>2 DEF Fitting
  <2>9. DOMAIN means = 1 .. n /\ means = [i \in 1 .. x.n |-> means[i]]
    BY <2>1, <2>7
  <2>10. ASSUME NEW i \in 0 .. x.n - 1 PROVE means[i + 1] = Worked(nodes, val, x, i)
    <3>1. i + 1 \in 1 .. n /\ val[k][i] = f[i + 1] /\ val[j][i] = g[i + 1]
      <4>1. n \in Nat /\ i \in 0 .. n - 1
        BY <2>1, <2>7
      <4>2. i + 1 \in 1 .. n /\ Shifted(f, n)[i] = f[i + 1] /\ Shifted(g, n)[i] = g[i + 1]
        BY ONLY <4>1, ShiftedAt
      <4> QED BY ONLY <4>2, <2>1, <2>2
    <3>2. means[i + 1] = Paired(kind, f[i + 1], g[i + 1])
      BY <2>1, <3>1
    <3>3. Worked(nodes, val, x, i) = Paired(kind, val[k][i], val[j][i])
      <4>1. CASE kind = "opAdd"
        BY <2>5, <2>7, <4>1 DEF Worked, Paired
      <4>2. CASE kind = "opMul"
        BY <2>5, <2>7, <4>2 DEF Worked, Paired
      <4>3. CASE kind = "opHypot"
        BY <2>5, <2>7, <4>3 DEF Worked, Paired
      <4> QED BY <4>1, <4>2, <4>3
    <3> QED BY <3>1, <3>2, <3>3
  <2> HIDE DEF means
  <2>11. Joining(nodes, val, x, means)
    BY <2>7, <2>8, <2>9, <2>10 DEF Joining, AnInput, N
  <2> QED BY <2>3, <2>11, OneAdded
<1> QED BY <1>1, <1>2

(* FIR refuses a signal that a filter is in already. *)
LEMMA NoFilterIsPlain ==
  ASSUME NEW ns, Shaped(ns), NEW y \in DOMAIN ns, ~containsFIR(ns, y)
  PROVE  Plain(ns, y)
<1>1. PICK f : /\ \A n \in DOMAIN ns : f[n] = (ns[n].kind = "opFIR" \/ \E i \in DOMAIN ns[n].args : f[ns[n].args[i]])
               /\ \A r \in DOMAIN ns : containsFIR(ns, r) = f[r]
  BY ContainsFIRIs
<1> DEFINE S == {x \in DOMAIN ns : ~f[x]}
<1>2. y \in S /\ S \in SUBSET DOMAIN ns
  BY <1>1
<1>3. ASSUME NEW s \in S PROVE ns[s].kind # "opFIR" /\ \A i \in DOMAIN ns[s].args : ns[s].args[i] \in S
  <2>1. ns[s].kind # "opFIR" /\ \A i \in DOMAIN ns[s].args : ~f[ns[s].args[i]]
    BY <1>1
  <2>2. \A i \in DOMAIN ns[s].args : ns[s].args[i] \in DOMAIN ns
    BY Arguments
  <2> QED BY <2>1, <2>2
<1> HIDE DEF S
<1> QED BY <1>2, <1>3 DEF Plain

(* An input of the graph, the author's or the coefficients of a filter. *)
LEMMA InputJoins ==
  ASSUME NEW ns \in Seq(Vertex), NEW val, NEW xs \in Seq(Int)
  PROVE  Joining(ns, val, InputNode(xs), xs) /\ InputNode(xs).kind = "opInput" /\ InputNode(xs).n = Len(xs)
<1> DEFINE x == InputNode(xs)
           n == Len(xs)
           none == <<>>
           args == <<>>
           zero == 0
           nil == ""
           kind == "opInput"
           N == Len(ns)
<1>1. x = [kind |-> kind, n |-> n, args |-> args, host |-> xs, dev |-> 0, scale |-> zero, cfn |-> nil]
  <2> DEFINE y == Node("opInput", n, args)
  <2>1. y = [kind |-> "opInput", n |-> n, args |-> args, host |-> none, dev |-> 0, scale |-> 0, cfn |-> ""]
    BY DEF Node
  <2>2. x = [y EXCEPT !.host = xs]
    BY DEF InputNode
  <2> HIDE DEF x, y, args, n, none
  <2>3. x = [kind |-> "opInput", n |-> n, args |-> args, host |-> xs, dev |-> 0, scale |-> 0, cfn |-> ""]
    BY ONLY <2>1, <2>2
  <2> QED BY <2>3
<1>2. n \in Nat /\ xs = [i \in 1 .. n |-> xs[i]] /\ N \in Nat
  OBVIOUS
<1>3. args \in Seq(1 .. N) /\ args \in Seq(Nat) /\ Len(args) = 0 /\ DOMAIN args = {}
  OBVIOUS
<1>4. kind \in DOMAIN Arity /\ Arity[kind] = 0 /\ zero \in Int /\ nil \in DOMAIN Apply1 \union {""}
  BY DEF Arity
<1>5. kind = "opInput" /\ kind # "opFIR"
  OBVIOUS
<1> HIDE DEF x, n, none, args, zero, nil, kind
<1>6. x \in Vertex
  BY ONLY <1>1, <1>2, <1>3, <1>4, IsVertex, xs \in Seq(Int)
<1>7. x.kind = kind /\ x.n = n /\ x.args = args /\ x.host = xs
  BY ONLY <1>1
<1>8. Fitting(ns, N, x)
  <2>1. Len(x.args) = Arity[x.kind]
    BY <1>3, <1>4, <1>7
  <2>2. x.args \in Seq(1 .. N)
    BY <1>3, <1>7
  <2> HIDE DEF N
  <2> QED BY ONLY <1>3, <1>5, <1>6, <1>7, <2>1, <2>2 DEF Fitting
<1>9. AnInput(x, Shifted(xs, x.n))
  BY <1>2, <1>7 DEF AnInput, Shifted, Array, n
<1>10. Joining(ns, val, x, xs)
  BY <1>2, <1>5, <1>7, <1>8, <1>9 DEF Joining
<1> QED BY <1>5, <1>7, <1>10 DEF x, n

(* Input. *)
LEMMA InputDrawn ==
  ASSUME DataAssumption, NEW val, Drawn(nodes, tensors, err, val), Input
  PROVE  \E v : Drawn(nodes', tensors', err', v)
<1> DEFINE xs == Signals[Newest + 1]
<1>1. Add(<<InputNode(xs)>>, xs) /\ err = FALSE /\ Newest < Len(Signals)
  BY DEF Input, MayBuild
<1>2. xs \in Seq(Int)
  <2>1. Signals \in Seq(Seq(Int)) /\ Newest \in Nat
    BY DEF DataAssumption, Drawn, Handles, Newest
  <2>2. Newest + 1 \in 1 .. Len(Signals)
    BY <1>1, <2>1
  <2> QED BY ONLY <2>1, <2>2
<1> HIDE DEF xs
<1>3. nodes \in Seq(Vertex)
  BY DEF Drawn
<1>4. Joining(nodes, val, InputNode(xs), xs)
  BY ONLY <1>2, <1>3, InputJoins
<1> QED BY <1>1, <1>4, OneAdded

(* What FIR is defined to compute is what its node computes: the sum over the taps that reach a sample. *)
LEMMA FilteredIsSum ==
  ASSUME NEW n \in Nat, NEW f, NEW h \in Seq(Int), NEW i \in 0 .. n - 1, DOMAIN f = 1 .. n
  PROVE  Filtered(f, h)[i + 1] = Sum(Shifted(h, Len(h)), Len(h), Shifted(f, n), i)
<1> DEFINE L == Len(h)
           g == Shifted(h, L)
           y == Shifted(f, n)
           one(k) == IF i + 1 - k > 0 THEN h[k + 1] * f[i + 1 - k] ELSE 0
           two(k) == g[k] * Tap(y, i - k)
<1>1. L \in Nat /\ \A k \in 1 .. L : h[k] \in Int
  OBVIOUS
<1>2. ASSUME NEW k \in 0 .. L - 1 PROVE one(k) = two(k)
  <2>1. g[k] = h[k + 1] /\ h[k + 1] \in Int
    BY <1>1 DEF Shifted
  <2>2. CASE i - k >= 0
    <3>1. i - k \in 0 .. n - 1 /\ i - k + 1 = i + 1 - k /\ i + 1 - k > 0
      BY <2>2
    <3>2. y[i - k] = f[i + 1 - k]
      BY <3>1 DEF Shifted
    <3>3. Tap(y, i - k) = f[i + 1 - k]
      BY <2>2, <3>2 DEF Tap
    <3>4. one(k) = h[k + 1] * f[i + 1 - k]
      BY <3>1
    <3> QED BY <2>1, <3>3, <3>4
  <2>3. CASE ~(i - k >= 0)
    <3>1. Tap(y, i - k) = 0 /\ ~(i + 1 - k > 0)
      BY <2>3 DEF Tap
    <3> QED BY <2>1, <3>1
  <2> QED BY <2>2, <2>3
<1>3. [k \in 0 .. L - 1 |-> one(k)] = [k \in 0 .. L - 1 |-> two(k)]
  BY <1>2
<1>4. i + 1 \in DOMAIN f
  OBVIOUS
<1>5. Filtered(f, h)[i + 1] = SumFunction([k \in 0 .. L - 1 |-> one(k)])
  BY <1>4 DEF Filtered
<1>6. Sum(g, L, y, i) = SumFunction([k \in 0 .. L - 1 |-> two(k)])
  BY DEF Sum
<1> QED BY <1>3, <1>5, <1>6

(* The node of a filter fits. *)
LEMMA FilterJoins ==
  ASSUME NEW ns \in Seq(Vertex), NEW val, Valued(ns, val), NEW k, NEW c, k \in DOMAIN ns, c \in DOMAIN ns,
         Plain(ns, k), ns[c].kind = "opInput", NEW h \in Seq(Int), ns[c].n = Len(h), Len(h) \in 1 .. MaxTaps,
         val[c] = Shifted(h, Len(h)),
         NEW f, DOMAIN f = 1 .. ns[k].n, val[k] = Shifted(f, ns[k].n)
  PROVE  Joining(ns, val, Node("opFIR", ns[k].n, <<k, c>>), Filtered(f, h))
<1> DEFINE x == Node("opFIR", ns[k].n, <<k, c>>)
           n == ns[k].n
           N == Len(ns)
           means == Filtered(f, h)
           args == <<k, c>>
           none == <<>>
           zero == 0
           nil == ""
           kind == "opFIR"
<1>1. N \in Nat /\ DOMAIN ns = 1 .. N /\ \A j \in DOMAIN ns : ns[j] \in Vertex
  OBVIOUS
<1>2. n \in Nat
  <2>1. ns[k] \in Vertex
    BY <1>1
  <2> QED BY <2>1 DEF Vertex
<1>3. x = [kind |-> kind, n |-> n, args |-> args, host |-> none, dev |-> 0, scale |-> zero, cfn |-> nil]
  BY DEF Node
<1>4. kind \in DOMAIN Arity /\ Arity[kind] = 2 /\ zero \in Int /\ nil \in DOMAIN Apply1 \union {""}
  BY DEF Arity
<1>5. kind = "opFIR" /\ none \in Seq(Int)
  BY NoneHeld
<1> HIDE DEF N
<1>6. args \in Seq(1 .. N) /\ args \in Seq(Nat) /\ Len(args) = 2 /\ DOMAIN args = {1, 2} /\ args[1] = k /\ args[2] = c
  <2>1. k \in 1 .. N /\ c \in 1 .. N
    BY <1>1
  <2> QED BY ONLY <1>1, <2>1, TwoArguments
<1> HIDE DEF x, n, none, args, zero, nil, kind, means
<1>7. x \in Vertex
  BY ONLY <1>2, <1>3, <1>4, <1>5, <1>6, IsVertex
<1>8. x.kind = kind /\ x.n = n /\ x.args = args
  BY ONLY <1>3
<1>9. Fitting(ns, N, x)
  <2>1. x.args \in Seq(1 .. N) /\ Len(x.args) = Arity[x.kind]
    BY <1>4, <1>6, <1>8
  <2>2. x.args[1] = k /\ x.args[2] = c /\ ns[k].n = x.n
    BY <1>6, <1>8 DEF n
  <2>3. Plain(ns, k) /\ ns[c].kind = "opInput" /\ ns[c].n \in 1 .. MaxTaps
    OBVIOUS
  <2> QED BY ONLY <1>5, <1>7, <1>8, <2>1, <2>2, <2>3 DEF Fitting
<1>10. means = [i \in 1 .. x.n |-> means[i]]
  <2>1. DOMAIN f = 1 .. x.n
    BY <1>8 DEF n
  <2> QED BY <2>1 DEF means, Filtered
<1>11. x.kind = "opFIR" /\ x.kind # "opInput"
  BY <1>5, <1>8
<1>12. ASSUME NEW i \in 0 .. x.n - 1 PROVE means[i + 1] = Worked(ns, val, x, i)
  <2>1. Worked(ns, val, x, i) = Sum(val[c], ns[c].n, val[k], i)
    BY <1>6, <1>8, <1>11 DEF Worked
  <2>2. i \in 0 .. n - 1 /\ DOMAIN f = 1 .. n
    BY <1>8 DEF n
  <2>3. means[i + 1] = Sum(Shifted(h, Len(h)), Len(h), Shifted(f, n), i)
    BY <1>2, <2>2, FilteredIsSum DEF means
  <2> QED BY <2>1, <2>3 DEF n
<1>13. Joining(ns, val, x, means)
  BY <1>9, <1>10, <1>11, <1>12 DEF Joining, AnInput, N
<1> QED BY <1>13 DEF x, means

(* FIR, refused or not: an input with the coefficients, and the filter on it. *)
LEMMA FIRDrawn ==
  ASSUME DataAssumption, NEW val, Drawn(nodes, tensors, err, val), NEW a \in DOMAIN tensors, NEW h \in Filters, FIR(a, h)
  PROVE  \E v : Drawn(nodes', tensors', err', v)
<1> DEFINE k == tensors[a].node
           N == Len(nodes)
           n == NodeOf(a).n
           f == Means(a)
           plain == Len(h) \in 1 .. MaxTaps /\ ~containsFIR(nodes, k)
<1>1. CASE ~plain
  <2>1. Fail(a)
    BY <1>1 DEF FIR
  <2> QED BY <2>1, RefusedDrawn
<1>2. CASE plain
  <2> DEFINE c == InputNode(h)
             ns == nodes \o <<c>>
             x == Node("opFIR", n, <<k, N + 1>>)
             w == Extended(N, val, c, h)
             means == Filtered(f, h)
             v == Extended(N + 1, w, x, means)
             t == [node |-> N + 2, means |-> means, legal |-> TRUE]
             ms == nodes'
  <2>1. Add(<<c, x>>, means) /\ err = FALSE
    BY <1>2 DEF FIR, MayBuild
  <2>2. nodes \in Seq(Vertex) /\ Valued(nodes, val) /\ Shaped(nodes) /\ Handles(tensors, nodes, val) /\ Told(tensors, FALSE)
    BY <2>1 DEF Drawn, Valued, WellMade
  <2>3. k \in 1 .. N /\ k \in DOMAIN nodes /\ N \in Nat /\ n \in Nat /\ n = nodes[k].n /\ DOMAIN f = 1 .. n
        /\ val[k] = Shifted(f, n)
    BY Operand
  <2>4. h \in Seq(Int) /\ Len(h) \in 1 .. MaxTaps
    BY <1>2 DEF DataAssumption
  <2>5. Joining(nodes, val, c, h) /\ c.kind = "opInput" /\ c.n = Len(h)
    BY <2>2, <2>4, InputJoins
  <2>6. c \in Vertex
    BY <2>5 DEF Joining, Fitting
  <2>7. ns \in Seq(Vertex) /\ Len(ns) = N + 1 /\ Longer(nodes, ns, N, c)
    BY <2>2, <2>6, OneJoined
  <2> HIDE DEF ns
  <2>8. Valued(ns, w)
    BY <2>2, <2>5, <2>7, NodeJoins
  <2>9. Plain(nodes, k)
    BY <1>2, <2>2, <2>3, NoFilterIsPlain
  <2>10. Plain(ns, k)
    BY <2>2, <2>3, <2>7, <2>9, PlainStays
  <2>11. /\ k \in DOMAIN ns /\ N + 1 \in DOMAIN ns /\ ns[k] = nodes[k] /\ ns[N + 1] = c
         /\ DOMAIN nodes \subseteq DOMAIN ns /\ DOMAIN nodes = 1 .. N
    BY <2>3, <2>7 DEF Longer
  <2>12. (\A j \in 1 .. N : w[j] = val[j]) /\ w[N + 1] = Shifted(h, Len(h)) /\ w[k] = val[k]
    <3> HIDE DEF c, k, N
    <3> QED BY <2>3, <2>5 DEF Extended
  <2> DEFINE e == N + 1
  <2>13. Joining(ns, w, Node("opFIR", ns[k].n, <<k, e>>), Filtered(f, h))
    <3>1. /\ k \in DOMAIN ns /\ e \in DOMAIN ns /\ Plain(ns, k) /\ ns[e].kind = "opInput" /\ ns[e].n = Len(h)
          /\ w[e] = Shifted(h, Len(h)) /\ DOMAIN f = 1 .. ns[k].n /\ w[k] = Shifted(f, ns[k].n)
      BY <2>3, <2>5, <2>10, <2>11, <2>12
    <3> HIDE DEF e, w, k, f
    <3> QED BY ONLY <2>4, <2>7, <2>8, <3>1, FilterJoins
  <2>14. Joining(ns, w, x, means)
    <3>1. ns[k].n = n
      BY <2>3, <2>11
    <3> QED BY <2>13, <3>1
  <2>15. x \in Vertex
    BY <2>14 DEF Joining, Fitting
  <2>16. ms \in Seq(Vertex) /\ Longer(ns, ms, N + 1, x)
    <3>1. ms = nodes \o <<c, x>>
      BY <2>1 DEF Add
    <3> HIDE DEF c, x, ms, N
    <3> QED BY <2>2, <2>6, <2>15, <3>1, TwoJoined DEF ns, N
  <2>17. Valued(ms, v)
    <3> HIDE DEF w, x, means, ms, v
    <3>1. Longer(ns, ms, Len(ns), x)
      BY <2>7, <2>16
    <3>2. Valued(ms, Extended(Len(ns), w, x, means))
      BY ONLY <2>7, <2>8, <2>14, <3>1, NodeJoins
    <3> QED BY <2>7, <3>2 DEF v
  <2>18. /\ AHandle(t, ms, v) /\ DOMAIN ns \subseteq DOMAIN ms
         /\ \A j \in DOMAIN ns : ms[j] = ns[j] /\ v[j] = w[j]
    <3> DEFINE l == N + 2
    <3>1. Longer(ns, ms, Len(ns), x) /\ l = Len(ns) + 1
      BY <2>3, <2>7, <2>16
    <3> HIDE DEF w, x, means, ms, l
    <3>2. /\ AHandle([node |-> l, means |-> means, legal |-> TRUE], ms, Extended(Len(ns), w, x, means))
          /\ DOMAIN ns \subseteq DOMAIN ms
          /\ \A j \in DOMAIN ns : ms[j] = ns[j] /\ Extended(Len(ns), w, x, means)[j] = w[j]
      BY ONLY <2>7, <2>14, <3>1, HandleOfNew
    <3> QED BY <2>7, <3>2 DEF l
  <2>19. DOMAIN nodes \subseteq DOMAIN ms /\ \A j \in DOMAIN nodes : ms[j] = nodes[j] /\ v[j] = val[j]
    <3>1. \A j \in DOMAIN nodes : j \in DOMAIN ns /\ ns[j] = nodes[j] /\ w[j] = val[j]
      BY <2>7, <2>11, <2>12 DEF Longer
    <3> HIDE DEF w, v, ms
    <3> QED BY <2>11, <2>18, <3>1
  <2>20. tensors' = Append(tensors, t) /\ err' = FALSE
    <3>1. tensors' = Append(tensors, [node |-> N + Len(<<c, x>>), means |-> means, legal |-> TRUE]) /\ err' = err
      BY <2>1 DEF Add
    <3>2. Len(<<c, x>>) = 2
      OBVIOUS
    <3> QED BY <2>1, <3>1, <3>2
  <2>21. t.legal = TRUE /\ Len(tensors) \in Nat
    BY <2>2 DEF Handles
  <2> DEFINE us == Append(tensors, t)
  <2> HIDE DEF t, v, ms
  <2>22. /\ Handles(us, ms, v) /\ Len(us) = Len(tensors) + 1
         /\ \A b \in 1 .. Len(tensors) : us[b] = tensors[b]
         /\ us[Len(tensors) + 1] = t
    <3>1. Handles(tensors, nodes, val) /\ AHandle(t, ms, v)
      BY <2>2, <2>18
    <3> DEFINE old == nodes
               ts == tensors
    <3>2. DOMAIN old \subseteq DOMAIN ms /\ \A j \in DOMAIN old : ms[j] = old[j] /\ v[j] = val[j]
      BY <2>19
    <3> HIDE DEF old, ts
    <3>3. Handles(ts, old, val) /\ AHandle(t, ms, v)
      BY <3>1 DEF old, ts
    <3>4. /\ Handles(Append(ts, t), ms, v) /\ Len(Append(ts, t)) = Len(ts) + 1
          /\ \A b \in 1 .. Len(ts) : Append(ts, t)[b] = ts[b]
          /\ Append(ts, t)[Len(ts) + 1] = t
      BY ONLY <3>2, <3>3, MoreHandles
    <3> QED BY <3>4 DEF ts
  <2> HIDE DEF us
  <2>23. Told(us, FALSE)
    BY <2>2, <2>21, <2>22, ToldOfNew
  <2>24. us = tensors' /\ err' = FALSE
    BY <2>20 DEF us
  <2>25. Drawn(ms, us, FALSE, v)
    BY ONLY <2>16, <2>17, <2>22, <2>23 DEF Drawn
  <2> QED BY <2>24, <2>25 DEF ms
<1> QED BY <1>1, <1>2

-----------------------------------------------------------------------------
(* The invariant.                                                          *)

(* What the author has drawn is what the calls assume. *)
LEMMA DrawnIsWorth ==
  ASSUME NEW val, Drawn(nodes, tensors, err, val)
  PROVE  Worth(val)
<1>1. nodes \in Seq(Vertex) /\ Valued(nodes, val)
  BY DEF Drawn
<1>2. ASSUME NEW x \in DOMAIN nodes PROVE nodes[x] \in Vertex
  BY ONLY <1>1, x \in DOMAIN nodes
<1>3. ASSUME NEW x \in DOMAIN nodes
      PROVE  ANode(nodes[x]) /\ nodes[x].dev = 0 /\ nodes[x].host \in Seq(Int)
  <2> DEFINE y == nodes[x]
  <2>1. y \in Vertex
    BY <1>2
  <2> HIDE DEF y
  <2>2. ANode(y) /\ y.dev = 0 /\ y.host \in Seq(Int)
    BY ONLY <2>1 DEF Vertex, ANode
  <2> QED BY <2>2 DEF y
<1>4. \A x \in DOMAIN nodes : AnInput(nodes[x], val[x])
  BY <1>1 DEF Valued
<1> QED BY <1>1, <1>3, <1>4 DEF Worth, Valued, AnInput

(* The array of what was asked for, listed, is what was asked for. *)
LEMMA ListedIsMeans ==
  ASSUME NEW n \in Nat, NEW f, f = [i \in 1 .. n |-> f[i]]
  PROVE  Listed(Shifted(f, n)) = f
<1> DEFINE y == Shifted(f, n)
<1>1. DOMAIN y = 0 .. n - 1 /\ \A i \in 1 .. n : y[i - 1] = f[i]
  BY DEF Shifted
<1> HIDE DEF y
<1>2. Cardinality(DOMAIN y) = n
  <2>1. Cardinality(0 .. n - 1) = IF 0 > n - 1 THEN 0 ELSE n - 1 - 0 + 1
    BY FS_Interval
  <2>2. (IF 0 > n - 1 THEN 0 ELSE n - 1 - 0 + 1) = n
    OBVIOUS
  <2> QED BY <1>1, <2>1, <2>2
<1>3. Listed(y) = [i \in 1 .. n |-> y[i - 1]]
  BY <1>2 DEF Listed
<1>4. [i \in 1 .. n |-> y[i - 1]] = [i \in 1 .. n |-> f[i]]
  BY <1>1
<1>5. Listed(y) = f
  BY ONLY <1>3, <1>4, f = [i \in 1 .. n |-> f[i]]
<1> QED BY <1>5 DEF y

(* The invariant: the graph is what the author's operations make, each node is worth what the author *)
(* asked for, and between two calls the device holds nothing for a context that still works.         *)
TileInv ==
  /\ \E val : Drawn(nodes, tensors, err, val)
  /\ AtHome(mem)
  /\ SameNumbers
  /\ EachOperationOnce

(* A new graph on a new context. *)
LEMMA InitTileInv == Init => TileInv
<1> SUFFICES ASSUME Init PROVE TileInv
  OBVIOUS
<1> DEFINE none == <<>>
<1>1. nodes = none /\ tensors = none /\ err = FALSE /\ mem = Untouched /\ answer = NoAnswer
  BY DEF Init
<1>2. none \in Seq(Vertex) /\ DOMAIN none = {} /\ DOMAIN none = 1 .. 0 /\ Len(none) = 0
      /\ none = [a \in 1 .. 0 |-> none[a]]
  OBVIOUS
<1> HIDE DEF none
<1>3. Valued(none, none)
  BY <1>2 DEF Valued, WellMade, Shaped, Solves
<1>4. Handles(none, none, none)
  BY <1>2 DEF Handles
<1>5. Told(none, FALSE)
  BY <1>2 DEF Told
<1>6. \E val : Drawn(nodes, tensors, err, val)
  BY <1>1, <1>2, <1>3, <1>4, <1>5 DEF Drawn
<1>7. AtHome(mem)
  <2>1. mem = [live |-> none, poisoned |-> FALSE, astray |-> FALSE, slices |-> none]
    BY <1>1 DEF Untouched, none
  <2>2. none \in Seq(Buffer)
    BY DEF none
  <2>3. mem.live = none /\ mem.poisoned = FALSE /\ mem.astray = FALSE /\ mem.slices = none
    BY ONLY <2>1
  <2>4. mem.live = <<>> /\ mem.slices = <<>>
    BY <2>3 DEF none
  <2>5. Tidy(mem)
    BY ONLY <2>1, <2>2, <2>3 DEF Tidy
  <2> QED BY <2>4, <2>5 DEF AtHome
<1> QED BY <1>1, <1>6, <1>7 DEF TileInv, SameNumbers, EachOperationOnce

(* The author goes on: nothing has been asked for yet. *)
LEMMA AuthorKeeps ==
  ASSUME TileInv, answer = NoAnswer, UNCHANGED <<mem, answer>>, \E v : Drawn(nodes', tensors', err', v)
  PROVE  TileInv'
BY DEF TileInv, SameNumbers, EachOperationOnce

(* The author's operations. *)
LEMMA AuthorStep ==
  ASSUME DataAssumption, TileInv,
         \/ Input
         \/ \E a \in DOMAIN tensors :
              \/ \E cfn \in DOMAIN Apply1 : Unary(a, cfn)
              \/ Scale(a)
              \/ \E b \in DOMAIN tensors \union {Elsewhere}, kind \in {"opAdd", "opMul", "opHypot"} : binary(a, b, kind)
              \/ \E h \in Filters : FIR(a, h)
  PROVE  TileInv'
<1>1. PICK val : Drawn(nodes, tensors, err, val)
  BY DEF TileInv
<1>2. CASE Input
  <2>1. answer = NoAnswer /\ UNCHANGED <<mem, answer>>
    BY <1>2 DEF Input, MayBuild, Add
  <2>2. \E v : Drawn(nodes', tensors', err', v)
    BY <1>1, <1>2, InputDrawn
  <2> QED BY <2>1, <2>2, AuthorKeeps
<1>3. ASSUME NEW a \in DOMAIN tensors, NEW cfn \in DOMAIN Apply1, Unary(a, cfn) PROVE TileInv'
  <2>1. answer = NoAnswer /\ UNCHANGED <<mem, answer>>
    BY <1>3 DEF Unary, MayBuild, Add
  <2>2. \E v : Drawn(nodes', tensors', err', v)
    BY <1>1, <1>3, UnaryDrawn
  <2> QED BY <2>1, <2>2, AuthorKeeps
<1>4. ASSUME NEW a \in DOMAIN tensors, Scale(a) PROVE TileInv'
  <2>1. answer = NoAnswer /\ UNCHANGED <<mem, answer>>
    BY <1>4 DEF Scale, MayBuild, Add
  <2>2. \E v : Drawn(nodes', tensors', err', v)
    BY <1>1, <1>4, ScaleDrawn
  <2> QED BY <2>1, <2>2, AuthorKeeps
<1>5. ASSUME NEW a \in DOMAIN tensors, NEW b \in DOMAIN tensors \union {Elsewhere},
             NEW kind \in {"opAdd", "opMul", "opHypot"}, binary(a, b, kind)
      PROVE  TileInv'
  <2>1. answer = NoAnswer /\ UNCHANGED <<mem, answer>>
    BY <1>5 DEF binary, MayBuild, Add, Fail
  <2>2. \E v : Drawn(nodes', tensors', err', v)
    BY <1>1, <1>5, BinaryDrawn
  <2> QED BY <2>1, <2>2, AuthorKeeps
<1>6. ASSUME NEW a \in DOMAIN tensors, NEW h \in Filters, FIR(a, h) PROVE TileInv'
  <2>1. answer = NoAnswer /\ UNCHANGED <<mem, answer>>
    BY <1>6 DEF FIR, MayBuild, Add, Fail
  <2>2. \E v : Drawn(nodes', tensors', err', v)
    BY <1>1, <1>6, FIRDrawn
  <2> QED BY <2>1, <2>2, AuthorKeeps
<1> QED BY <1>2, <1>3, <1>4, <1>5, <1>6

(* The tensor that is asked for. *)
LEMMA Asked ==
  ASSUME NEW val, Drawn(nodes, tensors, err, val), Newest > 0
  PROVE  /\ tensors[Newest].node \in DOMAIN nodes
         /\ Listed(val[tensors[Newest].node]) = tensors[Newest].means
         /\ err \in BOOLEAN /\ tensors[Newest].legal = ~err
<1>1. Newest \in 1 .. Len(tensors)
  BY DEF Drawn, Handles, Newest
<1> DEFINE t == tensors[Newest]
<1>2. AHandle(t, nodes, val)
  BY <1>1 DEF Drawn, Handles
<1>3. t.node \in DOMAIN nodes
  BY <1>2 DEF AHandle
<1>4. nodes[t.node] \in Vertex
  <2>1. nodes \in Seq(Vertex)
    BY DEF Drawn
  <2> HIDE DEF t
  <2> QED BY ONLY <1>3, <2>1
<1>5. nodes[t.node].n \in Nat
  BY <1>4 DEF Vertex
<1>6. Listed(Shifted(t.means, nodes[t.node].n)) = t.means
  BY <1>2, <1>5, ListedIsMeans DEF AHandle
<1>7. val[t.node] = Shifted(t.means, nodes[t.node].n)
  BY <1>2 DEF AHandle
<1>8. err \in BOOLEAN /\ t.legal = ~err
  BY <1>1 DEF Drawn, Told, Newest
<1> QED BY <1>3, <1>6, <1>7, <1>8

(* One computation: what it may give back is what was asked for, or a failure of the driver's. *)
LEMMA ComputeKeeps ==
  ASSUME TileInv, NEW val, Drawn(nodes, tensors, err, val), NEW how, NEW outcomes, Compute(how, outcomes),
         err = FALSE => \A a \in outcomes :
           /\ Returned(a, val[tensors[Newest].node])
           /\ how = "stepwise" /\ a.answer.err = "" =>
                a.answer.launches = Cardinality(Operations(Range(visits(nodes, tensors[Newest].node))))
  PROVE  TileInv'
<1>1. Newest > 0 /\ UNCHANGED <<nodes, err, tensors>>
  BY DEF Compute, graph
<1>2. /\ Listed(val[tensors[Newest].node]) = tensors[Newest].means
      /\ err \in BOOLEAN /\ tensors[Newest].legal = ~err
  BY <1>1, Asked
<1>3. /\ (\E v : Drawn(nodes, tensors, err, v))'
      /\ Newest' = Newest /\ tensors' = tensors /\ nodes' = nodes
  BY <1>1 DEF Newest
<1>4. PICK o \in IF err THEN {[mem |-> mem, answer |-> [err |-> "graph", vals |-> <<>>, launches |-> 0]]} ELSE outcomes :
        /\ mem' = o.mem
        /\ answer' = [how |-> how, err |-> o.answer.err, vals |-> o.answer.vals, launches |-> o.answer.launches]
  BY DEF Compute
<1>5. answer'.how = how /\ answer'.err = o.answer.err /\ answer'.vals = o.answer.vals /\ answer'.launches = o.answer.launches
  BY <1>4
<1>6. CASE err = TRUE
  <2>1. o.mem = mem /\ o.answer.err = "graph"
    BY <1>4, <1>6
  <2>2. mem' = mem /\ answer'.err = "graph"
    BY <1>4, <1>5, <2>1
  <2>3. AtHome(mem')
    BY <2>2 DEF TileInv
  <2>4. SameNumbers'
    BY <1>2, <1>3, <1>6, <2>2 DEF SameNumbers
  <2>5. EachOperationOnce'
    BY <2>2 DEF EachOperationOnce
  <2> QED BY <1>3, <2>3, <2>4, <2>5 DEF TileInv
<1>7. CASE err = FALSE
  <2>1. /\ Returned(o, val[tensors[Newest].node])
        /\ how = "stepwise" /\ o.answer.err = "" =>
             o.answer.launches = Cardinality(Operations(Range(visits(nodes, tensors[Newest].node))))
    BY <1>4, <1>7
  <2>2. AtHome(mem')
    BY <1>4, <2>1 DEF Returned
  <2>3. SameNumbers'
    <3>1. answer'.err = "" => answer'.vals = tensors[Newest].means
      BY <1>2, <1>5, <2>1 DEF Returned
    <3>2. answer'.err # "" => answer'.err \in AnyFailure \union {"poisoned"}
      BY <1>5, <2>1 DEF Returned, Errors, AnyFailure
    <3>3. tensors[Newest].legal
      BY <1>2, <1>7
    <3> QED BY <1>3, <3>1, <3>2, <3>3 DEF SameNumbers
  <2>4. EachOperationOnce'
    <3> DEFINE S == Range(visits(nodes, tensors[Newest].node))
    <3>1. answer'.how = "stepwise" /\ answer'.err = "" => answer'.launches = Cardinality(Operations(S))
      BY <1>5, <2>1
    <3>2. Operations(S) = {n \in S : nodes[n].kind # "opInput"}
      BY DEF Operations
    <3> QED BY <1>3, <3>1, <3>2 DEF EachOperationOnce
  <2> QED BY <1>3, <2>2, <2>3, <2>4 DEF TileInv
<1> QED BY <1>2, <1>6, <1>7

(* Materialize. *)
LEMMA MaterializeStep == ASSUME SizesAssumption, TileInv, Materialize PROVE TileInv'
<1>1. PICK val : Drawn(nodes, tensors, err, val)
  BY DEF TileInv
<1> DEFINE r == tensors[Newest].node
           outcomes == Materialized(mem, r)
           how == "fused"
<1>2. Compute(how, outcomes) /\ how # "stepwise"
  BY DEF Materialize
<1>3. Worth(val) /\ AtHome(mem) /\ r \in DOMAIN nodes
  BY <1>1, <1>2, DrawnIsWorth, Asked DEF Compute, TileInv
<1>4. ASSUME NEW a \in outcomes PROVE Returned(a, val[r])
  BY <1>3, MaterializedOutcomes
<1> HIDE DEF outcomes, how
<1>5. \A a \in outcomes :
        /\ Returned(a, val[tensors[Newest].node])
        /\ how = "stepwise" /\ a.answer.err = "" =>
             a.answer.launches = Cardinality(Operations(Range(visits(nodes, tensors[Newest].node))))
  BY <1>2, <1>4
<1> QED BY ONLY <1>1, <1>2, <1>5, TileInv, ComputeKeeps

(* MaterializeStepwise. *)
LEMMA StepwiseStep == ASSUME SizesAssumption, TileInv, MaterializeStepwise PROVE TileInv'
<1>1. PICK val : Drawn(nodes, tensors, err, val)
  BY DEF TileInv
<1> DEFINE r == tensors[Newest].node
           outcomes == Stepwise(mem, r)
           how == "stepwise"
<1>2. Compute(how, outcomes)
  BY DEF MaterializeStepwise
<1>3. Worth(val) /\ AtHome(mem) /\ r \in DOMAIN nodes
  BY <1>1, <1>2, DrawnIsWorth, Asked DEF Compute, TileInv
<1>4. ASSUME NEW a \in outcomes
      PROVE  /\ Returned(a, val[r])
             /\ a.answer.err = "" => a.answer.launches = Cardinality(Operations(Range(visits(nodes, r))))
  BY <1>3, StepwiseOutcomes
<1> HIDE DEF outcomes, how
<1>5. \A a \in outcomes :
        /\ Returned(a, val[tensors[Newest].node])
        /\ how = "stepwise" /\ a.answer.err = "" =>
             a.answer.launches = Cardinality(Operations(Range(visits(nodes, tensors[Newest].node))))
  BY <1>4
<1> QED BY ONLY <1>1, <1>2, <1>5, TileInv, ComputeKeeps

(* Every step. *)
LEMMA NextTileInv == ASSUME SizesAssumption, DataAssumption, TileInv, [Next]_vars PROVE TileInv'
<1>1. CASE UNCHANGED vars
  BY <1>1 DEF vars, graph, TileInv, SameNumbers, EachOperationOnce, Newest
<1>2. CASE Materialize
  BY <1>2, MaterializeStep
<1>3. CASE MaterializeStepwise
  BY <1>3, StepwiseStep
<1>4. CASE ~UNCHANGED vars /\ ~Materialize /\ ~MaterializeStepwise
  BY <1>4, AuthorStep DEF Next
<1> QED BY <1>1, <1>2, <1>3, <1>4

(* For every graph and every driver (SizesAssumption, DataAssumption). *)
THEOREM TileInvariance == Spec => []TileInv
<1>1. SizesAssumption /\ DataAssumption
  BY SizesAssumption, DataAssumption
<1> QED BY <1>1, InitTileInv, NextTileInv, PTL DEF Spec

(* The author's operations make graphs in which every operation has its arguments before it and of its own *)
(* length, and no filter is below another: what codegen.go and run.go rely on and do not check again.      *)
THEOREM GraphsAreWellMade == Spec => []WellMade(nodes)
<1>1. TileInv => WellMade(nodes)
  BY DEF TileInv, Drawn, Valued
<1> QED BY <1>1, TileInvariance, PTL

(* Materialize and MaterializeStepwise return what the author's operations say; only a driver that fails, a *)
(* poisoned context or an operation that was refused keeps them from it.                                    *)
THEOREM NumbersAreRight == Spec => []SameNumbers
<1>1. TileInv => SameNumbers
  BY DEF TileInv
<1> QED BY <1>1, TileInvariance, PTL

(* A call frees what it took, once, whichever of its driver calls fails; the driver sees live addresses only. *)
THEOREM EveryBufferComesHome == Spec => []BuffersComeHome
<1>1. TileInv => BuffersComeHome
  BY DEF TileInv, BuffersComeHome, AtHome, Tidy
<1> QED BY <1>1, TileInvariance, PTL

(* MaterializeStepwise launches one kernel for each operation below the tensor, shared or not. *)
THEOREM OneKernelEach == Spec => []EachOperationOnce
<1>1. TileInv => EachOperationOnce
  BY DEF TileInv
<1> QED BY <1>1, TileInvariance, PTL
=============================================================================
