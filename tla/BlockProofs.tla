----------------------------- MODULE BlockProofs -----------------------------
(***************************************************************************)
(* For a block of any threads in any warps, whatever calls they make: the  *)
(* counters of its barriers are exact, silence means a convergent kernel   *)
(* in which nothing went wrong, and a convergent kernel is never diagnosed *)
(* unless a timer fires on a thread that is merely slow.                   *)
(***************************************************************************)
EXTENDS Block, FiniteSetTheorems, SequenceTheorems, TLAPS

(* The threads whose arrival at the generation a warp is assembling counts.
   *)
Parked(w) == InMeet(w) \union InPart(w)

(* Any set of threads is finite, so the counters compare with cardinals. *)
LEMMA ThreadSets ==
  ASSUME NEW S \in SUBSET Thread
  PROVE  IsFiniteSet(S) /\ Cardinality(S) \in Nat
BY ThreadAssumption, FS_Subset, FS_CardinalityType

(* The sets behind the counters are sets of threads, and a waiter is in
   them. *)
LEMMA Shape ==
  /\ InBlock \in SUBSET Thread /\ InSync \in SUBSET InBlock
  /\ \A w \in Warp : /\ Mates(w) \in SUBSET Thread
                     /\ InWarp(w) \in SUBSET Mates(w)
                     /\ Parked(w) \in SUBSET InWarp(w)
BY DEF InBlock, InSync, Mates, InWarp, Parked, InMeet, InPart

(* A thread is in one warp. *)
LEMMA Crew ==
  ASSUME NEW t \in Thread
  PROVE  WarpOf[t] \in Warp /\ \A w \in Warp : t \in Mates(w) <=> w = WarpOf[t]
BY ThreadAssumption DEF Mates

(* Counting: one party more or one fewer, at any barrier. *)
LEMMA CountOne ==
  ASSUME NEW All \in SUBSET Thread, NEW In \in SUBSET All, NEW t \in All \ In
  PROVE  /\ Cardinality(In) + 1 >= Cardinality(All) => In \union {t} = All
         /\ Cardinality(In) + 1 < Cardinality(All) => In \union {t} # All
         /\ Cardinality(In \union {t}) = Cardinality(In) + 1
         /\ Cardinality(All) - 1 \in Nat
         /\ Cardinality(All \ {t}) = Cardinality(All) - 1
         /\ Cardinality(In) >= Cardinality(All) - 1 => In = All \ {t}
         /\ Cardinality(In) < Cardinality(All) - 1 => In # All \ {t}
         /\ Cardinality(All) - 1 = 0 <=> All \ {t} = {}
<1> DEFINE n == Cardinality(All)
           count == Cardinality(In)
<1>1. /\ IsFiniteSet(In) /\ IsFiniteSet(All) /\ IsFiniteSet(All \ {t})
      /\ In \union {t} \in SUBSET All /\ In \in SUBSET (All \ {t})
  BY ThreadSets
<1>2. n \in Nat /\ count \in Nat
  BY <1>1, FS_CardinalityType
<1>3. Cardinality(In \union {t}) = count + 1
  BY <1>1, FS_AddElement
<1>4. /\ Cardinality(In \union {t}) <= n
      /\ Cardinality(In \union {t}) = n => In \union {t} = All
  BY <1>1, FS_Subset
<1>5. In \union {t} = All => count + 1 = n
  BY <1>3
<1>6. Cardinality(All \ {t}) = n - 1
  BY <1>1, FS_RemoveElement
<1>7. /\ count <= Cardinality(All \ {t})
      /\ count = Cardinality(All \ {t}) => In = All \ {t}
  BY <1>1, FS_Subset
<1>8. In = All \ {t} => count = Cardinality(All \ {t})
  OBVIOUS
<1>9. Cardinality(All \ {t}) \in Nat
  BY <1>1, FS_CardinalityType
<1>10. Cardinality(All \ {t}) = 0 <=> All \ {t} = {}
  BY <1>1, FS_EmptySet
<1> HIDE DEF n, count
<1>11. /\ count + 1 >= n => In \union {t} = All
       /\ count + 1 < n => In \union {t} # All
       /\ n - 1 \in Nat
       /\ count >= n - 1 => In = All \ {t}
       /\ count < n - 1 => In # All \ {t}
       /\ n - 1 = 0 <=> All \ {t} = {}
  BY <1>2, <1>3, <1>4, <1>5, <1>6, <1>7, <1>8, <1>9, <1>10
<1> QED
  BY <1>2, <1>3, <1>6, <1>11 DEF n, count

(* Counting: a waiter fewer. *)
LEMMA CountFewer ==
  ASSUME NEW In \in SUBSET Thread, NEW t \in In
  PROVE  Cardinality(In) - 1 \in Nat /\ Cardinality(In \ {t}) = Cardinality(In) - 1
<1>1. IsFiniteSet(In) /\ IsFiniteSet(In \ {t})
  BY ThreadSets
<1>2. Cardinality(In \ {t}) = Cardinality(In) - 1
  BY <1>1, FS_RemoveElement
<1> QED
  BY <1>1, <1>2, FS_CardinalityType

(* The block barrier's fields and their types. *)
LEMMA BarType ==
  ASSUME TypeOK
  PROVE  /\ bar = [n |-> bar.n, count |-> bar.count, cur |-> bar.cur]
         /\ bar.n \in Nat /\ bar.count \in Nat /\ bar.cur \in Nat
BY DEF TypeOK

(* The same for a warp's. *)
LEMMA WarpBarType ==
  ASSUME TypeOK, NEW w \in Warp
  PROVE  LET b == wbar[w]
         IN  /\ b = [n |-> b.n, count |-> b.count, mask |-> b.mask,
                     cur |-> b.cur, opened |-> b.opened]
             /\ b.n \in Nat /\ b.count \in Nat /\ b.mask \in SUBSET Thread
             /\ b.cur \in Nat /\ b.opened \in Seq(SUBSET Thread)
             /\ Len(b.opened) = b.cur
             /\ b \in WarpBars
<1>1. wbar[w] \in WarpBars /\ Len(wbar[w].opened) = wbar[w].cur
  BY DEF TypeOK
<1> QED
  BY <1>1 DEF WarpBars

(* warpBarrier.wait before the last arrival, field by field, ... *)
LEMMA Joining ==
  ASSUME NEW b \in WarpBars, NEW t \in Thread, b.count + 1 < b.n
  PROVE  /\ WarpArrive(b, t).n = b.n
         /\ WarpArrive(b, t).count = b.count + 1
         /\ WarpArrive(b, t).mask = b.mask \union {t}
         /\ WarpArrive(b, t).cur = b.cur
         /\ WarpArrive(b, t).opened = b.opened
         /\ WarpArrive(b, t) \in WarpBars
<1> DEFINE c == b.count + 1
           m == b.mask \union {t}
<1>1. c \in Nat /\ m \in SUBSET Thread
  BY DEF WarpBars
<1>2. WarpArrive(b, t) = [b EXCEPT !.count = c, !.mask = m]
  BY DEF WarpBars, WarpArrive, Assembled
<1> HIDE DEF c, m
<1>3. [b EXCEPT !.count = c, !.mask = m] \in WarpBars
  BY <1>1 DEF WarpBars
<1>4. /\ [b EXCEPT !.count = c, !.mask = m].n = b.n
      /\ [b EXCEPT !.count = c, !.mask = m].count = c
      /\ [b EXCEPT !.count = c, !.mask = m].mask = m
      /\ [b EXCEPT !.count = c, !.mask = m].cur = b.cur
      /\ [b EXCEPT !.count = c, !.mask = m].opened = b.opened
  BY DEF WarpBars
<1> QED
  BY <1>2, <1>3, <1>4 DEF c, m

(* ... at the last one, ... *)
LEMMA Opening ==
  ASSUME NEW b \in WarpBars, NEW t \in Thread, b.count + 1 >= b.n
  PROVE  WarpArrive(b, t) = [n |-> b.n, count |-> 0, mask |-> {}, cur |-> b.cur + 1,
                             opened |-> Append(b.opened, b.mask \union {t})]
BY DEF WarpBars, WarpArrive, Assembled, WarpReleaseLocked

(* ... warpBarrier.abandon that nobody waits for, ... *)
LEMMA Leaving ==
  ASSUME NEW b \in WarpBars, ~ (b.n - 1 > 0 /\ b.count >= b.n - 1)
  PROVE  WarpAbandon(b) = [n |-> b.n - 1, count |-> b.count, mask |-> b.mask,
                           cur |-> b.cur, opened |-> b.opened]
BY DEF WarpBars, WarpAbandon, Assembled, WarpReleaseLocked

(* ... and one that the others were waiting for. *)
LEMMA LeavingLast ==
  ASSUME NEW b \in WarpBars, b.n - 1 > 0, b.count >= b.n - 1
  PROVE  WarpAbandon(b) = [n |-> b.n - 1, count |-> 0, mask |-> {}, cur |-> b.cur + 1,
                           opened |-> Append(b.opened, b.mask)]
BY DEF WarpBars, WarpAbandon, Assembled, WarpReleaseLocked

(* A waiter that times out takes its arrival and its lane back. *)
LEMMA TakingBack ==
  ASSUME NEW b \in WarpBars, NEW t, b.count - 1 \in Nat
  PROVE  /\ WarpTakeBack(b, t).n = b.n
         /\ WarpTakeBack(b, t).count = b.count - 1
         /\ WarpTakeBack(b, t).mask = b.mask \ {t}
         /\ WarpTakeBack(b, t).cur = b.cur
         /\ WarpTakeBack(b, t).opened = b.opened
         /\ WarpTakeBack(b, t) \in WarpBars
<1> DEFINE c == b.count - 1
           m == b.mask \ {t}
<1>1. c \in Nat /\ m \in SUBSET Thread
  BY DEF WarpBars
<1>2. WarpTakeBack(b, t) = [b EXCEPT !.count = c, !.mask = m]
  BY DEF WarpBars, WarpTakeBack
<1> HIDE DEF c, m
<1>3. [b EXCEPT !.count = c, !.mask = m] \in WarpBars
  BY <1>1 DEF WarpBars
<1>4. /\ [b EXCEPT !.count = c, !.mask = m].n = b.n
      /\ [b EXCEPT !.count = c, !.mask = m].count = c
      /\ [b EXCEPT !.count = c, !.mask = m].mask = m
      /\ [b EXCEPT !.count = c, !.mask = m].cur = b.cur
      /\ [b EXCEPT !.count = c, !.mask = m].opened = b.opened
  BY DEF WarpBars
<1> QED
  BY <1>2, <1>3, <1>4 DEF c, m

(* A warp's counters and mask are those of its threads ... *)
LEMMA WarpCounts ==
  ASSUME TypeOK, WarpExact, NEW w \in Warp
  PROVE  /\ wbar[w] \in WarpBars /\ Len(wbar[w].opened) = wbar[w].cur
         /\ wbar[w].mask = Parked(w) /\ wbar[w].count = Cardinality(Parked(w))
         /\ wbar[w].n = Cardinality(InWarp(w))
         /\ wbar[w].n \in Nat /\ wbar[w].count \in Nat /\ wbar[w].cur \in Nat
         /\ Parked(w) \in SUBSET InWarp(w) /\ InWarp(w) \in SUBSET Thread
         /\ wbar[w].opened \in Seq(SUBSET Thread)
<1>1. wbar[w].mask = Parked(w) /\ wbar[w].count = Cardinality(Parked(w)) /\
        wbar[w].n = Cardinality(InWarp(w))
  BY DEF WarpExact, MaskExact, Parked
<1> QED
  BY <1>1, WarpBarType, Shape

(* ... and tell whether one more, or one fewer, makes everybody. *)
LEMMA WarpCountOne ==
  ASSUME TypeOK, WarpExact, NEW w \in Warp, NEW t \in InWarp(w) \ Parked(w)
  PROVE  /\ wbar[w].count + 1 >= wbar[w].n => Parked(w) \union {t} = InWarp(w)
         /\ wbar[w].count + 1 < wbar[w].n => Parked(w) \union {t} # InWarp(w)
         /\ Cardinality(Parked(w) \union {t}) = wbar[w].count + 1
         /\ wbar[w].n - 1 \in Nat
         /\ Cardinality(InWarp(w) \ {t}) = wbar[w].n - 1
         /\ wbar[w].count >= wbar[w].n - 1 => Parked(w) = InWarp(w) \ {t}
         /\ wbar[w].count < wbar[w].n - 1 => Parked(w) # InWarp(w) \ {t}
         /\ wbar[w].n - 1 = 0 <=> InWarp(w) \ {t} = {}
<1> DEFINE all == InWarp(w)
           in == Parked(w)
<1>1. /\ in \in SUBSET all /\ all \in SUBSET Thread /\ t \in all \ in
      /\ wbar[w].count = Cardinality(in) /\ wbar[w].n = Cardinality(all)
  BY WarpCounts
<1> HIDE DEF all, in
<1>2. /\ Cardinality(in) + 1 >= Cardinality(all) => in \union {t} = all
      /\ Cardinality(in) + 1 < Cardinality(all) => in \union {t} # all
      /\ Cardinality(in \union {t}) = Cardinality(in) + 1
      /\ Cardinality(all) - 1 \in Nat
      /\ Cardinality(all \ {t}) = Cardinality(all) - 1
      /\ Cardinality(in) >= Cardinality(all) - 1 => in = all \ {t}
      /\ Cardinality(in) < Cardinality(all) - 1 => in # all \ {t}
      /\ Cardinality(all) - 1 = 0 <=> all \ {t} = {}
  BY <1>1, CountOne
<1>3. /\ wbar[w].count + 1 >= wbar[w].n => in \union {t} = all
      /\ wbar[w].count + 1 < wbar[w].n => in \union {t} # all
      /\ Cardinality(in \union {t}) = wbar[w].count + 1
      /\ wbar[w].n - 1 \in Nat
      /\ Cardinality(all \ {t}) = wbar[w].n - 1
      /\ wbar[w].count >= wbar[w].n - 1 => in = all \ {t}
      /\ wbar[w].count < wbar[w].n - 1 => in # all \ {t}
      /\ wbar[w].n - 1 = 0 <=> all \ {t} = {}
  BY <1>1, <1>2
<1> QED
  BY <1>3 DEF all, in

(* What an arrival does to a warp's barrier that is not the last, ... *)
LEMMA WarpJoins ==
  ASSUME TypeOK, WarpExact, NEW w \in Warp, NEW t \in InWarp(w) \ Parked(w),
         NEW a, a = WarpArrive(wbar[w], t),
         wbar[w].count + 1 < wbar[w].n
  PROVE  /\ a \in WarpBars /\ Len(a.opened) = a.cur
         /\ a.n = wbar[w].n /\ a.mask = Parked(w) \union {t}
         /\ a.cur = wbar[w].cur /\ a.opened = wbar[w].opened
         /\ Parked(w) \union {t} # InWarp(w)
         /\ a.count = Cardinality(a.mask)
<1>1. t \in Thread /\ InWarp(w) \in SUBSET Thread /\ Parked(w) \in SUBSET InWarp(w)
  BY Shape
<1>2. wbar[w].count + 1 < wbar[w].n => Parked(w) \union {t} # InWarp(w)
  BY WarpCountOne
<1>3. Cardinality(Parked(w) \union {t}) = wbar[w].count + 1
  BY WarpCountOne
<1>4. wbar[w] \in WarpBars /\ wbar[w].mask = Parked(w) /\
        Len(wbar[w].opened) = wbar[w].cur
  BY WarpCounts
<1>5. /\ a.n = wbar[w].n /\ a.count = wbar[w].count + 1
      /\ a.mask = wbar[w].mask \union {t}
      /\ a.cur = wbar[w].cur /\ a.opened = wbar[w].opened /\ a \in WarpBars
  BY <1>1, <1>4, Joining
<1> QED
  BY <1>2, <1>3, <1>4, <1>5

(* ... what the last one does, ... *)
LEMMA WarpOpens ==
  ASSUME TypeOK, WarpExact, NEW w \in Warp, NEW t \in InWarp(w) \ Parked(w),
         NEW a, a = WarpArrive(wbar[w], t),
         wbar[w].count + 1 >= wbar[w].n
  PROVE  /\ a \in WarpBars /\ Len(a.opened) = a.cur
         /\ a.n = wbar[w].n /\ a.count = 0 /\ a.mask = {} /\ a.cur = wbar[w].cur + 1
         /\ Parked(w) \union {t} = InWarp(w)
<1> DEFINE b == wbar[w]
           all == InWarp(w)
<1>1. t \in Thread /\ all \in SUBSET Thread /\ Parked(w) \in SUBSET all
  BY Shape
<1>2. wbar[w].count + 1 >= wbar[w].n => Parked(w) \union {t} = all
  BY WarpCountOne
<1>3. b \in WarpBars /\ b.mask = Parked(w) /\ Len(b.opened) = b.cur
      /\ b.opened \in Seq(SUBSET Thread) /\ b.cur \in Nat /\ b.n \in Nat
  BY WarpCounts
<1>4. a = [n |-> b.n, count |-> 0, mask |-> {}, cur |-> b.cur + 1,
           opened |-> Append(b.opened, b.mask \union {t})]
  BY <1>1, <1>3, Opening
<1>5. b.mask \union {t} = all
  BY <1>2, <1>3
<1> HIDE DEF b, all
<1>6. a = [n |-> b.n, count |-> 0, mask |-> {}, cur |-> b.cur + 1,
           opened |-> Append(b.opened, all)]
  BY <1>4, <1>5
<1>7. /\ Append(b.opened, all) \in Seq(SUBSET Thread)
      /\ Len(Append(b.opened, all)) = b.cur + 1
      /\ Append(b.opened, all)[b.cur + 1] = all
  BY <1>1, <1>3, AppendProperties
<1>8. a \in WarpBars
  BY <1>3, <1>6, <1>7 DEF WarpBars
<1>9. /\ a.n = b.n /\ a.count = 0 /\ a.mask = {} /\ a.cur = b.cur + 1
      /\ a.opened = Append(b.opened, all)
  BY <1>6
<1> QED
  BY <1>2, <1>7, <1>8, <1>9 DEF b, all

(* ... which publishes the mask of everybody still in the warp, ... *)
LEMMA WarpPublishes ==
  ASSUME TypeOK, WarpExact, NEW w \in Warp, NEW t \in InWarp(w) \ Parked(w),
         NEW a, a = WarpArrive(wbar[w], t),
         wbar[w].count + 1 >= wbar[w].n
  PROVE  a.opened[a.cur] = InWarp(w)
<1> DEFINE b == wbar[w]
           all == InWarp(w)
<1>1. t \in Thread /\ all \in SUBSET Thread /\ Parked(w) \in SUBSET all
  BY Shape
<1>2. wbar[w].count + 1 >= wbar[w].n => Parked(w) \union {t} = all
  BY WarpCountOne
<1>3. b \in WarpBars /\ b.mask = Parked(w) /\ Len(b.opened) = b.cur
      /\ b.opened \in Seq(SUBSET Thread) /\ b.cur \in Nat /\ b.n \in Nat
  BY WarpCounts
<1>4. a = [n |-> b.n, count |-> 0, mask |-> {}, cur |-> b.cur + 1,
           opened |-> Append(b.opened, b.mask \union {t})]
  BY <1>1, <1>3, Opening
<1>5. b.mask \union {t} = all
  BY <1>2, <1>3
<1> HIDE DEF b, all
<1>6. a = [n |-> b.n, count |-> 0, mask |-> {}, cur |-> b.cur + 1,
           opened |-> Append(b.opened, all)]
  BY <1>4, <1>5
<1>7. /\ Append(b.opened, all) \in Seq(SUBSET Thread)
      /\ Len(Append(b.opened, all)) = b.cur + 1
      /\ Append(b.opened, all)[b.cur + 1] = all
  BY <1>1, <1>3, AppendProperties
<1>8. a \in WarpBars
  BY <1>3, <1>6, <1>7 DEF WarpBars
<1>9. /\ a.n = b.n /\ a.count = 0 /\ a.mask = {} /\ a.cur = b.cur + 1
      /\ a.opened = Append(b.opened, all)
  BY <1>6
<1> QED
  BY <1>2, <1>7, <1>8, <1>9 DEF b, all

(* ... what a departure does that nobody waited for, ... *)
LEMMA WarpLeaves ==
  ASSUME TypeOK, WarpExact, NEW w \in Warp, NEW t \in InWarp(w) \ Parked(w),
         ~ (wbar[w].n - 1 > 0 /\ wbar[w].count >= wbar[w].n - 1)
  PROVE  /\ WarpAbandon(wbar[w]) \in WarpBars
         /\ Len(WarpAbandon(wbar[w]).opened) = WarpAbandon(wbar[w]).cur
         /\ WarpAbandon(wbar[w]).count = wbar[w].count
         /\ WarpAbandon(wbar[w]).mask = wbar[w].mask
         /\ WarpAbandon(wbar[w]).cur = wbar[w].cur
         /\ WarpAbandon(wbar[w]).opened = wbar[w].opened
         /\ Parked(w) # {} => Parked(w) # InWarp(w) \ {t}
         /\ WarpAbandon(wbar[w]).n = Cardinality(InWarp(w) \ {t})
<1> DEFINE a == WarpAbandon(wbar[w])
           b == wbar[w]
<1>1. InWarp(w) \in SUBSET Thread /\ Parked(w) \in SUBSET InWarp(w)
  BY Shape
<1>2. b \in WarpBars /\ b.mask = Parked(w) /\ Len(b.opened) = b.cur
      /\ b.opened \in Seq(SUBSET Thread) /\ b.cur \in Nat /\ b.n \in Nat
      /\ b.count \in Nat /\ b.mask \in SUBSET Thread
  BY WarpCounts
<1>3. /\ b.n - 1 \in Nat /\ Cardinality(InWarp(w) \ {t}) = b.n - 1
      /\ b.count < b.n - 1 => Parked(w) # InWarp(w) \ {t}
      /\ b.n - 1 = 0 <=> InWarp(w) \ {t} = {}
  BY WarpCountOne
<1>4. a = [n |-> b.n - 1, count |-> b.count, mask |-> b.mask, cur |-> b.cur,
           opened |-> b.opened]
  BY <1>2, Leaving
<1>5. Parked(w) # {} => Parked(w) # InWarp(w) \ {t}
  <2>1. ~ (b.n - 1 > 0 /\ b.count >= b.n - 1)
    OBVIOUS
  <2> HIDE DEF b
  <2> QED
    BY <1>2, <1>3, <2>1
<1> HIDE DEF a, b
<1>6. a \in WarpBars
  BY <1>2, <1>3, <1>4 DEF WarpBars
<1>7. /\ a.n = b.n - 1 /\ a.count = b.count /\ a.mask = b.mask
      /\ a.cur = b.cur /\ a.opened = b.opened
  BY <1>4
<1> QED
  BY <1>2, <1>3, <1>5, <1>6, <1>7 DEF a, b

(* ... one that completes a generation, ... *)
LEMMA WarpLeavesLast ==
  ASSUME TypeOK, WarpExact, NEW w \in Warp, NEW t \in InWarp(w) \ Parked(w),
         wbar[w].n - 1 > 0, wbar[w].count >= wbar[w].n - 1
  PROVE  /\ WarpAbandon(wbar[w]) \in WarpBars
         /\ Len(WarpAbandon(wbar[w]).opened) = WarpAbandon(wbar[w]).cur
         /\ WarpAbandon(wbar[w]).count = 0 /\ WarpAbandon(wbar[w]).mask = {}
         /\ WarpAbandon(wbar[w]).cur = wbar[w].cur + 1
         /\ WarpAbandon(wbar[w]).n = Cardinality(InWarp(w) \ {t})
<1> DEFINE a == WarpAbandon(wbar[w])
           b == wbar[w]
           left == InWarp(w) \ {t}
<1>1. InWarp(w) \in SUBSET Thread /\ Parked(w) \in SUBSET InWarp(w)
  BY Shape
<1>2. b \in WarpBars /\ b.mask = Parked(w) /\ Len(b.opened) = b.cur
      /\ b.opened \in Seq(SUBSET Thread) /\ b.cur \in Nat /\ b.n \in Nat
      /\ b.count \in Nat /\ b.mask \in SUBSET Thread
  BY WarpCounts
<1>3. /\ b.n - 1 \in Nat /\ Cardinality(left) = b.n - 1
      /\ b.count >= b.n - 1 => Parked(w) = left
      /\ b.n - 1 = 0 <=> left = {}
  BY WarpCountOne
<1>4. a = [n |-> b.n - 1, count |-> 0, mask |-> {}, cur |-> b.cur + 1,
           opened |-> Append(b.opened, b.mask)]
  BY <1>2, LeavingLast
<1>5. Parked(w) = left /\ left # {} /\ left \in SUBSET Thread /\ b.mask = left
  <2>1. b.n - 1 > 0 /\ b.count >= b.n - 1 /\ left \in SUBSET Thread
    BY <1>1
  <2> HIDE DEF b, left
  <2> QED
    BY <1>2, <1>3, <2>1
<1> HIDE DEF a, b, left
<1>6. a = [n |-> b.n - 1, count |-> 0, mask |-> {}, cur |-> b.cur + 1,
           opened |-> Append(b.opened, left)]
  BY <1>4, <1>5
<1>7. /\ Append(b.opened, left) \in Seq(SUBSET Thread)
      /\ Len(Append(b.opened, left)) = b.cur + 1
      /\ Append(b.opened, left)[b.cur + 1] = left
  BY <1>2, <1>5, AppendProperties
<1>8. a \in WarpBars
  BY <1>2, <1>3, <1>6, <1>7 DEF WarpBars
<1>9. /\ a.n = b.n - 1 /\ a.count = 0 /\ a.mask = {} /\ a.cur = b.cur + 1
      /\ a.opened = Append(b.opened, left)
  BY <1>6
<1> QED
  BY <1>3, <1>5, <1>7, <1>8, <1>9 DEF a, b, left

(* ... which publishes the mask of everybody but the thread that leaves, ...
   *)
LEMMA WarpLeavesPublishing ==
  ASSUME TypeOK, WarpExact, NEW w \in Warp, NEW t \in InWarp(w) \ Parked(w),
         NEW a, a = WarpAbandon(wbar[w]),
         wbar[w].n - 1 > 0, wbar[w].count >= wbar[w].n - 1
  PROVE  /\ a.opened[a.cur] = InWarp(w) \ {t}
         /\ Parked(w) = InWarp(w) \ {t} /\ Parked(w) # {}
<1> DEFINE b == wbar[w]
           left == InWarp(w) \ {t}
<1>1. InWarp(w) \in SUBSET Thread /\ Parked(w) \in SUBSET InWarp(w)
  BY Shape
<1>2. b \in WarpBars /\ b.mask = Parked(w) /\ Len(b.opened) = b.cur
      /\ b.opened \in Seq(SUBSET Thread) /\ b.cur \in Nat /\ b.n \in Nat
      /\ b.count \in Nat /\ b.mask \in SUBSET Thread
  BY WarpCounts
<1>3. /\ b.n - 1 \in Nat /\ Cardinality(left) = b.n - 1
      /\ b.count >= b.n - 1 => Parked(w) = left
      /\ b.n - 1 = 0 <=> left = {}
  BY WarpCountOne
<1>4. a = [n |-> b.n - 1, count |-> 0, mask |-> {}, cur |-> b.cur + 1,
           opened |-> Append(b.opened, b.mask)]
  BY <1>2, LeavingLast
<1>5. Parked(w) = left /\ left # {} /\ left \in SUBSET Thread /\ b.mask = left
  <2>1. b.n - 1 > 0 /\ b.count >= b.n - 1 /\ left \in SUBSET Thread
    BY <1>1
  <2> HIDE DEF b, left
  <2> QED
    BY <1>2, <1>3, <2>1
<1> HIDE DEF b, left
<1>6. a = [n |-> b.n - 1, count |-> 0, mask |-> {}, cur |-> b.cur + 1,
           opened |-> Append(b.opened, left)]
  BY <1>4, <1>5
<1>7. /\ Append(b.opened, left) \in Seq(SUBSET Thread)
      /\ Len(Append(b.opened, left)) = b.cur + 1
      /\ Append(b.opened, left)[b.cur + 1] = left
  BY <1>2, <1>5, AppendProperties
<1>8. a \in WarpBars
  BY <1>2, <1>3, <1>6, <1>7 DEF WarpBars
<1>9. /\ a.n = b.n - 1 /\ a.count = 0 /\ a.mask = {} /\ a.cur = b.cur + 1
      /\ a.opened = Append(b.opened, left)
  BY <1>6
<1> QED
  BY <1>3, <1>5, <1>7, <1>8, <1>9 DEF b, left

(* ... and a wait that is given up. *)
LEMMA WarpTakesBack ==
  ASSUME TypeOK, WarpExact, NEW w \in Warp, NEW t \in Parked(w),
         NEW a, a = WarpTakeBack(wbar[w], t)
  PROVE  /\ a \in WarpBars /\ Len(a.opened) = a.cur
         /\ a.n = wbar[w].n /\ a.mask = Parked(w) \ {t} /\ a.count = Cardinality(a.mask)
         /\ a.cur = wbar[w].cur /\ a.opened = wbar[w].opened
<1>1. Parked(w) \in SUBSET Thread
  BY Shape
<1>2. wbar[w].count - 1 \in Nat /\ Cardinality(Parked(w) \ {t}) = wbar[w].count - 1
  BY <1>1, WarpCounts, CountFewer
<1>3. wbar[w] \in WarpBars /\ wbar[w].mask = Parked(w) /\
        Len(wbar[w].opened) = wbar[w].cur
  BY WarpCounts
<1>4. /\ a.n = wbar[w].n /\ a.count = wbar[w].count - 1 /\ a.mask = wbar[w].mask \ {t}
      /\ a.cur = wbar[w].cur /\ a.opened = wbar[w].opened /\ a \in WarpBars
  BY <1>2, <1>3, TakingBack
<1> QED
  BY <1>2, <1>3, <1>4

------------------------------------------------------------------------------
(* The values of the block's barrier. *)
BlockBars == [n : Nat, count : Nat, cur : Nat]

(* The block barrier's counters are those of its threads ... *)
LEMMA BlockCounts ==
  ASSUME TypeOK, BarExact
  PROVE  /\ bar \in BlockBars
         /\ bar.count = Cardinality(InSync) /\ bar.n = Cardinality(InBlock)
         /\ bar.n \in Nat /\ bar.count \in Nat /\ bar.cur \in Nat
         /\ InSync \in SUBSET InBlock /\ InBlock \in SUBSET Thread
<1>1. bar \in BlockBars
  BY DEF TypeOK, BlockBars
<1>2. bar.count = Cardinality(InSync) /\ bar.n = Cardinality(InBlock)
  BY DEF BarExact
<1> QED
  BY <1>1, <1>2, BarType, Shape

(* ... and tell whether one more, or one fewer, makes everybody. *)
LEMMA BlockCountOne ==
  ASSUME TypeOK, BarExact, NEW t \in InBlock \ InSync
  PROVE  /\ bar.count + 1 >= bar.n => InSync \union {t} = InBlock
         /\ bar.count + 1 < bar.n => InSync \union {t} # InBlock
         /\ Cardinality(InSync \union {t}) = bar.count + 1
         /\ bar.n - 1 \in Nat
         /\ Cardinality(InBlock \ {t}) = bar.n - 1
         /\ bar.count >= bar.n - 1 => InSync = InBlock \ {t}
         /\ bar.count < bar.n - 1 => InSync # InBlock \ {t}
         /\ bar.n - 1 = 0 <=> InBlock \ {t} = {}
<1> DEFINE all == InBlock
           in == InSync
<1>1. /\ in \in SUBSET all /\ all \in SUBSET Thread /\ t \in all \ in
      /\ bar.count = Cardinality(in) /\ bar.n = Cardinality(all)
  BY BlockCounts
<1> HIDE DEF all, in
<1>2. /\ Cardinality(in) + 1 >= Cardinality(all) => in \union {t} = all
      /\ Cardinality(in) + 1 < Cardinality(all) => in \union {t} # all
      /\ Cardinality(in \union {t}) = Cardinality(in) + 1
      /\ Cardinality(all) - 1 \in Nat
      /\ Cardinality(all \ {t}) = Cardinality(all) - 1
      /\ Cardinality(in) >= Cardinality(all) - 1 => in = all \ {t}
      /\ Cardinality(in) < Cardinality(all) - 1 => in # all \ {t}
      /\ Cardinality(all) - 1 = 0 <=> all \ {t} = {}
  BY <1>1, CountOne
<1>3. /\ bar.count + 1 >= bar.n => in \union {t} = all
      /\ bar.count + 1 < bar.n => in \union {t} # all
      /\ Cardinality(in \union {t}) = bar.count + 1
      /\ bar.n - 1 \in Nat
      /\ Cardinality(all \ {t}) = bar.n - 1
      /\ bar.count >= bar.n - 1 => in = all \ {t}
      /\ bar.count < bar.n - 1 => in # all \ {t}
      /\ bar.n - 1 = 0 <=> all \ {t} = {}
  BY <1>1, <1>2
<1> QED
  BY <1>3 DEF all, in

(* An arrival at the block's barrier that is not the last, ... *)
LEMMA BlockJoins ==
  ASSUME TypeOK, BarExact, NEW t \in InBlock \ InSync, NEW a, a = Arrive(bar),
         bar.count + 1 < bar.n
  PROVE  /\ a \in BlockBars /\ a.n = bar.n /\ a.cur = bar.cur
         /\ a.count = Cardinality(InSync \union {t})
         /\ InSync \union {t} # InBlock
<1>1. bar \in [n : Nat, count : Nat, cur : Nat] /\ bar.count + 1 < bar.n
  BY BlockCounts DEF BlockBars
<1>2. a \in BlockBars /\ a.n = bar.n /\ a.cur = bar.cur /\ a.count = bar.count + 1
  BY <1>1 DEF Arrive, Assembled, BlockBars
<1>3. InSync \union {t} # InBlock /\ Cardinality(InSync \union {t}) = bar.count + 1
  BY BlockCountOne
<1> QED
  BY <1>2, <1>3

(* ... the last one, which finds everybody else there, ... *)
LEMMA BlockOpens ==
  ASSUME TypeOK, BarExact, NEW t \in InBlock \ InSync, NEW a, a = Arrive(bar),
         bar.count + 1 >= bar.n
  PROVE  /\ a \in BlockBars /\ a.n = bar.n /\ a.count = 0 /\ a.cur = bar.cur + 1
         /\ InSync \union {t} = InBlock
<1>1. bar \in [n : Nat, count : Nat, cur : Nat] /\ bar.count + 1 >= bar.n
  BY BlockCounts DEF BlockBars
<1>2. a \in BlockBars /\ a.n = bar.n /\ a.cur = bar.cur + 1 /\ a.count = 0
  <2>1. a = [n |-> bar.n, count |-> 0, cur |-> bar.cur + 1]
    BY <1>1 DEF Arrive, Assembled, ReleaseLocked
  <2> QED
    BY <1>1, <2>1 DEF BlockBars
<1>3. InSync \union {t} = InBlock
  BY BlockCountOne
<1> QED
  BY <1>2, <1>3

(* ... a departure that nobody waited for, ... *)
LEMMA BlockLeaves ==
  ASSUME TypeOK, BarExact, NEW t \in InBlock \ InSync, NEW a, a = Abandon(bar),
         ~ (bar.n - 1 > 0 /\ bar.count >= bar.n - 1)
  PROVE  /\ a \in BlockBars /\ a.count = bar.count /\ a.cur = bar.cur
         /\ a.n = Cardinality(InBlock \ {t})
         /\ InSync # {} => InSync # InBlock \ {t}
<1>1. bar \in [n : Nat, count : Nat, cur : Nat] /\
        ~ (bar.n - 1 > 0 /\ bar.count >= bar.n - 1)
  BY BlockCounts DEF BlockBars
<1>2. /\ bar.n - 1 \in Nat /\ Cardinality(InBlock \ {t}) = bar.n - 1
      /\ bar.count < bar.n - 1 => InSync # InBlock \ {t}
      /\ bar.n - 1 = 0 <=> InBlock \ {t} = {}
  BY BlockCountOne
<1>3. a \in BlockBars /\ a.n = bar.n - 1 /\ a.cur = bar.cur /\ a.count = bar.count
  BY <1>1, <1>2 DEF Abandon, Assembled, BlockBars
<1>4. bar.count < bar.n - 1 \/ bar.n - 1 = 0
  BY <1>1, <1>2
<1>5. InSync # {} => InSync # InBlock \ {t}
  BY <1>2, <1>4
<1> QED
  BY <1>2, <1>3, <1>5

(* ... one that completes a generation, ... *)
LEMMA BlockLeavesLast ==
  ASSUME TypeOK, BarExact, NEW t \in InBlock \ InSync, NEW a, a = Abandon(bar),
         bar.n - 1 > 0, bar.count >= bar.n - 1
  PROVE  /\ a \in BlockBars /\ a.count = 0 /\ a.cur = bar.cur + 1
         /\ a.n = Cardinality(InBlock \ {t})
         /\ InSync = InBlock \ {t} /\ InSync # {}
<1>1. /\ bar \in [n : Nat, count : Nat, cur : Nat]
      /\ bar.n - 1 > 0 /\ bar.count >= bar.n - 1
  BY BlockCounts DEF BlockBars
<1>2. /\ bar.n - 1 \in Nat /\ Cardinality(InBlock \ {t}) = bar.n - 1
      /\ bar.count >= bar.n - 1 => InSync = InBlock \ {t}
      /\ bar.n - 1 = 0 <=> InBlock \ {t} = {}
  BY BlockCountOne
<1>3. a \in BlockBars /\ a.n = bar.n - 1 /\ a.cur = bar.cur + 1 /\ a.count = 0
  <2>1. a = [n |-> bar.n - 1, count |-> 0, cur |-> bar.cur + 1]
    BY <1>1 DEF Abandon, Assembled, ReleaseLocked
  <2> QED
    BY <1>1, <1>2, <2>1 DEF BlockBars
<1>4. bar.n - 1 # 0 /\ bar.count >= bar.n - 1
  BY <1>1
<1>5. InSync = InBlock \ {t} /\ InSync # {}
  BY <1>2, <1>4
<1> QED
  BY <1>2, <1>3, <1>5

(* ... and a wait that is given up. *)
LEMMA BlockTakesBack ==
  ASSUME TypeOK, BarExact, NEW t \in InSync, NEW a, a = TakeBack(bar)
  PROVE  /\ a \in BlockBars /\ a.n = bar.n /\ a.cur = bar.cur
         /\ a.count = Cardinality(InSync \ {t})
<1>1. /\ bar \in [n : Nat, count : Nat, cur : Nat]
      /\ bar.count = Cardinality(InSync) /\ InSync \in SUBSET Thread
  BY BlockCounts DEF BlockBars
<1>2. bar.count - 1 \in Nat /\ Cardinality(InSync \ {t}) = bar.count - 1
  BY <1>1, CountFewer
<1>3. a \in BlockBars /\ a.n = bar.n /\ a.cur = bar.cur /\ a.count = bar.count - 1
  BY <1>1, <1>2 DEF TakeBack, BlockBars
<1> QED
  BY <1>2, <1>3

------------------------------------------------------------------------------
(* No other thread moves. *)
Alone(t) == \A s \in Thread \ {t} : pc'[s] = pc[s] /\ gen'[s] = gen[s]

(* The part of the invariant that needs no other: types, exact counters, and
   no wait ahead of its barrier. *)
Core == TypeOK /\ BarExact /\ WarpExact /\ GenBound

(* While no generation of the block's barrier opens, only the moving thread
   enters or leaves its sets. *)
LEMMA BarSets ==
  ASSUME NEW t \in Thread, Alone(t), bar'.cur = bar.cur
  PROVE  /\ InSync' \ {t} = InSync \ {t}
         /\ InBlock' \ {t} = InBlock \ {t}
         /\ t \in InSync' <=> pc'[t] = "sync" /\ gen'[t] = bar.cur
         /\ t \in InBlock' <=> pc'[t] \notin {"leavingWarp", "done"}
BY DEF Alone, InSync, InBlock

(* A step that leaves the block's barrier alone keeps its counters exact. *)
LEMMA BarSame ==
  ASSUME BarExact, NEW t \in Thread, Alone(t), bar' = bar,
         t \notin InSync, pc'[t] # "sync",
         pc[t] \in {"leavingWarp", "done"} <=> pc'[t] \in {"leavingWarp", "done"}
  PROVE  BarExact'
<1>1. InSync' = InSync
  BY BarSets DEF InSync
<1>2. InBlock' = InBlock
  BY BarSets DEF InBlock
<1> QED
  BY <1>1, <1>2 DEF BarExact

(* The same for the sets of a warp, ... *)
LEMMA WarpSets ==
  ASSUME NEW t \in Thread, Alone(t), NEW w \in Warp, wbar'[w].cur = wbar[w].cur
  PROVE  /\ InMeet(w)' \ {t} = InMeet(w) \ {t}
         /\ InPart(w)' \ {t} = InPart(w) \ {t}
         /\ InWarp(w)' \ {t} = InWarp(w) \ {t}
         /\ Parked(w)' \ {t} = Parked(w) \ {t}
         /\ t \in InMeet(w)' <=>
              w = WarpOf[t] /\ pc'[t] = "meet" /\ gen'[t] = wbar[w].cur
         /\ t \in InPart(w)' <=>
              w = WarpOf[t] /\ pc'[t] = "part" /\ gen'[t] = wbar[w].cur
         /\ t \in InWarp(w)' <=> w = WarpOf[t] /\ pc'[t] # "done"
<1>1. \A s \in Mates(w) : s \in Thread /\ WarpOf[s] = w
  BY DEF Mates
<1>2. t \in Mates(w) <=> w = WarpOf[t]
  BY DEF Mates
<1>3. /\ InMeet(w)' \ {t} = InMeet(w) \ {t}
      /\ InPart(w)' \ {t} = InPart(w) \ {t}
      /\ InWarp(w)' \ {t} = InWarp(w) \ {t}
  BY <1>1 DEF Alone, InMeet, InPart, InWarp
<1>4. Parked(w)' \ {t} = Parked(w) \ {t}
  BY <1>3 DEF Parked
<1> QED
  BY <1>2, <1>3, <1>4 DEF InMeet, InPart, InWarp

(* ... which a thread of another warp, or one that waits neither before nor
   after its step, leaves as they are, ... *)
LEMMA WarpStays ==
  ASSUME NEW t \in Thread, Alone(t), NEW w \in Warp, wbar'[w].cur = wbar[w].cur,
         \/ WarpOf[t] # w
         \/ /\ t \notin Parked(w) /\ pc'[t] \notin {"meet", "part"}
            /\ pc[t] # "done" /\ pc'[t] # "done"
  PROVE  InMeet(w)' = InMeet(w) /\ InPart(w)' = InPart(w) /\ InWarp(w)' = InWarp(w)
<1>1. \A s \in Mates(w) : s \in Thread /\ WarpOf[s] = w
  BY DEF Mates
<1>2. \A s \in Mates(w) : s # t => pc'[s] = pc[s] /\ gen'[s] = gen[s]
  BY <1>1 DEF Alone
<1>3. t \in Mates(w) => /\ t \notin InMeet(w) /\ t \notin InPart(w)
                       /\ pc'[t] \notin {"meet", "part", "done"} /\ pc[t] # "done"
  BY <1>1 DEF Parked
<1>4. InMeet(w)' = InMeet(w)
  BY <1>2, <1>3 DEF InMeet
<1>5. InPart(w)' = InPart(w)
  BY <1>2, <1>3 DEF InPart
<1>6. InWarp(w)' = InWarp(w)
  BY <1>2, <1>3 DEF InWarp
<1> QED
  BY <1>4, <1>5, <1>6

(* ... so the counters of that warp stay exact ... *)
LEMMA WarpSame ==
  ASSUME NEW t \in Thread, Alone(t), NEW w \in Warp, wbar'[w] = wbar[w],
         \/ WarpOf[t] # w
         \/ /\ t \notin Parked(w) /\ pc'[t] \notin {"meet", "part"}
            /\ pc[t] # "done" /\ pc'[t] # "done",
         MaskExact(w)
  PROVE  MaskExact(w)'
<1>1. InMeet(w)' = InMeet(w) /\ InPart(w)' = InPart(w) /\ InWarp(w)' = InWarp(w)
  BY WarpStays
<1> QED
  BY <1>1 DEF MaskExact

(* ... and with them those of all warps. *)
LEMMA WarpsSame ==
  ASSUME WarpExact, NEW t \in Thread, Alone(t), wbar' = wbar,
         t \notin Parked(WarpOf[t]), pc'[t] \notin {"meet", "part"},
         pc[t] # "done", pc'[t] # "done"
  PROVE  WarpExact'
<1> SUFFICES ASSUME NEW w \in Warp PROVE MaskExact(w)'
  BY DEF WarpExact
<1>1. MaskExact(w)
  BY DEF WarpExact
<1>2. t \notin Parked(w)
  BY Shape DEF Parked, InMeet, InPart, Mates
<1> QED
  BY <1>1, <1>2, WarpSame

(* Generations only go up, so a wait stays behind its barrier. *)
LEMMA GenStays ==
  ASSUME TypeOK, TypeOK', GenBound, NEW t \in Thread, Alone(t),
         bar'.cur >= bar.cur, \A w \in Warp : wbar'[w].cur >= wbar[w].cur,
         pc'[t] \in {"sync", "meet", "part"} => gen'[t] <= Generation(t)'
  PROVE  GenBound'
<1> SUFFICES ASSUME NEW s \in Thread, pc'[s] \in {"sync", "meet", "part"}
             PROVE  gen'[s] <= Generation(s)'
  BY DEF GenBound
<1>1. CASE s = t
  BY <1>1
<1>2. CASE s # t
  <2>1. pc'[s] = pc[s] /\ gen'[s] = gen[s]
    BY <1>2 DEF Alone
  <2>2. gen[s] <= Generation(s)
    BY <2>1 DEF GenBound
  <2>3. WarpOf[s] \in Warp
    BY Crew
  <2>4. wbar'[WarpOf[s]].cur >= wbar[WarpOf[s]].cur
    BY <2>3
  <2>5. gen[s] \in Nat /\ bar.cur \in Nat /\ wbar[WarpOf[s]].cur \in Nat
    BY <2>3, BarType, WarpBarType DEF TypeOK
  <2>6. bar'.cur \in Nat /\ wbar'[WarpOf[s]].cur \in Nat
    BY <2>3 DEF TypeOK, WarpBars
  <2> QED
    BY <2>1, <2>2, <2>4, <2>5, <2>6 DEF Generation
<1> QED
  BY <1>1, <1>2

(* An arrival at a warp's barrier keeps all warps exact, ... *)
LEMMA ArriveExact ==
  ASSUME Core, NEW t \in Thread, NEW w \in Warp, w = WarpOf[t], Alone(t),
         t \in InWarp(w) \ Parked(w), wbar' = [wbar EXCEPT ![w] = WarpArrive(@, t)],
         gen'[t] = wbar[w].cur, pc'[t] \in {"meet", "part"}
  PROVE  /\ WarpExact'
         /\ wbar' \in [Warp -> WarpBars] /\
              \A v \in Warp : Len(wbar'[v].opened) = wbar'[v].cur
         /\ \A v \in Warp : wbar'[v].cur >= wbar[v].cur
         /\ \A v \in Warp \ {w} : wbar'[v] = wbar[v]
<1>1. wbar \in [Warp -> WarpBars] /\
        \A v \in Warp : Len(wbar[v].opened) = wbar[v].cur /\ wbar[v].cur \in Nat
  BY WarpBarType DEF Core, TypeOK
<1>2. wbar'[w] = WarpArrive(wbar[w], t) /\ \A v \in Warp \ {w} : wbar'[v] = wbar[v]
  BY <1>1
<1>3. \A v \in Warp \ {w} : MaskExact(v)'
  <2> SUFFICES ASSUME NEW v \in Warp \ {w} PROVE MaskExact(v)'
    OBVIOUS
  <2>1. MaskExact(v) /\ wbar'[v] = wbar[v]
    BY <1>2 DEF Core, WarpExact
  <2> QED
    BY <2>1, WarpSame
<1>4. CASE wbar[w].count + 1 < wbar[w].n
  <2>1. /\ wbar'[w] \in WarpBars /\ Len(wbar'[w].opened) = wbar'[w].cur
        /\ wbar'[w].n = wbar[w].n /\ wbar'[w].mask = Parked(w) \union {t}
        /\ wbar'[w].cur = wbar[w].cur
        /\ Parked(w) \union {t} # InWarp(w)
        /\ wbar'[w].count = Cardinality(wbar'[w].mask)
    BY <1>2, <1>4, WarpJoins DEF Core
  <2>2. InWarp(w)' = InWarp(w)
    BY DEF InWarp, Mates, Alone
  <2>3. Parked(w)' = Parked(w) \union {t}
    BY <2>1, WarpSets DEF Parked
  <2>4. wbar[w].n = Cardinality(InWarp(w))
    BY WarpCounts DEF Core
  <2>5. MaskExact(w)'
    BY <2>1, <2>2, <2>3, <2>4 DEF MaskExact, Parked
  <2>6. wbar' \in [Warp -> WarpBars]
    BY <1>1, <1>2, <2>1
  <2> QED
    BY <1>1, <1>2, <1>3, <2>1, <2>5, <2>6 DEF WarpExact
<1>5. CASE wbar[w].count + 1 >= wbar[w].n
  <2>1. /\ wbar'[w] \in WarpBars /\ Len(wbar'[w].opened) = wbar'[w].cur
        /\ wbar'[w].n = wbar[w].n /\ wbar'[w].mask = {} /\ wbar'[w].count = 0
        /\ wbar'[w].cur = wbar[w].cur + 1
    <3>1. TypeOK /\ WarpExact
      BY DEF Core
    <3> HIDE DEF Core
    <3> QED
      BY <1>2, <1>5, <3>1, WarpOpens
  <2>2. InWarp(w)' = InWarp(w)
    BY DEF InWarp, Mates, Alone
  <2>3. \A s \in Mates(w) : pc'[s] \in {"meet", "part"} =>
          gen'[s] <= wbar[w].cur /\ gen'[s] \in Nat
    <3> SUFFICES ASSUME NEW s \in Mates(w), pc'[s] \in {"meet", "part"}
                 PROVE  gen'[s] <= wbar[w].cur /\ gen'[s] \in Nat
      OBVIOUS
    <3>1. s \in Thread /\ WarpOf[s] = w
      BY DEF Mates
    <3>2. CASE s = t
      BY <1>1, <3>2
    <3>3. CASE s # t
      <4>1. pc'[s] = pc[s] /\ gen'[s] = gen[s]
        BY <3>1, <3>3 DEF Alone
      <4> QED
        BY <3>1, <4>1 DEF Core, GenBound, Generation, TypeOK
    <3> QED
      BY <3>2, <3>3
  <2>4. InMeet(w)' = {} /\ InPart(w)' = {}
    BY <1>1, <2>1, <2>3 DEF InMeet, InPart
  <2>5. wbar[w].n = Cardinality(InWarp(w))
    BY WarpCounts DEF Core
  <2>6. MaskExact(w)'
    BY <2>1, <2>2, <2>4, <2>5, FS_EmptySet DEF MaskExact
  <2>7. wbar' \in [Warp -> WarpBars]
    BY <1>1, <1>2, <2>1
  <2> QED
    BY <1>1, <1>2, <1>3, <2>1, <2>6, <2>7 DEF WarpExact
<1>6. wbar[w].n \in Nat /\ wbar[w].count \in Nat
  BY WarpBarType DEF Core
<1> QED
  BY <1>4, <1>5, <1>6

(* ... a wait that is given up does, ... *)
LEMMA TakeBackExact ==
  ASSUME Core, NEW t \in Thread, NEW w \in Warp, w = WarpOf[t], Alone(t),
         t \in Parked(w), wbar' = [wbar EXCEPT ![w] = WarpTakeBack(@, t)],
         pc'[t] = "kernel"
  PROVE  /\ WarpExact'
         /\ wbar' \in [Warp -> WarpBars] /\
              \A v \in Warp : Len(wbar'[v].opened) = wbar'[v].cur
         /\ \A v \in Warp : wbar'[v].cur = wbar[v].cur
         /\ \A v \in Warp \ {w} : wbar'[v] = wbar[v]
<1>1. wbar \in [Warp -> WarpBars] /\
        \A v \in Warp : Len(wbar[v].opened) = wbar[v].cur /\ wbar[v].cur \in Nat
  BY WarpBarType DEF Core, TypeOK
<1>2. wbar'[w] = WarpTakeBack(wbar[w], t) /\ \A v \in Warp \ {w} : wbar'[v] = wbar[v]
  BY <1>1
<1>3. \A v \in Warp \ {w} : MaskExact(v)'
  <2> SUFFICES ASSUME NEW v \in Warp \ {w} PROVE MaskExact(v)'
    OBVIOUS
  <2>1. MaskExact(v) /\ wbar'[v] = wbar[v]
    BY <1>2 DEF Core, WarpExact
  <2> QED
    BY <2>1, WarpSame
<1>4. /\ wbar'[w] \in WarpBars /\ Len(wbar'[w].opened) = wbar'[w].cur
      /\ wbar'[w].n = wbar[w].n /\ wbar'[w].mask = Parked(w) \ {t}
      /\ wbar'[w].cur = wbar[w].cur
      /\ wbar'[w].count = Cardinality(wbar'[w].mask)
  BY <1>2, WarpTakesBack DEF Core
<1>5. t \in InWarp(w)
  BY Shape
<1>6. InWarp(w)' = InWarp(w)
  BY <1>5 DEF InWarp, Mates, Alone
<1>7. Parked(w)' = Parked(w) \ {t}
  BY <1>4, WarpSets DEF Parked
<1>8. wbar[w].n = Cardinality(InWarp(w))
  BY WarpCounts DEF Core
<1>9. MaskExact(w)'
  BY <1>4, <1>5, <1>6, <1>7, <1>8 DEF MaskExact, Parked
<1>10. wbar' \in [Warp -> WarpBars]
  BY <1>1, <1>2, <1>4
<1> QED
  BY <1>1, <1>2, <1>3, <1>4, <1>9, <1>10 DEF WarpExact

(* ... and a departure. *)
LEMMA LeaveExact ==
  ASSUME Core, NEW t \in Thread, NEW w \in Warp, w = WarpOf[t], Alone(t),
         t \in InWarp(w) \ Parked(w), wbar' = [wbar EXCEPT ![w] = WarpAbandon(@)],
         pc'[t] = "done"
  PROVE  /\ WarpExact'
         /\ wbar' \in [Warp -> WarpBars] /\
              \A v \in Warp : Len(wbar'[v].opened) = wbar'[v].cur
         /\ \A v \in Warp : wbar'[v].cur >= wbar[v].cur
         /\ \A v \in Warp \ {w} : wbar'[v] = wbar[v]
<1>1. wbar \in [Warp -> WarpBars] /\
        \A v \in Warp : Len(wbar[v].opened) = wbar[v].cur /\ wbar[v].cur \in Nat
  BY WarpBarType DEF Core, TypeOK
<1>2. wbar'[w] = WarpAbandon(wbar[w]) /\ \A v \in Warp \ {w} : wbar'[v] = wbar[v]
  BY <1>1
<1>3. \A v \in Warp \ {w} : MaskExact(v)'
  <2> SUFFICES ASSUME NEW v \in Warp \ {w} PROVE MaskExact(v)'
    OBVIOUS
  <2>1. MaskExact(v) /\ wbar'[v] = wbar[v]
    BY <1>2 DEF Core, WarpExact
  <2> QED
    BY <2>1, WarpSame
<1>0. InWarp(w)' = InWarp(w) \ {t}
  BY DEF InWarp, Mates, Alone
<1>4. CASE ~ (wbar[w].n - 1 > 0 /\ wbar[w].count >= wbar[w].n - 1)
  <2>1. /\ wbar'[w] \in WarpBars /\ Len(wbar'[w].opened) = wbar'[w].cur
        /\ wbar'[w].count = wbar[w].count /\ wbar'[w].mask = wbar[w].mask
        /\ wbar'[w].cur = wbar[w].cur
        /\ Parked(w) # {} => Parked(w) # InWarp(w) \ {t}
        /\ wbar'[w].n = Cardinality(InWarp(w) \ {t})
    <3>1. TypeOK /\ WarpExact /\ ~ (wbar[w].n - 1 > 0 /\ wbar[w].count >= wbar[w].n - 1)
      BY <1>4 DEF Core
    <3> DEFINE a == WarpAbandon(wbar[w])
    <3>2. /\ a \in WarpBars /\ Len(a.opened) = a.cur
          /\ a.count = wbar[w].count /\ a.mask = wbar[w].mask
      BY <3>1, WarpLeaves
    <3>3. a.cur = wbar[w].cur /\ a.n = Cardinality(InWarp(w) \ {t})
      BY <3>1, WarpLeaves
    <3>4. Parked(w) # {} => Parked(w) # InWarp(w) \ {t}
      BY <3>1, WarpLeaves
    <3> HIDE DEF a
    <3>5. wbar'[w] = a
      BY <1>2 DEF a
    <3> QED
      BY <3>2, <3>3, <3>4, <3>5
  <2>3. Parked(w)' = Parked(w)
    BY <2>1, WarpSets DEF Parked
  <2>4. wbar[w].mask = Parked(w) /\ wbar[w].count = Cardinality(Parked(w))
    BY WarpCounts DEF Core
  <2>5. MaskExact(w)'
    BY <1>0, <2>1, <2>3, <2>4 DEF MaskExact, Parked
  <2>6. wbar' \in [Warp -> WarpBars]
    BY <1>1, <1>2, <2>1
  <2> QED
    BY <1>1, <1>2, <1>3, <2>1, <2>5, <2>6 DEF WarpExact
<1>5. CASE wbar[w].n - 1 > 0 /\ wbar[w].count >= wbar[w].n - 1
  <2>1. /\ wbar'[w] \in WarpBars /\ Len(wbar'[w].opened) = wbar'[w].cur
        /\ wbar'[w].mask = {} /\ wbar'[w].count = 0
        /\ wbar'[w].cur = wbar[w].cur + 1
        /\ wbar'[w].n = Cardinality(InWarp(w) \ {t})
    <3>1. TypeOK /\ WarpExact
      BY DEF Core
    <3> HIDE DEF Core
    <3>2. wbar[w].n - 1 > 0 /\ wbar[w].n \in Nat /\ wbar[w].count \in Nat
      BY <1>5, <3>1, WarpBarType
    <3>3. wbar[w].count >= wbar[w].n - 1
      BY <1>5
    <3>4. wbar'[w] = WarpAbandon(wbar[w]) /\ t \in InWarp(w) \ Parked(w)
      BY <1>2
    <3> DEFINE a == WarpAbandon(wbar[w])
    <3>5. a \in WarpBars /\ Len(a.opened) = a.cur /\ a.mask = {} /\ a.count = 0
      BY <3>1, <3>2, <3>3, <3>4, WarpLeavesLast
    <3>6. a.cur = wbar[w].cur + 1 /\ a.n = Cardinality(InWarp(w) \ {t})
      BY <3>1, <3>2, <3>3, <3>4, WarpLeavesLast
    <3> HIDE DEF a
    <3>7. wbar'[w] = a
      BY <3>4 DEF a
    <3> QED
      BY <3>5, <3>6, <3>7
  <2>3. \A s \in Mates(w) : pc'[s] \in {"meet", "part"} =>
          gen'[s] <= wbar[w].cur /\ gen'[s] \in Nat
    <3> SUFFICES ASSUME NEW s \in Mates(w), pc'[s] \in {"meet", "part"}
                 PROVE  gen'[s] <= wbar[w].cur /\ gen'[s] \in Nat
      OBVIOUS
    <3>1. s \in Thread /\ WarpOf[s] = w
      BY DEF Mates
    <3>2. s # t
      OBVIOUS
    <3>3. pc'[s] = pc[s] /\ gen'[s] = gen[s]
      BY <3>1, <3>2 DEF Alone
    <3> QED
      BY <3>1, <3>3 DEF Core, GenBound, Generation, TypeOK
  <2>4. InMeet(w)' = {} /\ InPart(w)' = {}
    BY <1>1, <2>1, <2>3 DEF InMeet, InPart
  <2>6. MaskExact(w)'
    BY <1>0, <2>1, <2>4, FS_EmptySet DEF MaskExact
  <2>7. wbar' \in [Warp -> WarpBars]
    BY <1>1, <1>2, <2>1
  <2> QED
    BY <1>1, <1>2, <1>3, <2>1, <2>6, <2>7 DEF WarpExact
<1> QED
  BY <1>4, <1>5

------------------------------------------------------------------------------
(* After a release nobody waits at the block's barrier. *)
LEMMA LateSyncs ==
  ASSUME Core, NEW t \in Thread, Alone(t), bar'.cur = bar.cur + 1,
         pc'[t] = "sync" => gen'[t] = bar.cur
  PROVE  InSync' = {}
<1> SUFFICES ASSUME NEW s \in Thread, pc'[s] = "sync"
             PROVE  gen'[s] # bar'.cur
  BY DEF InSync
<1>1. bar.cur \in Nat
  BY BarType DEF Core
<1>2. CASE s = t
  BY <1>1, <1>2
<1>3. CASE s # t
  <2>1. pc'[s] = pc[s] /\ gen'[s] = gen[s]
    BY <1>3 DEF Alone
  <2>2. gen[s] <= bar.cur /\ gen[s] \in Nat
    BY <2>1 DEF Core, GenBound, Generation, TypeOK
  <2> QED
    BY <1>1, <2>1, <2>2
<1> QED
  BY <1>2, <1>3

(* An arrival at the block's barrier keeps it exact, ... *)
LEMMA SyncArriveExact ==
  ASSUME Core, NEW t \in Thread, Alone(t), t \in InBlock \ InSync,
         bar' = Arrive(bar), pc'[t] = "sync", gen'[t] = bar.cur
  PROVE  BarExact' /\ bar' \in BlockBars /\ bar'.cur >= bar.cur
<1>0. TypeOK /\ BarExact /\ bar.cur \in Nat /\ bar.count \in Nat /\ bar.n \in Nat
  BY BarType DEF Core
<1>1. InBlock' = InBlock
  BY DEF Alone, InBlock
<1>2. CASE bar.count + 1 < bar.n
  <2>1. /\ bar' \in BlockBars /\ bar'.n = bar.n /\ bar'.cur = bar.cur
        /\ bar'.count = Cardinality(InSync \union {t})
        /\ InSync \union {t} # InBlock
    BY <1>0, <1>2, BlockJoins
  <2>2. InSync' = InSync \union {t}
    BY <2>1 DEF InSync, Alone
  <2>3. bar.n = Cardinality(InBlock)
    BY <1>0, BlockCounts
  <2> QED
    BY <1>0, <1>1, <2>1, <2>2, <2>3 DEF BarExact
<1>3. CASE bar.count + 1 >= bar.n
  <2>1. bar' \in BlockBars /\ bar'.n = bar.n /\ bar'.count = 0 /\ bar'.cur = bar.cur + 1
    BY <1>0, <1>3, BlockOpens
  <2>2. InSync' = {}
    BY <2>1, LateSyncs
  <2>3. bar.n = Cardinality(InBlock)
    BY <1>0, BlockCounts
  <2> QED
    BY <1>0, <1>1, <2>1, <2>2, <2>3, FS_EmptySet DEF BarExact
<1> QED
  BY <1>0, <1>2, <1>3

(* ... a wait that is given up does, ... *)
LEMMA SyncTakeBackExact ==
  ASSUME Core, NEW t \in Thread, Alone(t), t \in InSync,
         bar' = TakeBack(bar), pc'[t] = "kernel"
  PROVE  BarExact' /\ bar' \in BlockBars /\ bar'.cur = bar.cur
<1>0. TypeOK /\ BarExact
  BY DEF Core
<1>1. t \in InBlock /\ InBlock' = InBlock
  BY DEF Alone, InBlock, InSync
<1>2. /\ bar' \in BlockBars /\ bar'.n = bar.n /\ bar'.cur = bar.cur
      /\ bar'.count = Cardinality(InSync \ {t})
  BY <1>0, BlockTakesBack
<1>3. InSync' = InSync \ {t}
  BY <1>2 DEF Alone, InSync
<1>4. bar.n = Cardinality(InBlock)
  BY <1>0, BlockCounts
<1> QED
  BY <1>1, <1>2, <1>3, <1>4 DEF BarExact

(* ... and a departure. *)
LEMMA LeaveBarExact ==
  ASSUME Core, NEW t \in Thread, Alone(t), pc[t] = "leaving",
         bar' = Abandon(bar), pc'[t] = "leavingWarp"
  PROVE  BarExact' /\ bar' \in BlockBars /\ bar'.cur >= bar.cur
<1>0. TypeOK /\ BarExact /\ bar.cur \in Nat /\ bar.count \in Nat /\ bar.n \in Nat
  BY BarType DEF Core
<1>1. t \in InBlock \ InSync /\ InBlock' = InBlock \ {t}
  BY DEF Alone, InBlock, InSync
<1>2. CASE ~ (bar.n - 1 > 0 /\ bar.count >= bar.n - 1)
  <2>1. /\ bar' \in BlockBars /\ bar'.count = bar.count /\ bar'.cur = bar.cur
        /\ bar'.n = Cardinality(InBlock \ {t})
        /\ InSync # {} => InSync # InBlock \ {t}
    BY <1>0, <1>1, <1>2, BlockLeaves
  <2>2. InSync' = InSync
    BY <2>1 DEF InSync, Alone
  <2>3. bar.count = Cardinality(InSync)
    BY <1>0, BlockCounts
  <2> QED
    BY <1>0, <1>1, <2>1, <2>2, <2>3 DEF BarExact
<1>3. CASE bar.n - 1 > 0 /\ bar.count >= bar.n - 1
  <2>1. /\ bar' \in BlockBars /\ bar'.count = 0 /\ bar'.cur = bar.cur + 1
        /\ bar'.n = Cardinality(InBlock \ {t})
    BY <1>0, <1>1, <1>3, BlockLeavesLast
  <2>2. InSync' = {}
    BY <2>1, LateSyncs
  <2> QED
    BY <1>0, <1>1, <2>1, <2>2, FS_EmptySet DEF BarExact
<1> QED
  BY <1>0, <1>2, <1>3

(* A call that begins is added to the history of its thread. *)
LEMMA BeginHist ==
  ASSUME TypeOK, NEW t \in Thread, NEW c \in Calls, Begin(t, c)
  PROVE  /\ hist' \in [Thread -> Hists] /\ hist' = [hist EXCEPT ![t] = Note(hist[t], c)]
         /\ pc[t] = "kernel"
<1>1. hist \in [Thread -> Hists] /\ hist[t] \in Hists
  BY DEF TypeOK
<1>2. hist' = [hist EXCEPT ![t] = Note(hist[t], c)] /\ pc[t] = "kernel"
  BY DEF Begin
<1>3. /\ hist[t].begun \in Nat /\ hist[t].wrong \in BOOLEAN
      /\ hist[t].collective \in Seq(Calls) /\ hist[t].tiles \in Seq(TileArgs)
  BY <1>1 DEF Hists
<1> DEFINE co == IF Collective(c) THEN Append(hist[t].collective, c)
             ELSE hist[t].collective
           ti == IF Shared(c) THEN Append(hist[t].tiles, c.arg) ELSE hist[t].tiles
           wr == hist[t].wrong \/ Wrong(c)
<1>4. co \in Seq(Calls)
  BY <1>3, AppendProperties
<1>5. ti \in Seq(TileArgs)
  BY <1>3, AppendProperties DEF TileArgs
<1>6. wr \in BOOLEAN
  OBVIOUS
<1>7. Note(hist[t], c) =
        [begun |-> hist[t].begun + 1, wrong |-> wr, collective |-> co, tiles |-> ti]
  BY DEF Note
<1> HIDE DEF co, ti, wr
<1>8. Note(hist[t], c) \in Hists
  BY <1>3, <1>4, <1>5, <1>6, <1>7 DEF Hists
<1> QED
  BY <1>1, <1>2, <1>8

(* A report leaves a kind of diagnosis, and never erases one. *)
LEMMA ReportType ==
  ASSUME TypeOK, NEW wrong, NEW kind \in Kinds, ReportIf(wrong, kind)
  PROVE  fail' \in Kinds /\ (fail' = "none" => fail = "none")
BY DEF TypeOK, ReportIf, Kinds

(* A thread that moves stays in the program, and no other moves. *)
LEMMA GotoType ==
  ASSUME TypeOK, NEW t \in Thread, NEW where \in Locations, Goto(t, where)
  PROVE  /\ pc' \in [Thread -> Locations] /\ pc'[t] = where
         /\ \A s \in Thread \ {t} : pc'[s] = pc[s]
BY DEF TypeOK, Goto

(* Only waiters are overdue. *)
LEMMA OverdueType ==
  ASSUME TypeOK, NEW t \in Thread, pc' \in [Thread -> Locations],
         \A s \in Thread \ {t} : pc'[s] = pc[s],
         \/ overdue' = overdue \ {t}
         \/ overdue' = overdue /\ (pc'[t] \in {"sync", "meet", "part"} \/
              pc[t] \notin {"sync", "meet", "part"})
  PROVE  overdue' \subseteq {s \in Thread : pc'[s] \in {"sync", "meet", "part"}}
BY DEF TypeOK

(* A call for a shared tile keeps the slabs and the counts well typed. *)
LEMMA SharedTileType ==
  ASSUME TypeOK, NEW t \in Thread, NEW arg \in TileArgs, SharedTile(t, arg)
  PROVE  /\ seq' \in [Thread -> Nat] /\ slabs' \in Seq(TileArgs) /\ fail' \in Kinds
         /\ fail' = "none" => fail = "none"
<1>1. seq \in [Thread -> Nat] /\ slabs \in Seq(TileArgs) /\ fail \in Kinds
  BY DEF TypeOK
<1>2. seq' = [seq EXCEPT ![t] = seq[t] + 1]
  BY DEF SharedTile
<1>3. seq' \in [Thread -> Nat]
  BY <1>1, <1>2
<1>4. \/ slabs' = Append(slabs, arg) /\ UNCHANGED fail
      \/ slabs' = slabs /\ ReportIf(slabs[seq[t] + 1] # arg, "tile")
  BY DEF SharedTile
<1>5. slabs' \in Seq(TileArgs)
  BY <1>1, <1>4, AppendProperties
<1>6. fail' \in Kinds /\ (fail' = "none" => fail = "none")
  BY <1>1, <1>4 DEF ReportIf, Kinds
<1> QED
  BY <1>3, <1>5, <1>6

(* A timer fires on a waiter that is overdue, or early. *)
LEMMA Timing ==
  ASSUME TypeOK, NEW t \in Thread, NEW at, TimedOut(t, at)
  PROVE  /\ pc[t] = at /\ Blocked(t) /\ early' \in Nat /\ overdue' = overdue \ {t}
         /\ \/ t \in overdue /\ early' = early
            \/ t \notin overdue /\ early' = early + 1
BY DEF TypeOK, TimedOut

(* No barrier goes back. *)
LEMMA Current ==
  ASSUME TypeOK
  PROVE  bar.cur >= bar.cur /\ \A w \in Warp : wbar[w].cur >= wbar[w].cur
<1>1. bar.cur \in Nat
  BY BarType
<1>2. \A w \in Warp : wbar[w].cur \in Nat
  BY WarpBarType
<1> QED
  BY <1>1, <1>2

------------------------------------------------------------------------------
(* Types and exact counters, action by action: SyncThreads arrives, ... *)
LEMMA SyncThreadsCore ==
  ASSUME Core, NEW t \in Thread, SyncThreads(t)
  PROVE  Core' /\ Alone(t)
<1>0. TypeOK /\ WarpExact /\ BarExact /\ GenBound
  BY DEF Core
<1>1. PICK c \in Calls : c.kind = "sync" /\ Begin(t, c)
  BY DEF SyncThreads
<1>2. hist' \in [Thread -> Hists] /\ pc[t] = "kernel"
  BY <1>0, <1>1, BeginHist
<1>3. /\ bar' = Arrive(bar) /\ gen' = [gen EXCEPT ![t] = bar.cur] /\ Goto(t, "sync")
      /\ UNCHANGED <<wbar, ops, slabs, seq, fail, verdict, overdue, early, partGaveUp>>
  BY DEF SyncThreads, timing
<1>4. /\ pc' \in [Thread -> Locations] /\ pc'[t] = "sync"
      /\ \A s \in Thread \ {t} : pc'[s] = pc[s]
  BY <1>0, <1>3, GotoType DEF Locations
<1>5. bar.cur \in Nat /\ gen \in [Thread -> Nat]
  BY <1>0, BarType DEF TypeOK
<1>6. gen' \in [Thread -> Nat] /\ gen'[t] = bar.cur /\
        \A s \in Thread \ {t} : gen'[s] = gen[s]
  BY <1>3, <1>5
<1>7. Alone(t)
  BY <1>4, <1>6 DEF Alone
<1>8. t \in InBlock \ InSync /\ t \notin Parked(WarpOf[t])
  BY <1>2 DEF InBlock, InSync, Parked, InMeet, InPart
<1>9. BarExact' /\ bar' \in BlockBars /\ bar'.cur >= bar.cur
  BY <1>3, <1>4, <1>6, <1>7, <1>8, SyncArriveExact
<1>10. WarpExact'
  BY <1>0, <1>2, <1>3, <1>4, <1>7, <1>8, WarpsSame
<1>11. overdue' \subseteq {s \in Thread : pc'[s] \in {"sync", "meet", "part"}}
  BY <1>0, <1>3, <1>4, OverdueType
<1>12. TypeOK'
  BY <1>0, <1>2, <1>3, <1>4, <1>6, <1>9, <1>11 DEF TypeOK, BlockBars
<1>13. \A w \in Warp : wbar'[w].cur >= wbar[w].cur
  BY <1>0, <1>3, Current
<1>14. gen'[t] <= Generation(t)'
  BY <1>4, <1>5, <1>6, <1>9 DEF Generation, BlockBars
<1>15. GenBound'
  BY <1>0, <1>7, <1>9, <1>12, <1>13, <1>14, GenStays
<1> QED
  BY <1>7, <1>9, <1>10, <1>12, <1>15 DEF Core

(* ... a released wait returns, ... *)
LEMMA SyncReturnsCore ==
  ASSUME Core, NEW t \in Thread, SyncReturns(t)
  PROVE  Core' /\ Alone(t)
<1>0. TypeOK /\ WarpExact /\ BarExact /\ GenBound
  BY DEF Core
<1>1. /\ pc[t] = "sync" /\ gen[t] # bar.cur /\ Goto(t, "kernel")
      /\ overdue' = overdue \ {t}
      /\ UNCHANGED <<bar, wbar, ops, slabs, seq, fail, gen, verdict, hist, early,
           partGaveUp>>
  BY DEF SyncReturns, Freed, Blocked, Generation, WakesUp, barriers
<1>2. /\ pc' \in [Thread -> Locations] /\ pc'[t] = "kernel"
      /\ \A s \in Thread \ {t} : pc'[s] = pc[s]
  BY <1>0, <1>1, GotoType DEF Locations
<1>3. Alone(t)
  BY <1>1, <1>2 DEF Alone
<1>4. t \notin InSync /\ t \notin Parked(WarpOf[t])
  BY <1>1 DEF InSync, Parked, InMeet, InPart
<1>5. BarExact'
  BY <1>0, <1>1, <1>2, <1>3, <1>4, BarSame
<1>6. WarpExact'
  BY <1>0, <1>1, <1>2, <1>3, <1>4, WarpsSame
<1>7. overdue' \subseteq {s \in Thread : pc'[s] \in {"sync", "meet", "part"}}
  BY <1>0, <1>1, <1>2, OverdueType
<1>8. TypeOK'
  BY <1>0, <1>1, <1>2, <1>7 DEF TypeOK
<1>9. bar'.cur >= bar.cur /\ \A w \in Warp : wbar'[w].cur >= wbar[w].cur
  BY <1>0, <1>1, Current
<1>10. GenBound'
  BY <1>0, <1>2, <1>3, <1>8, <1>9, GenStays
<1> QED
  BY <1>3, <1>5, <1>6, <1>8, <1>10 DEF Core

(* ... a timed out one takes its arrival back. *)
LEMMA SyncGivesUpCore ==
  ASSUME Core, NEW t \in Thread, SyncGivesUp(t)
  PROVE  Core' /\ Alone(t)
<1>0. TypeOK /\ WarpExact /\ BarExact /\ GenBound
  BY DEF Core
<1>1. /\ TimedOut(t, "sync") /\ bar' = TakeBack(bar) /\ Goto(t, "kernel")
      /\ ReportIf(TRUE, "blockStall")
      /\ UNCHANGED <<wbar, ops, slabs, seq, gen, verdict, partGaveUp, hist>>
  BY DEF SyncGivesUp
<1>2. /\ pc[t] = "sync" /\ gen[t] = bar.cur /\ early' \in Nat
      /\ overdue' = overdue \ {t}
  BY <1>0, <1>1, Timing DEF Blocked, Generation
<1>3. /\ pc' \in [Thread -> Locations] /\ pc'[t] = "kernel"
      /\ \A s \in Thread \ {t} : pc'[s] = pc[s]
  BY <1>0, <1>1, GotoType DEF Locations
<1>4. Alone(t)
  BY <1>1, <1>3 DEF Alone
<1>5. t \in InSync /\ t \notin Parked(WarpOf[t])
  BY <1>2 DEF InSync, Parked, InMeet, InPart
<1>6. BarExact' /\ bar' \in BlockBars /\ bar'.cur = bar.cur
  BY <1>1, <1>3, <1>4, <1>5, SyncTakeBackExact
<1>7. WarpExact'
  BY <1>0, <1>1, <1>2, <1>3, <1>4, <1>5, WarpsSame
<1>8. overdue' \subseteq {s \in Thread : pc'[s] \in {"sync", "meet", "part"}}
  BY <1>0, <1>2, <1>3, OverdueType
<1>9. fail' \in Kinds
  BY <1>0, <1>1, ReportType DEF Kinds
<1>10. TypeOK'
  BY <1>0, <1>1, <1>2, <1>3, <1>6, <1>8, <1>9 DEF TypeOK, BlockBars
<1>11. bar'.cur >= bar.cur /\ \A w \in Warp : wbar'[w].cur >= wbar[w].cur
  BY <1>0, <1>1, <1>6, Current
<1>12. GenBound'
  BY <1>0, <1>3, <1>4, <1>10, <1>11, GenStays
<1> QED
  BY <1>4, <1>6, <1>7, <1>10, <1>12 DEF Core

(* Both arrivals of a warp call, ... *)
LEMMA ArrivesCore ==
  ASSUME Core, NEW t \in Thread, Alone(t), pc[t] \in {"kernel", "meet"},
         pc[t] = "meet" => gen[t] # wbar[WarpOf[t]].cur,
         bar' = bar, wbar' = [wbar EXCEPT ![WarpOf[t]] = WarpArrive(@, t)],
         gen' = [gen EXCEPT ![t] = wbar[WarpOf[t]].cur], pc'[t] \in {"meet", "part"}
  PROVE  /\ BarExact' /\ WarpExact' /\ (TypeOK' => GenBound')
         /\ wbar' \in [Warp -> WarpBars] /\
              \A v \in Warp : Len(wbar'[v].opened) = wbar'[v].cur
         /\ gen' \in [Thread -> Nat] /\ gen'[t] = wbar[WarpOf[t]].cur
<1> DEFINE w == WarpOf[t]
<1>0. TypeOK /\ WarpExact /\ BarExact /\ GenBound /\ w \in Warp
  BY Crew DEF Core
<1>1. wbar[w].cur \in Nat /\ gen \in [Thread -> Nat] /\ gen'[t] = wbar[w].cur
  BY <1>0, WarpBarType DEF TypeOK
<1>2. gen' \in [Thread -> Nat]
  BY <1>1
<1>3. t \in InWarp(w) \ Parked(w)
  BY <1>0, Crew DEF InWarp, Parked, InMeet, InPart
<1>4. t \notin InSync
  BY DEF InSync
<1>5. BarExact'
  BY <1>0, <1>4, BarSame
<1>6. /\ WarpExact'
      /\ wbar' \in [Warp -> WarpBars] /\
           \A v \in Warp : Len(wbar'[v].opened) = wbar'[v].cur
      /\ \A v \in Warp : wbar'[v].cur >= wbar[v].cur
  BY <1>0, <1>1, <1>3, ArriveExact
<1>7. ASSUME TypeOK' PROVE GenBound'
  <2>1. bar'.cur >= bar.cur
    BY <1>0, BarType
  <2>2. gen'[t] <= Generation(t)'
    BY <1>0, <1>1, <1>6 DEF Generation
  <2> QED
    BY <1>0, <1>6, <1>7, <2>1, <2>2, GenStays
<1> QED
  BY <1>1, <1>2, <1>5, <1>6, <1>7

(* ... the one in meet ... *)
LEMMA MeetCore ==
  ASSUME Core, NEW t \in Thread, Meet(t)
  PROVE  Core' /\ Alone(t)
<1>0. TypeOK /\ WarpExact /\ BarExact /\ GenBound
  BY DEF Core
<1>1. PICK c \in Calls : c.kind = "warp" /\ Begin(t, c) /\
             ops' = [ops EXCEPT ![t] = c.arg]
  BY DEF Meet
<1>2. hist' \in [Thread -> Hists] /\ pc[t] = "kernel"
  BY <1>0, <1>1, BeginHist
<1>3. /\ wbar' = [wbar EXCEPT ![WarpOf[t]] = WarpArrive(@, t)]
      /\ gen' = [gen EXCEPT ![t] = wbar[WarpOf[t]].cur] /\ Goto(t, "meet")
      /\ UNCHANGED <<bar, slabs, seq, fail, verdict, overdue, early, partGaveUp>>
  BY DEF Meet, timing
<1>4. /\ pc' \in [Thread -> Locations] /\ pc'[t] = "meet"
      /\ \A s \in Thread \ {t} : pc'[s] = pc[s]
  BY <1>0, <1>3, GotoType DEF Locations
<1>5. Alone(t)
  BY <1>3, <1>4 DEF Alone
<1>6. /\ BarExact' /\ WarpExact' /\ (TypeOK' => GenBound')
      /\ wbar' \in [Warp -> WarpBars] /\
           \A v \in Warp : Len(wbar'[v].opened) = wbar'[v].cur
      /\ gen' \in [Thread -> Nat]
  BY <1>2, <1>3, <1>4, <1>5, ArrivesCore
<1>7. ops' \in [Thread -> Operations \union {"none"}]
  <2>1. c.arg \in Operations
    BY <1>1 DEF Operations
  <2> QED
    BY <1>0, <1>1, <2>1 DEF TypeOK
<1>8. overdue' \subseteq {s \in Thread : pc'[s] \in {"sync", "meet", "part"}}
  BY <1>0, <1>3, <1>4, OverdueType
<1>9. TypeOK'
  BY <1>0, <1>2, <1>3, <1>4, <1>6, <1>7, <1>8 DEF TypeOK
<1> QED
  BY <1>5, <1>6, <1>9 DEF Core

(* ... and the one in part. *)
LEMMA MeetReturnsCore ==
  ASSUME Core, NEW t \in Thread, MeetReturns(t)
  PROVE  Core' /\ Alone(t)
<1>0. TypeOK /\ WarpExact /\ BarExact /\ GenBound
  BY DEF Core
<1>1. PICK wrong : ReportIf(wrong, "mismatch")
  BY DEF MeetReturns
<1>3. /\ wbar' = [wbar EXCEPT ![WarpOf[t]] = WarpArrive(@, t)]
      /\ gen' = [gen EXCEPT ![t] = wbar[WarpOf[t]].cur] /\ Goto(t, "part")
      /\ pc[t] = "meet" /\ gen[t] # wbar[WarpOf[t]].cur /\ overdue' = overdue \ {t}
      /\ UNCHANGED <<bar, ops, slabs, seq, verdict, hist, early, partGaveUp>>
  BY DEF MeetReturns, Freed, Blocked, Generation, WakesUp
<1>4. /\ pc' \in [Thread -> Locations] /\ pc'[t] = "part"
      /\ \A s \in Thread \ {t} : pc'[s] = pc[s]
  BY <1>0, <1>3, GotoType DEF Locations
<1>5. Alone(t)
  BY <1>3, <1>4 DEF Alone
<1>6. /\ BarExact' /\ WarpExact' /\ (TypeOK' => GenBound')
      /\ wbar' \in [Warp -> WarpBars] /\
           \A v \in Warp : Len(wbar'[v].opened) = wbar'[v].cur
      /\ gen' \in [Thread -> Nat]
  BY <1>3, <1>4, <1>5, ArrivesCore
<1>7. fail' \in Kinds
  BY <1>0, <1>1, ReportType DEF Kinds
<1>8. overdue' \subseteq {s \in Thread : pc'[s] \in {"sync", "meet", "part"}}
  BY <1>0, <1>3, <1>4, OverdueType
<1>9. TypeOK'
  BY <1>0, <1>3, <1>4, <1>6, <1>7, <1>8 DEF TypeOK
<1> QED
  BY <1>5, <1>6, <1>9 DEF Core

(* Both timeouts of a warp call, ... *)
LEMMA TakesBackCore ==
  ASSUME Core, NEW t \in Thread, Alone(t), pc[t] \in {"meet", "part"},
         gen[t] = wbar[WarpOf[t]].cur, bar' = bar,
         wbar' = [wbar EXCEPT ![WarpOf[t]] = WarpTakeBack(@, t)], pc'[t] = "kernel"
  PROVE  /\ BarExact' /\ WarpExact' /\ (TypeOK' => GenBound')
         /\ wbar' \in [Warp -> WarpBars] /\
              \A v \in Warp : Len(wbar'[v].opened) = wbar'[v].cur
<1> DEFINE w == WarpOf[t]
<1>0. TypeOK /\ WarpExact /\ BarExact /\ GenBound /\ w \in Warp
  BY Crew DEF Core
<1>1. t \in Parked(w)
  BY <1>0, Crew DEF Parked, InMeet, InPart
<1>2. t \notin InSync
  BY DEF InSync
<1>3. BarExact'
  BY <1>0, <1>2, BarSame
<1>4. /\ WarpExact'
      /\ wbar' \in [Warp -> WarpBars] /\
           \A v \in Warp : Len(wbar'[v].opened) = wbar'[v].cur
      /\ \A v \in Warp : wbar'[v].cur = wbar[v].cur
  BY <1>0, <1>1, TakeBackExact
<1>5. \A v \in Warp : wbar'[v].cur >= wbar[v].cur
  BY <1>0, <1>4, WarpBarType
<1>6. bar'.cur >= bar.cur
  BY <1>0, BarType
<1>7. ASSUME TypeOK' PROVE GenBound'
  BY <1>0, <1>5, <1>6, <1>7, GenStays
<1> QED
  BY <1>3, <1>4, <1>7

(* ... the one in meet ... *)
LEMMA MeetGivesUpCore ==
  ASSUME Core, NEW t \in Thread, MeetGivesUp(t)
  PROVE  Core' /\ Alone(t)
<1>0. TypeOK /\ WarpExact /\ BarExact /\ GenBound
  BY DEF Core
<1>1. /\ TimedOut(t, "meet") /\ wbar' = [wbar EXCEPT ![WarpOf[t]] = WarpTakeBack(@, t)]
      /\ Goto(t, "kernel") /\ ReportIf(TRUE, "warpStall")
      /\ UNCHANGED <<bar, ops, slabs, seq, gen, verdict, partGaveUp, hist>>
  BY DEF MeetGivesUp
<1>2. /\ pc[t] = "meet" /\ gen[t] = wbar[WarpOf[t]].cur /\ early' \in Nat
      /\ overdue' = overdue \ {t}
  BY <1>0, <1>1, Timing DEF Blocked, Generation
<1>3. /\ pc' \in [Thread -> Locations] /\ pc'[t] = "kernel"
      /\ \A s \in Thread \ {t} : pc'[s] = pc[s]
  BY <1>0, <1>1, GotoType DEF Locations
<1>4. Alone(t)
  BY <1>1, <1>3 DEF Alone
<1>5. /\ BarExact' /\ WarpExact' /\ (TypeOK' => GenBound')
      /\ wbar' \in [Warp -> WarpBars] /\
           \A v \in Warp : Len(wbar'[v].opened) = wbar'[v].cur
  BY <1>1, <1>2, <1>3, <1>4, TakesBackCore
<1>8. overdue' \subseteq {s \in Thread : pc'[s] \in {"sync", "meet", "part"}}
  BY <1>0, <1>2, <1>3, OverdueType
<1>9. fail' \in Kinds
  BY <1>0, <1>1, ReportType DEF Kinds
<1>10. TypeOK'
  BY <1>0, <1>1, <1>2, <1>3, <1>5, <1>8, <1>9 DEF TypeOK
<1> QED
  BY <1>4, <1>5, <1>10 DEF Core

(* ... and the one in part. *)
LEMMA PartGivesUpCore ==
  ASSUME Core, NEW t \in Thread, PartGivesUp(t)
  PROVE  Core' /\ Alone(t)
<1>0. TypeOK /\ WarpExact /\ BarExact /\ GenBound
  BY DEF Core
<1>1. /\ TimedOut(t, "part") /\ wbar' = [wbar EXCEPT ![WarpOf[t]] = WarpTakeBack(@, t)]
      /\ Goto(t, "kernel") /\ partGaveUp' = TRUE
      /\ UNCHANGED <<bar, ops, slabs, seq, fail, gen, verdict, hist>>
  BY DEF PartGivesUp
<1>2. /\ pc[t] = "part" /\ gen[t] = wbar[WarpOf[t]].cur /\ early' \in Nat
      /\ overdue' = overdue \ {t}
  BY <1>0, <1>1, Timing DEF Blocked, Generation
<1>3. /\ pc' \in [Thread -> Locations] /\ pc'[t] = "kernel"
      /\ \A s \in Thread \ {t} : pc'[s] = pc[s]
  BY <1>0, <1>1, GotoType DEF Locations
<1>4. Alone(t)
  BY <1>1, <1>3 DEF Alone
<1>5. /\ BarExact' /\ WarpExact' /\ (TypeOK' => GenBound')
      /\ wbar' \in [Warp -> WarpBars] /\
           \A v \in Warp : Len(wbar'[v].opened) = wbar'[v].cur
  BY <1>1, <1>2, <1>3, <1>4, TakesBackCore
<1>8. overdue' \subseteq {s \in Thread : pc'[s] \in {"sync", "meet", "part"}}
  BY <1>0, <1>2, <1>3, OverdueType
<1>9. partGaveUp' \in BOOLEAN
  BY <1>1
<1>10. TypeOK'
  BY <1>0, <1>1, <1>2, <1>3, <1>5, <1>8, <1>9 DEF TypeOK
<1> QED
  BY <1>4, <1>5, <1>10 DEF Core

(* A released part returns to the kernel. *)
LEMMA PartReturnsCore ==
  ASSUME Core, NEW t \in Thread, PartReturns(t)
  PROVE  Core' /\ Alone(t)
<1>0. TypeOK /\ WarpExact /\ BarExact /\ GenBound
  BY DEF Core
<1>1. /\ pc[t] = "part" /\ gen[t] # wbar[WarpOf[t]].cur /\ Goto(t, "kernel")
      /\ overdue' = overdue \ {t}
      /\ UNCHANGED <<bar, wbar, ops, slabs, seq, fail, gen, verdict, hist, early,
           partGaveUp>>
  BY DEF PartReturns, Freed, Blocked, Generation, WakesUp, barriers
<1>2. /\ pc' \in [Thread -> Locations] /\ pc'[t] = "kernel"
      /\ \A s \in Thread \ {t} : pc'[s] = pc[s]
  BY <1>0, <1>1, GotoType DEF Locations
<1>3. Alone(t)
  BY <1>1, <1>2 DEF Alone
<1>4. t \notin InSync /\ t \notin Parked(WarpOf[t])
  BY <1>1 DEF InSync, Parked, InMeet, InPart
<1>5. BarExact'
  BY <1>0, <1>1, <1>2, <1>3, <1>4, BarSame
<1>6. WarpExact'
  BY <1>0, <1>1, <1>2, <1>3, <1>4, WarpsSame
<1>7. overdue' \subseteq {s \in Thread : pc'[s] \in {"sync", "meet", "part"}}
  BY <1>0, <1>1, <1>2, OverdueType
<1>8. TypeOK'
  BY <1>0, <1>1, <1>2, <1>7 DEF TypeOK
<1>9. bar'.cur >= bar.cur /\ \A w \in Warp : wbar'[w].cur >= wbar[w].cur
  BY <1>0, <1>1, Current
<1>10. GenBound'
  BY <1>0, <1>2, <1>3, <1>8, <1>9, GenStays
<1> QED
  BY <1>3, <1>5, <1>6, <1>8, <1>10 DEF Core

(* Steps that move no thread and touch no barrier keep the counters exact:
   ... *)
LEMMA StillCore ==
  ASSUME Core, TypeOK', UNCHANGED <<bar, wbar, pc, gen>>
  PROVE  Core'
<1>1. BarExact'
  BY DEF Core, BarExact, InSync, InBlock
<1>2. GenBound'
  BY DEF Core, GenBound, Generation
<1>3. WarpExact'
  <2> SUFFICES ASSUME NEW w \in Warp PROVE MaskExact(w)'
    BY DEF WarpExact
  <2>1. MaskExact(w)
    BY DEF Core, WarpExact
  <2> QED
    BY <2>1 DEF MaskExact, InMeet, InPart, InWarp
<1> QED
  BY <1>1, <1>2, <1>3 DEF Core

(* ... a call for a shared tile, ... *)
LEMMA TileCore ==
  ASSUME Core, NEW t \in Thread, Tile(t)
  PROVE  Core' /\ Alone(t)
<1>0. TypeOK
  BY DEF Core
<1>1. PICK c \in Calls : c.kind = "tile" /\ Begin(t, c) /\ SharedTile(t, c.arg)
  BY DEF Tile
<1>2. UNCHANGED <<bar, wbar, ops, pc, gen, verdict, overdue, early, partGaveUp>>
  BY DEF Tile, barriers, timing
<1>3. hist' \in [Thread -> Hists]
  BY <1>0, <1>1, BeginHist
<1>4. c.arg \in TileArgs
  BY <1>1 DEF TileArgs, Shared
<1>5. seq' \in [Thread -> Nat] /\ slabs' \in Seq(TileArgs) /\ fail' \in Kinds
  BY <1>0, <1>1, <1>4, SharedTileType
<1>6. TypeOK'
  BY <1>0, <1>2, <1>3, <1>5 DEF TypeOK
<1> QED
  BY <1>2, <1>6, StillCore DEF Alone

(* ... for the dynamic tile, ... *)
LEMMA DynTileCore ==
  ASSUME Core, NEW t \in Thread, DynTile(t)
  PROVE  Core' /\ Alone(t)
<1>0. TypeOK
  BY DEF Core
<1>1. PICK c \in Calls :
        /\ c.kind = "dynTile" /\ Begin(t, c)
        /\ IF DynSized THEN SharedTile(t, c.arg)
                       ELSE ReportIf(TRUE, "unsized") /\ UNCHANGED <<slabs, seq>>
  BY DEF DynTile
<1>2. UNCHANGED <<bar, wbar, ops, pc, gen, verdict, overdue, early, partGaveUp>>
  BY DEF DynTile, barriers, timing
<1>3. hist' \in [Thread -> Hists]
  BY <1>0, <1>1, BeginHist
<1>4. seq' \in [Thread -> Nat] /\ slabs' \in Seq(TileArgs) /\ fail' \in Kinds
  <2>1. CASE DynSized
    <3>1. c.arg \in TileArgs
      BY <1>1, <2>1 DEF TileArgs, Shared
    <3> QED
      BY <1>0, <1>1, <2>1, <3>1, SharedTileType
  <2>2. CASE ~ DynSized
    <3>1. fail' \in Kinds
      BY <1>0, <1>1, <2>2, ReportType DEF Kinds
    <3> QED
      BY <1>0, <1>1, <2>2, <3>1 DEF TypeOK
  <2> QED
    BY <2>1, <2>2
<1>5. TypeOK'
  BY <1>0, <1>2, <1>3, <1>4 DEF TypeOK
<1> QED
  BY <1>2, <1>5, StillCore DEF Alone

(* ... and for a block size. *)
LEMMA AssumeBlockDimCore ==
  ASSUME Core, NEW t \in Thread, AssumeBlockDim(t)
  PROVE  Core' /\ Alone(t)
<1>0. TypeOK
  BY DEF Core
<1>1. PICK c \in Calls : /\ c.kind = "assume" /\ Begin(t, c)
                         /\ ReportIf(c.arg # Cardinality(Thread), "blockDim")
  BY DEF AssumeBlockDim
<1>2. UNCHANGED <<bar, wbar, ops, slabs, seq, pc, gen, verdict, overdue, early,
        partGaveUp>>
  BY DEF AssumeBlockDim, barriers, timing
<1>3. hist' \in [Thread -> Hists]
  BY <1>0, <1>1, BeginHist
<1>4. fail' \in Kinds
  BY <1>0, <1>1, ReportType DEF Kinds
<1>5. TypeOK'
  BY <1>0, <1>2, <1>3, <1>4 DEF TypeOK
<1> QED
  BY <1>2, <1>5, StillCore DEF Alone

(* A kernel body that ends is still counted by both barriers, ... *)
LEMMA LeavingCore ==
  ASSUME Core, NEW t \in Thread, pc[t] = "kernel", Goto(t, "leaving"),
         fail' \in Kinds, hist' \in [Thread -> Hists],
         UNCHANGED <<bar, wbar, ops, slabs, seq, gen, verdict, overdue, early,
           partGaveUp>>
  PROVE  Core' /\ Alone(t)
<1>0. TypeOK /\ WarpExact /\ BarExact /\ GenBound
  BY DEF Core
<1>2. /\ pc' \in [Thread -> Locations] /\ pc'[t] = "leaving"
      /\ \A s \in Thread \ {t} : pc'[s] = pc[s]
  BY <1>0, GotoType DEF Locations
<1>3. Alone(t)
  BY <1>2 DEF Alone
<1>4. t \notin InSync /\ t \notin Parked(WarpOf[t])
  BY DEF InSync, Parked, InMeet, InPart
<1>5. BarExact'
  BY <1>0, <1>2, <1>3, <1>4, BarSame
<1>6. WarpExact'
  BY <1>0, <1>2, <1>3, <1>4, WarpsSame
<1>7. overdue' \subseteq {s \in Thread : pc'[s] \in {"sync", "meet", "part"}}
  BY <1>0, <1>2, OverdueType
<1>8. TypeOK'
  BY <1>0, <1>2, <1>7 DEF TypeOK
<1>9. bar'.cur >= bar.cur /\ \A w \in Warp : wbar'[w].cur >= wbar[w].cur
  BY <1>0, Current
<1>10. GenBound'
  BY <1>0, <1>2, <1>3, <1>8, <1>9, GenStays
<1> QED
  BY <1>3, <1>5, <1>6, <1>8, <1>10 DEF Core

(* ... whether it returns ... *)
LEMMA ReturnCore ==
  ASSUME Core, NEW t \in Thread, Return(t)
  PROVE  Core' /\ Alone(t)
<1>1. fail' \in Kinds /\ hist' \in [Thread -> Hists]
  BY DEF Return, Core, TypeOK
<1> QED
  BY <1>1, LeavingCore DEF Return, barriers, timing

(* ... or panics. *)
LEMMA PanicCore ==
  ASSUME Core, NEW t \in Thread, Panic(t)
  PROVE  Core' /\ Alone(t)
<1>0. TypeOK
  BY DEF Core
<1>1. PICK c \in Calls : c.kind = "panic" /\ Begin(t, c)
  BY DEF Panic
<1>2. hist' \in [Thread -> Hists] /\ pc[t] = "kernel"
  BY <1>0, <1>1, BeginHist
<1>3. fail' \in Kinds
  <2>1. ReportIf(TRUE, "panic")
    BY DEF Panic
  <2> QED
    BY <1>0, <2>1, ReportType DEF Kinds
<1> QED
  BY <1>2, <1>3, LeavingCore DEF Panic, barriers, timing

(* The deferred departures keep the counters exact, the block's ... *)
LEMMA LeaveBarrierCore ==
  ASSUME Core, NEW t \in Thread, LeaveBarrier(t)
  PROVE  Core' /\ Alone(t)
<1>0. TypeOK /\ WarpExact /\ BarExact /\ GenBound
  BY DEF Core
<1>1. /\ pc[t] = "leaving" /\ bar' = Abandon(bar) /\ Goto(t, "leavingWarp")
      /\ UNCHANGED <<wbar, ops, slabs, seq, fail, gen, verdict, overdue, early,
           partGaveUp, hist>>
  BY DEF LeaveBarrier, timing
<1>2. /\ pc' \in [Thread -> Locations] /\ pc'[t] = "leavingWarp"
      /\ \A s \in Thread \ {t} : pc'[s] = pc[s]
  BY <1>0, <1>1, GotoType DEF Locations
<1>3. Alone(t)
  BY <1>1, <1>2 DEF Alone
<1>4. t \notin Parked(WarpOf[t])
  BY <1>1 DEF Parked, InMeet, InPart
<1>5. BarExact' /\ bar' \in BlockBars /\ bar'.cur >= bar.cur
  BY <1>1, <1>2, <1>3, LeaveBarExact
<1>6. WarpExact'
  BY <1>0, <1>1, <1>2, <1>3, <1>4, WarpsSame
<1>7. overdue' \subseteq {s \in Thread : pc'[s] \in {"sync", "meet", "part"}}
  BY <1>0, <1>1, <1>2, OverdueType
<1>8. TypeOK'
  BY <1>0, <1>1, <1>2, <1>5, <1>7 DEF TypeOK, BlockBars
<1>9. \A w \in Warp : wbar'[w].cur >= wbar[w].cur
  BY <1>0, <1>1, Current
<1>10. GenBound'
  BY <1>0, <1>2, <1>3, <1>5, <1>8, <1>9, GenStays
<1> QED
  BY <1>3, <1>5, <1>6, <1>8, <1>10 DEF Core

(* ... and the warp's. *)
LEMMA LeaveWarpCore ==
  ASSUME Core, NEW t \in Thread, LeaveWarp(t)
  PROVE  Core' /\ Alone(t)
<1> DEFINE w == WarpOf[t]
<1>0. TypeOK /\ WarpExact /\ BarExact /\ GenBound /\ w \in Warp
  BY Crew DEF Core
<1>1. /\ pc[t] = "leavingWarp" /\ wbar' = [wbar EXCEPT ![w] = WarpAbandon(@)]
      /\ Goto(t, "done")
      /\ UNCHANGED <<bar, ops, slabs, seq, fail, gen, verdict, overdue, early,
           partGaveUp, hist>>
  BY DEF LeaveWarp, timing
<1>2. /\ pc' \in [Thread -> Locations] /\ pc'[t] = "done"
      /\ \A s \in Thread \ {t} : pc'[s] = pc[s]
  BY <1>0, <1>1, GotoType DEF Locations
<1>3. Alone(t)
  BY <1>1, <1>2 DEF Alone
<1>4. t \in InWarp(w) \ Parked(w) /\ t \notin InSync
  BY <1>0, <1>1, Crew DEF InWarp, Parked, InMeet, InPart, InSync
<1>5. BarExact'
  BY <1>0, <1>1, <1>2, <1>3, <1>4, BarSame
<1>6. /\ WarpExact'
      /\ wbar' \in [Warp -> WarpBars] /\
           \A v \in Warp : Len(wbar'[v].opened) = wbar'[v].cur
      /\ \A v \in Warp : wbar'[v].cur >= wbar[v].cur
  BY <1>0, <1>1, <1>2, <1>3, <1>4, LeaveExact
<1>7. overdue' \subseteq {s \in Thread : pc'[s] \in {"sync", "meet", "part"}}
  BY <1>0, <1>1, <1>2, OverdueType
<1>8. TypeOK'
  BY <1>0, <1>1, <1>2, <1>6, <1>7 DEF TypeOK
<1>9. bar'.cur >= bar.cur
  BY <1>0, <1>1, Current
<1>10. GenBound'
  BY <1>0, <1>2, <1>3, <1>6, <1>8, <1>9, GenStays
<1> QED
  BY <1>3, <1>5, <1>6, <1>8, <1>10 DEF Core

(* The passing of time ... *)
LEMMA StallCore ==
  ASSUME Core, Stall
  PROVE  Core' /\ UNCHANGED <<bar, wbar, pc, gen>>
<1>1. UNCHANGED <<bar, wbar, ops, slabs, seq, fail, pc, gen, verdict, early, partGaveUp,
        hist>>
  BY DEF Stall, barriers
<1>2. overdue' \subseteq {s \in Thread : pc'[s] \in {"sync", "meet", "part"}}
  BY <1>1 DEF Stall, Blocked
<1>3. TypeOK'
  BY <1>1, <1>2 DEF Core, TypeOK
<1> QED
  BY <1>1, <1>3, StillCore

(* ... and the end of the block move nobody. *)
LEMMA FinishCore ==
  ASSUME Core, Finish
  PROVE  Core' /\ UNCHANGED <<bar, wbar, pc, gen>>
<1>1. /\ UNCHANGED <<bar, wbar, ops, slabs, seq, pc, gen, early, partGaveUp, overdue,
           hist>>
      /\ verdict' = fail'
  BY DEF Finish, barriers, timing
<1>2. PICK wrong : ReportIf(wrong, "divergence")
  BY DEF Finish
<1>3. fail' \in Kinds
  BY <1>2, ReportType DEF Kinds, Core
<1>4. TypeOK'
  BY <1>1, <1>3 DEF Core, TypeOK
<1> QED
  BY <1>1, <1>4, StillCore

(* Every step of a thread keeps types and counters, and moves that thread
   only. *)
LEMMA StepCore ==
  ASSUME Core, NEW t \in Thread, Step(t)
  PROVE  Core' /\ Alone(t)
BY SyncThreadsCore, MeetCore, TileCore, DynTileCore, AssumeBlockDimCore, ReturnCore,
   PanicCore, LeaveBarrierCore, LeaveWarpCore, SyncReturnsCore, SyncGivesUpCore,
   MeetReturnsCore, MeetGivesUpCore, PartReturnsCore, PartGivesUpCore DEF Step, Waits

(* They hold at the start. *)
LEMMA InitCore ==
  ASSUME Init
  PROVE  Core
<1>1. Cardinality(Thread) \in Nat /\ \A w \in Warp : Cardinality(Mates(w)) \in Nat
  BY ThreadSets, Shape
<1>2. /\ bar = [n |-> Cardinality(Thread), count |-> 0, cur |-> 0]
      /\ wbar = [w \in Warp |-> [n |-> Cardinality(Mates(w)), count |-> 0, mask |-> {},
                                 cur |-> 0, opened |-> <<>>]]
      /\ pc = [t \in Thread |-> "kernel"] /\ gen = [t \in Thread |-> 0]
  BY DEF Init, NewBarrier, NewWarpBarrier
<1>3. wbar \in [Warp -> WarpBars] /\ \A w \in Warp : Len(wbar[w].opened) = wbar[w].cur
  BY <1>1, <1>2 DEF WarpBars
<1>4. NothingYet \in Hists
  BY DEF NothingYet, Hists
<1>5. TypeOK
  <2>1. bar \in [n : Nat, count : Nat, cur : Nat]
    BY <1>1, <1>2
  <2>2. /\ ops \in [Thread -> Operations \union {"none"}] /\ seq \in [Thread -> Nat]
        /\ fail \in Kinds /\ gen \in [Thread -> Nat]
        /\ verdict \in Kinds \union {"running"} /\ early \in Nat /\ overdue = {}
    BY DEF Init, Kinds
  <2>4. slabs \in Seq(TileArgs)
    BY DEF Init
  <2>5. partGaveUp \in BOOLEAN
    BY Zenon DEF Init
  <2>3. pc \in [Thread -> Locations] /\ hist \in [Thread -> Hists]
    BY <1>4 DEF Init, Locations
  <2> QED
    BY <1>3, <2>1, <2>2, <2>3, <2>4, <2>5 DEF TypeOK
<1>6. BarExact
  <2>1. InSync = {} /\ InBlock = Thread
    BY <1>2 DEF InSync, InBlock
  <2> QED
    BY <1>2, <2>1, FS_EmptySet DEF BarExact
<1>7. WarpExact
  <2> SUFFICES ASSUME NEW w \in Warp PROVE MaskExact(w)
    BY DEF WarpExact
  <2>1. InMeet(w) = {} /\ InPart(w) = {} /\ InWarp(w) = Mates(w)
    BY <1>2 DEF InMeet, InPart, InWarp, Mates
  <2> QED
    BY <1>2, <2>1, FS_EmptySet DEF MaskExact
<1>8. GenBound
  BY <1>2 DEF GenBound
<1> QED
  BY <1>5, <1>6, <1>7, <1>8 DEF Core

------------------------------------------------------------------------------
(* An arrival at a warp's barrier opens nothing, or finds everybody else
   waiting and publishes them all. *)
LEMMA ArriveCases ==
  ASSUME Core, NEW t \in Thread, NEW w \in Warp, w = WarpOf[t],
         t \in InWarp(w) \ Parked(w), wbar' = [wbar EXCEPT ![w] = WarpArrive(@, t)]
  PROVE  /\ \A v \in Warp \ {w} : wbar'[v] = wbar[v]
         /\ \/ wbar'[w].cur = wbar[w].cur /\ wbar'[w].opened = wbar[w].opened
            \/ /\ wbar'[w].cur = wbar[w].cur + 1
               /\ wbar'[w].opened[wbar'[w].cur] = InWarp(w)
               /\ \A s \in InWarp(w) \ {t} : s \in InMeet(w) \/ s \in InPart(w)
<1>0. TypeOK /\ WarpExact
  BY DEF Core
<1>1. wbar'[w] = WarpArrive(wbar[w], t) /\ \A v \in Warp \ {w} : wbar'[v] = wbar[v]
  BY <1>0 DEF TypeOK
<1>2. wbar[w].count \in Nat /\ wbar[w].n \in Nat
  BY <1>0, WarpBarType
<1>3. CASE wbar[w].count + 1 < wbar[w].n
  <2>1. wbar'[w].cur = wbar[w].cur /\ wbar'[w].opened = wbar[w].opened
    BY <1>0, <1>1, <1>3, WarpJoins
  <2> QED
    BY <1>1, <2>1
<1>4. CASE wbar[w].count + 1 >= wbar[w].n
  <2>1. wbar'[w].cur = wbar[w].cur + 1
    BY <1>0, <1>1, <1>4, WarpOpens
  <2>2. wbar'[w].opened[wbar'[w].cur] = InWarp(w)
    BY <1>0, <1>1, <1>4, WarpPublishes
  <2>3. Parked(w) \union {t} = InWarp(w)
    BY <1>0, <1>4, WarpCountOne
  <2>4. \A s \in InWarp(w) \ {t} : s \in InMeet(w) \/ s \in InPart(w)
    BY <2>3 DEF Parked
  <2> QED
    BY <1>1, <2>1, <2>2, <2>4
<1> QED
  BY <1>2, <1>3, <1>4

(* A departure opens nothing, or finds everybody else waiting. *)
LEMMA LeaveCases ==
  ASSUME Core, NEW t \in Thread, NEW w \in Warp, w = WarpOf[t],
         t \in InWarp(w) \ Parked(w), wbar' = [wbar EXCEPT ![w] = WarpAbandon(@)]
  PROVE  /\ \A v \in Warp \ {w} : wbar'[v] = wbar[v]
         /\ \/ wbar'[w].cur = wbar[w].cur /\ wbar'[w].opened = wbar[w].opened
            \/ /\ wbar'[w].cur = wbar[w].cur + 1
               /\ wbar'[w].opened[wbar'[w].cur] = InWarp(w) \ {t}
               /\ \A s \in InWarp(w) \ {t} : s \in InMeet(w) \/ s \in InPart(w)
<1>0. TypeOK /\ WarpExact
  BY DEF Core
<1>1. wbar'[w] = WarpAbandon(wbar[w]) /\ \A v \in Warp \ {w} : wbar'[v] = wbar[v]
  BY <1>0 DEF TypeOK
<1>2. wbar[w].count \in Nat /\ wbar[w].n \in Nat
  BY <1>0, WarpBarType
<1>3. CASE ~ (wbar[w].n - 1 > 0 /\ wbar[w].count >= wbar[w].n - 1)
  <2>1. wbar'[w].cur = wbar[w].cur /\ wbar'[w].opened = wbar[w].opened
    <3>1. ~ (wbar[w].n - 1 > 0 /\ wbar[w].count >= wbar[w].n - 1)
      BY <1>3
    <3> DEFINE a == WarpAbandon(wbar[w])
    <3>2. a.cur = wbar[w].cur /\ a.opened = wbar[w].opened
      BY <1>0, <3>1, WarpLeaves
    <3> HIDE DEF a
    <3>3. wbar'[w] = a
      BY <1>1 DEF a
    <3> QED
      BY <3>2, <3>3
  <2> QED
    BY <1>1, <2>1
<1>4. CASE wbar[w].n - 1 > 0 /\ wbar[w].count >= wbar[w].n - 1
  <2>0. wbar[w].n - 1 > 0 /\ wbar[w].count >= wbar[w].n - 1
    BY <1>4
  <2> DEFINE a == WarpAbandon(wbar[w])
  <2>1. a.cur = wbar[w].cur + 1
    BY <1>0, <2>0, WarpLeavesLast
  <2>2. a.opened[a.cur] = InWarp(w) \ {t} /\ Parked(w) = InWarp(w) \ {t}
    BY <1>0, <2>0, WarpLeavesPublishing
  <2> HIDE DEF a
  <2>3. wbar'[w] = a
    BY <1>1 DEF a
  <2>4. \A s \in InWarp(w) \ {t} : s \in InMeet(w) \/ s \in InPart(w)
    BY <2>2 DEF Parked
  <2> QED
    BY <1>1, <2>1, <2>2, <2>3, <2>4
<1> QED
  BY <1>2, <1>3, <1>4

(* A wait that is given up opens nothing. *)
LEMMA TakeBackCases ==
  ASSUME Core, NEW t \in Thread, NEW w \in Warp, w = WarpOf[t],
         t \in Parked(w), wbar' = [wbar EXCEPT ![w] = WarpTakeBack(@, t)]
  PROVE  /\ \A v \in Warp \ {w} : wbar'[v] = wbar[v]
         /\ wbar'[w].cur = wbar[w].cur /\ wbar'[w].opened = wbar[w].opened
<1>0. TypeOK /\ WarpExact
  BY DEF Core
<1>1. wbar'[w] = WarpTakeBack(wbar[w], t) /\ \A v \in Warp \ {w} : wbar'[v] = wbar[v]
  BY <1>0 DEF TypeOK
<1>2. wbar'[w].cur = wbar[w].cur /\ wbar'[w].opened = wbar[w].opened
  BY <1>0, <1>1, WarpTakesBack
<1> QED
  BY <1>1, <1>2

(* A step that opens no generation and leaves its thread on the side it was
   on keeps the warp on one side of an exchange; ... *)
LEMMA SideStays ==
  ASSUME NEW t \in Thread, Alone(t), NEW w \in Warp,
         wbar'[w].cur = wbar[w].cur, wbar'[w].opened = wbar[w].opened,
         \/ WarpOf[t] # w
         \/ pc'[t] = "done" /\ Before(t)
         \/ /\ pc[t] # "done" /\ pc'[t] # "done" /\ pc'[t] # "meet"
            /\ Before(t)' <=> Before(t)
         \/ /\ pc[t] # "done" /\ pc'[t] # "done" /\ Before(t)' /\ Before(t),
         Gathering(w) \/ Exchanging(w)
  PROVE  Gathering(w)' \/ Exchanging(w)'
<1>1. \A s \in InWarp(w) : s \in Thread /\ WarpOf[s] = w /\ pc[s] # "done"
  BY DEF InWarp, Mates
<1>2. \A s \in InWarp(w)' : s \in Thread /\ WarpOf[s] = w /\ (s # t => s \in InWarp(w))
  BY DEF InWarp, Mates, Alone
<1>3. \A s \in InWarp(w) : s # t =>
        pc'[s] = pc[s] /\ gen'[s] = gen[s] /\ (Before(s)' <=> Before(s))
  BY <1>1 DEF Alone, Before, Blocked, Generation
<1>4. t \in InWarp(w)' => WarpOf[t] = w /\ pc'[t] # "done"
  BY DEF InWarp, Mates
<1>5. WarpOf[t] = w /\ pc[t] # "done" => t \in InWarp(w)
  BY DEF InWarp, Mates
<1>6. CASE Gathering(w)
  <2>1. \A s \in InWarp(w)' : Before(s)'
    BY <1>1, <1>2, <1>3, <1>4, <1>5, <1>6 DEF Gathering
  <2> QED
    BY <2>1 DEF Gathering
<1>7. CASE Exchanging(w) /\ ~ Gathering(w)
  <2>0. \A s \in InWarp(w) : ~ Before(s) /\ (pc[s] = "meet" =>
          gen[s] + 1 = wbar[w].cur /\ wbar[w].opened[wbar[w].cur] = InWarp(w))
    BY <1>7 DEF Exchanging
  <2>1. t \notin InWarp(w) \/
          (~ Before(t) /\ ~ Before(t)' /\ pc'[t] # "done" /\ pc'[t] # "meet")
    BY <1>1, <2>0
  <2>2. InWarp(w)' = InWarp(w)
    <3>1. t \in InWarp(w)' <=> t \in InWarp(w)
      BY <1>4, <1>5, <2>1 DEF InWarp, Mates
    <3>2. \A s \in Thread \ {t} : s \in InWarp(w)' <=> s \in InWarp(w)
      BY DEF InWarp, Mates, Alone
    <3>3. InWarp(w)' \subseteq Thread /\ InWarp(w) \subseteq Thread
      BY DEF InWarp, Mates
    <3> QED
      BY <3>1, <3>2, <3>3
  <2>3. \A s \in InWarp(w) : ~ Before(s)' /\ (pc'[s] = "meet" =>
          gen'[s] + 1 = wbar'[w].cur /\ wbar'[w].opened[wbar'[w].cur] = InWarp(w))
    BY <1>3, <2>0, <2>1
  <2> QED
    BY <2>2, <2>3 DEF Exchanging
<1> QED
  BY <1>6, <1>7

(* ... the last arrival at a meet, or a departure, turns everybody towards
   the exchange, and the last one at a part turns them back. *)
LEMMA SideTurns ==
  ASSUME Core, NEW w \in Warp, wbar'[w].cur = wbar[w].cur + 1,
         wbar'[w].opened[wbar'[w].cur] = InWarp(w)',
         \/ \A s \in InWarp(w)' : pc'[s] = "meet" /\ gen'[s] = wbar[w].cur
         \/ \A s \in InWarp(w)' : pc'[s] = "part" /\ gen'[s] = wbar[w].cur
  PROVE  Gathering(w)' \/ Exchanging(w)'
<1>1. wbar[w].cur \in Nat
  BY WarpBarType DEF Core
<1>2. \A s \in InWarp(w)' : WarpOf[s] = w
  BY DEF InWarp, Mates
<1>3. CASE \A s \in InWarp(w)' : pc'[s] = "meet" /\ gen'[s] = wbar[w].cur
  <2>1. \A s \in InWarp(w)' : ~ Before(s)' /\ gen'[s] + 1 = wbar'[w].cur
    BY <1>1, <1>2, <1>3 DEF Before, Blocked, Generation
  <2> QED
    BY <2>1 DEF Exchanging
<1>4. CASE \A s \in InWarp(w)' : pc'[s] = "part" /\ gen'[s] = wbar[w].cur
  <2>1. \A s \in InWarp(w)' : Before(s)'
    BY <1>1, <1>2, <1>4 DEF Before, Blocked, Generation
  <2> QED
    BY <2>1 DEF Gathering
<1> QED
  BY <1>3, <1>4

(* One thread tells which side its warp is on. *)
LEMMA Sides ==
  ASSUME NEW t \in Thread, NEW w \in Warp, w = WarpOf[t], pc[t] # "done",
         Gathering(w) \/ Exchanging(w)
  PROVE  /\ t \in InWarp(w)
         /\ Before(t) => Gathering(w) /\ ~ Exchanging(w)
         /\ ~ Before(t) => Exchanging(w) /\ ~ Gathering(w)
         /\ Gathering(w) => InPart(w) = {}
         /\ Exchanging(w) => InMeet(w) = {}
<1>1. t \in InWarp(w)
  BY DEF InWarp, Mates
<1>2. \A s \in InPart(w) : s \in InWarp(w) /\ ~ Before(s)
  BY DEF InPart, InWarp, Mates, Before, Blocked, Generation
<1>3. \A s \in InMeet(w) : s \in InWarp(w) /\ Before(s)
  BY DEF InMeet, InWarp, Mates, Before, Blocked, Generation
<1> QED
  BY <1>1, <1>2, <1>3 DEF Gathering, Exchanging

(* A step leaves the barriers of the other warps alone. *)
LEMMA StepElsewhere ==
  ASSUME Core, NEW t \in Thread, Step(t)
  PROVE  \A v \in Warp : v # WarpOf[t] => wbar'[v] = wbar[v]
BY DEF Core, TypeOK, Step, Waits, SyncThreads, Meet, Tile, DynTile, AssumeBlockDim,
       Return,
   Panic, LeaveBarrier, LeaveWarp, SyncReturns, SyncGivesUp, MeetReturns, MeetGivesUp,
   PartReturns, PartGivesUp, barriers

(* A step before the exchange that stays before it. *)
LEMMA QuietSide ==
  ASSUME Core, NEW t \in Thread, Alone(t), NEW w \in Warp, w = WarpOf[t],
         wbar'[w].cur = wbar[w].cur, wbar'[w].opened = wbar[w].opened,
         pc'[t] \in {"kernel", "sync", "leaving", "leavingWarp"},
         Before(t), pc[t] # "done", Gathering(w) \/ Exchanging(w)
  PROVE  Gathering(w)' \/ Exchanging(w)'
<1>1. Before(t)' /\ pc'[t] # "done"
  BY DEF Before
<1> QED
  BY <1>1, SideStays

(* An arrival, the last one or not, keeps the warp on one side ... *)
LEMMA ArriveSide ==
  ASSUME Core, NEW t \in Thread, Alone(t), NEW w \in Warp, w = WarpOf[t],
         \/ pc[t] = "kernel" /\ pc'[t] = "meet"
         \/ pc[t] = "meet" /\ gen[t] # wbar[w].cur /\ pc'[t] = "part",
         gen'[t] = wbar[w].cur,
         wbar' = [wbar EXCEPT ![w] = WarpArrive(@, t)],
         Gathering(w) \/ Exchanging(w)
  PROVE  Gathering(w)' \/ Exchanging(w)'
<1>1. t \in InWarp(w) \ Parked(w) /\ pc[t] # "done" /\ pc'[t] # "done"
  BY DEF InWarp, Mates, Parked, InMeet, InPart
<1>2. CASE wbar'[w].cur = wbar[w].cur /\ wbar'[w].opened = wbar[w].opened
  <2>1. CASE pc[t] = "kernel" /\ pc'[t] = "meet"
    <3>1. Before(t) /\ Before(t)'
      BY <1>2, <2>1 DEF Before, Blocked, Generation
    <3> QED
      BY <1>1, <1>2, <3>1, SideStays
  <2>2. CASE pc[t] = "meet" /\ gen[t] # wbar[w].cur /\ pc'[t] = "part"
    <3>1. ~ Before(t) /\ ~ Before(t)' /\ pc'[t] # "meet"
      BY <1>2, <2>2 DEF Before, Blocked, Generation
    <3> QED
      BY <1>1, <1>2, <3>1, SideStays
  <2> QED
    BY <2>1, <2>2
<1>3. CASE /\ wbar'[w].cur = wbar[w].cur + 1
           /\ wbar'[w].opened[wbar'[w].cur] = InWarp(w)
           /\ \A s \in InWarp(w) \ {t} : s \in InMeet(w) \/ s \in InPart(w)
  <2>1. InWarp(w)' = InWarp(w)
    BY <1>1 DEF InWarp, Mates, Alone
  <2>2. \A s \in InMeet(w) : pc[s] = "meet" /\ gen[s] = wbar[w].cur
    BY DEF InMeet
  <2>3. \A s \in InPart(w) : pc[s] = "part" /\ gen[s] = wbar[w].cur
    BY DEF InPart
  <2>4. \A s \in InWarp(w) : s \in Thread
    BY DEF InWarp, Mates
  <2>5. CASE pc[t] = "kernel" /\ pc'[t] = "meet"
    <3>1. Before(t)
      BY <2>5 DEF Before
    <3>2. InPart(w) = {}
      BY <1>1, <3>1, Sides
    <3>3. \A s \in InWarp(w) : pc'[s] = "meet" /\ gen'[s] = wbar[w].cur
      BY <1>3, <2>2, <2>4, <2>5, <3>2 DEF Alone
    <3> QED
      BY <1>3, <2>1, <3>3, SideTurns
  <2>6. CASE pc[t] = "meet" /\ gen[t] # wbar[w].cur /\ pc'[t] = "part"
    <3>1. ~ Before(t)
      BY <2>6 DEF Before, Blocked, Generation
    <3>2. InMeet(w) = {}
      BY <1>1, <3>1, Sides
    <3>3. \A s \in InWarp(w) : pc'[s] = "part" /\ gen'[s] = wbar[w].cur
      BY <1>3, <2>3, <2>4, <2>6, <3>2 DEF Alone
    <3> QED
      BY <1>3, <2>1, <3>3, SideTurns
  <2> QED
    BY <2>5, <2>6
<1> QED
  BY <1>1, <1>2, <1>3, ArriveCases

(* ... and so does a departure. *)
LEMMA LeaveSide ==
  ASSUME Core, NEW t \in Thread, Alone(t), NEW w \in Warp, w = WarpOf[t],
         pc[t] = "leavingWarp", pc'[t] = "done",
         wbar' = [wbar EXCEPT ![w] = WarpAbandon(@)],
         Gathering(w) \/ Exchanging(w)
  PROVE  Gathering(w)' \/ Exchanging(w)'
<1>1. t \in InWarp(w) \ Parked(w) /\ Before(t) /\ pc[t] # "done"
  BY DEF InWarp, Mates, Parked, InMeet, InPart, Before
<1>2. CASE wbar'[w].cur = wbar[w].cur /\ wbar'[w].opened = wbar[w].opened
  BY <1>1, <1>2, SideStays
<1>3. CASE /\ wbar'[w].cur = wbar[w].cur + 1
           /\ wbar'[w].opened[wbar'[w].cur] = InWarp(w) \ {t}
           /\ \A s \in InWarp(w) \ {t} : s \in InMeet(w) \/ s \in InPart(w)
  <2>1. InWarp(w)' = InWarp(w) \ {t}
    BY DEF InWarp, Mates, Alone
  <2>2. \A s \in InMeet(w) : pc[s] = "meet" /\ gen[s] = wbar[w].cur
    BY DEF InMeet
  <2>4. \A s \in InWarp(w) : s \in Thread
    BY DEF InWarp, Mates
  <2>5. InPart(w) = {}
    BY <1>1, Sides
  <2>6. \A s \in InWarp(w) \ {t} : pc'[s] = "meet" /\ gen'[s] = wbar[w].cur
    BY <1>3, <2>2, <2>4, <2>5 DEF Alone
  <2> QED
    BY <1>3, <2>1, <2>6, SideTurns
<1> QED
  BY <1>1, <1>2, <1>3, LeaveCases

(* So does every step, until a part gives up. *)
LEMMA StepSide ==
  ASSUME Core, OneSide, NEW t \in Thread, Step(t), Alone(t), ~ partGaveUp'
  PROVE  ~ partGaveUp /\ \A w \in Warp : Gathering(w)' \/ Exchanging(w)'
<1>0. TypeOK
  BY DEF Core
<1>1. partGaveUp' = partGaveUp /\ ~ PartGivesUp(t)
  BY DEF Step, Waits, SyncThreads, Meet, Tile, DynTile, AssumeBlockDim, Return,
     Panic, LeaveBarrier, LeaveWarp, SyncReturns, SyncGivesUp, MeetReturns, MeetGivesUp,
     PartReturns, PartGivesUp, timing, WakesUp
<1>2. \A w \in Warp : Gathering(w) \/ Exchanging(w)
  BY <1>1 DEF OneSide
<1>3. \A w \in Warp : w # WarpOf[t] => Gathering(w)' \/ Exchanging(w)'
  <2> SUFFICES ASSUME NEW w \in Warp, w # WarpOf[t] PROVE Gathering(w)' \/
                        Exchanging(w)'
    OBVIOUS
  <2>1. wbar'[w] = wbar[w]
    BY StepElsewhere
  <2> QED
    BY <1>2, <2>1, SideStays
<1> DEFINE w == WarpOf[t]
<1>4. w \in Warp /\ (Gathering(w) \/ Exchanging(w))
  BY <1>2, Crew
<1>5. /\ wbar \in [Warp -> WarpBars] /\ gen \in [Thread -> Nat]
      /\ pc \in [Thread -> Locations]
      /\ wbar[w].cur \in Nat
  BY <1>0, <1>4, WarpBarType DEF TypeOK
<1>6. ASSUME wbar' = wbar, pc'[t] \in {"kernel", "sync", "leaving", "leavingWarp"},
             Before(t), pc[t] # "done"
      PROVE  Gathering(w)' \/ Exchanging(w)'
  BY <1>4, <1>6, QuietSide
<1>18. Gathering(w)' \/ Exchanging(w)'
  <2>7. CASE SyncThreads(t)
    BY <1>5, <1>6, <2>7 DEF SyncThreads, Begin, Before, Goto
  <2>8. CASE Meet(t)
    <3>1. /\ pc[t] = "kernel" /\ pc'[t] = "meet" /\ gen'[t] = wbar[w].cur
          /\ wbar' = [wbar EXCEPT ![w] = WarpArrive(@, t)]
      BY <1>5, <2>8 DEF Meet, Begin, Goto
    <3> QED
      BY <1>4, <3>1, ArriveSide
  <2>9. CASE Tile(t) \/ DynTile(t) \/ AssumeBlockDim(t)
    BY <1>5, <1>6, <2>9 DEF Tile, DynTile, AssumeBlockDim, Begin, Before, barriers
  <2>10. CASE Return(t) \/ Panic(t)
    BY <1>5, <1>6, <2>10 DEF Return, Panic, Begin, Before, Goto, barriers
  <2>11. CASE LeaveBarrier(t)
    BY <1>5, <1>6, <2>11 DEF LeaveBarrier, Before, Goto
  <2>12. CASE LeaveWarp(t)
    <3>1. pc[t] = "leavingWarp" /\ pc'[t] = "done" /\
            wbar' = [wbar EXCEPT ![w] = WarpAbandon(@)]
      BY <1>5, <2>12 DEF LeaveWarp, Goto
    <3> QED
      BY <1>4, <3>1, LeaveSide
  <2>13. CASE SyncReturns(t)
    BY <1>5, <1>6, <2>13 DEF SyncReturns, Freed, Before, Goto, barriers
  <2>14. CASE SyncGivesUp(t)
    BY <1>5, <1>6, <2>14 DEF SyncGivesUp, TimedOut, Before, Goto
  <2>15. CASE MeetReturns(t)
    <3>1. /\ pc[t] = "meet" /\ gen[t] # wbar[w].cur /\ pc'[t] = "part"
          /\ gen'[t] = wbar[w].cur
          /\ wbar' = [wbar EXCEPT ![w] = WarpArrive(@, t)]
      BY <1>5, <2>15 DEF MeetReturns, Freed, Blocked, Generation, Goto
    <3> QED
      BY <1>4, <3>1, ArriveSide
  <2>16. CASE MeetGivesUp(t)
    <3>1. /\ pc[t] = "meet" /\ gen[t] = wbar[w].cur /\ pc'[t] = "kernel" /\ Before(t)
          /\ wbar' = [wbar EXCEPT ![w] = WarpTakeBack(@, t)]
      BY <1>5, <2>16 DEF MeetGivesUp, TimedOut, Blocked, Generation, Goto, Before
    <3>2. t \in Parked(w)
      BY <1>4, <3>1, Crew DEF Parked, InMeet
    <3>3. wbar'[w].cur = wbar[w].cur /\ wbar'[w].opened = wbar[w].opened
      BY <1>4, <3>1, <3>2, TakeBackCases
    <3> QED
      BY <1>4, <3>1, <3>3, QuietSide
  <2>17. CASE PartReturns(t)
    BY <1>5, <1>6, <2>17
    DEF PartReturns, Freed, Blocked, Generation, Before, Goto, barriers
  <2> QED
    BY <1>1, <2>7, <2>8, <2>9, <2>10, <2>11, <2>12, <2>13, <2>14, <2>15, <2>16, <2>17
    DEF Step, Waits
<1> QED
  BY <1>1, <1>3, <1>18

(* A step that moves no thread and touches no barrier keeps the sides. *)
LEMMA StillSide ==
  ASSUME OneSide, UNCHANGED <<bar, wbar, pc, gen, partGaveUp>>
  PROVE  OneSide'
<1> SUFFICES ASSUME ~ partGaveUp, NEW w \in Warp
             PROVE  Gathering(w)' \/ Exchanging(w)'
  BY DEF OneSide
<1>1. Gathering(w) \/ Exchanging(w)
  BY DEF OneSide
<1> QED
  BY <1>1 DEF Gathering, Exchanging, InWarp, Before, Blocked, Generation

(* Everybody starts before the first exchange. *)
LEMMA InitSide ==
  ASSUME Init
  PROVE  OneSide
<1>1. \A t \in Thread : pc[t] = "kernel"
  BY DEF Init
<1> QED
  BY <1>1 DEF OneSide, Gathering, Before, InWarp, Mates

------------------------------------------------------------------------------
(* When nobody can move, nobody is in an exchange. *)
LEMMA StallGathers ==
  ASSUME Core, NEW w \in Warp, Gathering(w) \/ Exchanging(w),
         \A t \in Thread : Blocked(t) \/ pc[t] = "done"
  PROVE  Gathering(w)
<1> SUFFICES ASSUME Exchanging(w), NEW t \in InWarp(w) PROVE FALSE
  BY DEF Gathering
<1>1. \A s \in InWarp(w) : s \in Mates(w) /\ s \in Thread /\ WarpOf[s] = w /\
        pc[s] # "done"
  BY DEF InWarp, Mates
<1>2. \A s \in InWarp(w) : pc[s] = "part" /\ gen[s] = wbar[w].cur
  BY <1>1 DEF Exchanging, Before, Blocked, Generation
<1>3. InWarp(w) \subseteq InPart(w)
  BY <1>1, <1>2 DEF InPart
<1>4. MaskExact(w)
  BY DEF Core, WarpExact
<1>5. InMeet(w) \subseteq InWarp(w) /\ InPart(w) \subseteq InWarp(w)
  BY DEF InMeet, InPart, InWarp
<1> QED
  BY <1>3, <1>4, <1>5 DEF MaskExact

(* So a stall finds nobody in a part. *)
LEMMA StallBrief ==
  ASSUME Core, OneSide, PartIsBrief, Stall
  PROVE  PartIsBrief'
<1>1. /\ UNCHANGED <<pc, early, partGaveUp>> /\ overdue' = {t \in Thread : Blocked(t)}
      /\ \A t \in Thread : Blocked(t) \/ pc[t] = "done"
  BY DEF Stall
<1> SUFFICES ASSUME early = 0, NEW t \in Thread, Blocked(t)
             PROVE  ~ partGaveUp /\ pc[t] # "part"
  BY <1>1 DEF PartIsBrief
<1>2. ~ partGaveUp
  BY DEF PartIsBrief
<1>3. WarpOf[t] \in Warp
  BY Crew
<1>4. Gathering(WarpOf[t])
  BY <1>1, <1>2, <1>3, StallGathers DEF OneSide
<1>5. pc[t] # "done"
  BY DEF Blocked
<1>6. Before(t)
  BY <1>4, <1>5 DEF Gathering, InWarp, Mates
<1> QED
  BY <1>2, <1>6 DEF Before

(* What the clock of a step does: nobody becomes overdue, and a wait that
   gives up was overdue or early. *)
LEMMA StepTiming ==
  ASSUME Core, NEW t \in Thread, Step(t)
  PROVE  /\ early \in Nat /\ early' \in Nat /\ early' >= early
         /\ overdue' \subseteq overdue
         /\ pc'[t] = "part" => t \notin overdue'
         /\ ~ PartGivesUp(t) => partGaveUp' = partGaveUp
         /\ SyncGivesUp(t) \/ MeetGivesUp(t) \/ PartGivesUp(t) =>
              t \in overdue \/ early' = early + 1
<1>1. TypeOK /\ early \in Nat /\ pc \in [Thread -> Locations]
  BY DEF Core, TypeOK
<1>2. early >= early
  BY <1>1
<1>3. ASSUME NEW at, TimedOut(t, at)
      PROVE  /\ pc[t] = at /\ early' \in Nat /\ early' >= early
             /\ overdue' \subseteq overdue
             /\ t \in overdue \/ early' = early + 1
  BY <1>1, <1>3, Timing
<1>4. ASSUME UNCHANGED <<overdue, early, partGaveUp>>,
               pc[t] \in {"kernel", "leaving", "leavingWarp"}
      PROVE  /\ early' \in Nat /\ early' >= early /\ overdue' \subseteq overdue
             /\ t \notin overdue' /\ partGaveUp' = partGaveUp
  BY <1>1, <1>2, <1>4 DEF TypeOK
<1>5. ASSUME WakesUp(t)
      PROVE  /\ early' \in Nat /\ early' >= early /\ overdue' \subseteq overdue
             /\ t \notin overdue' /\ partGaveUp' = partGaveUp
  BY <1>1, <1>2, <1>5 DEF WakesUp
<1>6. CASE SyncThreads(t) \/ Meet(t) \/ Tile(t) \/ DynTile(t) \/ AssumeBlockDim(t)
           \/ Return(t) \/ Panic(t) \/ LeaveBarrier(t) \/ LeaveWarp(t)
  <2>1. UNCHANGED <<overdue, early, partGaveUp>> /\
          pc[t] \in {"kernel", "leaving", "leavingWarp"}
    BY <1>6
    DEF SyncThreads, Meet, Tile, DynTile, AssumeBlockDim, Return, Panic, LeaveBarrier,
       LeaveWarp, Begin, timing
  <2>2. ~ (SyncGivesUp(t) \/ MeetGivesUp(t) \/ PartGivesUp(t))
    BY <2>1 DEF SyncGivesUp, MeetGivesUp, PartGivesUp, TimedOut
  <2> QED
    BY <1>1, <1>4, <2>1, <2>2
<1>7. CASE SyncReturns(t) \/ MeetReturns(t) \/ PartReturns(t)
  <2>1. WakesUp(t) /\ ~ Blocked(t)
    BY <1>7 DEF SyncReturns, MeetReturns, PartReturns, Freed
  <2>2. ~ (SyncGivesUp(t) \/ MeetGivesUp(t) \/ PartGivesUp(t))
    BY <2>1 DEF SyncGivesUp, MeetGivesUp, PartGivesUp, TimedOut
  <2> QED
    BY <1>1, <1>5, <2>1, <2>2
<1>8. CASE SyncGivesUp(t) \/ MeetGivesUp(t) \/ PartGivesUp(t)
  <2>1. pc'[t] = "kernel"
    BY <1>1, <1>8 DEF SyncGivesUp, MeetGivesUp, PartGivesUp, Goto
  <2>2. PICK at : TimedOut(t, at)
    BY <1>8 DEF SyncGivesUp, MeetGivesUp, PartGivesUp
  <2>3. ~ PartGivesUp(t) => partGaveUp' = partGaveUp
    BY <1>8 DEF SyncGivesUp, MeetGivesUp
  <2> QED
    BY <1>1, <1>3, <2>1, <2>2, <2>3
<1> QED
  BY <1>6, <1>7, <1>8 DEF Step, Waits

(* No part gives up unless a timer was early. *)
LEMMA StepBrief ==
  ASSUME Core, OneSide, PartIsBrief, NEW t \in Thread, Step(t), Alone(t)
  PROVE  PartIsBrief'
<1> SUFFICES ASSUME early' = 0
             PROVE  ~ partGaveUp' /\ \A s \in overdue' : pc'[s] # "part"
  BY DEF PartIsBrief
<1>1. early = 0
  BY StepTiming
<1>2. ~ partGaveUp /\ \A s \in overdue : pc[s] # "part"
  BY <1>1 DEF PartIsBrief
<1>3. ~ PartGivesUp(t)
  <2> SUFFICES ASSUME PartGivesUp(t) PROVE FALSE
    OBVIOUS
  <2>1. pc[t] = "part"
    BY DEF PartGivesUp, TimedOut
  <2>2. t \in overdue
    BY <1>1, StepTiming
  <2> QED
    BY <1>2, <2>1, <2>2
<1>4. ~ partGaveUp'
  BY <1>2, <1>3, StepTiming
<1>5. \A s \in overdue' : pc'[s] # "part"
  <2> SUFFICES ASSUME NEW s \in overdue' PROVE pc'[s] # "part"
    OBVIOUS
  <2>1. s \in overdue /\ (pc'[t] = "part" => t \notin overdue')
    BY StepTiming
  <2>2. s \in Thread
    BY <2>1 DEF Core, TypeOK
  <2>3. CASE s = t
    BY <2>1, <2>3
  <2>4. CASE s # t
    BY <1>2, <2>1, <2>2, <2>4 DEF Alone
  <2> QED
    BY <2>3, <2>4
<1> QED
  BY <1>4, <1>5

(* At the start nobody waits. *)
LEMMA InitBrief ==
  ASSUME Init
  PROVE  PartIsBrief
BY DEF Init, PartIsBrief

------------------------------------------------------------------------------
(* What a call that begins adds to the history of its thread. *)
LEMMA Noted ==
  ASSUME Core, NEW t \in Thread, NEW c \in Calls, Begin(t, c)
  PROVE  /\ \A s \in Thread : s # t => hist'[s] = hist[s]
         /\ hist'[t].wrong <=> hist[t].wrong \/ Wrong(c)
         /\ ~ Collective(c) => hist'[t].collective = hist[t].collective
         /\ Collective(c) => hist'[t].collective = Append(hist[t].collective, c)
         /\ ~ Shared(c) => hist'[t].tiles = hist[t].tiles
         /\ Shared(c) => hist'[t].tiles = Append(hist[t].tiles, c.arg)
         /\ pc[t] = "kernel"
<1>1. TypeOK
  BY DEF Core
<1>2. hist \in [Thread -> Hists]
  BY <1>1 DEF TypeOK
<1>3. hist' = [hist EXCEPT ![t] = Note(hist[t], c)] /\ pc[t] = "kernel"
  BY <1>1, BeginHist
<1>4. hist'[t] = Note(hist[t], c) /\ \A s \in Thread : s # t => hist'[s] = hist[s]
  BY <1>2, <1>3
<1> DEFINE co == IF Collective(c) THEN Append(hist[t].collective, c)
             ELSE hist[t].collective
           ti == IF Shared(c) THEN Append(hist[t].tiles, c.arg) ELSE hist[t].tiles
           wr == hist[t].wrong \/ Wrong(c)
<1>5. hist'[t] =
        [begun |-> hist[t].begun + 1, wrong |-> wr, collective |-> co, tiles |-> ti]
  BY <1>4 DEF Note
<1> HIDE DEF co, ti, wr
<1>6. hist'[t].wrong = wr /\ hist'[t].collective = co /\ hist'[t].tiles = ti
  BY <1>5
<1>7. hist'[t].wrong <=> hist[t].wrong \/ Wrong(c)
  BY <1>6, Zenon DEF wr
<1>8. /\ ~ Collective(c) => hist'[t].collective = hist[t].collective
      /\ Collective(c) => hist'[t].collective = Append(hist[t].collective, c)
  BY <1>6 DEF co
<1>9. /\ ~ Shared(c) => hist'[t].tiles = hist[t].tiles
      /\ Shared(c) => hist'[t].tiles = Append(hist[t].tiles, c.arg)
  BY <1>6 DEF ti
<1> QED
  BY <1>3, <1>4, <1>7, <1>8, <1>9

(* The histories and the tiles, by type. *)
LEMMA HistParts ==
  ASSUME TypeOK, NEW t \in Thread
  PROVE  /\ hist[t].wrong \in BOOLEAN /\ hist[t].collective \in Seq(Calls)
         /\ hist[t].tiles \in Seq(TileArgs) /\ seq[t] \in Nat /\ slabs \in Seq(TileArgs)
         /\ Len(slabs) \in Nat /\ Len(hist[t].tiles) \in Nat
BY DEF TypeOK, Hists

(* What the shared tiles see of a step: nothing, ... *)
NoTile ==
  /\ UNCHANGED <<seq, slabs>>
  /\ \A s \in Thread : hist'[s].tiles = hist[s].tiles
  /\ fail' = "none" => fail = "none" /\ \A s \in Thread : hist'[s].wrong <=>
       hist[s].wrong

(* ... or a call for one. *)
AsksFor(t, arg) ==
  /\ SharedTile(t, arg)
  /\ hist'[t].tiles = Append(hist[t].tiles, arg)
  /\ \A s \in Thread : s # t => hist'[s].tiles = hist[s].tiles
  /\ \A s \in Thread : hist'[s].wrong <=> hist[s].wrong

(* After a report that leaves silence nothing was wrong. *)
LEMMA Report ==
  ASSUME NEW wrong, NEW kind, ReportIf(wrong, kind), kind # "none"
  PROVE  fail' = "none" => fail = "none" /\ ~ wrong
BY DEF ReportIf

(* Every step is one or the other. *)
LEMMA StepTiles ==
  ASSUME Core, NEW t \in Thread, Step(t)
  PROVE  NoTile \/ \E arg \in TileArgs : AsksFor(t, arg)
<1>1. ASSUME NEW c \in Calls, Begin(t, c), ~ Shared(c), ~ Wrong(c), UNCHANGED <<seq,
               slabs, fail>>
      PROVE  NoTile
  <2>1. \A s \in Thread : hist'[s].tiles = hist[s].tiles /\
          (hist'[s].wrong <=> hist[s].wrong)
    BY <1>1, Noted
  <2> QED
    BY <1>1, <2>1 DEF NoTile
<1>2. ASSUME NEW c \in Calls, Begin(t, c), ~ Shared(c), UNCHANGED <<seq, slabs>>,
             NEW wrong, NEW kind, ReportIf(wrong, kind), kind # "none", Wrong(c) =>
               wrong
      PROVE  NoTile
  <2>1. \A s \in Thread : hist'[s].tiles = hist[s].tiles
                          /\ (hist'[s].wrong <=> hist[s].wrong \/ (s = t /\ Wrong(c)))
    BY <1>2, Noted
  <2>2. fail' = "none" => fail = "none" /\ ~ wrong
    BY <1>2, Report
  <2> QED
    BY <1>2, <2>1, <2>2 DEF NoTile
<1>3. ASSUME NEW c \in Calls, Begin(t, c), Shared(c), ~ Wrong(c), SharedTile(t, c.arg)
      PROVE  \E arg \in TileArgs : AsksFor(t, arg)
  <2>1. c.arg \in TileArgs
    BY <1>3 DEF TileArgs
  <2>2. AsksFor(t, c.arg)
    BY <1>3, Noted DEF AsksFor
  <2> QED
    BY <2>1, <2>2
<1>4. ASSUME UNCHANGED <<hist, seq, slabs>>, fail' = "none" => fail = "none"
      PROVE  NoTile
  BY <1>4 DEF NoTile
<1>5. CASE SyncThreads(t) \/ Meet(t)
  <2>1. PICK c \in Calls : c.kind \in {"sync", "warp"} /\ Begin(t, c)
    BY <1>5 DEF SyncThreads, Meet
  <2>2. ~ Shared(c) /\ ~ Wrong(c)
    BY <2>1 DEF Shared, Wrong
  <2>3. UNCHANGED <<seq, slabs, fail>>
    BY <1>5 DEF SyncThreads, Meet
  <2> QED
    BY <1>1, <2>1, <2>2, <2>3
<1>6. CASE Tile(t)
  <2>1. PICK c \in Calls : c.kind = "tile" /\ Begin(t, c) /\ SharedTile(t, c.arg)
    BY <1>6 DEF Tile
  <2>2. Shared(c) /\ ~ Wrong(c)
    BY <2>1 DEF Shared, Wrong
  <2> QED
    BY <1>3, <2>1, <2>2
<1>7. CASE DynTile(t)
  <2>1. PICK c \in Calls :
        /\ c.kind = "dynTile" /\ Begin(t, c)
        /\ IF DynSized THEN SharedTile(t, c.arg)
                       ELSE ReportIf(TRUE, "unsized") /\ UNCHANGED <<slabs, seq>>
    BY <1>7 DEF DynTile
  <2>2. CASE DynSized
    <3>1. Shared(c) /\ ~ Wrong(c)
      BY <2>1, <2>2 DEF Shared, Wrong
    <3> QED
      BY <1>3, <2>1, <2>2, <3>1
  <2>3. CASE ~ DynSized
    <3>1. ~ Shared(c)
      BY <2>1, <2>3 DEF Shared
    <3> QED
      BY <1>2, <2>1, <2>3, <3>1
  <2> QED
    BY <2>2, <2>3
<1>8. CASE AssumeBlockDim(t)
  <2>1. PICK c \in Calls : /\ c.kind = "assume" /\ Begin(t, c)
                           /\ ReportIf(c.arg # Cardinality(Thread), "blockDim")
    BY <1>8 DEF AssumeBlockDim
  <2>2. ~ Shared(c) /\ (Wrong(c) => c.arg # Cardinality(Thread))
    BY <2>1 DEF Shared, Wrong
  <2>3. UNCHANGED <<seq, slabs>>
    BY <1>8 DEF AssumeBlockDim
  <2> QED
    BY <1>2, <2>1, <2>2, <2>3
<1>9. CASE Panic(t)
  <2>1. PICK c \in Calls : c.kind = "panic" /\ Begin(t, c)
    BY <1>9 DEF Panic
  <2>2. ~ Shared(c)
    BY <2>1 DEF Shared
  <2>3. UNCHANGED <<seq, slabs>> /\ ReportIf(TRUE, "panic")
    BY <1>9 DEF Panic
  <2> QED
    BY <1>2, <2>1, <2>2, <2>3
<1>10. CASE Return(t) \/ LeaveBarrier(t) \/ LeaveWarp(t) \/ SyncReturns(t) \/
              PartReturns(t) \/ PartGivesUp(t)
  BY <1>4, <1>10
  DEF Return, LeaveBarrier, LeaveWarp, SyncReturns, PartReturns, PartGivesUp
<1>11. CASE SyncGivesUp(t) \/ MeetGivesUp(t) \/ MeetReturns(t)
  <2>1. UNCHANGED <<hist, seq, slabs>>
    BY <1>11 DEF SyncGivesUp, MeetGivesUp, MeetReturns
  <2>2. PICK wrong : ReportIf(wrong, "blockStall") \/ ReportIf(wrong, "warpStall") \/
               ReportIf(wrong, "mismatch")
    BY <1>11 DEF SyncGivesUp, MeetGivesUp, MeetReturns
  <2>3. fail' = "none" => fail = "none"
    BY <2>2, Report
  <2> QED
    BY <1>4, <2>1, <2>3
<1> QED
  BY <1>5, <1>6, <1>7, <1>8, <1>9, <1>10, <1>11 DEF Step, Waits

(* The part of the invariant about the shared tiles. *)
Tiles == TilesCounted /\ TilesAsked /\ SilentTiles

(* A step that asks for no tile keeps it, ... *)
LEMMA NoTileTiles ==
  ASSUME Tiles, NoTile
  PROVE  Tiles'
<1>1. TilesCounted'
  BY DEF Tiles, NoTile, TilesCounted
<1>2. TilesAsked'
  BY DEF Tiles, NoTile, TilesAsked
<1>3. SilentTiles'
  BY DEF Tiles, NoTile, SilentTiles, AllRight
<1> QED
  BY <1>1, <1>2, <1>3 DEF Tiles

(* ... and so does one that does: the first to ask for its number builds the
   tile, the others are compared with it. *)
LEMMA AsksForTiles ==
  ASSUME Core, Tiles, NEW t \in Thread, NEW arg \in TileArgs, AsksFor(t, arg)
  PROVE  Tiles'
<1> DEFINE i == seq[t] + 1
<1>0. TypeOK
  BY DEF Core
<1>1. \A s \in Thread : /\ hist[s].tiles \in Seq(TileArgs) /\ seq[s] \in Nat
                        /\ seq[s] = Len(hist[s].tiles) /\ seq[s] <= Len(slabs)
  BY <1>0, HistParts DEF Tiles, TilesCounted
<1>2. slabs \in Seq(TileArgs) /\ Len(slabs) \in Nat /\ i \in Nat
  BY <1>0, <1>1, HistParts
<1>3. seq' = [seq EXCEPT ![t] = i]
  BY DEF AsksFor, SharedTile
<1>4. seq'[t] = i /\ \A s \in Thread : s # t => seq'[s] = seq[s]
  BY <1>0, <1>3 DEF TypeOK
<1>5. hist'[t].tiles = Append(hist[t].tiles, arg) /\ \A s \in Thread : s # t =>
        hist'[s].tiles = hist[s].tiles
  BY DEF AsksFor
<1>6. /\ Len(hist'[t].tiles) = i /\ hist'[t].tiles[i] = arg
      /\ \A k \in 1..seq[t] : hist'[t].tiles[k] = hist[t].tiles[k]
  BY <1>1, <1>5, AppendProperties
<1>7. \/ i > Len(slabs) /\ slabs' = Append(slabs, arg) /\ fail' = fail
      \/ ~ (i > Len(slabs)) /\ slabs' = slabs /\ ReportIf(slabs[i] # arg, "tile")
  BY DEF AsksFor, SharedTile
<1>8. i > Len(slabs) => i = Len(slabs) + 1
  BY <1>1, <1>2
<1>9. /\ Len(slabs') \in Nat /\ Len(slabs') >= Len(slabs) /\ i <= Len(slabs')
      /\ \A k \in 1..Len(slabs) : slabs'[k] = slabs[k]
      /\ \A k \in 1..Len(slabs') : k \in 1..Len(slabs) \/ (k = i /\ slabs'[k] = arg)
  <2>1. CASE i > Len(slabs) /\ slabs' = Append(slabs, arg)
    <3>1. /\ Len(slabs') = Len(slabs) + 1 /\ slabs'[Len(slabs) + 1] = arg
          /\ \A k \in 1..Len(slabs) : slabs'[k] = slabs[k]
      BY <1>2, <2>1, AppendProperties
    <3> QED
      BY <1>2, <1>8, <2>1, <3>1
  <2>2. CASE ~ (i > Len(slabs)) /\ slabs' = slabs
    BY <1>2, <2>2
  <2> QED
    BY <1>7, <2>1, <2>2
<1> HIDE DEF i
<1>10. TilesCounted'
  <2> SUFFICES ASSUME NEW s \in Thread
               PROVE  seq'[s] = Len(hist'[s].tiles) /\ seq'[s] <= Len(slabs')
    BY DEF TilesCounted
  <2>1. CASE s = t
    BY <1>4, <1>6, <1>9, <2>1
  <2>2. CASE s # t
    BY <1>1, <1>2, <1>4, <1>5, <1>9, <2>2
  <2> QED
    BY <2>1, <2>2
<1>11. TilesAsked'
  <2> SUFFICES ASSUME NEW k \in 1..Len(slabs')
               PROVE  \E s \in Thread : k <= seq'[s] /\ hist'[s].tiles[k] = slabs'[k]
    BY DEF TilesAsked
  <2>1. CASE k \in 1..Len(slabs)
    <3>1. PICK s \in Thread : k <= seq[s] /\ hist[s].tiles[k] = slabs[k]
      BY <2>1 DEF Tiles, TilesAsked
    <3>2. slabs'[k] = slabs[k] /\ k \in 1..seq[s] /\ k \in Nat
      BY <1>1, <1>9, <2>1, <3>1
    <3>3. k <= seq'[s] /\ hist'[s].tiles[k] = hist[s].tiles[k]
      <4>1. CASE s = t
        <5>1. k <= i /\ seq'[s] = i
          BY <1>1, <1>4, <3>1, <3>2, <4>1 DEF i
        <5> QED
          BY <1>6, <3>2, <4>1, <5>1
      <4>2. CASE s # t
        BY <1>4, <1>5, <3>1, <4>2
      <4> QED
        BY <4>1, <4>2
    <3> QED
      BY <3>1, <3>2, <3>3
  <2>2. CASE k = i /\ slabs'[k] = arg
    BY <1>2, <1>4, <1>6, <2>2
  <2> QED
    BY <1>9, <2>1, <2>2
<1>12. SilentTiles'
  <2> SUFFICES ASSUME fail' = "none"
               PROVE  /\ AllRight'
                      /\ \A s \in Thread : \A k \in 1..seq'[s] :
                           hist'[s].tiles[k] = slabs'[k]
    BY DEF SilentTiles
  <2>1. fail = "none" /\ (~ (i > Len(slabs)) => slabs'[i] = arg)
    BY <1>7 DEF ReportIf
  <2>2. AllRight /\ \A s \in Thread : \A k \in 1..seq[s] : hist[s].tiles[k] = slabs[k]
    BY <2>1 DEF Tiles, SilentTiles
  <2>3. AllRight'
    BY <2>2 DEF AllRight, AsksFor
  <2>4. slabs'[i] = arg
    BY <1>2, <1>7, <1>8, <2>1, AppendProperties
  <2>5. ASSUME NEW s \in Thread, NEW k \in 1..seq'[s]
        PROVE  hist'[s].tiles[k] = slabs'[k]
    <3>1. CASE k \in 1..seq[s]
      <4>1. k \in 1..Len(slabs)
        BY <1>1, <1>2, <3>1
      <4>2. hist'[s].tiles[k] = hist[s].tiles[k]
        BY <1>5, <1>6, <3>1
      <4> QED
        BY <1>9, <2>2, <3>1, <4>1, <4>2
    <3>2. CASE k \notin 1..seq[s]
      <4>1. s = t /\ k = i
        BY <1>1, <1>4, <2>5, <3>2 DEF i
      <4> QED
        BY <1>6, <2>4, <4>1
    <3> QED
      BY <3>1, <3>2
  <2> QED
    BY <2>3, <2>5
<1> QED
  BY <1>10, <1>11, <1>12 DEF Tiles

(* So every step does. *)
LEMMA StepTilesKept ==
  ASSUME Core, Tiles, NEW t \in Thread, Step(t)
  PROVE  Tiles'
BY StepTiles, NoTileTiles, AsksForTiles

(* At the start there are no tiles. *)
LEMMA InitTiles ==
  ASSUME Init
  PROVE  Tiles
<1>1. /\ slabs = <<>> /\ seq = [t \in Thread |-> 0]
      /\ hist = [t \in Thread |-> [begun |-> 0, wrong |-> FALSE, collective |-> <<>>,
           tiles |-> <<>>]]
  BY DEF Init, NothingYet
<1>2. \A t \in Thread : hist[t].tiles = <<>> /\ ~ hist[t].wrong /\ seq[t] = 0
  BY <1>1
<1> QED
  BY <1>1, <1>2 DEF Tiles, TilesCounted, TilesAsked, SilentTiles, AllRight

(* Neither the passing of time ... *)
LEMMA StallNoTile ==
  ASSUME Stall
  PROVE  NoTile
BY DEF Stall, NoTile

(* ... nor the end of the block asks for a tile. *)
LEMMA FinishNoTile ==
  ASSUME Finish
  PROVE  NoTile
BY DEF Finish, NoTile, ReportIf

(* A step is one of a thread still in the block. *)
LEMMA StepAlive ==
  ASSUME NEW t \in Thread, Step(t)
  PROVE  pc[t] # "done" /\ verdict' = verdict
BY DEF Step, Waits, SyncThreads, Meet, Tile, DynTile, AssumeBlockDim, Return,
     Panic, LeaveBarrier, LeaveWarp, SyncReturns, SyncGivesUp, MeetReturns, MeetGivesUp,
     PartReturns, PartGivesUp, Begin, Freed, TimedOut

(* There is no verdict while a thread can still move, ... *)
LEMMA StepVerdict ==
  ASSUME Verdict, NEW t \in Thread, Step(t)
  PROVE  Verdict' /\ verdict = "running" /\ verdict' = "running"
BY StepAlive DEF Verdict

(* ... or still waits, ... *)
LEMMA StallVerdict ==
  ASSUME Verdict, Stall
  PROVE  Verdict' /\ verdict = "running"
<1>1. UNCHANGED <<verdict, fail, pc, seq>> /\ \E t \in Thread : Blocked(t)
  BY DEF Stall, Stalled
<1>2. \E t \in Thread : pc[t] # "done"
  BY <1>1 DEF Blocked
<1> QED
  BY <1>1, <1>2 DEF Verdict

(* ... and the verdict is what was reported. *)
LEMMA FinishVerdict ==
  ASSUME Core, Finish
  PROVE  Verdict' /\ verdict = "running"
<1>1. /\ verdict = "running" /\ verdict' = fail' /\ UNCHANGED <<pc, seq>>
      /\ \A t \in Thread : pc[t] = "done"
      /\ ReportIf(\E s, t \in Thread : seq[s] # seq[t], "divergence")
  BY DEF Finish
<1>2. fail' = "none" => \A s, t \in Thread : seq[s] = seq[t]
  BY <1>1 DEF ReportIf
<1> QED
  BY <1>1, <1>2 DEF Verdict

------------------------------------------------------------------------------
(* What a warp that gathers after a path asks of one thread. *)
Walks(s, path) ==
  /\ Ended(s) => Behind(hist[s].collective, path)
  /\ ~ Ended(s) => Before(s)
  /\ ~ Ended(s) /\ ~ (pc[s] \in {"sync", "meet"} /\ Blocked(s)) =>
       hist[s].collective = path
  /\ pc[s] = "sync" /\ Blocked(s) => OneAhead(s, path, "sync")
  /\ pc[s] = "meet" /\ Blocked(s) => OneAhead(s, path, "warp")

(* A step of a thread changes neither the place nor the calls of another. *)
Others(t) ==
  /\ Alone(t)
  /\ \A s \in Thread : s # t =>
       hist'[s].collective = hist[s].collective /\ ops'[s] = ops[s]

(* The threads of the warp are on one path. *)
OnPath(w) == \E path \in Paths : GatheringAfter(w, path) \/ ExchangingAfter(w, path)

(* Who is behind on a path is behind on a longer one. *)
LEMMA BehindMore ==
  ASSUME NEW a \in Seq(Calls), NEW path \in Paths, NEW c \in Calls
  PROVE  /\ Behind(path, path)
         /\ Append(path, c) \in Paths
         /\ Behind(a, path) => Behind(a, Append(path, c))
<1>1. path \in Seq(Calls) /\ Len(path) \in Nat /\ Len(a) \in Nat
  BY DEF Paths
<1>2. /\ Append(path, c) \in Seq(Calls) /\ Len(Append(path, c)) = Len(path) + 1
      /\ \A i \in 1..Len(path) : Append(path, c)[i] = path[i]
  BY <1>1, AppendProperties
<1> QED
  BY <1>1, <1>2 DEF Behind, Paths

(* Every step of a thread is its own. *)
LEMMA StepOthers ==
  ASSUME Core, NEW t \in Thread, Step(t), Alone(t)
  PROVE  Others(t)
<1>1. TypeOK /\ ops \in [Thread -> Operations \union {"none"}]
  BY DEF Core, TypeOK
<1>2. hist' = hist \/ \E c \in Calls : Begin(t, c)
  BY DEF Step, Waits, SyncThreads, Meet, Tile, DynTile, AssumeBlockDim, Return,
     Panic, LeaveBarrier, LeaveWarp, SyncReturns, SyncGivesUp, MeetReturns, MeetGivesUp,
     PartReturns, PartGivesUp
<1>3. \A s \in Thread : s # t => hist'[s] = hist[s]
  BY <1>2, Noted
<1>4. \A s \in Thread : s # t => ops'[s] = ops[s]
  BY <1>1 DEF Step, Waits, SyncThreads, Meet, Tile, DynTile, AssumeBlockDim, Return,
     Panic, LeaveBarrier, LeaveWarp, SyncReturns, SyncGivesUp, MeetReturns, MeetGivesUp,
     PartReturns, PartGivesUp
<1> QED
  BY <1>3, <1>4 DEF Others

(* While the barriers open nothing the others walk on the same path. *)
LEMMA WalksStill ==
  ASSUME NEW t \in Thread, NEW s \in Thread, s # t, Others(t), NEW path,
         bar'.cur = bar.cur, wbar'[WarpOf[s]].cur = wbar[WarpOf[s]].cur,
         Walks(s, path)
  PROVE  Walks(s, path)'
<1>1. pc'[s] = pc[s] /\ gen'[s] = gen[s] /\ hist'[s].collective = hist[s].collective /\
        ops'[s] = ops[s]
  BY DEF Others, Alone
<1>2. Blocked(s)' <=> Blocked(s)
  BY <1>1 DEF Blocked, Generation
<1>3. (Before(s)' <=> Before(s)) /\ (Ended(s)' <=> Ended(s))
  BY <1>1, <1>2 DEF Before, Ended
<1>4. \A kind : OneAhead(s, path, kind)' <=> OneAhead(s, path, kind)
  BY <1>1 DEF OneAhead
<1> QED
  BY <1>1, <1>2, <1>3, <1>4 DEF Walks

(* A warp gathers after a path when each of its threads does, ... *)
LEMMA Walking ==
  ASSUME NEW w \in Warp, NEW path
  PROVE  GatheringAfter(w, path) <=> \A s \in Mates(w) : Walks(s, path)
BY DEF GatheringAfter, Walks

(* ... and so after a step. *)
LEMMA WalkingNext ==
  ASSUME NEW w \in Warp, NEW path
  PROVE  GatheringAfter(w, path)' <=> \A s \in Mates(w) : Walks(s, path)'
BY DEF GatheringAfter, Walks

(* A step of another warp that opens no generation of the block's barrier.
   *)
LEMMA PathElsewhere ==
  ASSUME NEW t \in Thread, Others(t), NEW v \in Warp, v # WarpOf[t],
         bar'.cur = bar.cur, wbar'[v] = wbar[v], OnPath(v)
  PROVE  OnPath(v)'
<1>1. \A s \in Mates(v) : s \in Thread /\ s # t /\ WarpOf[s] = v
  BY DEF Mates
<1>2. PICK path \in Paths : GatheringAfter(v, path) \/ ExchangingAfter(v, path)
  BY DEF OnPath
<1>3. CASE GatheringAfter(v, path)
  <2>1. \A s \in Mates(v) : Walks(s, path)
    BY <1>3, Walking
  <2>2. \A s \in Mates(v) : Walks(s, path)'
    BY <1>1, <2>1, WalksStill
  <2>3. GatheringAfter(v, path)'
    BY <2>2, WalkingNext
  <2> QED
    BY <2>3 DEF OnPath
<1>4. CASE ExchangingAfter(v, path)
  <2>1. \A s \in Mates(v) : /\ pc'[s] = pc[s] /\ gen'[s] = gen[s] /\ ops'[s] = ops[s]
                            /\ hist'[s].collective = hist[s].collective
    BY <1>1 DEF Others, Alone
  <2>2. \A s \in Mates(v) : (Before(s)' <=> Before(s)) /\
          (OneAhead(s, path, "warp")' <=> OneAhead(s, path, "warp"))
    BY <1>1, <2>1 DEF Before, Blocked, Generation, OneAhead
  <2>3. InWarp(v)' = InWarp(v) /\ InWarp(v) \subseteq Mates(v)
    BY <2>1 DEF InWarp
  <2>4. ExchangingAfter(v, path)'
    BY <1>4, <2>1, <2>2, <2>3 DEF ExchangingAfter
  <2> QED
    BY <2>4 DEF OnPath
<1> QED
  BY <1>2, <1>3, <1>4

(* A step of a thread of the warp that opens nothing. *)
LEMMA PathHere ==
  ASSUME NEW t \in Thread, Others(t), NEW w \in Warp, w = WarpOf[t], NEW path \in Paths,
         bar'.cur = bar.cur, wbar'[w].cur = wbar[w].cur,
         GatheringAfter(w, path), Walks(t, path)'
  PROVE  OnPath(w)'
<1>1. \A s \in Mates(w) : s \in Thread /\ WarpOf[s] = w
  BY DEF Mates
<1>2. \A s \in Mates(w) : Walks(s, path)
  BY Walking
<1>3. \A s \in Mates(w) : Walks(s, path)'
  BY <1>1, <1>2, WalksStill
<1>4. GatheringAfter(w, path)'
  BY <1>3, WalkingNext
<1> QED
  BY <1>4 DEF OnPath

(* Which side of the exchange a warp on its path is on, one thread tells. *)
LEMMA PathSide ==
  ASSUME NEW t \in Thread, NEW w \in Warp, w = WarpOf[t], NEW path,
         pc[t] # "done", GatheringAfter(w, path) \/ ExchangingAfter(w, path)
  PROVE  /\ Before(t) => GatheringAfter(w, path) /\ Walks(t, path)
         /\ ~ Before(t) => ExchangingAfter(w, path)
<1>1. t \in Mates(w)
  BY DEF Mates
<1>2. ExchangingAfter(w, path) => ~ Before(t)
  BY <1>1 DEF ExchangingAfter
<1>3. GatheringAfter(w, path) => Walks(t, path)
  BY <1>1, Walking
<1>4. GatheringAfter(w, path) => Before(t)
  BY <1>1 DEF GatheringAfter, Ended, Before
<1> QED
  BY <1>2, <1>3, <1>4

(* The last arrival at a meet, or a departure, lets everybody through, each
   one warp call ahead of the path. *)
LEMMA PathMeets ==
  ASSUME NEW t \in Thread, Others(t), NEW w \in Warp, w = WarpOf[t], NEW path \in Paths,
         wbar[w].cur \in Nat, wbar'[w].cur = wbar[w].cur + 1,
         GatheringAfter(w, path),
         \A s \in InWarp(w) \ {t} : s \in InMeet(w) \/ s \in InPart(w),
         \/ pc'[t] = "done" /\ Behind(hist'[t].collective, path)
         \/ pc'[t] = "meet" /\ gen'[t] = wbar[w].cur /\ OneAhead(t, path, "warp")'
  PROVE  OnPath(w)'
<1>1. \A s \in Mates(w) : s \in Thread /\ WarpOf[s] = w
  BY DEF Mates
<1>2. ASSUME NEW s \in Mates(w), s # t
      PROVE  /\ pc'[s] = "done" => Behind(hist'[s].collective, path)
             /\ pc'[s] # "done" =>
                  pc'[s] = "meet" /\ ~ Before(s)' /\ OneAhead(s, path, "warp")'
  <2>0. s \in Thread /\ WarpOf[s] = w
    BY <1>1
  <2>1. pc'[s] = pc[s] /\ gen'[s] = gen[s] /\
          hist'[s].collective = hist[s].collective /\ ops'[s] = ops[s]
    BY <1>2, <2>0 DEF Others, Alone
  <2>2. Walks(s, path)
    BY Walking
  <2>3. CASE pc[s] = "done"
    BY <2>1, <2>2, <2>3 DEF Walks, Ended
  <2>4. CASE pc[s] # "done"
    <3>1. s \in InWarp(w) \ {t}
      BY <1>2, <2>4 DEF InWarp
    <3>2. ~ (s \in InPart(w))
      BY <2>0, <2>2 DEF InPart, Walks, Before, Ended, Blocked, Generation
    <3>3. pc[s] = "meet" /\ gen[s] = wbar[w].cur
      BY <3>1, <3>2 DEF InMeet
    <3>4. OneAhead(s, path, "warp")
      BY <2>0, <2>2, <3>3 DEF Walks, Blocked, Generation
    <3>5. OneAhead(s, path, "warp")'
      BY <2>1, <3>4 DEF OneAhead
    <3>6. ~ Before(s)'
      BY <2>0, <2>1, <3>3 DEF Before, Blocked, Generation
    <3> QED
      BY <2>1, <3>3, <3>5, <3>6
  <2> QED
    BY <2>3, <2>4
<1>3. pc'[t] # "done" => pc'[t] = "meet" /\ ~ Before(t)' /\ OneAhead(t, path, "warp")'
  BY DEF Before, Blocked, Generation
<1>4. ExchangingAfter(w, path)'
  BY <1>2, <1>3 DEF ExchangingAfter
<1> QED
  BY <1>4 DEF OnPath

(* A thread that came for the same operation as everybody goes on to part.
   *)
LEMMA PathJoins ==
  ASSUME NEW t \in Thread, Others(t), NEW w \in Warp, w = WarpOf[t], NEW path \in Paths,
         wbar'[w].cur = wbar[w].cur, ExchangingAfter(w, path),
         pc[t] # "done", pc'[t] = "part", gen'[t] = wbar[w].cur,
         hist'[t].collective = hist[t].collective, ops'[t] = ops[t],
         \A k \in InWarp(w) : ops[k] = ops[t]
  PROVE  OnPath(w)'
<1>1. \A s \in Mates(w) : s \in Thread /\ WarpOf[s] = w
  BY DEF Mates
<1>2. \A s \in Thread : hist'[s].collective = hist[s].collective /\ ops'[s] = ops[s]
  BY DEF Others
<1>3. InWarp(w)' = InWarp(w)
  BY <1>1 DEF InWarp, Others, Alone
<1>4. \A s \in Mates(w) : OneAhead(s, path, "warp") => OneAhead(s, path, "warp")'
  BY <1>1, <1>2 DEF OneAhead
<1>5. ~ Before(t)'
  BY DEF Before, Blocked, Generation
<1>6. t \in Mates(w)
  BY DEF Mates
<1>7. \A s \in Mates(w) : s # t => pc'[s] = pc[s] /\ (Before(s)' <=> Before(s))
  BY <1>1 DEF Before, Blocked, Generation, Others, Alone
<1>8. InWarp(w) \subseteq Thread
  BY <1>1 DEF InWarp
<1>9. ExchangingAfter(w, path)'
  <2> SUFFICES ASSUME NEW s \in Mates(w)
               PROVE  /\ pc'[s] = "done" => Behind(hist'[s].collective, path)
                      /\ pc'[s] # "done" => ~ Before(s)' /\ OneAhead(s, path, "warp")'
                      /\ pc'[s] = "part" => \A k \in InWarp(w) : ops'[k] = ops'[s]
    BY <1>3 DEF ExchangingAfter
  <2>1. CASE s = t
    BY <1>2, <1>4, <1>5, <1>8, <2>1 DEF ExchangingAfter
  <2>2. CASE s # t
    BY <1>1, <1>2, <1>4, <1>7, <1>8, <2>2 DEF ExchangingAfter
  <2> QED
    BY <2>1, <2>2
<1> QED
  BY <1>9 DEF OnPath

(* The last one at a part: everybody came for the same operation, so the
   path is one call longer. *)
LEMMA PathParts ==
  ASSUME NEW t \in Thread, Others(t), NEW w \in Warp, w = WarpOf[t], NEW path \in Paths,
         TypeOK, wbar[w].cur \in Nat, wbar'[w].cur = wbar[w].cur + 1,
         ExchangingAfter(w, path),
         \A s \in InWarp(w) \ {t} : s \in InMeet(w) \/ s \in InPart(w),
         pc[t] # "done", pc'[t] = "part", gen'[t] = wbar[w].cur,
         hist'[t].collective = hist[t].collective, ops'[t] = ops[t],
         \A k \in InWarp(w) : ops[k] = ops[t]
  PROVE  OnPath(w)'
<1>1. \A s \in Mates(w) : s \in Thread /\ WarpOf[s] = w
  BY DEF Mates
<1>2. t \in Mates(w)
  BY DEF Mates
<1>3. OneAhead(t, path, "warp")
  BY <1>2 DEF ExchangingAfter
<1>4. PICK c \in Calls : c.kind = "warp" /\ hist[t].collective = Append(path, c) /\
             ops[t] = c.arg
  BY <1>3 DEF OneAhead
<1> DEFINE next == Append(path, c)
<1>5. next \in Paths
  BY HistParts, BehindMore
<1>6. ASSUME NEW s \in Mates(w)
      PROVE  Walks(s, next)'
  <2>0. s \in Thread /\ WarpOf[s] = w
    BY <1>1
  <2>1. hist'[s].collective = hist[s].collective /\ hist[s].collective \in Seq(Calls)
    BY <2>0, HistParts DEF Others
  <2>2. CASE pc[s] = "done"
    <3>1. Behind(hist[s].collective, path)
      BY <2>2 DEF ExchangingAfter
    <3>2. Behind(hist[s].collective, next)
      BY <2>1, <3>1, BehindMore
    <3>3. s # t
      BY <2>2
    <3>4. pc'[s] = "done"
      BY <2>0, <2>2, <3>3 DEF Others, Alone
    <3> QED
      BY <2>1, <3>2, <3>4 DEF Walks, Ended
  <2>3. CASE pc[s] # "done"
    <3>1. s \in InWarp(w)
      BY <2>3 DEF InWarp
    <3>2. ops[s] = ops[t] /\ ~ Before(s) /\ OneAhead(s, path, "warp")
      BY <2>3, <3>1 DEF ExchangingAfter
    <3>3. PICK d \in Calls : d.kind = "warp" /\ hist[s].collective = Append(path, d) /\
                 ops[s] = d.arg
      BY <3>2 DEF OneAhead
    <3>4. c = d
      BY <1>4, <3>2, <3>3, CallsAssumption
    <3>5. hist'[s].collective = next
      BY <2>1, <3>3, <3>4
    <3>6. pc'[s] = "part" /\ gen'[s] = wbar[w].cur
      <4>1. CASE s = t
        BY <4>1
      <4>2. CASE s # t
        <5>1. s \notin InMeet(w)
          BY <2>0, <3>2 DEF InMeet, Before, Blocked, Generation
        <5>2. s \in InPart(w)
          BY <3>1, <4>2, <5>1
        <5> QED
          BY <2>0, <4>2, <5>2 DEF InPart, Others, Alone
      <4> QED
        BY <4>1, <4>2
    <3>7. ~ Blocked(s)'
      BY <2>0, <3>6 DEF Blocked, Generation
    <3> HIDE DEF next
    <3> QED
      BY <3>5, <3>6, <3>7 DEF Walks, Ended, Before
  <2> QED
    BY <2>2, <2>3
<1>7. GatheringAfter(w, next)'
  BY <1>6, WalkingNext
<1> QED
  BY <1>5, <1>7 DEF OnPath

(* The last one at the block's barrier: every warp with a thread there has
   made that call. *)
LEMMA PathSyncs ==
  ASSUME NEW v \in Warp, NEW path \in Paths, TypeOK',
         \A s \in Mates(v) :
           \/ pc'[s] \in {"leavingWarp", "done"} /\ Behind(hist'[s].collective, path)
           \/ /\ pc'[s] = "sync" /\ ~ Blocked(s)'
              /\ \E c \in Calls : c.kind = "sync" /\
                   hist'[s].collective = Append(path, c)
  PROVE  OnPath(v)'
<1>1. CASE \A s \in Mates(v) : pc'[s] \in {"leavingWarp", "done"}
  <2>1. \A s \in Mates(v) : Walks(s, path)'
    BY <1>1 DEF Walks, Ended
  <2>2. GatheringAfter(v, path)'
    BY <2>1, WalkingNext
  <2> QED
    BY <2>2 DEF OnPath
<1>2. ASSUME NEW t \in Mates(v), pc'[t] \notin {"leavingWarp", "done"}
      PROVE  OnPath(v)'
  <2>1. PICK c \in Calls : c.kind = "sync" /\ hist'[t].collective = Append(path, c)
    BY <1>2
  <2> DEFINE next == Append(path, c)
  <2>2. ASSUME NEW s \in Mates(v)
        PROVE  Walks(s, next)' /\ next \in Paths
    <3>1. s \in Thread
      BY DEF Mates
    <3>2. hist'[s].collective \in Seq(Calls)
      BY <3>1 DEF TypeOK, Hists
    <3>3. next \in Paths
      BY <3>2, BehindMore
    <3>4. CASE pc'[s] \in {"leavingWarp", "done"}
      <4>1. Behind(hist'[s].collective, path)
        BY <3>4
      <4>2. Behind(hist'[s].collective, next)
        BY <3>2, <4>1, BehindMore
      <4> QED
        BY <3>3, <3>4, <4>2 DEF Walks, Ended
    <3>5. CASE pc'[s] \notin {"leavingWarp", "done"}
      <4>1. PICK d \in Calls : d.kind = "sync" /\ hist'[s].collective = Append(path, d)
        BY <3>5
      <4>2. c = d
        BY <2>1, <4>1, CallsAssumption
      <4>3. hist'[s].collective = next /\ pc'[s] = "sync" /\ ~ Blocked(s)'
        BY <3>5, <4>1, <4>2
      <4> HIDE DEF next
      <4> QED
        BY <3>3, <4>3 DEF Walks, Ended, Before
    <3> QED
      BY <3>4, <3>5
  <2>3. GatheringAfter(v, next)'
    BY <2>2, WalkingNext
  <2> QED
    BY <1>2, <2>2, <2>3 DEF OnPath
<1> QED
  BY <1>1, <1>2

(* A diagnosis is never withdrawn. *)
LEMMA StepFail ==
  ASSUME Core, NEW t \in Thread, Step(t), fail' = "none"
  PROVE  fail = "none"
<1>1. CASE NoTile
  BY <1>1 DEF NoTile
<1>2. CASE \E arg \in TileArgs : AsksFor(t, arg)
  <2>1. fail' = fail \/ \E x : ReportIf(x, "tile")
    BY <1>2 DEF AsksFor, SharedTile
  <2> QED
    BY <2>1, Report
<1> QED
  BY <1>1, <1>2, StepTiles

(* An arrival at the block's barrier opens nothing, or finds everybody else
   there; ... *)
LEMMA ArriveBarCases ==
  ASSUME Core, NEW t \in InBlock \ InSync, bar' = Arrive(bar)
  PROVE  \/ bar'.cur = bar.cur
         \/ bar'.cur = bar.cur + 1 /\ \A s \in InBlock \ {t} : s \in InSync
<1>0. TypeOK /\ BarExact
  BY DEF Core
<1>1. bar.count \in Nat /\ bar.n \in Nat
  BY <1>0, BlockCounts
<1>2. CASE bar.count + 1 < bar.n
  BY <1>0, <1>2, BlockJoins
<1>3. CASE bar.count + 1 >= bar.n
  <2>1. bar'.cur = bar.cur + 1
    BY <1>0, <1>3, BlockOpens
  <2>2. InSync \union {t} = InBlock
    BY <1>0, <1>3, BlockOpens
  <2> QED
    BY <2>1, <2>2
<1> QED
  BY <1>1, <1>2, <1>3

(* ... and so does a departure. *)
LEMMA LeaveBarCases ==
  ASSUME Core, NEW t \in InBlock \ InSync, bar' = Abandon(bar)
  PROVE  \/ bar'.cur = bar.cur
         \/ bar'.cur = bar.cur + 1 /\ \A s \in InBlock \ {t} : s \in InSync
<1>0. TypeOK /\ BarExact
  BY DEF Core
<1>1. bar.count \in Nat /\ bar.n \in Nat
  BY <1>0, BlockCounts
<1>2. CASE ~ (bar.n - 1 > 0 /\ bar.count >= bar.n - 1)
  BY <1>0, <1>2, BlockLeaves
<1>3. CASE bar.n - 1 > 0 /\ bar.count >= bar.n - 1
  <2>0. bar.n - 1 > 0 /\ bar.count >= bar.n - 1
    BY <1>3
  <2>1. bar'.cur = bar.cur + 1
    BY <1>0, <2>0, BlockLeavesLast
  <2>2. InSync = InBlock \ {t}
    BY <1>0, <2>0, BlockLeavesLast
  <2> QED
    BY <2>1, <2>2
<1> QED
  BY <1>1, <1>2, <1>3

(* The release of the block's barrier moves every warp to a path that ends
   in SyncThreads, or finds it gone. *)
LEMMA PathSweeps ==
  ASSUME TypeOK', NEW t \in Thread, Others(t), NEW v \in Warp, OnPath(v),
         bar.cur \in Nat, bar'.cur = bar.cur + 1,
         \A s \in InBlock \ {t} : s \in InSync,
         \/ /\ pc[t] = "kernel" /\ pc'[t] = "sync" /\ gen'[t] = bar.cur
            /\ \E c \in Calls : c.kind = "sync" /\
                 hist'[t].collective = Append(hist[t].collective, c)
         \/ /\ pc[t] = "leaving" /\ pc'[t] = "leavingWarp"
            /\ hist'[t].collective = hist[t].collective
  PROVE  OnPath(v)'
<1>1. PICK path \in Paths : GatheringAfter(v, path) \/ ExchangingAfter(v, path)
  BY DEF OnPath
<1>2. \A s \in Mates(v) : s \in Thread /\ WarpOf[s] = v
  BY DEF Mates
<1>3. \A s \in Thread : s # t =>
        pc[s] \in {"leavingWarp", "done"} \/ (pc[s] = "sync" /\ gen[s] = bar.cur)
  BY DEF InBlock, InSync
<1>4. \A s \in Mates(v) : Walks(s, path)
  <2> SUFFICES ASSUME NEW s \in Mates(v) PROVE Walks(s, path)
    OBVIOUS
  <2>1. CASE GatheringAfter(v, path)
    BY <2>1, Walking
  <2>2. CASE ExchangingAfter(v, path)
    <3>1. pc[s] \in {"kernel", "sync", "leaving", "leavingWarp"} => Before(s)
      BY DEF Before
    <3>2. pc[s] = "done"
      BY <1>2, <1>3, <2>2, <3>1 DEF ExchangingAfter
    <3> QED
      BY <2>2, <3>2 DEF ExchangingAfter, Walks, Ended
  <2> QED
    BY <1>1, <2>1, <2>2
<1>5. ASSUME NEW s \in Mates(v)
      PROVE  \/ pc'[s] \in {"leavingWarp", "done"} /\ Behind(hist'[s].collective, path)
             \/ /\ pc'[s] = "sync" /\ ~ Blocked(s)'
                /\ \E c \in Calls : c.kind = "sync" /\
                     hist'[s].collective = Append(path, c)
  <2>1. s \in Thread /\ Walks(s, path)
    BY <1>2, <1>4
  <2>2. CASE s = t /\ pc[t] = "kernel" /\ pc'[t] = "sync"
    <3>1. hist[t].collective = path
      BY <2>1, <2>2 DEF Walks, Ended
    <3>2. ~ Blocked(t)'
      BY <2>2 DEF Blocked, Generation
    <3> QED
      BY <2>2, <3>1, <3>2
  <2>3. CASE s = t /\ pc[t] = "leaving" /\ pc'[t] = "leavingWarp"
    BY <2>1, <2>3 DEF Walks, Ended
  <2>4. CASE s # t /\ pc[s] \in {"leavingWarp", "done"}
    BY <2>1, <2>4 DEF Walks, Ended, Others, Alone
  <2>5. CASE s # t /\ pc[s] = "sync" /\ gen[s] = bar.cur
    <3>1. OneAhead(s, path, "sync")
      BY <2>1, <2>5 DEF Walks, Blocked, Generation
    <3>2. pc'[s] = "sync" /\ gen'[s] = bar.cur /\
            hist'[s].collective = hist[s].collective
      BY <2>1, <2>5 DEF Others, Alone
    <3>3. ~ Blocked(s)'
      BY <3>2 DEF Blocked, Generation
    <3> QED
      BY <3>1, <3>2, <3>3 DEF OneAhead
  <2> QED
    BY <1>3, <2>1, <2>2, <2>3, <2>4, <2>5
<1> QED
  BY <1>1, <1>5, PathSyncs

(* A step of a thread of the warp that stays before the exchange. *)
LEMMA PathQuiet ==
  ASSUME Core, NEW t \in Thread, Others(t), NEW w \in Warp, w = WarpOf[t], OnPath(w),
         bar'.cur = bar.cur, wbar'[w].cur = wbar[w].cur, Before(t), pc[t] # "done",
         hist'[t].collective = hist[t].collective,
         \/ /\ pc[t] \in {"kernel", "leaving"} \/
                 (pc[t] \in {"sync", "part"} /\ ~ Blocked(t))
            /\ pc'[t] \in {"kernel", "leaving", "leavingWarp"}
            /\ pc[t] = "leaving" => pc'[t] = "leavingWarp"
         \/ pc[t] = "leavingWarp" /\ pc'[t] = "done"
  PROVE  OnPath(w)'
<1>1. PICK path \in Paths : GatheringAfter(w, path) \/ ExchangingAfter(w, path)
  BY DEF OnPath
<1>2. GatheringAfter(w, path) /\ Walks(t, path)
  BY <1>1, PathSide
<1>3. Behind(path, path)
  BY DEF Behind, Paths
<1>4. Walks(t, path)'
  BY <1>2, <1>3 DEF Walks, Ended, Before
<1> QED
  BY <1>2, <1>4, PathHere

------------------------------------------------------------------------------
(* The paths, action by action: SyncThreads, ... *)
LEMMA SyncPath ==
  ASSUME Core, TypeOK', NEW t \in Thread, SyncThreads(t), Others(t),
         \A w \in Warp : OnPath(w)
  PROVE  \A w \in Warp : OnPath(w)'
<1>0. TypeOK /\ bar.cur \in Nat /\ pc \in [Thread -> Locations] /\
        gen \in [Thread -> Nat]
  BY BarType DEF Core, TypeOK
<1>1. PICK c \in Calls : c.kind = "sync" /\ Begin(t, c)
  BY DEF SyncThreads
<1>2. /\ pc[t] = "kernel" /\ pc'[t] = "sync" /\ gen'[t] = bar.cur
      /\ bar' = Arrive(bar) /\ wbar' = wbar
  BY <1>0, <1>1 DEF SyncThreads, Begin, Goto
<1>3. hist'[t].collective = Append(hist[t].collective, c)
  BY <1>1, Noted DEF Collective
<1>4. t \in InBlock \ InSync
  BY <1>2 DEF InBlock, InSync
<1> SUFFICES ASSUME NEW w \in Warp PROVE OnPath(w)'
  OBVIOUS
<1>5. CASE bar'.cur = bar.cur + 1 /\ \A s \in InBlock \ {t} : s \in InSync
  BY <1>0, <1>1, <1>2, <1>3, <1>5, PathSweeps
<1>6. CASE bar'.cur = bar.cur /\ w # WarpOf[t]
  BY <1>2, <1>6, PathElsewhere
<1>7. CASE bar'.cur = bar.cur /\ w = WarpOf[t]
  <2>1. PICK path \in Paths : GatheringAfter(w, path) \/ ExchangingAfter(w, path)
    BY DEF OnPath
  <2>2. Before(t)
    BY <1>2 DEF Before
  <2>3. GatheringAfter(w, path) /\ Walks(t, path)
    BY <1>2, <1>7, <2>1, <2>2, PathSide
  <2>4. hist[t].collective = path
    BY <1>2, <2>3 DEF Walks, Ended
  <2>5. OneAhead(t, path, "sync")'
    BY <1>1, <1>3, <2>4 DEF OneAhead
  <2>6. Walks(t, path)'
    BY <1>2, <1>7, <2>5 DEF Walks, Ended, Before, Blocked, Generation
  <2> QED
    BY <1>2, <1>7, <2>3, <2>6, PathHere
<1> QED
  BY <1>2, <1>4, <1>5, <1>6, <1>7, ArriveBarCases

(* ... the departure from the block's barrier, ... *)
LEMMA LeaveBarrierPath ==
  ASSUME Core, TypeOK', NEW t \in Thread, LeaveBarrier(t), Others(t),
         \A w \in Warp : OnPath(w)
  PROVE  \A w \in Warp : OnPath(w)'
<1>0. TypeOK /\ bar.cur \in Nat /\ pc \in [Thread -> Locations]
  BY BarType DEF Core, TypeOK
<1>1. /\ pc[t] = "leaving" /\ pc'[t] = "leavingWarp" /\ bar' = Abandon(bar)
      /\ wbar' = wbar
      /\ hist'[t].collective = hist[t].collective
  BY <1>0 DEF LeaveBarrier, Goto
<1>2. t \in InBlock \ InSync /\ Before(t)
  BY <1>1 DEF InBlock, InSync, Before
<1> SUFFICES ASSUME NEW w \in Warp PROVE OnPath(w)'
  OBVIOUS
<1>3. CASE bar'.cur = bar.cur + 1 /\ \A s \in InBlock \ {t} : s \in InSync
  BY <1>0, <1>1, <1>3, PathSweeps
<1>4. CASE bar'.cur = bar.cur /\ w # WarpOf[t]
  BY <1>1, <1>4, PathElsewhere
<1>5. CASE bar'.cur = bar.cur /\ w = WarpOf[t]
  BY <1>1, <1>2, <1>5, PathQuiet
<1> QED
  BY <1>1, <1>2, <1>3, <1>4, <1>5, LeaveBarCases

(* ... the arrival in meet, ... *)
LEMMA MeetPath ==
  ASSUME Core, OneSide, ~ partGaveUp, NEW t \in Thread, Meet(t), Others(t),
         NEW w \in Warp, w = WarpOf[t], OnPath(w)
  PROVE  OnPath(w)'
<1>0. /\ TypeOK /\ pc \in [Thread -> Locations] /\ gen \in [Thread -> Nat]
      /\ ops \in [Thread -> Operations \union {"none"}] /\ wbar[w].cur \in Nat
  BY WarpBarType DEF Core, TypeOK
<1>1. PICK c \in Calls : c.kind = "warp" /\ Begin(t, c) /\
             ops' = [ops EXCEPT ![t] = c.arg]
  BY DEF Meet
<1>2. /\ pc[t] = "kernel" /\ pc'[t] = "meet" /\ gen'[t] = wbar[w].cur
      /\ bar' = bar /\ wbar' = [wbar EXCEPT ![w] = WarpArrive(@, t)] /\ ops'[t] = c.arg
  BY <1>0, <1>1 DEF Meet, Begin, Goto
<1>3. hist'[t].collective = Append(hist[t].collective, c)
  BY <1>1, Noted DEF Collective
<1>4. t \in InWarp(w) \ Parked(w) /\ Before(t)
  BY <1>2 DEF InWarp, Mates, Parked, InMeet, InPart, Before
<1>5. PICK path \in Paths : GatheringAfter(w, path) \/ ExchangingAfter(w, path)
  BY DEF OnPath
<1>6. GatheringAfter(w, path) /\ Walks(t, path)
  BY <1>2, <1>4, <1>5, PathSide
<1>7. hist[t].collective = path
  BY <1>2, <1>6 DEF Walks, Ended
<1>8. OneAhead(t, path, "warp")'
  BY <1>1, <1>2, <1>3, <1>7 DEF OneAhead
<1>9. CASE wbar'[w].cur = wbar[w].cur
  <2>1. Walks(t, path)'
    BY <1>2, <1>8, <1>9 DEF Walks, Ended, Before, Blocked, Generation
  <2> QED
    BY <1>2, <1>6, <1>9, <2>1, PathHere
<1>10. CASE /\ wbar'[w].cur = wbar[w].cur + 1
            /\ \A s \in InWarp(w) \ {t} : s \in InMeet(w) \/ s \in InPart(w)
  BY <1>0, <1>2, <1>6, <1>8, <1>10, PathMeets
<1> QED
  BY <1>2, <1>4, <1>9, <1>10, ArriveCases

(* ... the departure from the warp's. *)
LEMMA LeaveWarpPath ==
  ASSUME Core, OneSide, ~ partGaveUp, NEW t \in Thread, LeaveWarp(t), Others(t),
         NEW w \in Warp, w = WarpOf[t], OnPath(w)
  PROVE  OnPath(w)'
<1>0. TypeOK /\ pc \in [Thread -> Locations] /\ wbar[w].cur \in Nat
  BY WarpBarType DEF Core, TypeOK
<1>1. /\ pc[t] = "leavingWarp" /\ pc'[t] = "done" /\ bar' = bar
      /\ wbar' = [wbar EXCEPT ![w] = WarpAbandon(@)]
      /\ hist'[t].collective = hist[t].collective
  BY <1>0 DEF LeaveWarp, Goto
<1>2. t \in InWarp(w) \ Parked(w) /\ Before(t)
  BY <1>1 DEF InWarp, Mates, Parked, InMeet, InPart, Before
<1>3. PICK path \in Paths : GatheringAfter(w, path) \/ ExchangingAfter(w, path)
  BY DEF OnPath
<1>4. GatheringAfter(w, path) /\ Walks(t, path)
  BY <1>1, <1>2, <1>3, PathSide
<1>5. Behind(hist'[t].collective, path)
  BY <1>1, <1>4 DEF Walks, Ended
<1>6. CASE wbar'[w].cur = wbar[w].cur
  BY <1>1, <1>2, <1>6, PathQuiet
<1>7. CASE /\ wbar'[w].cur = wbar[w].cur + 1
           /\ \A s \in InWarp(w) \ {t} : s \in InMeet(w) \/ s \in InPart(w)
  BY <1>0, <1>1, <1>4, <1>5, <1>7, PathMeets
<1> QED
  BY <1>1, <1>2, <1>6, <1>7, LeaveCases

(* Whoever leaves a meet of its warp finds everybody still in the warp in
   its mask. *)
LEMMA MeetsAll ==
  ASSUME Core, NEW t \in Thread, NEW w \in Warp, w = WarpOf[t],
         pc[t] = "meet", ~ Blocked(t), Gathering(w) \/ Exchanging(w)
  PROVE  Exchanging(w) /\ OpenedMask(wbar[w], gen[t]) = InWarp(w) /\
           gen[t] # wbar[w].cur
<1>1. ~ Before(t) /\ gen[t] # wbar[w].cur
  BY DEF Before, Blocked, Generation
<1>2. Exchanging(w) /\ t \in InWarp(w)
  BY <1>1, Sides
<1>3. gen[t] + 1 = wbar[w].cur /\ wbar[w].opened[wbar[w].cur] = InWarp(w)
  BY <1>2 DEF Exchanging
<1> QED
  BY <1>1, <1>2, <1>3 DEF OpenedMask

(* So a check that finds no mismatch has seen that all came for the same. *)
LEMMA MeetReturnsPath ==
  ASSUME Core, OneSide, ~ partGaveUp, fail' = "none", NEW t \in Thread, MeetReturns(t),
           Others(t),
         NEW w \in Warp, w = WarpOf[t], OnPath(w)
  PROVE  OnPath(w)'
<1>0. /\ TypeOK /\ pc \in [Thread -> Locations] /\ gen \in [Thread -> Nat]
      /\ wbar[w].cur \in Nat
  BY WarpBarType DEF Core, TypeOK
<1>1. /\ pc[t] = "meet" /\ ~ Blocked(t) /\ pc'[t] = "part" /\ gen'[t] = wbar[w].cur
      /\ bar' = bar /\ wbar' = [wbar EXCEPT ![w] = WarpArrive(@, t)]
      /\ hist'[t].collective = hist[t].collective /\ ops'[t] = ops[t]
      /\ ReportIf(\E k \in OpenedMask(wbar[w], gen[t]) : ops[k] # ops[t], "mismatch")
  BY <1>0 DEF MeetReturns, Freed, Goto
<1>2. /\ OpenedMask(wbar[w], gen[t]) = InWarp(w) /\ gen[t] # wbar[w].cur
  BY <1>1, MeetsAll DEF OneSide
<1>3. \A k \in InWarp(w) : ops[k] = ops[t]
  BY <1>1, <1>2, Report
<1>4. t \in InWarp(w) \ Parked(w) /\ ~ Before(t)
  BY <1>1, <1>2 DEF InWarp, Mates, Parked, InMeet, InPart, Before
<1>5. PICK path \in Paths : GatheringAfter(w, path) \/ ExchangingAfter(w, path)
  BY DEF OnPath
<1>6. ExchangingAfter(w, path)
  BY <1>1, <1>4, <1>5, PathSide
<1>7. CASE wbar'[w].cur = wbar[w].cur
  BY <1>1, <1>3, <1>6, <1>7, PathJoins
<1>8. CASE /\ wbar'[w].cur = wbar[w].cur + 1
           /\ \A s \in InWarp(w) \ {t} : s \in InMeet(w) \/ s \in InPart(w)
  BY <1>0, <1>1, <1>3, <1>6, <1>8, PathParts
<1> QED
  BY <1>1, <1>4, <1>7, <1>8, ArriveCases

(* Every step keeps the warps on their paths, as long as nothing is reported
   and no part gives up. *)
LEMMA StepPath ==
  ASSUME Core, TypeOK', OneSide, OnePath, NEW t \in Thread, Step(t), Alone(t),
         ~ partGaveUp', fail' = "none"
  PROVE  \A w \in Warp : OnPath(w)'
<1>0. /\ TypeOK /\ pc \in [Thread -> Locations] /\ Others(t)
  BY StepOthers DEF Core, TypeOK
<1>1. ~ partGaveUp /\ fail = "none"
  BY StepSide, StepFail
<1>2. \A w \in Warp : OnPath(w)
  BY <1>1 DEF OnePath, OnPath
<1>3. WarpOf[t] \in Warp
  BY Crew
<1>4. ASSUME bar' = bar, OnPath(WarpOf[t])'
      PROVE  \A w \in Warp : OnPath(w)'
  <2> SUFFICES ASSUME NEW w \in Warp, w # WarpOf[t] PROVE OnPath(w)'
    BY <1>4
  <2>1. wbar'[w] = wbar[w]
    BY StepElsewhere
  <2> QED
    BY <1>0, <1>2, <1>4, <2>1, PathElsewhere
<1>5. ASSUME bar' = bar, wbar' = wbar, hist'[t].collective = hist[t].collective,
             \/ pc[t] = "kernel" /\ pc'[t] \in {"kernel", "leaving"}
             \/ pc[t] \in {"sync", "part"} /\ ~ Blocked(t) /\ pc'[t] = "kernel"
      PROVE  \A w \in Warp : OnPath(w)'
  <2>1. Before(t)
    BY <1>5 DEF Before
  <2>2. OnPath(WarpOf[t])'
    BY <1>0, <1>2, <1>3, <1>5, <2>1, PathQuiet
  <2> QED
    BY <1>4, <1>5, <2>2
<1>6. ASSUME NEW c \in Calls, Begin(t, c), ~ Collective(c)
      PROVE  hist'[t].collective = hist[t].collective /\ pc[t] = "kernel"
  BY <1>6, Noted
<1>7. CASE SyncThreads(t)
  BY <1>0, <1>2, <1>7, SyncPath
<1>8. CASE LeaveBarrier(t)
  BY <1>0, <1>2, <1>8, LeaveBarrierPath
<1>9. CASE Meet(t)
  <2>1. bar' = bar
    BY <1>9 DEF Meet
  <2>2. OnPath(WarpOf[t])'
    BY <1>0, <1>1, <1>2, <1>3, <1>9, MeetPath
  <2> QED
    BY <1>4, <2>1, <2>2
<1>10. CASE LeaveWarp(t)
  <2>1. bar' = bar
    BY <1>10 DEF LeaveWarp
  <2>2. OnPath(WarpOf[t])'
    BY <1>0, <1>1, <1>2, <1>3, <1>10, LeaveWarpPath
  <2> QED
    BY <1>4, <2>1, <2>2
<1>11. CASE MeetReturns(t)
  <2>1. bar' = bar
    BY <1>11 DEF MeetReturns
  <2>2. OnPath(WarpOf[t])'
    BY <1>0, <1>1, <1>2, <1>3, <1>11, MeetReturnsPath
  <2> QED
    BY <1>4, <2>1, <2>2
<1>12. CASE Tile(t) \/ DynTile(t) \/ AssumeBlockDim(t)
  <2>1. PICK c \in Calls : c.kind \in {"tile", "dynTile", "assume"} /\ Begin(t, c)
    BY <1>12 DEF Tile, DynTile, AssumeBlockDim
  <2>2. hist'[t].collective = hist[t].collective /\ pc[t] = "kernel"
    BY <1>6, <2>1 DEF Collective
  <2>3. UNCHANGED <<bar, wbar, pc>>
    BY <1>12 DEF Tile, DynTile, AssumeBlockDim, barriers
  <2> QED
    BY <1>5, <2>2, <2>3
<1>13. CASE Panic(t)
  <2>1. PICK c \in Calls : c.kind = "panic" /\ Begin(t, c)
    BY <1>13 DEF Panic
  <2>2. hist'[t].collective = hist[t].collective /\ pc[t] = "kernel"
    BY <1>6, <2>1 DEF Collective
  <2>3. UNCHANGED <<bar, wbar>> /\ pc'[t] = "leaving"
    BY <1>0, <1>13 DEF Panic, Goto, barriers
  <2> QED
    BY <1>5, <2>2, <2>3
<1>14. CASE Return(t)
  BY <1>0, <1>5, <1>14 DEF Return, Goto, barriers
<1>15. CASE SyncReturns(t) \/ PartReturns(t)
  BY <1>0, <1>5, <1>15 DEF SyncReturns, PartReturns, Freed, Goto, barriers
<1>16. CASE SyncGivesUp(t) \/ MeetGivesUp(t)
  <2>1. ReportIf(TRUE, "blockStall") \/ ReportIf(TRUE, "warpStall")
    BY <1>16 DEF SyncGivesUp, MeetGivesUp
  <2> QED
    BY <2>1, Report
<1>17. CASE PartGivesUp(t)
  BY <1>17 DEF PartGivesUp
<1> QED
  BY <1>7, <1>8, <1>9, <1>10, <1>11, <1>12, <1>13, <1>14, <1>15, <1>16, <1>17
  DEF Step, Waits

(* A step that moves no thread and begins no call keeps the paths. *)
LEMMA StillPath ==
  ASSUME OnePath, UNCHANGED <<bar, wbar, ops, pc, gen, partGaveUp, hist>>,
         fail' = "none" => fail = "none"
  PROVE  OnePath'
<1> SUFFICES ASSUME ~ partGaveUp, fail = "none", NEW w \in Warp
             PROVE  OnPath(w)'
  BY DEF OnePath, OnPath
<1>1. PICK path \in Paths : GatheringAfter(w, path) \/ ExchangingAfter(w, path)
  BY DEF OnePath
<1>2. GatheringAfter(w, path)' <=> GatheringAfter(w, path)
  BY DEF GatheringAfter, Ended, Before, Blocked, Generation, OneAhead, Behind
<1>3. ExchangingAfter(w, path)' <=> ExchangingAfter(w, path)
  BY DEF ExchangingAfter, Before, Blocked, Generation, OneAhead, Behind, InWarp
<1> QED
  BY <1>1, <1>2, <1>3 DEF OnPath

(* The paths start empty. *)
LEMMA InitPath ==
  ASSUME Init
  PROVE  OnePath
<1>1. \A t \in Thread : pc[t] = "kernel" /\ hist[t] = NothingYet
  BY DEF Init
<1>2. \A t \in Thread : hist[t].collective = <<>>
  BY <1>1 DEF NothingYet
<1>3. <<>> \in Paths
  BY DEF Paths
<1>4. \A w \in Warp : GatheringAfter(w, <<>>)
  BY <1>1, <1>2 DEF GatheringAfter, Mates, Ended, Before
<1> QED
  BY <1>3, <1>4 DEF OnePath

------------------------------------------------------------------------------
(* A sequence is behind itself and behind itself with one more. *)
LEMMA GrowsByOne ==
  ASSUME NEW S, NEW a \in Seq(S)
  PROVE  Behind(a, a) /\ \A x \in S : Behind(a, Append(a, x))
<1>1. Len(a) \in Nat
  OBVIOUS
<1>2. \A x \in S : Len(Append(a, x)) = Len(a) + 1 /\
        \A i \in 1..Len(a) : Append(a, x)[i] = a[i]
  BY AppendProperties
<1> QED
  BY <1>1, <1>2 DEF Behind

(* What agrees agreed before, ... *)
LEMMA AgreeBefore ==
  ASSUME NEW S, NEW a \in Seq(S), NEW b \in Seq(S), NEW aa \in Seq(S),
           NEW bb \in Seq(S),
         Behind(a, aa), Behind(b, bb), Agree(aa, bb)
  PROVE  Agree(a, b)
BY DEF Behind, Agree

(* ... and what is on one path agrees. *)
LEMMA AgreeOnPath ==
  ASSUME NEW S, NEW a \in Seq(S), NEW b \in Seq(S), NEW path \in Seq(S),
         Behind(a, path), Behind(b, path)
  PROVE  Agree(a, b)
BY DEF Behind, Agree

(* Two that are one call ahead of one path and agree are ahead by the same
   call. *)
LEMMA AgreeAhead ==
  ASSUME NEW path \in Paths, NEW c \in Calls, NEW d \in Calls,
         Agree(Append(path, c), Append(path, d))
  PROVE  c = d
<1>1. path \in Seq(Calls) /\ Len(path) \in Nat
  BY DEF Paths
<1> DEFINE a == Append(path, c)
           b == Append(path, d)
           i == Len(path) + 1
<1>2. Len(a) = i /\ Len(b) = i /\ a[i] = c /\ b[i] = d
  BY <1>1, AppendProperties
<1>3. i \in 1..Len(a) /\ i <= Len(b)
  BY <1>1, <1>2
<1>4. Agree(a, b)
  OBVIOUS
<1> HIDE DEF a, b, i
<1> QED
  BY <1>2, <1>3, <1>4 DEF Agree

(* Histories only grow. *)
LEMMA StepGrows ==
  ASSUME Core, NEW t \in Thread, Step(t), NEW s \in Thread
  PROVE  /\ Behind(hist[s].collective, hist'[s].collective)
         /\ Behind(hist[s].tiles, hist'[s].tiles)
         /\ hist[s].wrong => hist'[s].wrong
<1>0. TypeOK
  BY DEF Core
<1>1. hist[s].collective \in Seq(Calls) /\ hist[s].tiles \in Seq(TileArgs)
  BY <1>0, HistParts
<1>2. hist' = hist \/ \E c \in Calls : Begin(t, c)
  BY DEF Step, Waits, SyncThreads, Meet, Tile, DynTile, AssumeBlockDim, Return,
     Panic, LeaveBarrier, LeaveWarp, SyncReturns, SyncGivesUp, MeetReturns, MeetGivesUp,
     PartReturns, PartGivesUp
<1>3. CASE hist' = hist
  BY <1>1, <1>3, GrowsByOne
<1>4. ASSUME NEW c \in Calls, Begin(t, c)
      PROVE  /\ Behind(hist[s].collective, hist'[s].collective)
             /\ Behind(hist[s].tiles, hist'[s].tiles)
             /\ hist[s].wrong => hist'[s].wrong
  <2>1. s # t => hist'[s] = hist[s]
    BY <1>4, Noted
  <2>2. hist[t].wrong => hist'[t].wrong
    BY <1>4, Noted
  <2>3. hist'[s].collective = hist[s].collective \/
          hist'[s].collective = Append(hist[s].collective, c)
    BY <1>4, <2>1, Noted
  <2>4. hist'[s].tiles = hist[s].tiles \/
          (c.arg \in TileArgs /\ hist'[s].tiles = Append(hist[s].tiles, c.arg))
    BY <1>4, <2>1, Noted DEF TileArgs
  <2>5. Behind(hist[s].collective, hist'[s].collective)
    BY <1>1, <2>3, GrowsByOne
  <2>6. Behind(hist[s].tiles, hist'[s].tiles)
    BY <1>1, <2>4, GrowsByOne
  <2> QED
    BY <2>1, <2>2, <2>5, <2>6
<1> QED
  BY <1>2, <1>3, <1>4

(* What a kernel may do wrong is only ever found out, never forgotten. *)
LEMMA StepFair ==
  ASSUME Core, TypeOK', NEW t \in Thread, Step(t), Convergent', AllRight'
  PROVE  Convergent /\ AllRight
<1>0. TypeOK
  BY DEF Core
<1>1. AllRight
  BY StepGrows DEF AllRight
<1>2. \A s \in Thread : /\ hist[s].collective \in Seq(Calls)
                        /\ hist[s].tiles \in Seq(TileArgs)
                        /\ hist'[s].collective \in Seq(Calls)
                        /\ hist'[s].tiles \in Seq(TileArgs)
  BY <1>0 DEF TypeOK, Hists
<1>3. ASSUME NEW s \in Thread, NEW u \in Thread
      PROVE  /\ WarpOf[s] = WarpOf[u] => Agree(hist[s].collective, hist[u].collective)
             /\ Agree(hist[s].tiles, hist[u].tiles)
  <2>1. /\ WarpOf[s] = WarpOf[u] => Agree(hist'[s].collective, hist'[u].collective)
        /\ Agree(hist'[s].tiles, hist'[u].tiles)
    BY DEF Convergent
  <2>2. /\ Behind(hist[s].collective, hist'[s].collective)
        /\ Behind(hist[u].collective, hist'[u].collective)
        /\ Behind(hist[s].tiles, hist'[s].tiles)
        /\ Behind(hist[u].tiles, hist'[u].tiles)
    BY StepGrows
  <2>3. Agree(hist[s].tiles, hist[u].tiles)
    BY <1>2, <2>1, <2>2, AgreeBefore
  <2>4. WarpOf[s] = WarpOf[u] => Agree(hist[s].collective, hist[u].collective)
    BY <1>2, <2>1, <2>2, AgreeBefore
  <2> QED
    BY <2>3, <2>4
<1> QED
  BY <1>1, <1>3 DEF Convergent

(* In a convergent kernel everybody one call ahead makes the same call. *)
LEMMA SameOperation ==
  ASSUME Core, Convergent, NEW w \in Warp, NEW path \in Paths,
         NEW s \in Mates(w), NEW t \in Mates(w), NEW k1, NEW k2,
         OneAhead(s, path, k1), OneAhead(t, path, k2)
  PROVE  k1 = k2 /\ (k1 = "warp" => ops[s] = ops[t])
<1>1. s \in Thread /\ t \in Thread /\ WarpOf[s] = WarpOf[t]
  BY DEF Mates
<1>2. PICK c \in Calls : /\ c.kind = k1 /\ hist[s].collective = Append(path, c)
                         /\ k1 = "warp" => ops[s] = c.arg
  BY DEF OneAhead
<1>3. PICK d \in Calls : /\ d.kind = k2 /\ hist[t].collective = Append(path, d)
                         /\ k2 = "warp" => ops[t] = d.arg
  BY DEF OneAhead
<1>4. Agree(Append(path, c), Append(path, d))
  BY <1>1, <1>2, <1>3 DEF Convergent
<1>5. c = d
  BY <1>4, AgreeAhead
<1> QED
  BY <1>2, <1>3, <1>5

(* So a convergent kernel passes the check after meet, ... *)
LEMMA NoMismatch ==
  ASSUME Core, OneSide, Convergent, ~ partGaveUp, NEW t \in Thread, MeetReturns(t),
         \A w \in Warp : OnPath(w)
  PROVE  fail' = fail
<1> DEFINE w == WarpOf[t]
<1>1. w \in Warp /\ t \in Mates(w)
  BY Crew DEF Mates
<1>2. /\ pc[t] = "meet" /\ ~ Blocked(t)
      /\ ReportIf(\E k \in OpenedMask(wbar[w], gen[t]) : ops[k] # ops[t], "mismatch")
  BY DEF MeetReturns, Freed
<1>3. Gathering(w) \/ Exchanging(w)
  BY <1>1 DEF OneSide
<1>4. OpenedMask(wbar[w], gen[t]) = InWarp(w)
  BY <1>1, <1>2, <1>3, MeetsAll
<1>5. PICK path \in Paths : GatheringAfter(w, path) \/ ExchangingAfter(w, path)
  BY <1>1 DEF OnPath
<1>6. ~ Before(t)
  BY <1>2 DEF Before
<1>7. ExchangingAfter(w, path)
  BY <1>1, <1>2, <1>5, <1>6, PathSide
<1>8. ASSUME NEW k \in InWarp(w) PROVE ops[k] = ops[t]
  <2>1. k \in Mates(w) /\ pc[k] # "done"
    BY DEF InWarp
  <2>2. OneAhead(k, path, "warp") /\ OneAhead(t, path, "warp")
    BY <1>1, <1>2, <1>7, <2>1 DEF ExchangingAfter
  <2> HIDE DEF w
  <2> QED
    BY <1>1, <2>1, <2>2, SameOperation
<1> QED
  BY <1>2, <1>4, <1>8 DEF ReportIf

(* ... is always handed the tile it asks for, ... *)
LEMMA NoWrongTile ==
  ASSUME Core, Tiles, NEW t \in Thread, NEW arg \in TileArgs, AsksFor(t, arg),
           Convergent'
  PROVE  fail' = fail
<1> DEFINE i == seq[t] + 1
<1>0. TypeOK
  BY DEF Core
<1>1. \A s \in Thread : /\ hist[s].tiles \in Seq(TileArgs) /\ seq[s] \in Nat
                        /\ seq[s] = Len(hist[s].tiles) /\ seq[s] <= Len(slabs)
  BY <1>0, HistParts DEF Tiles, TilesCounted
<1>2. Len(slabs) \in Nat
  BY <1>0, HistParts
<1>3. CASE i > Len(slabs)
  BY <1>3 DEF AsksFor, SharedTile
<1>4. CASE ~ (i > Len(slabs))
  <2>1. ReportIf(slabs[i] # arg, "tile")
    BY <1>4 DEF AsksFor, SharedTile
  <2>2. i \in 1..Len(slabs)
    BY <1>1, <1>2, <1>4
  <2>3. PICK s \in Thread : i <= seq[s] /\ hist[s].tiles[i] = slabs[i]
    BY <2>2 DEF Tiles, TilesAsked
  <2>4. s # t
    BY <1>1, <2>3
  <2>5. hist'[s].tiles = hist[s].tiles /\ hist'[t].tiles = Append(hist[t].tiles, arg)
    BY <2>4 DEF AsksFor
  <2>6. Len(hist'[t].tiles) = i /\ hist'[t].tiles[i] = arg
    BY <1>1, <2>5, AppendProperties
  <2>7. i \in 1..Len(hist'[s].tiles) /\ i <= Len(hist'[t].tiles)
    BY <1>1, <2>2, <2>3, <2>5, <2>6
  <2>8. Agree(hist'[s].tiles, hist'[t].tiles)
    BY DEF Convergent
  <2>9. hist'[s].tiles[i] = hist'[t].tiles[i]
    BY <2>7, <2>8 DEF Agree
  <2>10. slabs[i] = arg
    BY <2>3, <2>5, <2>6, <2>9
  <2> QED
    BY <2>1, <2>10 DEF ReportIf
<1> QED
  BY <1>3, <1>4

(* ... and makes no call that is wrong by itself. *)
LEMMA NothingWrong ==
  ASSUME Core, NEW t \in Thread, NEW c \in Calls, Begin(t, c), AllRight'
  PROVE  ~ Wrong(c)
BY Noted DEF AllRight

(* A convergent kernel with nothing wrong in it, and no timer early. *)
Fair == early = 0 /\ Convergent /\ AllRight

(* No step of one is diagnosed, ... *)
LEMMA StepSilent ==
  ASSUME Core, TypeOK', OneSide, PartIsBrief, PartIsBrief', OnePath, Tiles,
         NEW t \in Thread, Step(t), Alone(t), Fair, Fair', fail = "none", overdue = {}
  PROVE  fail' = "none"
<1>1. ~ partGaveUp /\ ~ partGaveUp'
  BY DEF PartIsBrief, Fair
<1>2. \A w \in Warp : OnPath(w)
  BY <1>1 DEF OnePath, OnPath
<1>3. early = 0 /\ early' = 0 /\ Convergent /\ Convergent' /\ AllRight'
  BY DEF Fair
<1>4. ~ (SyncGivesUp(t) \/ MeetGivesUp(t) \/ PartGivesUp(t))
  <2> SUFFICES ASSUME SyncGivesUp(t) \/ MeetGivesUp(t) \/ PartGivesUp(t) PROVE FALSE
    OBVIOUS
  <2>1. t \in overdue \/ early' = early + 1
    BY StepTiming
  <2> QED
    BY <1>3, <2>1
<1>5. CASE MeetReturns(t)
  BY <1>1, <1>2, <1>3, <1>5, NoMismatch
<1>6. ASSUME NEW c \in Calls, Begin(t, c), Shared(c), SharedTile(t, c.arg)
      PROVE  fail' = "none"
  <2>1. c.arg \in TileArgs
    BY <1>6 DEF TileArgs
  <2>2. ~ Wrong(c)
    BY <1>3, <1>6, NothingWrong
  <2>3. AsksFor(t, c.arg)
    BY <1>6, <2>2, Noted DEF AsksFor
  <2> QED
    BY <1>3, <2>1, <2>3, NoWrongTile
<1>7. CASE Tile(t)
  <2>1. PICK c \in Calls : c.kind = "tile" /\ Begin(t, c) /\ SharedTile(t, c.arg)
    BY <1>7 DEF Tile
  <2> QED
    BY <1>6, <2>1 DEF Shared
<1>8. CASE DynTile(t)
  <2>1. PICK c \in Calls :
        /\ c.kind = "dynTile" /\ Begin(t, c)
        /\ IF DynSized THEN SharedTile(t, c.arg)
                       ELSE ReportIf(TRUE, "unsized") /\ UNCHANGED <<slabs, seq>>
    BY <1>8 DEF DynTile
  <2>2. ~ Wrong(c)
    BY <1>3, <2>1, NothingWrong
  <2>3. DynSized
    BY <2>1, <2>2 DEF Wrong
  <2> QED
    BY <1>6, <2>1, <2>3 DEF Shared
<1>9. CASE AssumeBlockDim(t)
  <2>1. PICK c \in Calls : /\ c.kind = "assume" /\ Begin(t, c)
                           /\ ReportIf(c.arg # Cardinality(Thread), "blockDim")
    BY <1>9 DEF AssumeBlockDim
  <2>2. ~ Wrong(c)
    BY <1>3, <2>1, NothingWrong
  <2>3. c.arg = Cardinality(Thread)
    BY <2>1, <2>2 DEF Wrong
  <2> QED
    BY <2>1, <2>3 DEF ReportIf
<1>10. CASE Panic(t)
  <2>1. PICK c \in Calls : c.kind = "panic" /\ Begin(t, c)
    BY <1>10 DEF Panic
  <2>2. ~ Wrong(c)
    BY <1>3, <2>1, NothingWrong
  <2> QED
    BY <2>1, <2>2 DEF Wrong
<1>11. CASE SyncThreads(t) \/ Meet(t) \/ Return(t) \/ LeaveBarrier(t) \/ LeaveWarp(t)
            \/ SyncReturns(t) \/ PartReturns(t)
  BY <1>11
  DEF SyncThreads, Meet, Return, LeaveBarrier, LeaveWarp, SyncReturns, PartReturns
<1> QED
  BY <1>4, <1>5, <1>7, <1>8, <1>9, <1>10, <1>11 DEF Step, Waits

(* ... so no step makes the alarm false. *)
LEMMA StepFalseAlarm ==
  ASSUME Core, TypeOK', OneSide, PartIsBrief, PartIsBrief', OnePath, Tiles, Verdict,
           FalseAlarm,
         NEW t \in Thread, Step(t), Alone(t)
  PROVE  FalseAlarm'
<1> SUFFICES ASSUME Fair' PROVE fail' = "none" /\ overdue' = {}
  BY DEF FalseAlarm, Fair
<1>1. verdict = "running"
  BY StepVerdict
<1>2. early' = 0 /\ early = 0 /\ overdue' \subseteq overdue
  BY StepTiming DEF Fair
<1>3. Convergent /\ AllRight
  BY StepFair DEF Fair
<1>4. Fair
  BY <1>2, <1>3 DEF Fair
<1>5. fail = "none" /\ overdue = {}
  BY <1>1, <1>4 DEF FalseAlarm, Fair
<1>6. fail' = "none"
  BY <1>4, <1>5, StepSilent
<1> QED
  BY <1>2, <1>5, <1>6

(* The threads of a convergent kernel never all wait for each other: those
   in meet would be the whole warp, or else those in sync the whole block, and
   an assembled generation is released. *)
LEMMA NoStall ==
  ASSUME Core, OneSide, OnePath, Convergent, ~ partGaveUp, fail = "none",
         \A t \in Thread : Blocked(t) \/ pc[t] = "done",
         NEW t0 \in Thread, Blocked(t0)
  PROVE  FALSE
<1>0. BarExact /\ WarpExact
  BY DEF Core
<1>1. ASSUME NEW t \in Thread, pc[t] # "done"
      PROVE  pc[t] \in {"sync", "meet"} /\ Blocked(t) /\ Before(t)
  <2>1. Blocked(t) /\ WarpOf[t] \in Warp
    BY <1>1, Crew
  <2>2. Gathering(WarpOf[t])
    BY <2>1, StallGathers DEF OneSide
  <2>3. Before(t)
    BY <1>1, <2>2 DEF Gathering, InWarp, Mates
  <2> QED
    BY <2>1, <2>3 DEF Before, Blocked
<1>2. ASSUME NEW t \in Thread, pc[t] = "meet" PROVE FALSE
  <2> DEFINE w == WarpOf[t]
  <2>1. w \in Warp /\ t \in Mates(w) /\ pc[t] # "done" /\ Blocked(t) /\ Before(t)
    BY <1>1, <1>2, Crew DEF Mates
  <2>2. PICK path \in Paths : GatheringAfter(w, path) \/ ExchangingAfter(w, path)
    BY <2>1 DEF OnePath
  <2>3. GatheringAfter(w, path)
    BY <2>1, <2>2, PathSide
  <2>4. OneAhead(t, path, "warp")
    BY <1>2, <2>1, <2>3 DEF GatheringAfter
  <2>5. ASSUME NEW s \in InWarp(w) PROVE s \in InMeet(w)
    <3>1. s \in Thread /\ WarpOf[s] = w /\ s \in Mates(w) /\ pc[s] # "done"
      BY DEF InWarp, Mates
    <3>2. pc[s] \in {"sync", "meet"} /\ Blocked(s)
      BY <1>1, <3>1
    <3>3. pc[s] = "sync" => OneAhead(s, path, "sync")
      BY <2>3, <3>1, <3>2 DEF GatheringAfter
    <3> HIDE DEF w
    <3>4. pc[s] # "sync"
      <4> SUFFICES ASSUME pc[s] = "sync" PROVE FALSE
        OBVIOUS
      <4>1. "sync" = "warp"
        BY <2>1, <2>4, <3>1, <3>3, SameOperation
      <4> QED
        BY <4>1
    <3>5. gen[s] = wbar[w].cur
      BY <3>1, <3>2, <3>4 DEF Blocked, Generation
    <3> QED
      BY <3>1, <3>2, <3>4, <3>5 DEF InMeet
  <2>6. t \in InWarp(w)
    BY <2>1 DEF InWarp
  <2> HIDE DEF w
  <2>7. InMeet(w) \subseteq InWarp(w) /\ InPart(w) \subseteq InWarp(w)
    BY DEF InMeet, InPart, InWarp
  <2>8. MaskExact(w)
    BY <1>0, <2>1 DEF WarpExact
  <2> QED
    BY <2>5, <2>6, <2>7, <2>8 DEF MaskExact
<1>3. ASSUME NEW s \in InBlock PROVE s \in InSync
  <2>1. s \in Thread /\ pc[s] # "done"
    BY DEF InBlock
  <2>2. pc[s] = "sync" /\ Blocked(s)
    BY <1>1, <1>2, <2>1
  <2> QED
    BY <2>1, <2>2 DEF InSync, Blocked, Generation
<1>4. t0 \in InBlock
  <2>1. pc[t0] # "done"
    BY DEF Blocked
  <2> QED
    BY <1>1, <2>1 DEF InBlock
<1>5. InSync \subseteq InBlock
  BY DEF InSync, InBlock
<1> QED
  BY <1>0, <1>3, <1>4, <1>5 DEF BarExact

(* So time never passes for one. *)
LEMMA StallFalseAlarm ==
  ASSUME Core, OneSide, PartIsBrief, OnePath, Verdict, FalseAlarm, Stall
  PROVE  FalseAlarm'
<1>1. /\ UNCHANGED <<fail, verdict, early, hist>> /\ \E t \in Thread : Blocked(t)
      /\ \A t \in Thread : Blocked(t) \/ pc[t] = "done"
  BY DEF Stall, Stalled
<1> SUFFICES ASSUME early = 0, Convergent, AllRight PROVE FALSE
  BY <1>1 DEF FalseAlarm, Convergent, AllRight
<1>2. verdict = "running"
  BY StallVerdict
<1>3. fail = "none" /\ ~ partGaveUp
  BY <1>2 DEF FalseAlarm, PartIsBrief
<1> QED
  BY <1>1, <1>3, NoStall

(* The comparison of the tile counts is no false alarm either. *)
LEMMA FinishFalseAlarm ==
  ASSUME Core, TilesCounted, FalseAlarm, Finish
  PROVE  FalseAlarm'
<1>1. /\ UNCHANGED <<early, hist, overdue, seq>> /\ verdict = "running"
      /\ verdict' = fail'
      /\ ReportIf(\E s, t \in Thread : seq[s] # seq[t], "divergence")
  BY DEF Finish, timing
<1> SUFFICES ASSUME early = 0, Convergent, AllRight, fail' = "running" \/ SameTileCount
             PROVE  fail' = "none" /\ overdue = {}
  BY <1>1 DEF FalseAlarm, Convergent, AllRight, SameTileCount
<1>2. fail = "none" /\ overdue = {}
  BY <1>1 DEF FalseAlarm
<1>3. fail' # "running"
  BY <1>1, <1>2 DEF ReportIf
<1>4. ~ \E s, t \in Thread : seq[s] # seq[t]
  BY <1>3 DEF SameTileCount, TilesCounted
<1> QED
  BY <1>1, <1>2, <1>4 DEF ReportIf

(* Nothing is reported at the start, ... *)
LEMMA InitFalseAlarm ==
  ASSUME Init
  PROVE  FalseAlarm
BY DEF Init, FalseAlarm

(* ... and there is no verdict. *)
LEMMA InitVerdict ==
  ASSUME Init
  PROVE  Verdict
BY DEF Init, Verdict

(* A silent verdict after which something could have been missed: the
   threads of each warp all ended behind one path, and what they asked for is
   what the tiles are. *)
LEMMA Missed ==
  ASSUME IInv
  PROVE  NoMissedAlarm
<1> SUFFICES ASSUME verdict = "none", ~ partGaveUp
             PROVE  Convergent /\ AllRight /\ SameTileCount
  BY DEF NoMissedAlarm
<1>0. TypeOK /\ Verdict /\ OnePath /\ TilesCounted /\ SilentTiles
  BY DEF IInv
<1>1. /\ fail = "none" /\ \A t \in Thread : pc[t] = "done"
      /\ \A s, t \in Thread : seq[s] = seq[t]
  BY <1>0 DEF Verdict
<1>2. AllRight /\ \A t \in Thread : \A i \in 1..seq[t] : hist[t].tiles[i] = slabs[i]
  BY <1>0, <1>1 DEF SilentTiles
<1>3. SameTileCount
  BY <1>0, <1>1 DEF TilesCounted, SameTileCount
<1>4. \A s \in Thread : /\ hist[s].collective \in Seq(Calls)
                        /\ hist[s].tiles \in Seq(TileArgs)
                        /\ slabs \in Seq(TileArgs) /\ seq[s] = Len(hist[s].tiles)
                        /\ seq[s] <= Len(slabs)
  BY <1>0, HistParts DEF TilesCounted
<1>5. \A s, t \in Thread : Agree(hist[s].tiles, hist[t].tiles)
  <2>1. \A s \in Thread : Behind(hist[s].tiles, slabs)
    BY <1>2, <1>4 DEF Behind
  <2> QED
    BY <1>4, <2>1, AgreeOnPath
<1>6. ASSUME NEW s \in Thread, NEW t \in Thread, WarpOf[s] = WarpOf[t]
      PROVE  Agree(hist[s].collective, hist[t].collective)
  <2> DEFINE w == WarpOf[s]
  <2>1. w \in Warp /\ s \in Mates(w) /\ t \in Mates(w)
    BY <1>6, Crew DEF Mates
  <2>2. PICK path \in Paths : GatheringAfter(w, path) \/ ExchangingAfter(w, path)
    BY <1>0, <1>1, <2>1 DEF OnePath
  <2>3. \A k \in Mates(w) : k \in Thread
    BY DEF Mates
  <2>4. \A k \in Mates(w) : Behind(hist[k].collective, path)
    BY <1>1, <2>2, <2>3 DEF GatheringAfter, ExchangingAfter, Ended
  <2>5. path \in Seq(Calls)
    BY DEF Paths
  <2> QED
    BY <1>4, <2>1, <2>4, <2>5, AgreeOnPath
<1> QED
  BY <1>2, <1>3, <1>5, <1>6 DEF Convergent

------------------------------------------------------------------------------
(* The invariant holds at the start, ... *)
LEMMA InitIInv ==
  ASSUME Init
  PROVE  IInv
<1>1. Core /\ OneSide /\ PartIsBrief /\ OnePath /\ Tiles /\ Verdict /\ FalseAlarm
  BY InitCore, InitSide, InitBrief, InitPath, InitTiles, InitVerdict, InitFalseAlarm
<1> QED
  BY <1>1 DEF IInv, Core, Tiles

(* ... is kept by every step of a thread, ... *)
LEMMA StepIInv ==
  ASSUME IInv, NEW t \in Thread, Step(t)
  PROVE  IInv'
<1>0. /\ Core /\ OneSide /\ PartIsBrief /\ OnePath /\ Tiles /\ Verdict /\ FalseAlarm
  BY DEF IInv, Core, Tiles
<1>1. Core' /\ Alone(t)
  BY <1>0, StepCore
<1>2. TypeOK'
  BY <1>1 DEF Core
<1>3. OneSide'
  BY <1>0, <1>1, StepSide DEF OneSide
<1>4. PartIsBrief'
  BY <1>0, <1>1, StepBrief
<1>5. OnePath'
  BY <1>0, <1>1, <1>2, StepPath DEF OnePath, OnPath
<1>6. Tiles'
  BY <1>0, StepTilesKept
<1>7. Verdict'
  BY <1>0, StepVerdict
<1>8. FalseAlarm'
  BY <1>0, <1>1, <1>2, <1>4, StepFalseAlarm
<1> QED
  BY <1>1, <1>3, <1>4, <1>5, <1>6, <1>7, <1>8 DEF IInv, Core, Tiles

(* ... by the passing of time, ... *)
LEMMA StallIInv ==
  ASSUME IInv, Stall
  PROVE  IInv'
<1>0. /\ Core /\ OneSide /\ PartIsBrief /\ OnePath /\ Tiles /\ Verdict /\ FalseAlarm
  BY DEF IInv, Core, Tiles
<1>1. Core' /\ UNCHANGED <<bar, wbar, pc, gen>>
  BY <1>0, StallCore
<1>2. UNCHANGED <<ops, fail, partGaveUp, hist>>
  BY DEF Stall
<1>3. OneSide'
  BY <1>0, <1>1, <1>2, StillSide
<1>4. PartIsBrief'
  BY <1>0, StallBrief
<1>5. OnePath'
  BY <1>0, <1>1, <1>2, StillPath
<1>6. Tiles'
  BY <1>0, StallNoTile, NoTileTiles
<1>7. Verdict' /\ FalseAlarm'
  BY <1>0, StallVerdict, StallFalseAlarm
<1> QED
  BY <1>1, <1>3, <1>4, <1>5, <1>6, <1>7 DEF IInv, Core, Tiles

(* ... by the end of the block, ... *)
LEMMA FinishIInv ==
  ASSUME IInv, Finish
  PROVE  IInv'
<1>0. /\ Core /\ OneSide /\ PartIsBrief /\ OnePath /\ Tiles /\ Verdict /\ FalseAlarm
  BY DEF IInv, Core, Tiles
<1>1. Core' /\ UNCHANGED <<bar, wbar, pc, gen>>
  BY <1>0, FinishCore
<1>2. UNCHANGED <<ops, early, overdue, partGaveUp, hist>>
  BY DEF Finish, timing
<1>3. fail' = "none" => fail = "none"
  BY FinishNoTile DEF NoTile
<1>4. OneSide'
  BY <1>0, <1>1, <1>2, StillSide
<1>5. PartIsBrief'
  BY <1>0, <1>1, <1>2 DEF PartIsBrief
<1>6. OnePath'
  BY <1>0, <1>1, <1>2, <1>3, StillPath
<1>7. Tiles'
  BY <1>0, FinishNoTile, NoTileTiles
<1>8. Verdict' /\ FalseAlarm'
  BY <1>0, FinishVerdict, FinishFalseAlarm DEF Tiles
<1> QED
  BY <1>1, <1>4, <1>5, <1>6, <1>7, <1>8 DEF IInv, Core, Tiles

(* ... and by no step at all. *)
LEMMA StutterIInv ==
  ASSUME IInv, UNCHANGED vars
  PROVE  IInv'
<1>0. /\ Core /\ OneSide /\ PartIsBrief /\ OnePath /\ Tiles /\ Verdict /\ FalseAlarm
  BY DEF IInv, Core, Tiles
<1>1. UNCHANGED <<bar, wbar, ops, slabs, seq, fail, pc, gen, verdict, overdue, early,
        partGaveUp, hist>>
  BY DEF vars, barriers, timing
<1>2. TypeOK'
  BY <1>0, <1>1 DEF Core, TypeOK
<1>3. Core'
  BY <1>0, <1>1, <1>2, StillCore
<1>4. OneSide' /\ OnePath'
  BY <1>0, <1>1, StillSide, StillPath
<1>5. PartIsBrief'
  BY <1>0, <1>1 DEF PartIsBrief
<1>6. NoTile
  BY <1>1 DEF NoTile
<1>7. Tiles'
  BY <1>0, <1>6, NoTileTiles
<1>8. Verdict' /\ FalseAlarm'
  BY <1>0, <1>1 DEF Verdict, FalseAlarm, Convergent, AllRight, SameTileCount
<1> QED
  BY <1>3, <1>4, <1>5, <1>7, <1>8 DEF IInv, Core, Tiles

------------------------------------------------------------------------------
(* The strengthened invariant of a block, for any threads, any warps, any
   calls they may make and any number of early timers. *)
THEOREM Invariance == Spec => []IInv
<1>1. IInv /\ [Next]_vars => IInv'
  BY StepIInv, StallIInv, FinishIInv, StutterIInv DEF Next
<1> QED
  BY <1>1, InitIInv, PTL DEF Spec

(* Every variable keeps its type: no counter of barrier or warpBarrier goes
   below zero. *)
THEOREM TypeCorrect == Spec => []TypeOK
<1>1. IInv => TypeOK
  BY DEF IInv
<1> QED
  BY <1>1, Invariance, PTL

(* The counters of the block's barrier and of every warp's are exact, and no
   generation is left assembled but unreleased (barrier, warpBarrier). *)
THEOREM BarriersAreExact == Spec => [](BarExact /\ WarpExact)
<1>1. IInv => BarExact /\ WarpExact
  BY DEF IInv
<1> QED
  BY <1>1, Invariance, PTL

(* Nobody waits out a whole timeout in part: only a timer that fires on a
   slow sibling makes warpState.part give up. *)
THEOREM PartGivesUpOnlyEarly == Spec => []PartOnlyGivesUpEarly
<1>1. IInv => PartOnlyGivesUpEarly
  BY DEF IInv, PartIsBrief, PartOnlyGivesUpEarly
<1> QED
  BY <1>1, Invariance, PTL

(* A block that runBlock returns from without a diagnosis, and in which no
   part gave up, ran a convergent kernel in which nothing went wrong. *)
THEOREM SilenceIsClean == Spec => []NoMissedAlarm
BY Missed, Invariance, PTL

(* A convergent kernel with nothing wrong in it is never diagnosed, as long
   as no timer fires on a thread that is merely slow. *)
THEOREM AlarmsAreTrue == Spec => []NoFalseAlarm
<1>1. IInv => NoFalseAlarm
  BY DEF IInv, FalseAlarm, NoFalseAlarm
<1> QED
  BY <1>1, Invariance, PTL
==============================================================================
