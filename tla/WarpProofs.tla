----------------------------- MODULE WarpProofs -----------------------------
(***************************************************************************)
(* For a warp of any lanes, any calls and any number of timeouts: the      *)
(* warp barrier's counters and mask are exact, the two rendezvous of a     *)
(* collective call stay apart, no slot changes under a reader, and silence *)
(* means that the lanes made their calls in lockstep.                      *)
(***************************************************************************)
EXTENDS Warp, FiniteSetTheorems, SequenceTheorems, TLAPS

(* The lanes whose arrival at the generation being assembled counts. *)
Waiting == InMeet \union InPart

(* Any set of lanes is finite, so the counters compare with cardinals. *)
LEMMA LaneSets ==
  ASSUME NEW S \in SUBSET Lane
  PROVE  IsFiniteSet(S) /\ Cardinality(S) \in Nat
BY LaneAssumption, FS_Subset, FS_CardinalityType

(* The sets behind the counters are sets of lanes, and a waiter is live. *)
LEMMA Shape == Live \in SUBSET Lane /\ Waiting \in SUBSET Live
BY DEF Live, Waiting, InMeet, InPart

(* The arrivals, the caller's counted, are everybody exactly when the
   counter says so (warpBarrier.wait). *)
LEMMA LastArrival ==
  ASSUME TypeOK, MaskExact, NEW l \in Live \ Waiting
  PROVE  /\ bar.count + 1 >= bar.n => Waiting \union {l} = Live
         /\ bar.count + 1 < bar.n => Waiting \union {l} # Live
         /\ Cardinality(Waiting \union {l}) = bar.count + 1
<1>1. /\ IsFiniteSet(Waiting) /\ IsFiniteSet(Live)
      /\ Waiting \union {l} \in SUBSET Live
  BY Shape, LaneSets
<1>0. bar.count = Cardinality(Waiting) /\ bar.n = Cardinality(Live)
  BY DEF MaskExact, Waiting
<1>2. Cardinality(Waiting \union {l}) = bar.count + 1
  BY <1>0, <1>1, FS_AddElement
<1>3. /\ Cardinality(Waiting \union {l}) <= bar.n
      /\ Cardinality(Waiting \union {l}) = bar.n => Waiting \union {l} = Live
  BY <1>0, <1>1, FS_Subset
<1>4. bar.n \in Nat /\ bar.count \in Nat
  BY DEF TypeOK
<1>5. Waiting \union {l} = Live => bar.count + 1 = bar.n
  BY <1>0, <1>2
<1> QED
  BY <1>2, <1>3, <1>4, <1>5

(* The same for a departure (warpBarrier.abandon). *)
LEMMA LastDeparture ==
  ASSUME TypeOK, MaskExact, NEW l \in Live \ Waiting
  PROVE  /\ bar.n - 1 \in Nat
         /\ Cardinality(Live \ {l}) = bar.n - 1
         /\ bar.count >= bar.n - 1 => Waiting = Live \ {l}
         /\ bar.count < bar.n - 1 => Waiting # Live \ {l}
         /\ bar.n - 1 = 0 => Live \ {l} = {}
         /\ Live \ {l} = {} => bar.n - 1 = 0
<1>1. /\ IsFiniteSet(Live) /\ IsFiniteSet(Live \ {l})
      /\ Waiting \in SUBSET (Live \ {l})
  BY Shape, LaneSets
<1>0. bar.count = Cardinality(Waiting) /\ bar.n = Cardinality(Live)
  BY DEF MaskExact, Waiting
<1>2. Cardinality(Live \ {l}) = bar.n - 1
  BY <1>0, <1>1, FS_RemoveElement
<1>3. /\ bar.count <= Cardinality(Live \ {l})
      /\ bar.count = Cardinality(Live \ {l}) => Waiting = Live \ {l}
  BY <1>0, <1>1, FS_Subset
<1>4. Waiting = Live \ {l} => bar.count = Cardinality(Live \ {l})
  BY <1>0
<1>5. Cardinality(Live \ {l}) \in Nat
  BY <1>1, FS_CardinalityType
<1>6. Cardinality(Live \ {l}) = 0 <=> Live \ {l} = {}
  BY <1>1, FS_EmptySet
<1>7. bar.n \in Nat /\ bar.count \in Nat
  BY DEF TypeOK
<1> QED
  BY <1>2, <1>3, <1>4, <1>5, <1>6, <1>7

(* The barrier's fields and their types. *)
LEMMA BarType ==
  ASSUME TypeOK
  PROVE  /\ bar = [n |-> bar.n, count |-> bar.count, mask |-> bar.mask,
                   cur |-> bar.cur, opened |-> bar.opened]
         /\ bar.n \in Nat /\ bar.count \in Nat /\ bar.mask \in SUBSET Lane
         /\ bar.cur \in Nat /\ bar.opened \in Seq(SUBSET Lane)
         /\ Len(bar.opened) = bar.cur
BY DEF TypeOK

(* What an arrival does that is not the last one, ... *)
LEMMA ArrivalJoins ==
  ASSUME TypeOK, MaskExact, NEW l \in Lane, Arrival(l), bar.count + 1 < bar.n
  PROVE  /\ bar' = [bar EXCEPT !.count = @ + 1, !.mask = @ \union {l}]
         /\ bar'.cur = bar.cur
         /\ l \in Live \ Waiting
         /\ Waiting \union {l} # Live
         /\ pc' = [pc EXCEPT ![l] = Sleeping[pc[l]]]
         /\ gen' = [gen EXCEPT ![l] = bar.cur]
         /\ UNCHANGED got
<1>1. bar.n \in Nat /\ bar.count \in Nat /\ bar.cur \in Nat
  BY BarType
<1>2. bar' = [bar EXCEPT !.count = @ + 1, !.mask = @ \union {l}]
  BY <1>1, BarType DEF Arrival, WarpArrive, Assembled, WarpReleaseLocked
<1>3. bar'.cur = bar.cur
  BY <1>2, BarType
<1>4. l \in Live \ Waiting
  BY DEF Arrival, Live, Waiting, InMeet, InPart
<1>5. Waiting \union {l} # Live
  BY <1>4, LastArrival
<1> QED
  BY <1>2, <1>3, <1>4, <1>5 DEF Arrival, Goto

(* ... what the last one does: the released mask is everybody still live,
   ... *)
LEMMA ArrivalOpens ==
  ASSUME TypeOK, MaskExact, NEW l \in Lane, Arrival(l), bar.count + 1 >= bar.n
  PROVE  /\ bar' = [n |-> bar.n, count |-> 0, mask |-> {}, cur |-> bar.cur + 1,
                    opened |-> Append(bar.opened, Live)]
         /\ l \in Live \ Waiting
         /\ Waiting \union {l} = Live
         /\ pc' = [pc EXCEPT ![l] = Passed[pc[l]]]
         /\ gen' = [gen EXCEPT ![l] = bar.cur]
         /\ got' = IF pc[l] = "meet" THEN [got EXCEPT ![l] = Live] ELSE got
<1>1. bar.n \in Nat /\ bar.count \in Nat /\ bar.cur \in Nat
  BY BarType
<1>4. l \in Live \ Waiting
  BY DEF Arrival, Live, Waiting, InMeet, InPart
<1>5. Waiting \union {l} = Live /\ bar.mask \union {l} = Live
  BY <1>4, LastArrival DEF MaskExact, Waiting
<1>2. bar' = [n |-> bar.n, count |-> 0, mask |-> {}, cur |-> bar.cur + 1,
              opened |-> Append(bar.opened, Live)]
  <2>1. bar' = WarpReleaseLocked([bar EXCEPT !.count = @ + 1, !.mask = @ \union {l}])
    BY <1>1, BarType DEF Arrival, WarpArrive, Assembled
  <2> QED
    BY <2>1, <1>5, BarType DEF WarpReleaseLocked
<1>3. bar'.cur # bar.cur
  BY <1>1, <1>2
<1>6. OpenedMask(bar', bar.cur) = Live
  <2>1. bar'.opened = Append(bar.opened, Live) /\ Live \in SUBSET Lane
    BY <1>2, Shape
  <2> QED
    BY <2>1, <1>1, BarType DEF OpenedMask
<1>7. pc' = [pc EXCEPT ![l] = Passed[pc[l]]] /\ gen' = [gen EXCEPT ![l] = bar.cur]
  BY <1>3 DEF Arrival, Goto
<1>8. got \in [Lane -> SUBSET Lane]
  BY DEF TypeOK
<1>9. got' = [got EXCEPT ![l] = IF pc[l] = "meet" THEN OpenedMask(bar', bar.cur) ELSE @]
  BY <1>3 DEF Arrival
<1>10. got' = IF pc[l] = "meet" THEN [got EXCEPT ![l] = Live] ELSE got
  BY <1>6, <1>8, <1>9
<1> QED
  BY <1>2, <1>4, <1>5, <1>7, <1>10

(* ... what a departure does that nobody waited for, ... *)
LEMMA LeaveStays ==
  ASSUME TypeOK, MaskExact, NEW l \in Lane, Leave(l),
         ~ (bar.n - 1 > 0 /\ bar.count >= bar.n - 1)
  PROVE  /\ bar' = [bar EXCEPT !.n = @ - 1]
         /\ bar'.cur = bar.cur
         /\ l \in Live \ Waiting
         /\ Live \ {l} # {} => Waiting # Live \ {l}
         /\ bar.n - 1 \in Nat /\ Cardinality(Live \ {l}) = bar.n - 1
<1>1. bar.n \in Nat /\ bar.count \in Nat /\ bar.cur \in Nat
  BY BarType
<1>2. bar' = [bar EXCEPT !.n = @ - 1]
  BY <1>1, BarType DEF Leave, WarpAbandon, Assembled, WarpReleaseLocked
<1>3. bar'.cur = bar.cur
  BY <1>2, BarType
<1>4. l \in Live \ Waiting
  BY DEF Leave, Live, Waiting, InMeet, InPart
<1>5. /\ bar.n - 1 \in Nat /\ Cardinality(Live \ {l}) = bar.n - 1
      /\ bar.count < bar.n - 1 => Waiting # Live \ {l}
      /\ bar.n - 1 = 0 => Live \ {l} = {}
  BY <1>4, LastDeparture
<1>6. Live \ {l} # {} => Waiting # Live \ {l}
  BY <1>1, <1>5
<1> QED
  BY <1>2, <1>3, <1>4, <1>5, <1>6

(* ... and one the others were waiting for. *)
LEMMA LeaveOpens ==
  ASSUME TypeOK, MaskExact, NEW l \in Lane, Leave(l),
         bar.n - 1 > 0, bar.count >= bar.n - 1
  PROVE  /\ bar' = [n |-> bar.n - 1, count |-> 0, mask |-> {}, cur |-> bar.cur + 1,
                    opened |-> Append(bar.opened, Live \ {l})]
         /\ l \in Live \ Waiting
         /\ Waiting = Live \ {l}
         /\ Live \ {l} # {}
         /\ bar.n - 1 \in Nat /\ Cardinality(Live \ {l}) = bar.n - 1
<1>1. bar.n \in Nat /\ bar.count \in Nat /\ bar.cur \in Nat
  BY BarType
<1>4. l \in Live \ Waiting
  BY DEF Leave, Live, Waiting, InMeet, InPart
<1>5. Waiting = Live \ {l} /\ bar.mask = Live \ {l} /\ Live \ {l} # {}
  <2>1. /\ bar.count >= bar.n - 1 => Waiting = Live \ {l}
        /\ Live \ {l} = {} => bar.n - 1 = 0
    BY <1>4, LastDeparture
  <2> QED
    BY <1>1, <2>1 DEF MaskExact, Waiting
<1>2. bar' = [n |-> bar.n - 1, count |-> 0, mask |-> {}, cur |-> bar.cur + 1,
              opened |-> Append(bar.opened, Live \ {l})]
  <2>1. bar' = WarpReleaseLocked([bar EXCEPT !.n = @ - 1])
    BY <1>1, BarType DEF Leave, WarpAbandon, Assembled
  <2> QED
    BY <2>1, <1>5, BarType DEF WarpReleaseLocked
<1> QED
  BY <1>1, <1>2, <1>4, <1>5, LastDeparture

-----------------------------------------------------------------------------
(* An arrival that is not the last one moves no lane to the other side of
   the exchange. *)
LEMMA JoinsSets ==
  ASSUME TypeOK, MaskExact, GenBound, NEW l \in Lane, Arrival(l), bar.count + 1 < bar.n
  PROVE  /\ Live' = Live
         /\ InMeet' = IF pc[l] = "meet" THEN InMeet \union {l} ELSE InMeet
         /\ InPart' = IF pc[l] = "part" THEN InPart \union {l} ELSE InPart
         /\ \A k \in Lane : Before(k)' <=> Before(k)
         /\ \A k \in Lane : Asking(k)' <=> Asking(k)
<1>1. /\ bar'.cur = bar.cur
      /\ pc' = [pc EXCEPT ![l] = Sleeping[pc[l]]]
      /\ gen' = [gen EXCEPT ![l] = bar.cur]
  BY ArrivalJoins
<1>2. pc \in [Lane -> Locations] /\ gen \in [Lane -> Nat] /\ pc[l] \in {"meet", "part"}
  BY DEF TypeOK, Arrival
<1>3. \A k \in Lane \ {l} : pc'[k] = pc[k] /\ gen'[k] = gen[k]
  BY <1>1, <1>2
<1>4. gen'[l] = bar.cur /\ pc'[l] = IF pc[l] = "meet" THEN "meetWait" ELSE "partWait"
  BY <1>1, <1>2 DEF Sleeping
<1>5. Live' = Live
  BY <1>2, <1>3, <1>4 DEF Live
<1>6. /\ InMeet' = IF pc[l] = "meet" THEN InMeet \union {l} ELSE InMeet
      /\ InPart' = IF pc[l] = "part" THEN InPart \union {l} ELSE InPart
  BY <1>1, <1>2, <1>3, <1>4 DEF InMeet, InPart
<1>7. \A k \in Lane : (Before(k)' <=> Before(k)) /\ (Asking(k)' <=> Asking(k))
  BY <1>1, <1>2, <1>3, <1>4 DEF Before, Asking
<1> QED
  BY <1>5, <1>6, <1>7

(* After a release nobody waits for the generation being assembled. *)
LEMMA OpensSets ==
  ASSUME TypeOK, MaskExact, GenBound, NEW l \in Lane, Arrival(l), bar.count + 1 >= bar.n
  PROVE  /\ Live' = Live
         /\ InMeet' = {} /\ InPart' = {}
         /\ pc[l] = "meet" => pc'[l] = "check"
         /\ pc[l] = "part" => pc'[l] = "kernel"
         /\ \A k \in Lane \ {l} : pc'[k] = pc[k] /\ gen'[k] = gen[k] /\
              gen[k] # bar'.cur
         /\ gen'[l] = bar.cur
         /\ bar'.cur = bar.cur + 1
<1>1. /\ bar'.cur = bar.cur + 1
      /\ pc' = [pc EXCEPT ![l] = Passed[pc[l]]]
      /\ gen' = [gen EXCEPT ![l] = bar.cur]
  BY ArrivalOpens
<1>2. pc \in [Lane -> Locations] /\ gen \in [Lane -> Nat] /\ pc[l] \in {"meet", "part"}
  BY DEF TypeOK, Arrival
<1>3. \A k \in Lane \ {l} : pc'[k] = pc[k] /\ gen'[k] = gen[k]
  BY <1>1, <1>2
<1>4. gen'[l] = bar.cur /\ pc'[l] = IF pc[l] = "meet" THEN "check" ELSE "kernel"
  BY <1>1, <1>2 DEF Passed
<1>5. Live' = Live
  BY <1>2, <1>3, <1>4 DEF Live
<1>6. \A k \in Lane : gen'[k] # bar'.cur /\ gen[k] # bar'.cur
  <2>1. bar.cur \in Nat
    BY BarType
  <2>2. \A k \in Lane : gen[k] <= bar.cur /\ gen[k] \in Nat
    BY <1>2 DEF GenBound
  <2> QED
    BY <2>1, <2>2, <1>1, <1>3, <1>4
<1>7. InMeet' = {} /\ InPart' = {}
  BY <1>6 DEF InMeet, InPart
<1> QED
  BY <1>1, <1>3, <1>4, <1>5, <1>6, <1>7

(* Types, exact counters and the bound on generations, action by action. *)
LEMMA ArrivalCore ==
  ASSUME TypeOK, MaskExact, GenBound, NEW l \in Lane, Arrival(l)
  PROVE  TypeOK' /\ MaskExact' /\ GenBound'
<1>1. bar.n \in Nat /\ bar.count \in Nat /\ bar.cur \in Nat /\ bar.mask \in SUBSET Lane
      /\ bar.opened \in Seq(SUBSET Lane) /\ Len(bar.opened) = bar.cur
  BY BarType
<1>2. pc \in [Lane -> Locations] /\ gen \in [Lane -> Nat] /\
        got \in [Lane -> SUBSET Lane]
      /\ pc[l] \in {"meet", "part"}
  BY DEF TypeOK, Arrival
<1>3. UNCHANGED <<vals, ops, fail, timers, partGaveUp, hist>>
  BY DEF Arrival
<1>4. Live \in SUBSET Lane
  BY Shape
<1>5. CASE bar.count + 1 < bar.n
  <2>1. /\ bar' = [bar EXCEPT !.count = @ + 1, !.mask = @ \union {l}]
        /\ l \in Live \ Waiting
        /\ Waiting \union {l} # Live
        /\ pc' = [pc EXCEPT ![l] = Sleeping[pc[l]]]
        /\ gen' = [gen EXCEPT ![l] = bar.cur]
        /\ got' = got
    BY <1>5, ArrivalJoins
  <2>2. /\ bar' \in [n : Nat, count : Nat, mask : SUBSET Lane, cur : Nat, opened :
             Seq(SUBSET Lane)]
        /\ bar'.n = bar.n /\ bar'.count = bar.count + 1 /\
             bar'.mask = bar.mask \union {l}
        /\ bar'.cur = bar.cur /\ bar'.opened = bar.opened
    <3>1. bar' = [n |-> bar.n, count |-> bar.count + 1, mask |-> bar.mask \union {l},
                  cur |-> bar.cur, opened |-> bar.opened]
      BY <2>1, BarType
    <3>2. bar.mask \union {l} \in SUBSET Lane /\ bar.count + 1 \in Nat
      BY <1>1
    <3> QED
      BY <1>1, <3>1, <3>2
  <2>3. /\ Live' = Live
        /\ InMeet' = IF pc[l] = "meet" THEN InMeet \union {l} ELSE InMeet
        /\ InPart' = IF pc[l] = "part" THEN InPart \union {l} ELSE InPart
    BY <1>5, JoinsSets
  <2>4. pc' \in [Lane -> Locations] /\ gen' \in [Lane -> Nat]
    BY <1>1, <1>2, <2>1 DEF Sleeping, Locations
  <2>5. TypeOK'
    BY <1>1, <1>3, <2>1, <2>2, <2>4, Zenon DEF TypeOK
  <2>6. Waiting' = Waiting \union {l}
    BY <1>2, <2>3 DEF Waiting
  <2>7. bar'.mask = Waiting'
    BY <2>2, <2>6 DEF MaskExact, Waiting
  <2>8. bar'.count = Cardinality(Waiting') /\ Waiting' # Live'
    BY <1>5, <2>1, <2>2, <2>3, <2>6, LastArrival
  <2>9. MaskExact'
    BY <2>2, <2>3, <2>7, <2>8 DEF MaskExact, Waiting
  <2>10. GenBound'
    BY <1>1, <1>2, <2>1, <2>2 DEF GenBound
  <2> QED
    BY <2>5, <2>9, <2>10
<1>6. CASE bar.count + 1 >= bar.n
  <2>1. /\ bar' = [n |-> bar.n, count |-> 0, mask |-> {}, cur |-> bar.cur + 1,
                    opened |-> Append(bar.opened, Live)]
        /\ pc' = [pc EXCEPT ![l] = Passed[pc[l]]]
        /\ gen' = [gen EXCEPT ![l] = bar.cur]
        /\ got' = IF pc[l] = "meet" THEN [got EXCEPT ![l] = Live] ELSE got
    BY <1>6, ArrivalOpens
  <2>0. /\ Append(bar.opened, Live) \in Seq(SUBSET Lane)
        /\ Len(Append(bar.opened, Live)) = bar.cur + 1
    BY <1>1, <1>4
  <2>2. /\ bar' \in [n : Nat, count : Nat, mask : SUBSET Lane, cur : Nat, opened :
             Seq(SUBSET Lane)]
        /\ Len(bar'.opened) = bar'.cur
        /\ bar'.n = bar.n /\ bar'.count = 0 /\ bar'.mask = {} /\ bar'.cur = bar.cur + 1
    BY <1>1, <2>1, <2>0
  <2>3. Live' = Live /\ InMeet' = {} /\ InPart' = {}
    BY <1>6, OpensSets
  <2>4. pc' \in [Lane -> Locations] /\ gen' \in [Lane -> Nat]
    BY <1>1, <1>2, <2>1 DEF Passed, Locations
  <2>5. got' \in [Lane -> SUBSET Lane]
    BY <1>2, <1>4, <2>1
  <2>6. TypeOK'
    BY <1>3, <2>2, <2>4, <2>5, Zenon DEF TypeOK
  <2>7. MaskExact'
    BY <2>2, <2>3, FS_EmptySet DEF MaskExact
  <2>8. GenBound'
    BY <1>1, <1>2, <2>1, <2>2 DEF GenBound
  <2> QED
    BY <2>6, <2>7, <2>8
<1> QED
  BY <1>1, <1>5, <1>6

(* A departure keeps the counters exact. *)
LEMMA LeaveCore ==
  ASSUME TypeOK, MaskExact, GenBound, NEW l \in Lane, Leave(l)
  PROVE  TypeOK' /\ MaskExact' /\ GenBound'
<1>1. bar.n \in Nat /\ bar.count \in Nat /\ bar.cur \in Nat /\ bar.mask \in SUBSET Lane
      /\ bar.opened \in Seq(SUBSET Lane) /\ Len(bar.opened) = bar.cur
  BY BarType
<1>2. pc \in [Lane -> Locations] /\ gen \in [Lane -> Nat] /\ pc[l] = "kernel"
      /\ pc' = [pc EXCEPT ![l] = "left"]
  BY DEF TypeOK, Leave, Goto
<1>3. UNCHANGED <<vals, ops, fail, gen, got, timers, partGaveUp, hist>>
  BY DEF Leave
<1>4. pc' \in [Lane -> Locations]
  BY <1>2 DEF Locations
<1>5. Live' = Live \ {l}
  BY <1>2 DEF Live
<1>6. Live \ {l} \in SUBSET Lane
  BY Shape
<1>7. CASE ~ (bar.n - 1 > 0 /\ bar.count >= bar.n - 1)
  <2>1. /\ bar' = [bar EXCEPT !.n = @ - 1]
        /\ l \in Live \ Waiting
        /\ Live \ {l} # {} => Waiting # Live \ {l}
        /\ bar.n - 1 \in Nat /\ Cardinality(Live \ {l}) = bar.n - 1
    BY <1>7, LeaveStays
  <2>2. /\ bar' \in [n : Nat, count : Nat, mask : SUBSET Lane, cur : Nat, opened :
             Seq(SUBSET Lane)]
        /\ bar'.n = bar.n - 1 /\ bar'.count = bar.count /\ bar'.mask = bar.mask
        /\ bar'.cur = bar.cur /\ bar'.opened = bar.opened
    BY <1>1, <2>1, BarType
  <2>3. InMeet' = InMeet /\ InPart' = InPart
    BY <1>2, <1>3, <2>2 DEF InMeet, InPart
  <2>4. TypeOK'
    BY <1>1, <1>3, <1>4, <2>2, Zenon DEF TypeOK
  <2>5. Waiting \in SUBSET (Live \ {l})
    BY <2>1, Shape
  <2>6. bar.mask # {} => bar.mask # Live \ {l}
    BY <2>1, <2>5 DEF MaskExact, Waiting
  <2>7. MaskExact'
    BY <1>5, <2>1, <2>2, <2>3, <2>6 DEF MaskExact
  <2>8. GenBound'
    BY <1>3, <2>2 DEF GenBound
  <2> QED
    BY <2>4, <2>7, <2>8
<1>8. CASE bar.n - 1 > 0 /\ bar.count >= bar.n - 1
  <2>1. /\ bar' = [n |-> bar.n - 1, count |-> 0, mask |-> {}, cur |-> bar.cur + 1,
                    opened |-> Append(bar.opened, Live \ {l})]
        /\ bar.n - 1 \in Nat /\ Cardinality(Live \ {l}) = bar.n - 1
    BY <1>8, LeaveOpens
  <2>0. /\ Append(bar.opened, Live \ {l}) \in Seq(SUBSET Lane)
        /\ Len(Append(bar.opened, Live \ {l})) = bar.cur + 1
    BY <1>1, <1>6
  <2>2. /\ bar' \in [n : Nat, count : Nat, mask : SUBSET Lane, cur : Nat, opened :
             Seq(SUBSET Lane)]
        /\ Len(bar'.opened) = bar'.cur
        /\ bar'.n = bar.n - 1 /\ bar'.count = 0 /\ bar'.mask = {} /\
             bar'.cur = bar.cur + 1
    BY <1>1, <2>1, <2>0
  <2>3. \A k \in Lane : gen'[k] # bar'.cur /\ gen'[k] <= bar'.cur
    BY <1>1, <1>2, <1>3, <2>2 DEF GenBound
  <2>4. InMeet' = {} /\ InPart' = {}
    BY <2>3 DEF InMeet, InPart
  <2>5. TypeOK'
    BY <1>3, <1>4, <2>2, Zenon DEF TypeOK
  <2>6. MaskExact'
    BY <1>5, <2>1, <2>2, <2>4, FS_EmptySet DEF MaskExact
  <2> QED
    BY <2>3, <2>5, <2>6 DEF GenBound
<1> QED
  BY <1>7, <1>8

(* Publishing leaves the barrier alone. *)
LEMMA PublishCore ==
  ASSUME TypeOK, MaskExact, GenBound, NEW l \in Lane, Publish(l)
  PROVE  TypeOK' /\ MaskExact' /\ GenBound'
<1>1. pc \in [Lane -> Locations] /\ pc[l] = "kernel" /\ pc' = [pc EXCEPT ![l] = "meet"]
  BY DEF TypeOK, Publish, Goto
<1>2. UNCHANGED <<bar, fail, gen, got, timers, partGaveUp>>
  BY DEF Publish
<1>3. PICK c \in Calls :
        /\ vals' = IF c.op = "SyncWarp" THEN vals ELSE [vals EXCEPT ![l] = c.val]
        /\ ops' = [ops EXCEPT ![l] = c.op]
        /\ hist' = [hist EXCEPT ![l] = Append(@, [call |-> c, done |-> FALSE,
                                                  mask |-> {}, res |-> {}])]
  BY DEF Publish
<1>4. vals \in [Lane -> Values] /\
        ops \in [Lane -> {NoOp, "Shuffle", "Vote", "SyncWarp"}]
      /\ hist \in [Lane -> Seq(Entries)] /\ (\A k \in Lane : Len(hist[k]) <= MaxCalls)
      /\ Len(hist[l]) < MaxCalls
  BY DEF TypeOK, Publish
<1>5. pc' \in [Lane -> Locations]
  BY <1>1 DEF Locations
<1>6. vals' \in [Lane -> Values]
  BY <1>3, <1>4 DEF Values
<1>7. ops' \in [Lane -> {NoOp, "Shuffle", "Vote", "SyncWarp"}]
  BY <1>3, <1>4, CallsAssumption
<1>8. [call |-> c, done |-> FALSE, mask |-> {}, res |-> {}] \in Entries
  BY DEF Entries
<1>9. hist' \in [Lane -> Seq(Entries)] /\ \A k \in Lane : Len(hist'[k]) <= MaxCalls
  <2> DEFINE e == [call |-> c, done |-> FALSE, mask |-> {}, res |-> {}]
  <2>1. e \in Entries /\ hist' = [hist EXCEPT ![l] = Append(@, e)]
    BY <1>3, <1>8
  <2> HIDE DEF e
  <2>2. hist[l] \in Seq(Entries)
    BY <1>4
  <2>3. Append(hist[l], e) \in Seq(Entries) /\
          Len(Append(hist[l], e)) = Len(hist[l]) + 1
    BY <2>1, <2>2
  <2>4. Len(hist[l]) + 1 <= MaxCalls
    BY <2>2, <1>4, BoundsAssumption, LenProperties
  <2> QED
    BY <2>1, <2>3, <2>4, <1>4
<1>10. TypeOK'
  BY <1>2, <1>5, <1>6, <1>7, <1>9, Zenon DEF TypeOK
<1>11. Live' = Live /\ InMeet' = InMeet /\ InPart' = InPart
  BY <1>1, <1>2 DEF Live, InMeet, InPart
<1> QED
  BY <1>2, <1>10, <1>11 DEF MaskExact, GenBound

(* A released lane finds the mask its generation was published with. *)
LEMMA ReleasedCore ==
  ASSUME TypeOK, MaskExact, GenBound, NEW l \in Lane, Wake(l) \/ ExpireReleased(l)
  PROVE  TypeOK' /\ MaskExact' /\ GenBound'
<1>1. /\ pc \in [Lane -> Locations]
      /\ pc[l] \in {"meetWait", "partWait", "meetExpired", "partExpired"}
      /\ pc' = [pc EXCEPT ![l] = Passed[pc[l]]]
      /\ gen[l] # bar.cur
      /\ UNCHANGED <<bar, vals, ops, fail, gen, timers, partGaveUp, hist>>
      /\ got' = [got EXCEPT ![l] = IF pc[l] \in {"meetWait", "meetExpired"}
                               THEN OpenedMask(bar, gen[l]) ELSE @]
      /\ got \in [Lane -> SUBSET Lane] /\ gen \in [Lane -> Nat]
  BY DEF TypeOK, Wake, ExpireReleased, Released, Goto, shared
<1>2. pc' \in [Lane -> Locations]
  BY <1>1 DEF Locations, Passed
<1>3. OpenedMask(bar, gen[l]) \in SUBSET Lane
  <2>1. /\ bar.opened \in Seq(SUBSET Lane) /\ Len(bar.opened) = bar.cur /\
             bar.cur \in Nat
        /\ gen[l] \in Nat /\ gen[l] <= bar.cur
    BY <1>1, BarType DEF GenBound
  <2>2. gen[l] + 1 \in 1..Len(bar.opened)
    BY <1>1, <2>1
  <2> QED
    BY <2>1, <2>2, ElementOfSeq DEF OpenedMask
<1>4. got' \in [Lane -> SUBSET Lane]
  BY <1>1, <1>3
<1>5. TypeOK'
  BY <1>1, <1>2, <1>4, Zenon DEF TypeOK
<1>6. Live' = Live /\ InMeet' = InMeet /\ InPart' = InPart
  BY <1>1 DEF Live, InMeet, InPart, Passed
<1> QED
  BY <1>1, <1>5, <1>6 DEF MaskExact, GenBound

(* A timer changes no counter: its lane still counts as arrived. *)
LEMMA TimerFiresCore ==
  ASSUME TypeOK, MaskExact, GenBound, NEW l \in Lane, TimerFires(l)
  PROVE  TypeOK' /\ MaskExact' /\ GenBound'
<1>1. /\ pc \in [Lane -> Locations]
      /\ pc[l] \in {"meetWait", "partWait"}
      /\ pc' =
           [pc EXCEPT ![l] = IF pc[l] = "meetWait" THEN "meetExpired"
             ELSE "partExpired"]
      /\ UNCHANGED <<bar, vals, ops, fail, gen, got, partGaveUp, hist>>
      /\ timers' = timers + 1 /\ timers < MaxTimers /\ timers \in 0..MaxTimers
  BY DEF TypeOK, TimerFires, Goto, shared
<1>2. pc' \in [Lane -> Locations] /\ timers' \in 0..MaxTimers
  BY <1>1, BoundsAssumption DEF Locations
<1>5. TypeOK'
  BY <1>1, <1>2, Zenon DEF TypeOK
<1>6. Live' = Live /\ InMeet' = InMeet /\ InPart' = InPart
  BY <1>1 DEF Live, InMeet, InPart
<1> QED
  BY <1>1, <1>5, <1>6 DEF MaskExact, GenBound

(* The check and the read leave the barrier alone; the read closes the *)
(* entry its call has opened.                                           *)
LEMMA CheckReadType ==
  ASSUME TypeOK, OwnSlots, NEW l \in Lane, Check(l) \/ Read(l)
  PROVE  TypeOK'
<1>1. /\ pc \in [Lane -> Locations]
      /\ pc[l] \in {"check", "read"}
      /\ pc' = [pc EXCEPT ![l] = IF pc[l] = "check" THEN "read" ELSE "part"]
      /\ UNCHANGED <<bar, vals, ops, gen, got, timers, partGaveUp>>
  BY DEF TypeOK, Check, Read, Goto, shared
<1>2. pc' \in [Lane -> Locations]
  BY <1>1 DEF Locations
<1>3. fail' \in {"none", "stall", "mismatch"}
  BY DEF TypeOK, Check, Read, Report, shared
<1>4. /\ hist' \in [Lane -> Seq(Entries)]
      /\ \A k \in Lane : Len(hist'[k]) <= MaxCalls
  <2>0. hist \in [Lane -> Seq(Entries)] /\ \A k \in Lane : Len(hist[k]) <= MaxCalls
    BY DEF TypeOK
  <2>1. CASE Check(l)
    BY <2>0, <2>1 DEF Check
  <2>2. CASE Read(l)
    <3> DEFINE i == Len(hist[l])
               call == hist[l][i].call
               e == [call |-> call, done |-> TRUE, mask |-> got[l],
                     res |-> Answer(call, got[l], vals)]
    <3>1. hist[l] \in Seq(Entries) /\ hist[l] # <<>> /\ i \in 1..Len(hist[l])
      <4>1. hist[l] \in Seq(Entries) /\ hist[l] # <<>>
        BY <2>0, <2>2 DEF OwnSlots, Read, Asking
      <4> QED
        BY <4>1, EmptySeq, LenProperties
    <3>2. call \in Calls
      <4>1. hist[l][i] \in Entries
        BY <3>1, ElementOfSeq
      <4> QED
        BY <4>1 DEF Entries
    <3>3. got[l] \in SUBSET Lane /\ vals \in [Lane -> Values]
      BY DEF TypeOK
    <3>4. Answer(call, got[l], vals) \in SUBSET (Lane \union Values)
      <4> HIDE DEF call
      <4>1. call.val \in Values
        BY <3>2 DEF Values
      <4> QED
        BY <3>3, <4>1 DEF Answer
    <3>5. e \in Entries
      <4> HIDE DEF call
      <4> QED
        BY <3>2, <3>3, <3>4 DEF Entries
    <3>6. hist' = [hist EXCEPT ![l][i] = e]
      BY <2>2 DEF Read
    <3> HIDE DEF e
    <3>7. [hist[l] EXCEPT ![i] = e] \in Seq(Entries) /\
            Len([hist[l] EXCEPT ![i] = e]) = Len(hist[l])
      BY <3>1, <3>5, ExceptSeq
    <3> HIDE DEF i
    <3>8. hist' = [hist EXCEPT ![l] = [hist[l] EXCEPT ![i] = e]]
      BY <3>6, <2>0
    <3> QED
      BY <3>7, <3>8, <2>0
  <2> QED
    BY <2>1, <2>2
<1> QED
  BY <1>1, <1>2, <1>3, <1>4, Zenon DEF TypeOK

(* So the counters stay exact. *)
LEMMA CheckReadCore ==
  ASSUME TypeOK, MaskExact, GenBound, OwnSlots, NEW l \in Lane, Check(l) \/ Read(l)
  PROVE  TypeOK' /\ MaskExact' /\ GenBound'
<1>1. /\ pc \in [Lane -> Locations]
      /\ pc[l] \in {"check", "read"}
      /\ pc' = [pc EXCEPT ![l] = IF pc[l] = "check" THEN "read" ELSE "part"]
      /\ UNCHANGED <<bar, gen>>
  BY DEF TypeOK, Check, Read, Goto, shared
<1>2. Live' = Live /\ InMeet' = InMeet /\ InPart' = InPart
  BY <1>1 DEF Live, InMeet, InPart
<1> QED
  BY <1>1, <1>2, CheckReadType DEF MaskExact, GenBound

(* A lane that gives up takes back an arrival that was counted. *)
LEMMA GivesUpCore ==
  ASSUME TypeOK, MaskExact, GenBound, NEW l \in Lane, MeetGivesUp(l) \/ PartGivesUp(l)
  PROVE  TypeOK' /\ MaskExact' /\ GenBound'
<1>1. /\ pc \in [Lane -> Locations]
      /\ pc[l] \in {"meetExpired", "partExpired"} /\ gen[l] = bar.cur
      /\ pc' = [pc EXCEPT ![l] = "kernel"]
      /\ bar' = [bar EXCEPT !.count = @ - 1, !.mask = @ \ {l}]
      /\ UNCHANGED <<vals, ops, gen, got, timers, hist>>
  BY DEF TypeOK, MeetGivesUp, PartGivesUp, Goto, WarpTakeBack
<1>2. pc' \in [Lane -> Locations]
  BY <1>1 DEF Locations
<1>3. fail' \in {"none", "stall", "mismatch"} /\ partGaveUp' \in BOOLEAN
  BY DEF TypeOK, MeetGivesUp, PartGivesUp, Report
<1>4. l \in Waiting /\ IsFiniteSet(Waiting)
  BY <1>1, Shape, LaneSets DEF Waiting, InMeet, InPart
<1>5. /\ Cardinality(Waiting \ {l}) = bar.count - 1
      /\ bar.count - 1 \in Nat
  <2>1. /\ IsFiniteSet(Waiting \ {l})
        /\ Cardinality(Waiting \ {l}) = Cardinality(Waiting) - 1
    BY <1>4, FS_RemoveElement
  <2>2. Cardinality(Waiting \ {l}) \in Nat
    BY <2>1, FS_CardinalityType
  <2> QED
    BY <2>1, <2>2 DEF MaskExact, Waiting
<1>6. bar' = [n |-> bar.n, count |-> bar.count - 1, mask |-> bar.mask \ {l},
              cur |-> bar.cur, opened |-> bar.opened]
  BY <1>1, BarType
<1>7. bar' \in [n : Nat, count : Nat, mask : SUBSET Lane, cur : Nat, opened :
        Seq(SUBSET Lane)]
      /\ Len(bar'.opened) = bar'.cur
  <2>1. bar.mask \ {l} \in SUBSET Lane
    BY BarType
  <2> QED
    BY <1>5, <1>6, <2>1, BarType
<1>8. TypeOK'
  BY <1>1, <1>2, <1>3, <1>7, Zenon DEF TypeOK
<1>9. Live' = Live /\ InMeet' = InMeet \ {l} /\ InPart' = InPart \ {l}
  <2>1. bar'.cur = bar.cur
    BY <1>6
  <2> QED
    BY <1>1, <2>1 DEF Live, InMeet, InPart
<1>10. MaskExact'
  <2>1. bar'.mask = InMeet' \union InPart' /\ bar'.mask = Waiting \ {l}
    BY <1>6, <1>9 DEF MaskExact, Waiting
  <2>2. bar'.count = Cardinality(bar'.mask) /\ bar'.n = Cardinality(Live')
    BY <1>5, <1>6, <1>9, <2>1 DEF MaskExact
  <2>3. bar'.mask # Live'
    BY <1>4, <1>9, <2>1, Shape
  <2> QED
    BY <2>1, <2>2, <2>3 DEF MaskExact
<1> QED
  BY <1>1, <1>6, <1>8, <1>10 DEF GenBound

-----------------------------------------------------------------------------
(* What publishing adds to the histories and the slots ... *)
LEMMA PublishHist ==
  ASSUME TypeOK, NEW l \in Lane, Publish(l)
  PROVE  /\ \A k \in Lane \ {l} : hist'[k] = hist[k] /\ ops'[k] = ops[k] /\
              vals'[k] = vals[k]
         /\ Len(hist[l]) \in Nat
         /\ Len(hist'[l]) = Len(hist[l]) + 1
         /\ hist'[l] # <<>>
         /\ \A i \in 1..Len(hist[l]) : hist'[l][i] = hist[l][i]
         /\ Asked(l)'.done = FALSE
         /\ ops'[l] = Asked(l)'.call.op
         /\ Asked(l)'.call.op # "SyncWarp" => vals'[l] = Asked(l)'.call.val
<1>3. PICK c \in Calls :
        /\ vals' = IF c.op = "SyncWarp" THEN vals ELSE [vals EXCEPT ![l] = c.val]
        /\ ops' = [ops EXCEPT ![l] = c.op]
        /\ hist' = [hist EXCEPT ![l] = Append(@, [call |-> c, done |-> FALSE,
                                                  mask |-> {}, res |-> {}])]
  BY DEF Publish
<1> DEFINE e == [call |-> c, done |-> FALSE, mask |-> {}, res |-> {}]
<1>4. vals \in [Lane -> Values] /\
        ops \in [Lane -> {NoOp, "Shuffle", "Vote", "SyncWarp"}]
      /\ hist \in [Lane -> Seq(Entries)]
  BY DEF TypeOK
<1>5. e \in Entries /\ e.done = FALSE /\ e.call = c /\
        hist' = [hist EXCEPT ![l] = Append(@, e)]
  BY <1>3 DEF Entries
<1> HIDE DEF e
<1>6. hist'[l] = Append(hist[l], e) /\ hist[l] \in Seq(Entries)
  BY <1>4, <1>5
<1>7. /\ Len(hist'[l]) = Len(hist[l]) + 1 /\ Len(hist[l]) \in Nat
      /\ hist'[l] # <<>>
      /\ \A i \in 1..Len(hist[l]) : hist'[l][i] = hist[l][i]
      /\ hist'[l][Len(hist'[l])] = e
  BY <1>5, <1>6, AppendProperties, LenProperties
<1>8. Asked(l)' = e
  BY <1>7 DEF Asked
<1>9. ops'[l] = c.op /\ (c.op # "SyncWarp" => vals'[l] = c.val)
  BY <1>3, <1>4
<1>10. \A k \in Lane \ {l} : hist'[k] = hist[k] /\ ops'[k] = ops[k] /\
         vals'[k] = vals[k]
  BY <1>3, <1>4, <1>5
<1> QED
  BY <1>5, <1>7, <1>8, <1>9, <1>10

(* ... and what reading writes into the open entry. *)
LEMMA ReadHist ==
  ASSUME TypeOK, OwnSlots, NEW l \in Lane, Read(l)
  PROVE  /\ \A k \in Lane \ {l} : hist'[k] = hist[k]
         /\ Len(hist[l]) \in Nat \ {0}
         /\ Len(hist'[l]) = Len(hist[l])
         /\ hist'[l] # <<>>
         /\ \A i \in 1..Len(hist[l]) : i # Len(hist[l]) => hist'[l][i] = hist[l][i]
         /\ Asked(l)' = [call |-> Asked(l).call, done |-> TRUE, mask |-> got[l],
                         res |-> Answer(Asked(l).call, got[l], vals)]
<1> DEFINE i == Len(hist[l])
           call == hist[l][i].call
           e == [call |-> call, done |-> TRUE, mask |-> got[l],
                 res |-> Answer(call, got[l], vals)]
<1>0. hist \in [Lane -> Seq(Entries)]
  BY DEF TypeOK
<1>1. hist[l] \in Seq(Entries) /\ hist[l] # <<>> /\ i \in 1..Len(hist[l]) /\
        i \in Nat \ {0}
      /\ DOMAIN hist[l] = 1..Len(hist[l])
  <4>1. hist[l] \in Seq(Entries) /\ hist[l] # <<>>
    BY <1>0 DEF OwnSlots, Read, Asking
  <4> QED
    BY <4>1, EmptySeq, LenProperties
<1>2. hist' = [hist EXCEPT ![l][i] = e]
  BY DEF Read
<1>3. Asked(l).call = call
  BY DEF Asked
<1> HIDE DEF e, i
<1>4. hist'[l] = [hist[l] EXCEPT ![i] = e] /\ \A k \in Lane \ {l} : hist'[k] = hist[k]
  BY <1>2, <1>0
<1>5. /\ hist'[l][i] = e
      /\ \A j \in 1..Len(hist[l]) : j # i => hist'[l][j] = hist[l][j]
      /\ DOMAIN hist'[l] = 1..Len(hist[l])
  BY <1>1, <1>4
<1>6. hist'[l] \in Seq(Entries)
  <2>1. TypeOK'
    BY CheckReadType
  <2> QED
    BY <2>1 DEF TypeOK
<1>7. Len(hist'[l]) = Len(hist[l])
  BY <1>5, <1>6, <1>1, LenProperties
<1>8. hist'[l] # <<>>
  BY <1>7, <1>1, EmptySeq
<1>9. Asked(l)' = e
  BY <1>5, <1>7 DEF Asked, i
<1> QED
  BY <1>1, <1>3, <1>4, <1>5, <1>7, <1>8, <1>9 DEF e, i

(* A step that writes no slot and starts no call keeps every slot its
   lane's. *)
LEMMA SlotsStayOwn ==
  ASSUME OwnSlots, UNCHANGED <<vals, ops, hist>>,
         \A k \in Lane : Asking(k)' => Asking(k)
  PROVE  OwnSlots'
BY DEF OwnSlots, Asked

(* A published call is in its lane's slots, ... *)
LEMMA PublishOwns ==
  ASSUME TypeOK, OwnSlots, NEW l \in Lane, Publish(l)
  PROVE  OwnSlots'
<1>1. /\ pc \in [Lane -> Locations] /\ pc' = [pc EXCEPT ![l] = "meet"]
  BY DEF TypeOK, Publish, Goto
<1>2. \A k \in Lane \ {l} : (Asking(k)' => Asking(k)) /\ Asked(k)' = Asked(k)
  BY <1>1, PublishHist DEF Asking, Asked
<1>3. ASSUME NEW k \in Lane
      PROVE  /\ Asking(k)' => hist'[k] # <<>> /\ ~ Asked(k)'.done
             /\ hist'[k] # <<>> =>
                 /\ ops'[k] = Asked(k)'.call.op
                 /\ Asked(k)'.call.op # "SyncWarp" => vals'[k] = Asked(k)'.call.val
  <2>1. CASE k = l
    BY <2>1, PublishHist
  <2>2. CASE k # l
    <3>1. hist'[k] = hist[k] /\ ops'[k] = ops[k] /\ vals'[k] = vals[k]
      BY <2>2, PublishHist
    <3>2. (Asking(k)' => Asking(k)) /\ Asked(k)' = Asked(k)
      BY <2>2, <1>2
    <3> QED
      BY <3>1, <3>2 DEF OwnSlots
  <2> QED
    BY <2>1, <2>2
<1> QED
  BY <1>3 DEF OwnSlots

(* ... and still is when its answer is known. *)
LEMMA ReadOwns ==
  ASSUME TypeOK, OwnSlots, NEW l \in Lane, Read(l)
  PROVE  OwnSlots'
<1>1. /\ pc \in [Lane -> Locations] /\ pc' = [pc EXCEPT ![l] = "part"]
      /\ UNCHANGED <<ops, vals>> /\ pc[l] = "read"
  BY DEF TypeOK, Read, Goto, shared
<1>2. \A k \in Lane \ {l} : (Asking(k)' => Asking(k)) /\ Asked(k)' = Asked(k)
  BY <1>1, ReadHist DEF Asking, Asked
<1>4. ~ Asking(l)' /\ Asked(l)'.call = Asked(l).call /\ Asking(l)
  BY <1>1, ReadHist DEF Asking
<1>3. ASSUME NEW k \in Lane
      PROVE  /\ Asking(k)' => hist'[k] # <<>> /\ ~ Asked(k)'.done
             /\ hist'[k] # <<>> =>
                 /\ ops'[k] = Asked(k)'.call.op
                 /\ Asked(k)'.call.op # "SyncWarp" => vals'[k] = Asked(k)'.call.val
  <2>1. CASE k = l
    BY <2>1, <1>1, <1>4 DEF OwnSlots
  <2>2. CASE k # l
    <3>1. hist'[k] = hist[k] /\ ops'[k] = ops[k] /\ vals'[k] = vals[k]
      BY <2>2, <1>1, ReadHist
    <3>2. (Asking(k)' => Asking(k)) /\ Asked(k)' = Asked(k)
      BY <2>2, <1>2
    <3> QED
      BY <3>1, <3>2 DEF OwnSlots
  <2> QED
    BY <2>1, <2>2
<1> QED
  BY <1>3 DEF OwnSlots

(* All other steps are of that kind. *)
LEMMA AskingOnlyEnds ==
  ASSUME TypeOK, NEW l \in Lane,
         \/ Arrival(l) \/ Wake(l) \/ TimerFires(l) \/ ExpireReleased(l)
         \/ MeetGivesUp(l) \/ PartGivesUp(l) \/ Check(l) \/ Leave(l)
  PROVE  /\ UNCHANGED <<vals, ops, hist>>
         /\ \A k \in Lane : Asking(k)' => Asking(k)
<1>1. UNCHANGED <<vals, ops, hist>>
  BY DEF Arrival, Wake, TimerFires, ExpireReleased, MeetGivesUp, PartGivesUp, Check,
         Leave,
         Released, shared
<1>2. pc \in [Lane -> Locations]
  BY DEF TypeOK
<1>3. /\ \A k \in Lane \ {l} : pc'[k] = pc[k]
      /\ \/ ~ Asking(l)'
         \/ Asking(l)
  BY <1>2
  DEF Arrival, Wake, TimerFires, ExpireReleased, MeetGivesUp, PartGivesUp, Check, Leave,
         Released, Goto, Asking, Sleeping, Passed
<1> QED
  BY <1>1, <1>3 DEF Asking

-----------------------------------------------------------------------------
(* One lane tells for the whole warp which side of the exchange it is on. *)
LEMMA Sides ==
  ASSUME OneSide, ~ partGaveUp, NEW l \in Live
  PROVE  /\ Before(l) => Gathering /\ InPart = {}
         /\ ~ Before(l) => Exchanging /\ InMeet = {}
<1>1. Gathering => InPart = {}
  BY DEF Gathering, Before, InPart, Live
<1>2. Exchanging => InMeet = {}
  BY DEF Exchanging, Before, InMeet, Live
<1> QED
  BY <1>1, <1>2 DEF OneSide, Gathering, Exchanging

(* Only a warp that gathers publishes. *)
LEMMA PublishSide ==
  ASSUME TypeOK, OneSide, NEW l \in Lane, Publish(l)
  PROVE  OneSide'
<1>1. /\ pc \in [Lane -> Locations] /\ pc' = [pc EXCEPT ![l] = "meet"] /\
           pc[l] = "kernel"
      /\ UNCHANGED <<bar, gen, got, partGaveUp>>
  BY DEF TypeOK, Publish, Goto
<1>2. l \in Live /\ Before(l)
  BY <1>1 DEF Live, Before
<1> SUFFICES ASSUME ~ partGaveUp' PROVE Gathering'
  BY DEF OneSide
<1>3. Gathering
  BY <1>1, <1>2, Sides
<1> QED
  BY <1>1, <1>3 DEF Gathering, Before, Live

(* An arrival before the last one keeps the warp on its side. *)
LEMMA JoinsSide ==
  ASSUME TypeOK, MaskExact, GenBound, OneSide, NEW l \in Lane, Arrival(l),
           bar.count + 1 < bar.n
  PROVE  OneSide'
<1>1. /\ pc \in [Lane -> Locations] /\ gen \in [Lane -> Nat] /\
           pc[l] \in {"meet", "part"}
      /\ UNCHANGED partGaveUp
  BY DEF TypeOK, Arrival
<1>2. /\ bar'.cur = bar.cur
      /\ pc' = [pc EXCEPT ![l] = Sleeping[pc[l]]]
      /\ gen' = [gen EXCEPT ![l] = bar.cur]
      /\ UNCHANGED got
      /\ l \in Live
  BY ArrivalJoins
<1>3. bar'.opened = bar.opened
  BY ArrivalJoins, BarType
<1>4. Live' = Live /\ \A k \in Lane : Before(k)' <=> Before(k)
  BY JoinsSets
<1>5. Live \in SUBSET Lane
  BY Shape
<1> SUFFICES ASSUME ~ partGaveUp PROVE Gathering' \/ Exchanging'
  BY <1>1 DEF OneSide
<1>6. CASE pc[l] = "meet"
  <2>1. Gathering
    BY <1>2, <1>6, Sides DEF Before
  <2> QED
    BY <2>1, <1>4, <1>5 DEF Gathering
<1>7. CASE pc[l] = "part"
  <2>1. Exchanging
    BY <1>2, <1>7, Sides DEF Before
  <2>2. pc'[l] = "partWait"
    BY <1>1, <1>2, <1>7 DEF Sleeping
  <2>3. \A k \in Lane \ {l} : pc'[k] = pc[k] /\ gen'[k] = gen[k]
    BY <1>1, <1>2
  <2>4. ASSUME NEW k \in Live
        PROVE  /\ ~ Before(k)'
               /\ Reading(k)' => got'[k] = Live
               /\ pc'[k] \in {"meetWait", "meetExpired"} =>
                    gen'[k] + 1 = bar.cur /\ bar.opened[bar.cur] = Live
    <3>1. CASE k = l
      BY <2>1, <2>2, <3>1, <1>4, <1>5 DEF Exchanging, Reading
    <3>2. CASE k # l
      BY <2>1, <2>3, <3>2, <1>2, <1>4, <1>5 DEF Exchanging, Reading
    <3> QED
      BY <3>1, <3>2
  <2>5. Exchanging'
    BY <2>4, <1>2, <1>3, <1>4 DEF Exchanging
  <2> QED
    BY <2>5
<1> QED
  BY <1>1, <1>6, <1>7

(* Once everybody is in, the warp changes sides, all lanes in the same
   rendezvous. *)
LEMMA OpensSide ==
  ASSUME TypeOK, MaskExact, GenBound, OneSide, NEW l \in Lane, Arrival(l),
         bar.count + 1 >= bar.n, ~ partGaveUp
  PROVE  /\ pc[l] = "meet" => /\ \A k \in Live \ {l} : k \in InMeet
                              /\ Exchanging'
         /\ pc[l] = "part" => /\ \A k \in Live \ {l} : k \in InPart
                              /\ Gathering'
<1>1. /\ pc \in [Lane -> Locations] /\ got \in [Lane -> SUBSET Lane] /\
           pc[l] \in {"meet", "part"}
  BY DEF TypeOK, Arrival
<1>2. /\ bar' = [n |-> bar.n, count |-> 0, mask |-> {}, cur |-> bar.cur + 1,
                    opened |-> Append(bar.opened, Live)]
      /\ l \in Live
      /\ Waiting \union {l} = Live
      /\ got' = IF pc[l] = "meet" THEN [got EXCEPT ![l] = Live] ELSE got
  BY ArrivalOpens
<1>3. /\ Live' = Live
      /\ pc[l] = "meet" => pc'[l] = "check"
      /\ pc[l] = "part" => pc'[l] = "kernel"
      /\ \A k \in Lane \ {l} : pc'[k] = pc[k] /\ gen'[k] = gen[k] /\ gen[k] # bar'.cur
      /\ bar'.cur = bar.cur + 1
  BY OpensSets
<1>4. Live \in SUBSET Lane
  BY Shape
<1>5. /\ bar'.opened = Append(bar.opened, Live)
      /\ bar'.opened[bar'.cur] = Live
  <2>1. bar'.opened = Append(bar.opened, Live) /\ bar'.cur = Len(bar.opened) + 1
    BY <1>2, <1>3, BarType
  <2> QED
    BY <1>4, <2>1, BarType, AppendProperties
<1>6. ASSUME pc[l] = "meet"
      PROVE  (\A k \in Live \ {l} : k \in InMeet) /\ Exchanging'
  <2>1. InPart = {}
    BY <1>2, <1>6, Sides DEF Before
  <2>2. \A k \in Live \ {l} : k \in InMeet
    BY <1>2, <2>1 DEF Waiting
  <2>3. \A k \in Live \ {l} : pc'[k] \in {"meetWait", "meetExpired"} /\
          gen'[k] + 1 = bar'.cur
                              /\ gen'[k] # bar'.cur
    BY <2>2, <1>3, <1>4 DEF InMeet
  <2>4. got'[l] = Live /\ pc'[l] = "check"
    BY <1>1, <1>2, <1>3, <1>6
  <2>5. ASSUME NEW k \in Live
        PROVE  /\ ~ Before(k)'
               /\ Reading(k)' => got'[k] = Live
               /\ pc'[k] \in {"meetWait", "meetExpired"} =>
                    gen'[k] + 1 = bar'.cur /\ bar'.opened[bar'.cur] = Live
    BY <2>3, <2>4, <1>5 DEF Before, Reading
  <2>6. Exchanging'
    BY <2>5, <1>3 DEF Exchanging
  <2> QED
    BY <2>2, <2>6
<1>7. ASSUME pc[l] = "part"
      PROVE  (\A k \in Live \ {l} : k \in InPart) /\ Gathering'
  <2>1. InMeet = {}
    BY <1>2, <1>7, Sides DEF Before
  <2>2. \A k \in Live \ {l} : k \in InPart
    BY <1>2, <2>1 DEF Waiting
  <2>3. \A k \in Live \ {l} : pc'[k] \in {"partWait", "partExpired"} /\
          gen'[k] # bar'.cur
    BY <2>2, <1>3, <1>4 DEF InPart
  <2>4. \A k \in Live : Before(k)'
    BY <2>3, <1>3, <1>7 DEF Before
  <2> QED
    BY <2>2, <2>4, <1>3 DEF Gathering
<1> QED
  BY <1>6, <1>7

(* Whichever it is, an arrival keeps the warp on one side. *)
LEMMA ArrivalSide ==
  ASSUME TypeOK, MaskExact, GenBound, OneSide, NEW l \in Lane, Arrival(l)
  PROVE  OneSide'
<1>1. bar.n \in Nat /\ bar.count \in Nat
  BY BarType
<1>2. pc[l] \in {"meet", "part"} /\ UNCHANGED partGaveUp
  BY DEF Arrival
<1>3. bar.count + 1 >= bar.n => OneSide'
  BY <1>2, OpensSide DEF OneSide
<1> QED
  BY <1>1, <1>3, JoinsSide

(* A lane released from its meet reads with everybody's mask. *)
LEMMA ReleasedSide ==
  ASSUME TypeOK, GenBound, OneSide, NEW l \in Lane, Wake(l) \/ ExpireReleased(l)
  PROVE  OneSide'
<1>1. /\ pc \in [Lane -> Locations] /\ got \in [Lane -> SUBSET Lane]
      /\ pc[l] \in {"meetWait", "partWait", "meetExpired", "partExpired"}
      /\ pc' = [pc EXCEPT ![l] = Passed[pc[l]]]
      /\ gen[l] # bar.cur
      /\ UNCHANGED <<bar, gen, partGaveUp>>
      /\ got' = [got EXCEPT ![l] = IF pc[l] \in {"meetWait", "meetExpired"}
                               THEN OpenedMask(bar, gen[l]) ELSE @]
  BY DEF TypeOK, Wake, ExpireReleased, Released, Goto, shared
<1>2. /\ \A k \in Lane \ {l} : pc'[k] = pc[k] /\ got'[k] = got[k]
      /\ Live' = Live /\ Live \in SUBSET Lane /\ l \in Live
  BY <1>1 DEF Live, Passed
<1> SUFFICES ASSUME ~ partGaveUp PROVE Gathering' \/ Exchanging'
  BY <1>1 DEF OneSide
<1>3. CASE pc[l] \in {"meetWait", "meetExpired"}
  <2>1. Exchanging /\ gen[l] + 1 = bar.cur /\ bar.opened[bar.cur] = Live
    BY <1>1, <1>2, <1>3, Sides DEF Before, Exchanging
  <2>2. pc'[l] = "check" /\ got'[l] = Live
    BY <1>1, <1>3, <2>1 DEF Passed, OpenedMask
  <2>3. ASSUME NEW k \in Live
        PROVE  /\ ~ Before(k)'
               /\ Reading(k)' => got'[k] = Live
               /\ pc'[k] \in {"meetWait", "meetExpired"} =>
                    gen'[k] + 1 = bar'.cur /\ bar'.opened[bar'.cur] = Live
    <3>1. CASE k = l
      BY <3>1, <2>2 DEF Before, Reading
    <3>2. CASE k # l
      BY <3>2, <2>1, <1>1, <1>2 DEF Exchanging, Before, Reading
    <3> QED
      BY <3>1, <3>2
  <2>4. Exchanging'
    BY <2>3, <1>2 DEF Exchanging
  <2> QED
    BY <2>4
<1>4. CASE pc[l] \in {"partWait", "partExpired"}
  <2>1. Gathering
    BY <1>1, <1>2, <1>4, Sides DEF Before
  <2>2. pc'[l] = "kernel"
    BY <1>1, <1>4 DEF Passed
  <2>3. Gathering'
    BY <1>1, <1>2, <2>1, <2>2 DEF Gathering, Before
  <2> QED
    BY <2>3
<1> QED
  BY <1>1, <1>3, <1>4

(* A timer, a check and a read leave the lane on its side. *)
LEMMA QuietSide ==
  ASSUME TypeOK, OneSide, NEW l \in Lane, TimerFires(l) \/ Check(l) \/ Read(l)
  PROVE  OneSide'
<1>1. /\ pc \in [Lane -> Locations]
      /\ \/ pc[l] = "meetWait" /\ pc' = [pc EXCEPT ![l] = "meetExpired"]
         \/ pc[l] = "partWait" /\ pc' = [pc EXCEPT ![l] = "partExpired"]
         \/ pc[l] = "check" /\ pc' = [pc EXCEPT ![l] = "read"]
         \/ pc[l] = "read" /\ pc' = [pc EXCEPT ![l] = "part"]
      /\ UNCHANGED <<bar, gen, got, partGaveUp>>
  BY DEF TypeOK, TimerFires, Check, Read, Goto, shared
<1>2. /\ Live' = Live /\ Live \in SUBSET Lane
      /\ \A k \in Lane : Before(k)' <=> Before(k)
      /\ \A k \in Lane : Reading(k)' => Reading(k)
      /\ \A k \in Lane : pc'[k] \in {"meetWait", "meetExpired"} <=>
           pc[k] \in {"meetWait", "meetExpired"}
  BY <1>1 DEF Live, Before, Reading
<1> SUFFICES ASSUME ~ partGaveUp PROVE Gathering' \/ Exchanging'
  BY <1>1 DEF OneSide
<1>3. CASE Gathering
  BY <1>2, <1>3 DEF Gathering
<1>4. CASE Exchanging
  BY <1>1, <1>2, <1>4 DEF Exchanging
<1> QED
  BY <1>3, <1>4 DEF OneSide

(* A lane that gives up its meet is back where it was before the call. *)
LEMMA MeetGivesUpSide ==
  ASSUME TypeOK, OneSide, NEW l \in Lane, MeetGivesUp(l)
  PROVE  OneSide'
<1>1. /\ pc \in [Lane -> Locations] /\ pc[l] = "meetExpired"
      /\ pc' = [pc EXCEPT ![l] = "kernel"]
      /\ UNCHANGED <<gen, got, partGaveUp>> /\ gen[l] = bar.cur
      /\ bar' = WarpTakeBack(bar, l)
  BY DEF TypeOK, MeetGivesUp, Goto
<1>2. bar'.cur = bar.cur
  BY <1>1, BarType DEF WarpTakeBack
<1> SUFFICES ASSUME ~ partGaveUp PROVE Gathering'
  BY <1>1 DEF OneSide
<1>3. l \in Live /\ Before(l)
  BY <1>1 DEF Live, Before
<1>4. Gathering
  BY <1>3, Sides
<1> QED
  BY <1>1, <1>2, <1>4 DEF Gathering, Before, Live

(* A part that gives up voids the promise. *)
LEMMA PartGivesUpSide ==
  ASSUME NEW l \in Lane, PartGivesUp(l)
  PROVE  OneSide'
BY DEF PartGivesUp, OneSide

(* A departure may be what the others waited for, and then they all were in
   meet. *)
LEMMA LeaveSide ==
  ASSUME TypeOK, MaskExact, GenBound, OneSide, NEW l \in Lane, Leave(l)
  PROVE  /\ OneSide'
         /\ Live' = Live \ {l}
         /\ (~ partGaveUp /\ bar.n - 1 > 0 /\ bar.count >= bar.n - 1) =>
              /\ Live' # {} /\ Exchanging'
              /\ \A k \in Live' : k \in InMeet
         /\ (~ partGaveUp /\ ~ (bar.n - 1 > 0 /\ bar.count >= bar.n - 1)) =>
              Gathering'
<1>1. /\ pc \in [Lane -> Locations] /\ pc[l] = "kernel"
      /\ pc' = [pc EXCEPT ![l] = "left"]
      /\ UNCHANGED <<gen, got, partGaveUp>>
  BY DEF TypeOK, Leave, Goto
<1>2. Live' = Live \ {l} /\ l \in Live /\ Live \in SUBSET Lane /\ Before(l)
  BY <1>1 DEF Live, Before
<1> SUFFICES ASSUME ~ partGaveUp
             PROVE  /\ (bar.n - 1 > 0 /\ bar.count >= bar.n - 1) =>
                         /\ Live' # {} /\ Exchanging'
                         /\ \A k \in Live' : k \in InMeet
                    /\ ~ (bar.n - 1 > 0 /\ bar.count >= bar.n - 1) => Gathering'
  BY <1>1, <1>2 DEF OneSide
<1>3. Gathering /\ InPart = {}
  BY <1>2, Sides
<1>4. CASE ~ (bar.n - 1 > 0 /\ bar.count >= bar.n - 1)
  <2>1. bar'.cur = bar.cur
    BY <1>4, LeaveStays
  <2> QED
    BY <1>1, <1>2, <1>3, <1>4, <2>1 DEF Gathering, Before
<1>5. CASE bar.n - 1 > 0 /\ bar.count >= bar.n - 1
  <2>1. /\ bar' = [n |-> bar.n - 1, count |-> 0, mask |-> {}, cur |-> bar.cur + 1,
                    opened |-> Append(bar.opened, Live \ {l})]
        /\ Waiting = Live \ {l}
        /\ Live \ {l} # {}
    BY <1>5, LeaveOpens
  <2>2. Live \ {l} = InMeet
    BY <1>3, <2>1 DEF Waiting
  <2>3. bar'.cur = bar.cur + 1 /\ bar'.opened[bar'.cur] = Live'
    <3>1. bar'.opened = Append(bar.opened, Live') /\ bar'.cur = Len(bar.opened) + 1
      BY <1>2, <2>1, BarType
    <3>2. Live' \in SUBSET Lane
      BY <1>2
    <3> QED
      BY <2>1, <3>1, <3>2, BarType, AppendProperties
  <2>4. \A k \in Live' : /\ pc'[k] \in {"meetWait", "meetExpired"}
                         /\ gen'[k] = bar.cur /\ bar.cur \in Nat
    BY <1>1, <1>2, <2>2, BarType DEF InMeet
  <2>5. Exchanging'
    BY <2>3, <2>4 DEF Exchanging, Before, Reading
  <2> QED
    BY <1>2, <1>5, <2>1, <2>2, <2>5
<1> QED
  BY <1>4, <1>5

-----------------------------------------------------------------------------
(* Nothing was reported and no part gave up. *)
Quiet == ~ partGaveUp /\ fail = "none"

(* One lane tells which round the warp is in. *)
LEMMA InRound ==
  ASSUME InRounds, Quiet, NEW l \in Live
  PROVE  \E n \in 0..MaxCalls : /\ Before(l) => GatheringAfter(n)
                                /\ ~ Before(l) => ExchangingIn(n)
<1>1. PICK n \in 0..MaxCalls : GatheringAfter(n) \/ ExchangingIn(n)
  BY DEF InRounds, Quiet
<1>2. GatheringAfter(n) => Before(l)
  BY DEF GatheringAfter
<1>3. ExchangingIn(n) => ~ Before(l)
  BY DEF ExchangingIn
<1> QED
  BY <1>1, <1>2, <1>3

(* A finished call stays what it was when the histories grow ... *)
LEMMA OverStays ==
  ASSUME NEW i \in Nat, Over(i),
         \A k \in Lane : /\ Len(hist'[k]) >= i <=> Len(hist[k]) >= i
                         /\ Len(hist[k]) >= i => hist'[k][i] = hist[k][i]
  PROVE  Over(i)'
<1>1. Reached(i)' = Reached(i)
  BY DEF Reached
<1> DEFINE here == Reached(i)
<1>2. \A k \in here : hist'[k][i] = hist[k][i]
  BY DEF Reached
<1>3. ASSUME NEW l \in here
      PROVE  /\ hist'[l][i].done
             /\ hist'[l][i].mask = here
             /\ \A k \in here : hist'[k][i].call.op = hist'[l][i].call.op
             /\ hist'[l][i].res =
                  Answer(hist'[l][i].call, here, [k \in here |-> hist'[k][i].call.val])
  <2>1. [k \in here |-> hist'[k][i].call.val] = [k \in here |-> hist[k][i].call.val]
    BY <1>2
  <2>2. /\ hist[l][i].done
        /\ hist[l][i].mask = here
        /\ \A k \in here : hist[k][i].call.op = hist[l][i].call.op
        /\ hist[l][i].res =
             Answer(hist[l][i].call, here, [k \in here |-> hist[k][i].call.val])
    BY DEF Over, SameCall
  <2>3. Answer(hist'[l][i].call, here, [k \in here |-> hist'[k][i].call.val])
        = Answer(hist[l][i].call, here, [k \in here |-> hist[k][i].call.val])
    BY <1>2, <2>1
  <2> HIDE DEF here
  <2> QED
    BY <1>2, <2>2, <2>3
<1> HIDE DEF here
<1> QED
  BY <1>1, <1>3 DEF Over, SameCall, here

(* ... or stand still. *)
LEMMA HistoryKept ==
  ASSUME UNCHANGED hist
  PROVE  \A i : Over(i) => Over(i)'
BY DEF Over, Reached, SameCall

(* The histories' lengths. *)
LEMMA Counted ==
  ASSUME TypeOK
  PROVE  /\ MaxCalls \in Nat
         /\ \A l \in Lane : /\ Len(hist[l]) \in 0..MaxCalls
                            /\ Len(hist[l]) \in Nat
                            /\ hist[l] # <<>> => Len(hist[l]) # 0
<1>1. hist \in [Lane -> Seq(Entries)] /\ \A l \in Lane : Len(hist[l]) <= MaxCalls
  BY DEF TypeOK
<1>2. ASSUME NEW l \in Lane
      PROVE  Len(hist[l]) \in Nat /\ (hist[l] # <<>> => Len(hist[l]) # 0)
  <2>1. hist[l] \in Seq(Entries)
    BY <1>1
  <2> QED
    BY <2>1, LenProperties, EmptySeq
<1> QED
  BY <1>1, <1>2, BoundsAssumption

(* Steps that touch no history and keep every lane on its side. *)
LEMMA RoundStays ==
  ASSUME InRounds, Quiet' => Quiet, UNCHANGED hist, Live' = Live,
         \A k \in Live : /\ Before(k)' <=> Before(k)
                         /\ Asking(k)' <=> Asking(k)
                         /\ pc'[k] = "read" => pc[k] = "read"
  PROVE  InRounds'
<1> SUFFICES ASSUME Quiet'
             PROVE  \E n \in 0..MaxCalls : GatheringAfter(n)' \/ ExchangingIn(n)'
  BY DEF InRounds, Quiet
<1>1. PICK n \in 0..MaxCalls : GatheringAfter(n) \/ ExchangingIn(n)
  BY DEF InRounds, Quiet
<1>2. \A i : Over(i) => Over(i)'
  BY HistoryKept
<1>3. CASE GatheringAfter(n)
  <2>1. GatheringAfter(n)'
    BY <1>2, <1>3 DEF GatheringAfter
  <2> QED
    BY <2>1
<1>4. CASE ExchangingIn(n)
  <2>1. \A l \in Live : ~ Asking(l)' => hist'[l][n].done /\ SameCall(l, n, Live)'
    BY <1>4 DEF ExchangingIn, SameCall
  <2>2. \A l \in Live' : ~ Before(l)' /\ Len(hist'[l]) = n
    BY <1>4 DEF ExchangingIn
  <2>3. \A l \in Lane \ Live' : Len(hist'[l]) < n
    BY <1>4 DEF ExchangingIn
  <2>4. \A i \in 1..(n - 1) : Over(i)'
    BY <1>2, <1>4 DEF ExchangingIn
  <2>5. \A l \in Live : pc'[l] = "read" =>
          \A k \in Live : hist'[k][n].call.op = hist'[l][n].call.op
    BY <1>4 DEF ExchangingIn
  <2>6. ExchangingIn(n)'
    BY <2>1, <2>2, <2>3, <2>4, <2>5 DEF ExchangingIn
  <2> QED
    BY <2>6
<1> QED
  BY <1>1, <1>3, <1>4

(* A publication opens the lane's entry of the next round. *)
LEMMA PublishRound ==
  ASSUME TypeOK, InRounds, NEW l \in Lane, Publish(l)
  PROVE  InRounds'
<1>1. /\ pc \in [Lane -> Locations] /\ pc' = [pc EXCEPT ![l] = "meet"] /\
           pc[l] = "kernel"
      /\ UNCHANGED <<bar, gen, fail, partGaveUp>>
  BY DEF TypeOK, Publish, Goto
<1>2. Live' = Live /\ l \in Live /\ Live \in SUBSET Lane
  BY <1>1 DEF Live
<1> SUFFICES ASSUME Quiet
             PROVE  \E n \in 0..MaxCalls : GatheringAfter(n)'
  BY <1>1 DEF InRounds, Quiet
<1>3. PICK n \in 0..MaxCalls : GatheringAfter(n)
  BY <1>1, <1>2, InRound DEF Before
<1>4. n \in Nat
  BY BoundsAssumption
<1>5. Len(hist[l]) = n /\ Len(hist'[l]) = n + 1
  BY <1>1, <1>2, <1>3, PublishHist DEF GatheringAfter, Asking
<1>6. \A k \in Lane \ {l} : hist'[k] = hist[k] /\ pc'[k] = pc[k]
  BY <1>1, PublishHist
<1>7. \A k \in Live : Before(k)' /\ Len(hist'[k]) = IF Asking(k)' THEN n + 1 ELSE n
  BY <1>1, <1>2, <1>3, <1>5, <1>6 DEF GatheringAfter, Before, Asking
<1>8. \A k \in Lane \ Live : Len(hist'[k]) <= n
  BY <1>2, <1>3, <1>6 DEF GatheringAfter
<1>9. ASSUME NEW i \in 1..n PROVE Over(i)'
  <2>1. i \in Nat /\ i \in 1..Len(hist[l]) /\ n + 1 >= i /\ n >= i
    BY <1>4, <1>5
  <2>2. \A k \in Lane : /\ Len(hist'[k]) >= i <=> Len(hist[k]) >= i
                        /\ Len(hist[k]) >= i => hist'[k][i] = hist[k][i]
    BY <1>5, <1>6, <2>1, PublishHist
  <2> QED
    BY <1>3, <2>1, <2>2, OverStays DEF GatheringAfter
<1>10. GatheringAfter(n)'
  BY <1>2, <1>7, <1>8, <1>9 DEF GatheringAfter
<1> QED
  BY <1>10

(* The last arrival in meet opens the next round's exchange; the last one in
   part closes it. *)
LEMMA OpensRound ==
  ASSUME TypeOK, MaskExact, GenBound, OneSide, InRounds, NEW l \in Lane, Arrival(l),
         bar.count + 1 >= bar.n
  PROVE  InRounds'
<1>1. /\ pc[l] \in {"meet", "part"}
      /\ UNCHANGED <<fail, partGaveUp, hist>>
  BY DEF Arrival
<1>2. /\ Live' = Live
      /\ pc[l] = "meet" => pc'[l] = "check"
      /\ pc[l] = "part" => pc'[l] = "kernel"
      /\ \A k \in Lane \ {l} : pc'[k] = pc[k]
  BY OpensSets
<1>3. l \in Live /\ Live \in SUBSET Lane
  BY Shape, ArrivalOpens
<1> SUFFICES ASSUME Quiet
             PROVE  \E n \in 0..MaxCalls : GatheringAfter(n)' \/ ExchangingIn(n)'
  BY <1>1 DEF InRounds, Quiet
<1>4. \A i : Over(i) => Over(i)'
  BY <1>1, HistoryKept
<1>5. CASE pc[l] = "meet"
  <2>1. PICK n \in 0..MaxCalls : GatheringAfter(n)
    BY <1>3, <1>5, InRound DEF Before
  <2>2. Exchanging' /\ \A k \in Live \ {l} : k \in InMeet
    BY <1>5, OpensSide DEF Quiet
  <2>3. \A k \in Live : Asking(k) /\ Asking(k)' /\ pc'[k] # "read"
    BY <1>2, <1>3, <1>5, <2>2 DEF InMeet, Asking
  <2>4. n \in Nat /\ n + 1 \in 0..MaxCalls
    <3>1. Len(hist[l]) = n + 1
      BY <1>3, <2>1, <2>3 DEF GatheringAfter
    <3> QED
      BY <3>1, Counted
  <2>5. \A k \in Live : ~ Before(k)' /\ Len(hist'[k]) = n + 1
    BY <1>1, <1>2, <2>1, <2>2, <2>3 DEF GatheringAfter, Exchanging
  <2>6. \A k \in Lane \ Live : Len(hist'[k]) < n + 1
    BY <1>1, <2>1, <2>4, Counted DEF GatheringAfter
  <2>7. \A i \in 1..((n + 1) - 1) : Over(i)'
    BY <1>4, <2>1, <2>4 DEF GatheringAfter
  <2>8. ExchangingIn(n + 1)'
    BY <1>2, <2>3, <2>5, <2>6, <2>7 DEF ExchangingIn
  <2> QED
    BY <2>4, <2>8
<1>6. CASE pc[l] = "part"
  <2>1. PICK n \in 0..MaxCalls : ExchangingIn(n)
    BY <1>3, <1>6, InRound DEF Before
  <2>2. Gathering' /\ \A k \in Live \ {l} : k \in InPart
    BY <1>6, OpensSide DEF Quiet
  <2>3. \A k \in Live : ~ Asking(k) /\ ~ Asking(k)'
    BY <1>2, <1>3, <1>6, <2>2 DEF InPart, Asking
  <2>4. n \in Nat
    BY BoundsAssumption
  <2>5. \A k \in Live : Before(k)' /\ Len(hist'[k]) = n
    BY <1>1, <1>2, <2>1, <2>2 DEF ExchangingIn, Gathering
  <2>6. \A k \in Lane \ Live : Len(hist[k]) < n
    BY <2>1 DEF ExchangingIn
  <2>7. Reached(n) = Live
    BY <1>3, <2>1, <2>4, <2>6, Counted DEF Reached, ExchangingIn
  <2>8. Over(n)
    BY <2>1, <2>3, <2>7 DEF Over, ExchangingIn
  <2>9. \A i \in 1..n : Over(i)'
    <3>1. \A i \in 1..(n - 1) : Over(i)
      BY <2>1 DEF ExchangingIn
    <3>2. \A i \in 1..n : i = n \/ i \in 1..(n - 1)
      BY <2>4
    <3> QED
      BY <1>4, <2>8, <3>1, <3>2
  <2>10. \A k \in Lane \ Live : Len(hist'[k]) <= n
    BY <1>1, <2>4, <2>6, Counted
  <2>11. GatheringAfter(n)'
    BY <1>2, <2>3, <2>5, <2>9, <2>10 DEF GatheringAfter
  <2> QED
    BY <2>11
<1> QED
  BY <1>1, <1>5, <1>6

(* An arrival, the last one or not, keeps the rounds. *)
LEMMA ArrivalRound ==
  ASSUME TypeOK, MaskExact, GenBound, OneSide, InRounds, NEW l \in Lane, Arrival(l)
  PROVE  InRounds'
<1>1. bar.n \in Nat /\ bar.count \in Nat
  BY BarType
<1>2. ASSUME bar.count + 1 < bar.n
      PROVE  InRounds'
  <2>1. UNCHANGED <<fail, partGaveUp, hist>> /\ pc[l] \in {"meet", "part"}
    BY DEF Arrival
  <2>2. /\ pc' = [pc EXCEPT ![l] = Sleeping[pc[l]]] /\ pc \in [Lane -> Locations]
    BY <1>2, ArrivalJoins DEF TypeOK
  <2>3. \A k \in Lane : pc'[k] = "read" => pc[k] = "read"
    BY <2>1, <2>2 DEF Sleeping
  <2>4. /\ Live' = Live
        /\ \A k \in Lane : (Before(k)' <=> Before(k)) /\ (Asking(k)' <=> Asking(k))
    BY <1>2, JoinsSets
  <2> QED
    BY <2>1, <2>3, <2>4, Shape, RoundStays DEF Quiet
<1> QED
  BY <1>1, <1>2, OpensRound

(* A release or a timer changes nothing in the round. *)
LEMMA ReleasedRound ==
  ASSUME TypeOK, InRounds, NEW l \in Lane, Wake(l) \/ ExpireReleased(l) \/ TimerFires(l)
  PROVE  InRounds'
<1>1. /\ pc \in [Lane -> Locations]
      /\ \/ /\ pc[l] \in {"meetWait", "meetExpired", "partWait", "partExpired"}
            /\ gen[l] # bar.cur
            /\ pc' = [pc EXCEPT ![l] = Passed[pc[l]]]
         \/ pc[l] = "meetWait" /\ pc' = [pc EXCEPT ![l] = "meetExpired"]
         \/ pc[l] = "partWait" /\ pc' = [pc EXCEPT ![l] = "partExpired"]
      /\ UNCHANGED <<bar, gen, fail, partGaveUp, hist>>
  BY DEF TypeOK, Wake, ExpireReleased, Released, TimerFires, Goto, shared
<1>2. /\ Live' = Live /\ Live \in SUBSET Lane
      /\ \A k \in Lane : /\ Before(k)' <=> Before(k)
                         /\ Asking(k)' <=> Asking(k)
                         /\ pc'[k] = "read" => pc[k] = "read"
  BY <1>1 DEF Live, Before, Asking, Passed
<1> QED
  BY <1>1, <1>2, RoundStays DEF Quiet

(* After a wait that gave up there is no silence to speak of. *)
LEMMA GivesUpRound ==
  ASSUME NEW l \in Lane, MeetGivesUp(l) \/ PartGivesUp(l)
  PROVE  InRounds'
<1>1. partGaveUp' \/ fail' # "none"
  BY DEF MeetGivesUp, PartGivesUp, Report
<1> QED
  BY <1>1 DEF InRounds

(* A departure is no part of the round, and may open its exchange. *)
LEMMA LeaveRound ==
  ASSUME TypeOK, MaskExact, GenBound, OneSide, InRounds, NEW l \in Lane, Leave(l)
  PROVE  InRounds'
<1>1. /\ pc \in [Lane -> Locations] /\ pc[l] = "kernel"
      /\ pc' = [pc EXCEPT ![l] = "left"]
      /\ UNCHANGED <<fail, gen, got, partGaveUp, hist>>
  BY DEF TypeOK, Leave, Goto
<1>2. Live' = Live \ {l} /\ l \in Live /\ Live \in SUBSET Lane /\ Before(l)
  BY <1>1 DEF Live, Before
<1> SUFFICES ASSUME Quiet
             PROVE  \E n \in 0..MaxCalls : GatheringAfter(n)' \/ ExchangingIn(n)'
  BY <1>1 DEF InRounds, Quiet
<1>3. \A i : Over(i) => Over(i)'
  BY <1>1, HistoryKept
<1>4. PICK n \in 0..MaxCalls : GatheringAfter(n)
  BY <1>2, InRound
<1>5. n \in Nat /\ Len(hist[l]) = n
  BY <1>1, <1>2, <1>4, BoundsAssumption DEF GatheringAfter, Asking
<1>6. \A k \in Live' : Asking(k)' <=> Asking(k)
  BY <1>1, <1>2 DEF Asking
<1>7. \A k \in Lane \ Live' : Len(hist'[k]) <= n
  BY <1>1, <1>2, <1>4, <1>5 DEF GatheringAfter
<1>8. CASE ~ (bar.n - 1 > 0 /\ bar.count >= bar.n - 1)
  <2>1. Gathering'
    BY <1>8, LeaveSide DEF Quiet
  <2>2. \A k \in Live' : Before(k)' /\ Len(hist'[k]) = IF Asking(k)' THEN n + 1 ELSE n
    BY <1>1, <1>2, <1>4, <1>6, <2>1 DEF GatheringAfter, Gathering
  <2>3. GatheringAfter(n)'
    BY <1>3, <1>4, <1>7, <2>2 DEF GatheringAfter
  <2> QED
    BY <2>3
<1>9. CASE bar.n - 1 > 0 /\ bar.count >= bar.n - 1
  <2>1. Live' # {} /\ Exchanging' /\ \A k \in Live' : k \in InMeet
    BY <1>9, LeaveSide DEF Quiet
  <2>2. \A k \in Live' : Asking(k) /\ Asking(k)' /\ pc'[k] # "read"
    BY <1>1, <1>2, <2>1 DEF InMeet, Asking
  <2>3. \A k \in Live' : ~ Before(k)' /\ Len(hist'[k]) = n + 1
    BY <1>1, <1>2, <1>4, <2>1, <2>2 DEF GatheringAfter, Exchanging
  <2>4. n + 1 \in 0..MaxCalls
    <3>1. PICK k \in Live' : Len(hist[k]) = n + 1
      BY <1>1, <2>1, <2>3
    <3> QED
      BY <3>1, <1>2, <1>5, Counted
  <2>5. \A k \in Lane \ Live' : Len(hist'[k]) < n + 1
    BY <1>1, <1>5, <1>7, Counted
  <2>6. \A i \in 1..((n + 1) - 1) : Over(i)'
    BY <1>3, <1>4, <1>5 DEF GatheringAfter
  <2>7. ExchangingIn(n + 1)'
    BY <2>2, <2>3, <2>5, <2>6 DEF ExchangingIn
  <2> QED
    BY <2>4, <2>7
<1> QED
  BY <1>8, <1>9

(* A check that finds nothing: everybody asked for the same operation. *)
LEMMA CheckRound ==
  ASSUME TypeOK, OwnSlots, OneSide, InRounds, NEW l \in Lane, Check(l)
  PROVE  InRounds'
<1>1. /\ pc \in [Lane -> Locations] /\ pc[l] = "check"
      /\ pc' = [pc EXCEPT ![l] = "read"]
      /\ UNCHANGED <<bar, vals, ops, gen, got, partGaveUp, hist>>
      /\ fail' = "none" => fail = "none" /\ \A k \in got[l] : ops[k] = ops[l]
  BY DEF TypeOK, Check, Goto, Report
<1>2. /\ Live' = Live /\ l \in Live /\ Live \in SUBSET Lane /\ ~ Before(l) /\ Asking(l)
      /\ \A k \in Lane : (Before(k)' <=> Before(k)) /\ (Asking(k)' <=> Asking(k))
      /\ \A k \in Lane \ {l} : pc'[k] = pc[k]
  BY <1>1 DEF Live, Before, Asking
<1> SUFFICES ASSUME Quiet'
             PROVE  \E n \in 0..MaxCalls : ExchangingIn(n)'
  BY DEF InRounds, Quiet
<1>3. Quiet
  BY <1>1 DEF Quiet
<1>4. PICK n \in 0..MaxCalls : ExchangingIn(n)
  BY <1>2, <1>3, InRound
<1>5. got[l] = Live
  BY <1>1, <1>2, <1>3, Sides DEF Exchanging, Reading, Quiet
<1>6. \A k \in Live : ops[k] = ops[l]
  BY <1>1, <1>5 DEF Quiet
<1>7. \A k \in Live : hist[k] # <<>> /\ Asked(k) = hist[k][n] /\
        ops[k] = hist[k][n].call.op
  <2>0. hist \in [Lane -> Seq(Entries)]
    BY DEF TypeOK
  <2>1. hist[l] # <<>>
    BY <1>2 DEF OwnSlots
  <2>2. Len(hist[l]) = n /\ n # 0
    BY <1>2, <1>4, <2>1, Counted DEF ExchangingIn
  <2>3. ASSUME NEW k \in Live PROVE hist[k] # <<>> /\ Asked(k) = hist[k][n]
    <3>1. Len(hist[k]) = n
      BY <1>4 DEF ExchangingIn
    <3>2. hist[k] # <<>>
      BY <2>2, <3>1, EmptySeq
    <3> QED
      BY <3>1, <3>2 DEF Asked
  <2> QED
    BY <1>2, <2>3 DEF OwnSlots
<1>8. \A k \in Live : hist[k][n].call.op = hist[l][n].call.op
  BY <1>2, <1>6, <1>7
<1>9. \A k \in Live : pc'[k] = "read" =>
         \A j \in Live : hist'[j][n].call.op = hist'[k][n].call.op
  BY <1>1, <1>2, <1>4, <1>8 DEF ExchangingIn
<1>10. \A k \in Live : ~ Asking(k)' => hist'[k][n].done /\ SameCall(k, n, Live)'
  BY <1>1, <1>2, <1>4 DEF ExchangingIn, SameCall
<1>11. \A i \in 1..(n - 1) : Over(i)'
  BY <1>1, <1>4, HistoryKept DEF ExchangingIn
<1>12. /\ \A k \in Live : ~ Before(k)' /\ Len(hist'[k]) = n
       /\ \A k \in Lane \ Live : Len(hist'[k]) < n
  BY <1>1, <1>2, <1>4 DEF ExchangingIn
<1>13. ExchangingIn(n)'
  BY <1>2, <1>9, <1>10, <1>11, <1>12 DEF ExchangingIn
<1> QED
  BY <1>13

(* A read answers from the slots of this very round: no sibling has
   rewritten one. *)
LEMMA ReadRound ==
  ASSUME TypeOK, OwnSlots, OneSide, InRounds, NEW l \in Lane, Read(l)
  PROVE  InRounds'
<1>1. /\ pc \in [Lane -> Locations] /\ pc[l] = "read"
      /\ pc' = [pc EXCEPT ![l] = "part"]
      /\ UNCHANGED <<bar, vals, ops, fail, gen, got, partGaveUp>>
  BY DEF TypeOK, Read, Goto, shared
<1>2. /\ Live' = Live /\ l \in Live /\ Live \in SUBSET Lane /\ ~ Before(l)
      /\ \A k \in Lane : Before(k)' <=> Before(k)
      /\ \A k \in Lane \ {l} : pc'[k] = pc[k] /\ (Asking(k)' <=> Asking(k))
      /\ ~ Asking(l)'
  BY <1>1 DEF Live, Before, Asking
<1> SUFFICES ASSUME Quiet
             PROVE  \E n \in 0..MaxCalls : ExchangingIn(n)'
  BY <1>1 DEF InRounds, Quiet
<1>4. PICK n \in 0..MaxCalls : ExchangingIn(n)
  BY <1>2, InRound
<1>5. got[l] = Live
  BY <1>1, <1>2, Sides DEF Exchanging, Reading, Quiet
<1>6. n \in Nat \ {0} /\ Len(hist[l]) = n /\ Len(hist'[l]) = n
  BY <1>2, <1>4, ReadHist DEF ExchangingIn
<1>7. /\ \A k \in Lane \ {l} : hist'[k] = hist[k]
      /\ \A i \in 1..n : i # n => hist'[l][i] = hist[l][i]
  BY <1>6, ReadHist
<1>8. Asked(l) = hist[l][n] /\ Asked(l)' = hist'[l][n]
  BY <1>6 DEF Asked
<1> DEFINE call == hist[l][n].call
           published == [k \in Live |-> hist[k][n].call.val]
<1>9. hist'[l][n] =
        [call |-> call, done |-> TRUE, mask |-> Live, res |-> Answer(call, Live, vals)]
  BY <1>5, <1>8, ReadHist
<1>10. \A k \in Live : hist'[k][n].call = hist[k][n].call
  BY <1>2, <1>7, <1>9
<1>11. \A k \in Live : hist[k][n].call.op = call.op
  BY <1>1, <1>2, <1>4 DEF ExchangingIn
<1>12. call.op # "SyncWarp" => \A k \in Live : vals[k] = published[k]
  <2>1. ASSUME NEW k \in Live, call.op # "SyncWarp" PROVE vals[k] = hist[k][n].call.val
    <3>1. Len(hist[k]) = n
      BY <1>4 DEF ExchangingIn
    <3>2. hist[k] # <<>>
      BY <1>6, <3>1, EmptySeq
    <3>3. Asked(k) = hist[k][n]
      BY <3>1 DEF Asked
    <3>4. Asked(k).call.op # "SyncWarp"
      BY <1>11, <2>1, <3>3
    <3> QED
      BY <1>2, <3>2, <3>3, <3>4 DEF OwnSlots
  <2> QED
    BY <2>1
<1>13. Answer(call, Live, vals) = Answer(call, Live, published)
  <2>1. call.op \in {"Shuffle", "Vote", "SyncWarp"}
    <3>1. hist[l] \in Seq(Entries) /\ n \in 1..Len(hist[l])
      BY <1>6 DEF TypeOK
    <3>2. hist[l][n] \in Entries
      BY <3>1, ElementOfSeq
    <3> QED
      BY <3>2, CallsAssumption DEF Entries
  <2> HIDE DEF call, published
  <2>2. CASE call.op = "SyncWarp"
    BY <2>2 DEF Answer
  <2>3. CASE call.op = "Shuffle"
    BY <2>3, <1>12 DEF Answer
  <2>4. CASE call.op = "Vote"
    BY <2>4, <1>12 DEF Answer
  <2> QED
    BY <2>1, <2>2, <2>3, <2>4
<1>14. [k \in Live |-> hist'[k][n].call.val] = published
  BY <1>10
<1>15. hist'[l][n].done /\ SameCall(l, n, Live)'
  <2>1. /\ hist'[l][n].done /\ hist'[l][n].mask = Live
        /\ hist'[l][n].call = call /\ hist'[l][n].res = Answer(call, Live, published)
    BY <1>9, <1>13
  <2>2. \A k \in Live : hist'[k][n].call.op = hist'[l][n].call.op
    BY <1>10, <1>11, <2>1
  <2> HIDE DEF call, published
  <2>3. hist'[l][n].res =
          Answer(hist'[l][n].call, Live, [k \in Live |-> hist'[k][n].call.val])
    BY <1>14, <2>1
  <2> QED
    BY <1>2, <2>1, <2>2, <2>3 DEF SameCall
<1> HIDE DEF call, published
<1>16. ASSUME NEW k \in Live, ~ Asking(k)', k # l
       PROVE  hist'[k][n].done /\ SameCall(k, n, Live)'
  <2>1. hist[k][n].done /\ SameCall(k, n, Live) /\ hist'[k] = hist[k]
    BY <1>2, <1>4, <1>7, <1>16 DEF ExchangingIn
  <2>2. SameCall(k, n, Live)' <=> SameCall(k, n, Live)
    <3>1. [j \in Live |-> hist'[j][n].call.val] = [j \in Live |-> hist[j][n].call.val]
      BY <1>10
    <3> QED
      BY <1>2, <1>10, <2>1, <3>1 DEF SameCall
  <2> QED
    BY <2>1, <2>2
<1>17. \A k \in Live : pc'[k] = "read" =>
         \A j \in Live : hist'[j][n].call.op = hist'[k][n].call.op
  BY <1>10, <1>11
<1>18. ASSUME NEW i \in 1..(n - 1) PROVE Over(i)'
  <2>1. i \in Nat /\ i \in 1..n /\ i # n /\ n >= i
    BY <1>6
  <2>2. \A k \in Lane : /\ Len(hist'[k]) >= i <=> Len(hist[k]) >= i
                        /\ Len(hist[k]) >= i => hist'[k][i] = hist[k][i]
    BY <1>6, <1>7, <2>1
  <2> QED
    BY <1>4, <2>1, <2>2, OverStays DEF ExchangingIn
<1>19. /\ \A k \in Live : ~ Before(k)' /\ Len(hist'[k]) = n
       /\ \A k \in Lane \ Live : Len(hist'[k]) < n
  BY <1>2, <1>4, <1>6, <1>7 DEF ExchangingIn
<1>20. \A k \in Live : ~ Asking(k)' => hist'[k][n].done /\ SameCall(k, n, Live)'
  BY <1>15, <1>16
<1>21. ExchangingIn(n)'
  BY <1>2, <1>17, <1>18, <1>19, <1>20 DEF ExchangingIn
<1> QED
  BY <1>21

-----------------------------------------------------------------------------
(* The invariant holds at the start, ... *)
LEMMA InitIInv == Init => IInv
<1> SUFFICES ASSUME Init PROVE IInv
  OBVIOUS
<1>1. Cardinality(Lane) \in Nat /\ IsFiniteSet(Lane)
  BY LaneAssumption, FS_CardinalityType
<1>2. Live = Lane /\ InMeet = {} /\ InPart = {}
  BY DEF Init, Live, InMeet, InPart
<1>3. /\ bar = [n |-> Cardinality(Lane), count |-> 0, mask |-> {}, cur |-> 0,
           opened |-> <<>>]
      /\ hist = [l \in Lane |-> <<>>]
  BY DEF Init, NewWarpBarrier
<1>4. TypeOK
  <2>1. bar \in [n : Nat, count : Nat, mask : SUBSET Lane, cur : Nat, opened :
          Seq(SUBSET Lane)]
        /\ Len(bar.opened) = bar.cur
    BY <1>1, <1>3
  <2>2. hist \in [Lane -> Seq(Entries)] /\ \A l \in Lane : Len(hist[l]) <= MaxCalls
    BY <1>3, BoundsAssumption
  <2>3. /\ vals \in [Lane -> Values]
        /\ ops \in [Lane -> {NoOp, "Shuffle", "Vote", "SyncWarp"}]
        /\ pc \in [Lane -> Locations]
    BY DEF Init, Values, Locations
  <2>4. gen \in [Lane -> Nat] /\ got \in [Lane -> SUBSET Lane]
    BY DEF Init
  <2>5. /\ fail \in {"none", "stall", "mismatch"}
        /\ timers \in 0..MaxTimers
    BY BoundsAssumption DEF Init
  <2>6. partGaveUp \in BOOLEAN
    BY Zenon DEF Init
  <2> QED
    BY <2>1, <2>2, <2>3, <2>4, <2>5, <2>6, Zenon DEF TypeOK
<1>5. MaskExact
  BY <1>2, <1>3, FS_EmptySet DEF MaskExact
<1>6. GenBound
  BY <1>3 DEF GenBound, Init
<1>7. OwnSlots
  BY <1>3 DEF OwnSlots, Asking, Init
<1>8. OneSide
  BY <1>2 DEF OneSide, Gathering, Before, Init
<1>9. InRounds
  <2>1. GatheringAfter(0)
    BY <1>2, <1>3 DEF GatheringAfter, Before, Asking, Init
  <2> QED
    BY <2>1, BoundsAssumption DEF InRounds
<1> QED
  BY <1>4, <1>5, <1>6, <1>7, <1>8, <1>9 DEF IInv

(* ... is kept by every step of a lane, ... *)
LEMMA StepIInv ==
  ASSUME IInv, NEW l \in Lane, Step(l)
  PROVE  IInv'
<1> USE DEF IInv
<1>1. CASE Publish(l)
  BY <1>1, PublishCore, PublishOwns, PublishSide, PublishRound
<1>2. CASE Arrival(l)
  BY <1>2, ArrivalCore, AskingOnlyEnds, SlotsStayOwn, ArrivalSide, ArrivalRound
<1>3. CASE Wake(l) \/ ExpireReleased(l)
  BY <1>3, ReleasedCore, AskingOnlyEnds, SlotsStayOwn, ReleasedSide, ReleasedRound
<1>4. CASE TimerFires(l)
  BY <1>4, TimerFiresCore, AskingOnlyEnds, SlotsStayOwn, QuietSide, ReleasedRound
<1>5. CASE MeetGivesUp(l)
  BY <1>5, GivesUpCore, AskingOnlyEnds, SlotsStayOwn, MeetGivesUpSide, GivesUpRound
<1>6. CASE PartGivesUp(l)
  BY <1>6, GivesUpCore, AskingOnlyEnds, SlotsStayOwn, PartGivesUpSide, GivesUpRound
<1>7. CASE Check(l)
  BY <1>7, CheckReadCore, AskingOnlyEnds, SlotsStayOwn, QuietSide, CheckRound
<1>8. CASE Read(l)
  BY <1>8, CheckReadCore, ReadOwns, QuietSide, ReadRound
<1>9. CASE Leave(l)
  BY <1>9, LeaveCore, AskingOnlyEnds, SlotsStayOwn, LeaveSide, LeaveRound
<1> QED
  BY <1>1, <1>2, <1>3, <1>4, <1>5, <1>6, <1>7, <1>8, <1>9 DEF Step

(* ... and by no step at all. *)
LEMMA StutterIInv ==
  ASSUME IInv, UNCHANGED vars
  PROVE  IInv'
<1> USE DEF vars, shared
<1>1. TypeOK' /\ MaskExact' /\ GenBound' /\ OwnSlots'
  BY DEF IInv, TypeOK, MaskExact, GenBound, OwnSlots, Live, InMeet, InPart, Asking,
         Asked
<1>2. /\ Live' = Live
      /\ \A k \in Lane : /\ Before(k)' <=> Before(k)
                         /\ Asking(k)' <=> Asking(k)
                         /\ Reading(k)' <=> Reading(k)
  BY DEF Live, Before, Asking, Reading
<1>3. OneSide'
  BY <1>2, Shape DEF IInv, OneSide, Gathering, Exchanging
<1>4. InRounds'
  BY <1>2, Shape, RoundStays DEF IInv, Quiet
<1> QED
  BY <1>1, <1>3, <1>4 DEF IInv

-----------------------------------------------------------------------------
(* The strengthened invariant of a warp, for every warp, every set of calls
   and any number of timeouts. *)
THEOREM Invariance == Spec => []IInv
<1>1. IInv /\ [Next]_vars => IInv'
  BY StepIInv, StutterIInv DEF Next
<1> QED
  BY <1>1, InitIInv, PTL DEF Spec

(* Every variable keeps its type. *)
THEOREM TypeCorrect == Spec => []TypeOK
<1>1. IInv => TypeOK
  BY DEF IInv
<1> QED
  BY <1>1, Invariance, PTL

(* warpBarrier's count, mask and n agree with where the lanes are, and an
   assembled generation is released, under every timeout and departure. *)
THEOREM MaskIsExact == Spec => []MaskExact
<1>1. IInv => MaskExact
  BY DEF IInv
<1> QED
  BY <1>1, Invariance, PTL

(* As long as no part gave up, a lane in the first wait of a call is never
   counted together with one in the second. *)
THEOREM PhasesStayApart == Spec => []PhasesApart
<1>1. IInv => PhasesApart
  <2>1. Gathering => InPart = {}
    BY DEF Gathering, Before, InPart, Live
  <2>2. Exchanging => InMeet = {}
    BY DEF Exchanging, Before, InMeet, Live
  <2> QED
    BY <2>1, <2>2 DEF IInv, OneSide, PhasesApart
<1> QED
  BY <1>1, Invariance, PTL

(* As long as no part gave up, no step rewrites a slot of the mask a lane is
   reading through (warpState.part). *)
THEOREM SlotsHoldStill == Spec => SlotsStable
<1>1. IInv /\ [Next]_vars => [~ partGaveUp => SlotsHold]_vars
  <2> SUFFICES ASSUME IInv, Next, ~ partGaveUp
               PROVE  SlotsHold
    OBVIOUS
  <2>1. PICK l \in Lane : Step(l)
    BY DEF Next
  <2>2. CASE Publish(l)
    <3>1. l \in Live /\ Before(l)
      BY <2>2 DEF Publish, Live, Before
    <3>2. Gathering
      BY <3>1, Sides DEF IInv
    <3>3. \A k \in Lane : ~ Reading(k)
      BY <3>2 DEF Gathering, Before, Reading, Live
    <3> QED
      BY <3>3 DEF SlotsHold
  <2>3. CASE ~ Publish(l)
    <3>1. UNCHANGED <<vals, ops>>
      BY <2>1, <2>3, AskingOnlyEnds DEF IInv, Step, Read, shared
    <3> QED
      BY <3>1 DEF SlotsHold
  <2> QED
    BY <2>2, <2>3
<1> QED
  BY <1>1, Invariance, PTL DEF Spec, SlotsStable

(* Rounds are what silence promises. *)
LEMMA RoundsAreLockstep == IInv => SilenceMeansLockstep
<1> SUFFICES ASSUME IInv, ~ partGaveUp, NEW i \in 1..MaxCalls, fail = "none",
                    NEW l \in Reached(i), hist[l][i].done
             PROVE  SameCall(l, i, Reached(i))
  BY DEF SilenceMeansLockstep, LockstepCall, SameCall
<1>0. MaxCalls \in Nat /\ i \in Nat /\ i # 0
  BY BoundsAssumption
<1>1. TypeOK /\ OwnSlots /\ Quiet /\ l \in Lane /\ Len(hist[l]) >= i
  BY DEF IInv, Quiet, Reached
<1>2. \A k \in Lane : Len(hist[k]) \in Nat
  BY <1>1, Counted
<1>3. PICK n \in 0..MaxCalls : GatheringAfter(n) \/ ExchangingIn(n)
  BY <1>1 DEF IInv, InRounds, Quiet
<1>4. n \in Nat
  BY <1>0
<1>5. CASE Over(i)
  BY <1>5 DEF Over
<1>6. CASE ~ Over(i) /\ GatheringAfter(n)
  <2>1. i > n
    BY <1>0, <1>4, <1>6 DEF GatheringAfter
  <2>2. l \in Live
    BY <1>1, <1>2, <1>4, <1>6, <2>1, <1>0 DEF GatheringAfter
  <2>3. Asking(l) /\ Len(hist[l]) = n + 1 /\ i = n + 1
    BY <1>0, <1>1, <1>4, <1>6, <2>1, <2>2 DEF GatheringAfter
  <2>4. ~ hist[l][i].done
    BY <1>1, <2>3 DEF OwnSlots, Asked
  <2> QED
    BY <2>4
<1>7. CASE ~ Over(i) /\ ExchangingIn(n)
  <2>1. i >= n
    BY <1>0, <1>4, <1>7 DEF ExchangingIn
  <2>2. l \in Live /\ i = n
    BY <1>0, <1>1, <1>2, <1>4, <1>7, <2>1 DEF ExchangingIn
  <2>3. ~ Asking(l)
    BY <1>1, <1>7, <2>2 DEF OwnSlots, Asked, ExchangingIn
  <2>4. Reached(i) = Live
    BY <1>0, <1>2, <1>4, <1>7, <2>2, Shape DEF Reached, ExchangingIn
  <2> QED
    BY <1>7, <2>2, <2>3, <2>4 DEF ExchangingIn
<1> QED
  BY <1>3, <1>5, <1>6, <1>7

(* Nothing reported and no part given up: the i-th calls of all lanes are
   one collective call, each answered from the values published for it. *)
THEOREM SilenceIsLockstep == Spec => []SilenceMeansLockstep
BY RoundsAreLockstep, Invariance, PTL
=============================================================================
