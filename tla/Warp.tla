-------------------------------- MODULE Warp --------------------------------
(***************************************************************************)
(* One warp of package gpu: the lanes of warpState and their collective    *)
(* calls.  A call publishes the lane's operation and value, meets the warp *)
(* (first wait), checks that everybody came for the same operation, reads  *)
(* its siblings' slots, and parts (second wait).  A shuffle reads the slot *)
(* of one source lane; which one each Shuffle method computes is arithmetic*)
(* and left to the caller.  A vote reads the slots of every lane that came.*)
(***************************************************************************)
EXTENDS Barriers, FiniteSets

CONSTANTS
  Lane,       \* the lanes this warp started with, numbers below WarpSize
  Calls,      \* what a lane may call: [op, src, val]
  MaxCalls,   \* bound: collective calls one lane makes
  MaxTimers   \* bound: timers that fire, over all lanes

ASSUME LaneAssumption == IsFiniteSet(Lane) /\ Lane # {}
ASSUME CallsAssumption ==
  \A c \in Calls : c.op \in {"Shuffle", "Vote", "SyncWarp"}
ASSUME BoundsAssumption == MaxCalls \in Nat /\ MaxTimers \in Nat

VARIABLES
  bar,         \* warpState.bar
  vals,        \* warpState.vals
  ops,         \* warpState.ops
  fail,        \* blockState.fail, by kind: the first diagnosis wins
  pc,          \* where each lane is in its call
  gen,         \* the `gen := b.cur' of each lane's last wait
  got,         \* the mask its last meet returned
  timers,      \* how many timers have fired
  partGaveUp,  \* some part returned false, which nobody looks at (history)
  hist         \* per lane, its calls so far and what they returned (history)

shared == <<bar, vals, ops, fail>>
vars == <<shared, pc, gen, got, timers, partGaveUp, hist>>

NoOp == "none"

Init ==
  /\ bar = NewWarpBarrier(Cardinality(Lane))
  /\ vals = [l \in Lane |-> 0]
  /\ ops = [l \in Lane |-> NoOp]
  /\ fail = "none"
  /\ pc = [l \in Lane |-> "kernel"]
  /\ gen = [l \in Lane |-> 0]
  /\ got = [l \in Lane |-> {}]
  /\ timers = 0
  /\ partGaveUp = FALSE
  /\ hist = [l \in Lane |-> <<>>]

Goto(l, where) == pc' = [pc EXCEPT ![l] = where]

Report(kind) == fail' = IF fail = "none" THEN kind ELSE fail

(* shuffle, vote and SyncWarp up to the first wait: w.vals and w.ops are   *)
(* written without a lock, each lane its own slots.                        *)
Publish(l) ==
  /\ pc[l] = "kernel"
  /\ Len(hist[l]) < MaxCalls
  /\ \E c \in Calls :
       /\ vals' = IF c.op = "SyncWarp" THEN vals ELSE [vals EXCEPT ![l] = c.val]
       /\ ops' = [ops EXCEPT ![l] = c.op]
       /\ hist' = [hist EXCEPT ![l] = Append(@, [call |-> c, done |-> FALSE,
                                                 mask |-> {}, res |-> {}])]
  /\ Goto(l, "meet")
  /\ UNCHANGED <<bar, fail, gen, got, timers, partGaveUp>>

(* The two waits of a call: meet at `meet', part at `part'. *)
Sleeping == [meet |-> "meetWait", part |-> "partWait"]
Passed == [meet |-> "check", part |-> "kernel",
           meetWait |-> "check", partWait |-> "kernel",
           meetExpired |-> "check", partExpired |-> "kernel"]

(* warpBarrier.wait up to the unlock. *)
Arrival(l) ==
  /\ pc[l] \in {"meet", "part"}
  /\ bar' = WarpArrive(bar, l)
  /\ gen' = [gen EXCEPT ![l] = bar.cur]
  /\ IF bar'.cur = bar.cur
       THEN Goto(l, Sleeping[pc[l]]) /\ UNCHANGED got
       ELSE /\ Goto(l, Passed[pc[l]])
            /\ got' = [got EXCEPT ![l] = IF pc[l] = "meet"
                                         THEN OpenedMask(bar', bar.cur) ELSE @]
  /\ UNCHANGED <<vals, ops, fail, timers, partGaveUp, hist>>

(* A wait that was released: the mask is the generation's own. *)
Released(l) ==
  /\ gen[l] # bar.cur
  /\ Goto(l, Passed[pc[l]])
  /\ got' = [got EXCEPT ![l] = IF pc[l] \in {"meetWait", "meetExpired"}
                               THEN OpenedMask(bar, gen[l]) ELSE @]
  /\ UNCHANGED <<shared, gen, timers, partGaveUp, hist>>

Wake(l) == pc[l] \in {"meetWait", "partWait"} /\ Released(l)

(* case <-timer.C, which select may take even on a closed channel. *)
TimerFires(l) ==
  /\ pc[l] \in {"meetWait", "partWait"}
  /\ timers < MaxTimers
  /\ timers' = timers + 1
  /\ Goto(l, IF pc[l] = "meetWait" THEN "meetExpired" ELSE "partExpired")
  /\ UNCHANGED <<shared, gen, got, partGaveUp, hist>>

ExpireReleased(l) == pc[l] \in {"meetExpired", "partExpired"} /\ Released(l)

MeetGivesUpGoesOn(l) ==      \* faulty: its caller ignores the answer
  /\ pc[l] = "meetExpired"
  /\ gen[l] = bar.cur
  /\ bar' = WarpTakeBack(bar, l)
  /\ Report("stall")
  /\ Goto(l, "check")
  /\ UNCHANGED <<vals, ops, gen, got, timers, partGaveUp, hist>>

(* A meet that timed out reports, and the call returns something harmless. *)
MeetGivesUp(l) ==
  /\ pc[l] = "meetExpired"
  /\ gen[l] = bar.cur
  /\ bar' = WarpTakeBack(bar, l)
  /\ Report("stall")
  /\ Goto(l, "kernel")
  /\ UNCHANGED <<vals, ops, gen, got, timers, partGaveUp, hist>>

(* A part that timed out returns like one that did not: nobody looks. *)
PartGivesUp(l) ==
  /\ pc[l] = "partExpired"
  /\ gen[l] = bar.cur
  /\ bar' = WarpTakeBack(bar, l)
  /\ partGaveUp' = TRUE
  /\ Goto(l, "kernel")
  /\ UNCHANGED <<vals, ops, fail, gen, got, timers, hist>>

CheckNothing(l) ==           \* faulty: the operations are not compared
  /\ pc[l] = "check"
  /\ Goto(l, "read")
  /\ UNCHANGED <<shared, gen, got, timers, partGaveUp, hist>>

(* The rest of meet: did everybody in the mask come for the same call? *)
Check(l) ==
  /\ pc[l] = "check"
  /\ IF \E k \in got[l] : ops[k] # ops[l] THEN Report("mismatch") ELSE UNCHANGED fail
  /\ Goto(l, "read")
  /\ UNCHANGED <<bar, vals, ops, gen, got, timers, partGaveUp, hist>>

(* What a call answers, given who came and what is in the slots: a shuffle *)
(* the source's value, or its own for an absent source; a vote, the lanes  *)
(* that said yes.                                                          *)
Answer(call, present, slot) ==
  CASE call.op = "Shuffle" ->
         {IF call.src \in present THEN slot[call.src] ELSE call.val}
    [] call.op = "Vote" -> {k \in present : slot[k] # 0}
    [] OTHER -> {}

ReadWithoutPart(l) ==        \* faulty: no second wait
  /\ pc[l] = "read"
  /\ LET i == Len(hist[l])
         call == hist[l][i].call
     IN hist' = [hist EXCEPT ![l][i] =
                   [call |-> call, done |-> TRUE, mask |-> got[l],
                    res |-> Answer(call, got[l], vals)]]
  /\ Goto(l, "kernel")
  /\ UNCHANGED <<shared, gen, got, timers, partGaveUp>>

Read(l) ==
  /\ pc[l] = "read"
  /\ LET i == Len(hist[l])
         call == hist[l][i].call
     IN hist' = [hist EXCEPT ![l][i] =
                   [call |-> call, done |-> TRUE, mask |-> got[l],
                    res |-> Answer(call, got[l], vals)]]
  /\ Goto(l, "part")
  /\ UNCHANGED <<shared, gen, got, timers, partGaveUp>>

(* The deferred warp.bar.abandon() of a thread that returned or panicked. *)
Leave(l) ==
  /\ pc[l] = "kernel"
  /\ bar' = WarpAbandon(bar)
  /\ Goto(l, "left")
  /\ UNCHANGED <<vals, ops, fail, gen, got, timers, partGaveUp, hist>>

Step(l) ==
  \/ Publish(l) \/ Arrival(l) \/ Wake(l) \/ TimerFires(l) \/ ExpireReleased(l)
  \/ MeetGivesUp(l) \/ PartGivesUp(l) \/ Check(l) \/ Read(l) \/ Leave(l)

Next == \E l \in Lane : Step(l)

Spec == Init /\ [][Next]_vars

----------------------------------------------------------------------------
Locations ==
  {"kernel", "meet", "meetWait", "meetExpired", "check", "read", "part",
   "partWait", "partExpired", "left"}

Values == {0} \union {c.val : c \in Calls}
Entries == [call : Calls, done : BOOLEAN, mask : SUBSET Lane, res : SUBSET (Lane \union Values)]

TypeOK ==
  /\ bar \in [n : Nat, count : Nat, mask : SUBSET Lane, cur : Nat, opened : Seq(SUBSET Lane)]
  /\ Len(bar.opened) = bar.cur
  /\ vals \in [Lane -> Values]
  /\ ops \in [Lane -> {NoOp, "Shuffle", "Vote", "SyncWarp"}]
  /\ fail \in {"none", "stall", "mismatch"}
  /\ pc \in [Lane -> Locations]
  /\ gen \in [Lane -> Nat]
  /\ got \in [Lane -> SUBSET Lane]
  /\ timers \in 0..MaxTimers
  /\ partGaveUp \in BOOLEAN
  /\ hist \in [Lane -> Seq(Entries)]
  /\ \A l \in Lane : Len(hist[l]) <= MaxCalls

Live == {l \in Lane : pc[l] # "left"}
InMeet == {l \in Lane : pc[l] \in {"meetWait", "meetExpired"} /\ gen[l] = bar.cur}
InPart == {l \in Lane : pc[l] \in {"partWait", "partExpired"} /\ gen[l] = bar.cur}

(* Count, mask and n are exact whenever the mutex is free, under every     *)
(* timeout and departure, and no assembled generation is left unreleased   *)
(* (warpBarrier.wait, abandon, releaseLocked).                             *)
MaskExact ==
  /\ bar.mask = InMeet \union InPart
  /\ bar.count = Cardinality(bar.mask)
  /\ bar.n = Cardinality(Live)
  /\ bar.mask # {} => bar.mask # Live

(* The two rendezvous of a call never assemble from each other's lanes: as *)
(* long as no part gave up, a lane waiting in meet is not joined by one    *)
(* waiting in part.                                                        *)
PhasesApart == ~ partGaveUp => InMeet = {} \/ InPart = {}

(* While a lane is reading, no sibling of its mask rewrites a slot: `nobody*)
(* leaves until everybody has read' (warpState.part).                      *)
Reading(l) == pc[l] \in {"check", "read"}

SlotsHold ==
  \A l \in Lane : Reading(l) =>
    \A k \in got[l] : vals'[k] = vals[k] /\ ops'[k] = ops[k]

SlotsStable == [][~ partGaveUp => SlotsHold]_vars

(* Silence means lockstep: while nothing was reported and no part gave up, *)
(* the i-th calls of all lanes are one collective call.  Everybody who     *)
(* came is in each other's mask, performs the same operation, and gets the *)
(* answer computed from the values published for that very call.           *)
Reached(i) == {l \in Lane : Len(hist[l]) >= i}

LockstepCall(i) ==
  LET here == Reached(i)
      published == [l \in here |-> hist[l][i].call.val]
  IN \A l \in here :
       hist[l][i].done /\ fail = "none" =>
         /\ hist[l][i].mask = here
         /\ \A k \in here : hist[k][i].call.op = hist[l][i].call.op
         /\ hist[l][i].res = Answer(hist[l][i].call, here, published)

SilenceMeansLockstep ==
  ~ partGaveUp => \A i \in 1..MaxCalls : LockstepCall(i)

----------------------------------------------------------------------------
(* What carries all of this from step to step, for any warp, any calls and *)
(* any number of timers.                                                   *)
GenBound == \A l \in Lane : gen[l] <= bar.cur

(* A lane's slots hold its latest call, whose answer is open until the     *)
(* lane has read.                                                          *)
Asking(l) == pc[l] \in {"meet", "meetWait", "meetExpired", "check", "read"}
Asked(l) == hist[l][Len(hist[l])]

OwnSlots ==
  \A l \in Lane :
    /\ Asking(l) => hist[l] # <<>> /\ ~ Asked(l).done
    /\ hist[l] # <<>> =>
         /\ ops[l] = Asked(l).call.op
         /\ Asked(l).call.op # "SyncWarp" => vals[l] = Asked(l).call.val

(* A lane is before a collective call's exchange until its meet has        *)
(* assembled, and again as soon as its part has; as long as no part gives  *)
(* up, the whole warp is on one side, and past the meet with one mask.     *)
Before(l) ==
  \/ pc[l] \in {"kernel", "meet"}
  \/ pc[l] \in {"meetWait", "meetExpired"} /\ gen[l] = bar.cur
  \/ pc[l] \in {"partWait", "partExpired"} /\ gen[l] # bar.cur

Gathering == \A l \in Live : Before(l)

Exchanging ==
  \A l \in Live :
    /\ ~ Before(l)
    /\ Reading(l) => got[l] = Live
    /\ pc[l] \in {"meetWait", "meetExpired"} =>
         gen[l] + 1 = bar.cur /\ bar.opened[bar.cur] = Live

OneSide == ~ partGaveUp => Gathering \/ Exchanging

(* The i-th call is over, and was one collective call. *)
SameCall(l, i, here) ==
  /\ hist[l][i].mask = here
  /\ \A k \in here : hist[k][i].call.op = hist[l][i].call.op
  /\ hist[l][i].res = Answer(hist[l][i].call, here, [k \in here |-> hist[k][i].call.val])

Over(i) == \A l \in Reached(i) : hist[l][i].done /\ SameCall(l, i, Reached(i))

(* The warp has finished n calls and gathers for the next, or exchanges in *)
(* its n-th; who left did so before.                                       *)
GatheringAfter(n) ==
  /\ \A l \in Live : Before(l) /\ Len(hist[l]) = IF Asking(l) THEN n + 1 ELSE n
  /\ \A l \in Lane \ Live : Len(hist[l]) <= n
  /\ \A i \in 1..n : Over(i)

ExchangingIn(n) ==
  /\ \A l \in Live : ~ Before(l) /\ Len(hist[l]) = n
  /\ \A l \in Lane \ Live : Len(hist[l]) < n
  /\ \A i \in 1..(n - 1) : Over(i)
  /\ \A l \in Live :
       /\ pc[l] = "read" => \A k \in Live : hist[k][n].call.op = hist[l][n].call.op
       /\ ~ Asking(l) => hist[l][n].done /\ SameCall(l, n, Live)

InRounds ==
  ~ partGaveUp /\ fail = "none" =>
    \E n \in 0..MaxCalls : GatheringAfter(n) \/ ExchangingIn(n)

IInv ==
  /\ TypeOK
  /\ MaskExact
  /\ GenBound
  /\ OwnSlots
  /\ OneSide
  /\ InRounds
=============================================================================
