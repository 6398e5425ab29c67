-------------------------------- MODULE Block --------------------------------
(***************************************************************************)
(* gpu.runBlock: the threads of one block, each a goroutine with a kernel  *)
(* body that makes whatever calls it likes, over the block barrier, one    *)
(* barrier per warp, the shared tiles and the one diagnosis of the block.  *)
(* The steps inside a warp call are those of module Warp, coarsened: the   *)
(* slots are written with the arrival in meet, and checked and read with   *)
(* the arrival in part.  A wait and what its caller does with the answer   *)
(* (report) are one step, and so is a timer with its critical section: the *)
(* races between those are Barrier's and Warp's.                           *)
(*                                                                         *)
(* Time.  A timer is five seconds and a step is not, so a timer that fires *)
(* is one of two kinds: its waiter was there when every thread of the      *)
(* block was blocked (overdue), or some thread was simply slow (early).    *)
(***************************************************************************)
EXTENDS Barriers, FiniteSets

CONSTANTS
  Thread,      \* the threads of the block
  Warp,        \* its warps
  WarpOf,      \* the warp of each thread: t/WarpSize
  Calls,       \* what a kernel may call: [kind, arg]
  DynSized,    \* blockState.dynSized: the launch sized the dynamic tile
  May,         \* bound: the calls each thread may make, first, second, ...
  MaxEarly     \* bound: timers that fire on a slow sibling

ASSUME ThreadAssumption ==
  /\ IsFiniteSet(Thread) /\ Thread # {}
  /\ WarpOf \in [Thread -> Warp]
(* A call is its kind and its argument, and SyncThreads takes none. *)
ASSUME CallsAssumption ==
  /\ \A c \in Calls : c.kind \in {"sync", "warp", "tile", "dynTile", "assume", "panic"}
  /\ \A c, d \in Calls :
       c.kind = d.kind /\ (c.kind = "sync" \/ c.arg = d.arg) => c = d
  /\ DynSized \in BOOLEAN
  /\ May \in [Thread -> Seq(SUBSET Calls)]
  /\ MaxEarly \in Nat

VARIABLES
  bar,        \* blockState.bar
  wbar,       \* warpState.bar of every warp
  ops,        \* warpState.ops, by thread
  slabs,      \* blockState.slabs: what each shared tile was built as
  seq,        \* threadState.seq
  fail,       \* blockState.fail, by kind
  pc,         \* where each thread is
  gen,        \* the generation each thread last waited in
  verdict,    \* what runBlock returned, "running" until then
  overdue,    \* waiters that were there when everybody was blocked
  early,      \* timers that fired on a waiter not overdue (history)
  partGaveUp, \* some part gave up (history)
  hist        \* what calls each thread has begun (history)

barriers == <<bar, wbar>>
timing == <<overdue, early, partGaveUp>>
vars == <<barriers, ops, slabs, seq, fail, pc, gen, verdict, timing, hist>>

Mates(w) == {t \in Thread : WarpOf[t] = w}

(* Of the calls of a thread: how many, whether one was wrong whatever the  *)
(* siblings do, its barrier and warp calls, and the tiles it asked for.    *)
NothingYet == [begun |-> 0, wrong |-> FALSE, collective |-> <<>>, tiles |-> <<>>]

Wrong(c) ==
  \/ c.kind = "panic"
  \/ c.kind = "assume" /\ c.arg # Cardinality(Thread)
  \/ c.kind = "dynTile" /\ ~ DynSized
Collective(c) == c.kind \in {"sync", "warp"}
Shared(c) == c.kind = "tile" \/ (c.kind = "dynTile" /\ DynSized)

Note(h, c) ==
  [begun |-> h.begun + 1,
   wrong |-> h.wrong \/ Wrong(c),
   collective |-> IF Collective(c) THEN Append(h.collective, c) ELSE h.collective,
   tiles |-> IF Shared(c) THEN Append(h.tiles, c.arg) ELSE h.tiles]

Init ==
  /\ bar = NewBarrier(Cardinality(Thread))
  /\ wbar = [w \in Warp |-> NewWarpBarrier(Cardinality(Mates(w)))]
  /\ ops = [t \in Thread |-> "none"]
  /\ slabs = <<>>
  /\ seq = [t \in Thread |-> 0]
  /\ fail = "none"
  /\ pc = [t \in Thread |-> "kernel"]
  /\ gen = [t \in Thread |-> 0]
  /\ verdict = "running"
  /\ overdue = {}
  /\ early = 0
  /\ partGaveUp = FALSE
  /\ hist = [t \in Thread |-> NothingYet]

Goto(t, where) == pc' = [pc EXCEPT ![t] = where]

(* reportLocked: the first diagnosis wins. *)
ReportIf(wrong, kind) ==
  fail' = IF wrong /\ fail = "none" THEN kind ELSE fail

(* A thread in its kernel begins a call. *)
Begin(t, call) ==
  /\ pc[t] = "kernel"
  /\ hist[t].begun < Len(May[t])
  /\ call \in May[t][hist[t].begun + 1]
  /\ hist' = [hist EXCEPT ![t] = Note(@, call)]

(* A wait is over when its generation is closed; that of the last to       *)
(* arrive is closed at once.                                               *)
Generation(t) == IF pc[t] = "sync" THEN bar.cur ELSE wbar[WarpOf[t]].cur
Blocked(t) == pc[t] \in {"sync", "meet", "part"} /\ gen[t] = Generation(t)
Freed(t, at) == pc[t] = at /\ ~ Blocked(t)

(* The waits whose timers are running, when nobody in the block can move:  *)
(* only now does time pass.                                                *)
Stalled == \E t \in Thread : Blocked(t)
Stall ==
  /\ Stalled
  /\ \A t \in Thread : Blocked(t) \/ pc[t] = "done"
  /\ overdue' = {t \in Thread : Blocked(t)}
  /\ overdue' # overdue
  /\ UNCHANGED <<barriers, ops, slabs, seq, fail, pc, gen, verdict, early,
                 partGaveUp, hist>>

WakesUp(t) == overdue' = overdue \ {t} /\ UNCHANGED <<early, partGaveUp>>

NoTimer(t, at) == FALSE   \* faulty: a wait has no timer

TimedOut(t, at) ==
  /\ pc[t] = at
  /\ Blocked(t)
  /\ \/ t \in overdue /\ UNCHANGED early
     \/ t \notin overdue /\ early < MaxEarly /\ early' = early + 1
  /\ overdue' = overdue \ {t}

----------------------------------------------------------------------------
(* Ctx.SyncThreads *)
SyncThreads(t) ==
  /\ \E c \in Calls : c.kind = "sync" /\ Begin(t, c)
  /\ bar' = Arrive(bar)
  /\ gen' = [gen EXCEPT ![t] = bar.cur]
  /\ Goto(t, "sync")
  /\ UNCHANGED <<wbar, ops, slabs, seq, fail, verdict, timing>>

SyncReturns(t) ==
  /\ Freed(t, "sync")
  /\ Goto(t, "kernel")
  /\ WakesUp(t)
  /\ UNCHANGED <<barriers, ops, slabs, seq, fail, gen, verdict, hist>>

SyncGivesUp(t) ==
  /\ TimedOut(t, "sync")
  /\ bar' = TakeBack(bar)
  /\ ReportIf(TRUE, "blockStall")
  /\ Goto(t, "kernel")
  /\ UNCHANGED <<wbar, ops, slabs, seq, gen, verdict, partGaveUp, hist>>

(* A warp call: meet, check who came for what, part. *)
Meet(t) ==
  /\ \E c \in Calls : /\ c.kind = "warp"
                      /\ Begin(t, c)
                      /\ ops' = [ops EXCEPT ![t] = c.arg]
  /\ wbar' = [wbar EXCEPT ![WarpOf[t]] = WarpArrive(@, t)]
  /\ gen' = [gen EXCEPT ![t] = wbar[WarpOf[t]].cur]
  /\ Goto(t, "meet")
  /\ UNCHANGED <<bar, slabs, seq, fail, verdict, timing>>

MeetReturnsUnchecked(t) ==   \* faulty: the operations are not compared
  /\ Freed(t, "meet")
  /\ wbar' = [wbar EXCEPT ![WarpOf[t]] = WarpArrive(@, t)]
  /\ gen' = [gen EXCEPT ![t] = wbar[WarpOf[t]].cur]
  /\ Goto(t, "part")
  /\ WakesUp(t)
  /\ UNCHANGED <<bar, ops, slabs, seq, fail, verdict, hist>>

MeetReturnsEarly(t) ==       \* faulty: a mismatch returns without part
  LET b == wbar[WarpOf[t]]
      here == OpenedMask(b, gen[t])
      wrong == \E k \in here : ops[k] # ops[t]
  IN /\ Freed(t, "meet")
     /\ ReportIf(wrong, "mismatch")
     /\ wbar' = IF wrong THEN wbar ELSE [wbar EXCEPT ![WarpOf[t]] = WarpArrive(b, t)]
     /\ gen' = IF wrong THEN gen ELSE [gen EXCEPT ![t] = b.cur]
     /\ Goto(t, IF wrong THEN "kernel" ELSE "part")
     /\ WakesUp(t)
     /\ UNCHANGED <<bar, ops, slabs, seq, verdict, hist>>

MeetReturns(t) ==
  LET b == wbar[WarpOf[t]]
      here == OpenedMask(b, gen[t])
  IN /\ Freed(t, "meet")
     /\ ReportIf(\E k \in here : ops[k] # ops[t], "mismatch")
     /\ wbar' = [wbar EXCEPT ![WarpOf[t]] = WarpArrive(b, t)]
     /\ gen' = [gen EXCEPT ![t] = b.cur]
     /\ Goto(t, "part")
     /\ WakesUp(t)
     /\ UNCHANGED <<bar, ops, slabs, seq, verdict, hist>>

MeetGivesUp(t) ==
  /\ TimedOut(t, "meet")
  /\ wbar' = [wbar EXCEPT ![WarpOf[t]] = WarpTakeBack(@, t)]
  /\ ReportIf(TRUE, "warpStall")
  /\ Goto(t, "kernel")
  /\ UNCHANGED <<bar, ops, slabs, seq, gen, verdict, partGaveUp, hist>>

PartReturns(t) ==
  /\ Freed(t, "part")
  /\ Goto(t, "kernel")
  /\ WakesUp(t)
  /\ UNCHANGED <<barriers, ops, slabs, seq, fail, gen, verdict, hist>>

PartGivesUp(t) ==
  /\ TimedOut(t, "part")
  /\ wbar' = [wbar EXCEPT ![WarpOf[t]] = WarpTakeBack(@, t)]
  /\ partGaveUp' = TRUE
  /\ Goto(t, "kernel")
  /\ UNCHANGED <<bar, ops, slabs, seq, fail, gen, verdict, hist>>

(* sharedTile: the thread's next call is matched with the siblings' calls  *)
(* of the same number.  arg is the element type and the length.            *)
SharedTileUnchecked(t, arg) ==   \* faulty: hands out whatever is there
  LET i == seq[t] + 1
  IN /\ seq' = [seq EXCEPT ![t] = i]
     /\ slabs' = IF i > Len(slabs) THEN Append(slabs, arg) ELSE slabs
     /\ UNCHANGED fail

SharedTileBuilt(t, arg) ==       \* faulty: who builds a tile does not count it
  LET i == seq[t] + 1
  IN IF i > Len(slabs)
       THEN slabs' = Append(slabs, arg) /\ UNCHANGED <<seq, fail>>
       ELSE /\ seq' = [seq EXCEPT ![t] = i]
            /\ ReportIf(slabs[i] # arg, "tile")
            /\ UNCHANGED slabs

SharedTile(t, arg) ==
  LET i == seq[t] + 1
  IN /\ seq' = [seq EXCEPT ![t] = i]
     /\ IF i > Len(slabs)
          THEN slabs' = Append(slabs, arg) /\ UNCHANGED fail
          ELSE ReportIf(slabs[i] # arg, "tile") /\ UNCHANGED slabs

Tile(t) ==
  /\ \E c \in Calls : c.kind = "tile" /\ Begin(t, c) /\ SharedTile(t, c.arg)
  /\ UNCHANGED <<barriers, ops, pc, gen, verdict, timing>>

(* dynamicTile: the length is the launch's, if it gave one. *)
DynTile(t) ==
  /\ \E c \in Calls :
       /\ c.kind = "dynTile"
       /\ Begin(t, c)
       /\ IF DynSized THEN SharedTile(t, c.arg)
                      ELSE ReportIf(TRUE, "unsized") /\ UNCHANGED <<slabs, seq>>
  /\ UNCHANGED <<barriers, ops, pc, gen, verdict, timing>>

AssumeBlockDim(t) ==
  /\ \E c \in Calls : /\ c.kind = "assume"
                      /\ Begin(t, c)
                      /\ ReportIf(c.arg # Cardinality(Thread), "blockDim")
  /\ UNCHANGED <<barriers, ops, slabs, seq, pc, gen, verdict, timing>>

(* The kernel body ends: it returns, or it panics and the recover reports. *)
Return(t) ==
  /\ pc[t] = "kernel"
  /\ Goto(t, "leaving")
  /\ UNCHANGED <<barriers, ops, slabs, seq, fail, gen, verdict, timing, hist>>

Panic(t) ==
  /\ \E c \in Calls : c.kind = "panic" /\ Begin(t, c)
  /\ ReportIf(TRUE, "panic")
  /\ Goto(t, "leaving")
  /\ UNCHANGED <<barriers, ops, slabs, seq, gen, verdict, timing>>

(* The deferred calls of a thread, last registered first.                  *)
LeaveBarrier(t) ==
  /\ pc[t] = "leaving"
  /\ bar' = Abandon(bar)
  /\ Goto(t, "leavingWarp")
  /\ UNCHANGED <<wbar, ops, slabs, seq, fail, gen, verdict, timing, hist>>

LeaveWarp(t) ==
  /\ pc[t] = "leavingWarp"
  /\ wbar' = [wbar EXCEPT ![WarpOf[t]] = WarpAbandon(@)]
  /\ Goto(t, "done")
  /\ UNCHANGED <<bar, ops, slabs, seq, fail, gen, verdict, timing, hist>>

(* wg.Wait() and divergence: the counts of shared tile calls must agree.   *)
Finish ==
  /\ verdict = "running"
  /\ \A t \in Thread : pc[t] = "done"
  /\ ReportIf(\E s, t \in Thread : seq[s] # seq[t], "divergence")
  /\ verdict' = fail'
  /\ UNCHANGED <<barriers, ops, slabs, seq, pc, gen, timing, hist>>

Waits(t) ==
  \/ SyncReturns(t) \/ SyncGivesUp(t) \/ MeetReturns(t) \/ MeetGivesUp(t)
  \/ PartReturns(t) \/ PartGivesUp(t)

Step(t) ==
  \/ SyncThreads(t) \/ Meet(t) \/ Tile(t) \/ DynTile(t) \/ AssumeBlockDim(t)
  \/ Return(t) \/ Panic(t) \/ LeaveBarrier(t) \/ LeaveWarp(t) \/ Waits(t)

Next == Stall \/ Finish \/ \E t \in Thread : Step(t)

(* Goroutines are scheduled fairly, timers fire, wg.Wait returns.          *)
Fairness ==
  /\ WF_vars(Stall)
  /\ WF_vars(Finish)
  /\ \A t \in Thread : WF_vars(Step(t))

Spec == Init /\ [][Next]_vars /\ Fairness

----------------------------------------------------------------------------
Kinds == {"none", "blockStall", "warpStall", "mismatch", "tile", "unsized",
          "blockDim", "panic", "divergence"}
Operations == {c.arg : c \in {d \in Calls : d.kind = "warp"}}
TileArgs == {c.arg : c \in {d \in Calls : Shared(d)}}
Locations == {"kernel", "sync", "meet", "part", "leaving", "leavingWarp", "done"}
WarpBars == [n : Nat, count : Nat, mask : SUBSET Thread, cur : Nat, opened : Seq(SUBSET Thread)]
Hists == [begun : Nat, wrong : BOOLEAN, collective : Seq(Calls), tiles : Seq(TileArgs)]

TypeOK ==
  /\ bar \in [n : Nat, count : Nat, cur : Nat]
  /\ wbar \in [Warp -> WarpBars]
  /\ \A w \in Warp : Len(wbar[w].opened) = wbar[w].cur
  /\ ops \in [Thread -> Operations \union {"none"}]
  /\ slabs \in Seq(TileArgs)
  /\ seq \in [Thread -> Nat]
  /\ fail \in Kinds
  /\ pc \in [Thread -> Locations]
  /\ gen \in [Thread -> Nat]
  /\ verdict \in Kinds \union {"running"}
  /\ overdue \subseteq {t \in Thread : pc[t] \in {"sync", "meet", "part"}}
  /\ early \in Nat
  /\ partGaveUp \in BOOLEAN
  /\ hist \in [Thread -> Hists]

----------------------------------------------------------------------------
(* What the kernel's source says of the calls.  Two threads agree so far   *)
(* when one is behind the other on the same path.                          *)
Agree(a, b) ==
  \A i \in 1..Len(a) : i <= Len(b) => a[i] = b[i]

(* The convergent kernels: the threads of a warp run through the same      *)
(* barriers and warp calls, the threads of the block through the same      *)
(* tiles, and a thread may only end before the others.                     *)
Convergent ==
  \A s, t \in Thread :
    /\ WarpOf[s] = WarpOf[t] => Agree(hist[s].collective, hist[t].collective)
    /\ Agree(hist[s].tiles, hist[t].tiles)

(* No call was wrong whatever the siblings do. *)
AllRight == \A t \in Thread : ~ hist[t].wrong

SameTileCount ==
  \A s, t \in Thread : Len(hist[s].tiles) = Len(hist[t].tiles)

(* No false alarm: a convergent kernel with nothing wrong in it is never   *)
(* diagnosed, however its threads are scheduled, as long as no timer fires *)
(* on a thread that is merely slow.  (A thread that ends before a tile the *)
(* others made is the divergence check's business.)                        *)
NoFalseAlarm ==
  early = 0 /\ Convergent /\ AllRight /\ (verdict = "running" \/ SameTileCount)
    => fail = "none"

(* No missed alarm: a block whose verdict is silent ran a convergent kernel*)
(* whose threads made the same shared tile calls, and nothing went wrong;  *)
(* a part that gave up is the one thing that can hide a divergence.        *)
NoMissedAlarm ==
  verdict = "none" /\ ~ partGaveUp => Convergent /\ AllRight /\ SameTileCount

(* Nobody ever waits out a whole timeout in part: the lanes it waits for   *)
(* are on their way, and only a slow one can make it give up.              *)
PartOnlyGivesUpEarly == early = 0 => ~ partGaveUp

(* Every block ends, whatever its threads disagree about.                  *)
Terminates == <>(verdict # "running")

----------------------------------------------------------------------------
(* Why the alarms are right, for any block.  Which waits count at the      *)
(* block's barrier, and who is still to come.                              *)
InBlock == {t \in Thread : pc[t] \notin {"leavingWarp", "done"}}
InSync == {t \in Thread : pc[t] = "sync" /\ gen[t] = bar.cur}

BarExact ==
  /\ bar.count = Cardinality(InSync)
  /\ bar.n = Cardinality(InBlock)
  /\ InSync # {} => InSync # InBlock

(* The same for a warp's. *)
InWarp(w) == {t \in Mates(w) : pc[t] # "done"}
InMeet(w) == {t \in Mates(w) : pc[t] = "meet" /\ gen[t] = wbar[w].cur}
InPart(w) == {t \in Mates(w) : pc[t] = "part" /\ gen[t] = wbar[w].cur}

MaskExact(w) ==
  /\ wbar[w].mask = InMeet(w) \union InPart(w)
  /\ wbar[w].count = Cardinality(wbar[w].mask)
  /\ wbar[w].n = Cardinality(InWarp(w))
  /\ wbar[w].mask # {} => wbar[w].mask # InWarp(w)

WarpExact == \A w \in Warp : MaskExact(w)

GenBound ==
  \A t \in Thread : pc[t] \in {"sync", "meet", "part"} => gen[t] <= Generation(t)

(* As long as no part gives up, a warp is on one side of an exchange.      *)
Before(t) ==
  \/ pc[t] \in {"kernel", "sync", "leaving", "leavingWarp"}
  \/ pc[t] = "meet" /\ Blocked(t)
  \/ pc[t] = "part" /\ ~ Blocked(t)

Gathering(w) == \A t \in InWarp(w) : Before(t)
Exchanging(w) ==
  \A t \in InWarp(w) :
    /\ ~ Before(t)
    /\ pc[t] = "meet" =>
         gen[t] + 1 = wbar[w].cur /\ wbar[w].opened[wbar[w].cur] = InWarp(w)

OneSide == ~ partGaveUp => \A w \in Warp : Gathering(w) \/ Exchanging(w)

(* A stall never finds a thread in part, unless a timer was early. *)
PartIsBrief == early = 0 => ~ partGaveUp /\ \A t \in overdue : pc[t] # "part"

(* The threads of a warp walk one path of barrier and warp calls: each is  *)
(* where the others are, one call ahead and waiting, or ended before.      *)
Paths == Seq(Calls)
Behind(a, path) == Len(a) <= Len(path) /\ \A i \in 1..Len(a) : a[i] = path[i]
OneAhead(t, path, kind) ==
  \E c \in Calls :
    /\ c.kind = kind
    /\ hist[t].collective = Append(path, c)
    /\ kind = "warp" => ops[t] = c.arg

Ended(t) == pc[t] \in {"leaving", "leavingWarp", "done"}

GatheringAfter(w, path) ==
  \A t \in Mates(w) :
    /\ Ended(t) => Behind(hist[t].collective, path)
    /\ ~ Ended(t) => Before(t)
    /\ ~ Ended(t) /\ ~ (pc[t] \in {"sync", "meet"} /\ Blocked(t)) =>
         hist[t].collective = path
    /\ pc[t] = "sync" /\ Blocked(t) => OneAhead(t, path, "sync")
    /\ pc[t] = "meet" /\ Blocked(t) => OneAhead(t, path, "warp")

ExchangingAfter(w, path) ==
  \A t \in Mates(w) :
    /\ pc[t] = "done" => Behind(hist[t].collective, path)
    /\ pc[t] # "done" => ~ Before(t) /\ OneAhead(t, path, "warp")
    /\ pc[t] = "part" => \A k \in InWarp(w) : ops[k] = ops[t]

OnePath ==
  ~ partGaveUp /\ fail = "none" =>
    \A w \in Warp : \E path \in Paths : GatheringAfter(w, path) \/ ExchangingAfter(w, path)

(* A shared tile is what some thread asked for, and what everybody did as  *)
(* long as nothing is reported.                                            *)
TilesCounted == \A t \in Thread : seq[t] = Len(hist[t].tiles) /\ seq[t] <= Len(slabs)
TilesAsked ==
  \A i \in 1..Len(slabs) : \E t \in Thread : i <= seq[t] /\ hist[t].tiles[i] = slabs[i]
SilentTiles ==
  fail = "none" => /\ AllRight
                   /\ \A t \in Thread : \A i \in 1..seq[t] : hist[t].tiles[i] = slabs[i]

Verdict ==
  verdict # "running" => /\ verdict = fail
                         /\ \A t \in Thread : pc[t] = "done"
                         /\ verdict = "none" => \A s, t \in Thread : seq[s] = seq[t]

(* A convergent kernel never stalls, so it has nobody overdue. *)
FalseAlarm ==
  early = 0 /\ Convergent /\ AllRight /\ (verdict = "running" \/ SameTileCount)
    => fail = "none" /\ overdue = {}

IInv ==
  /\ TypeOK /\ BarExact /\ WarpExact /\ GenBound /\ OneSide /\ PartIsBrief
  /\ OnePath /\ TilesCounted /\ TilesAsked /\ SilentTiles /\ Verdict /\ FalseAlarm
=============================================================================
