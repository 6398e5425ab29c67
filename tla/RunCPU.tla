------------------------------- MODULE RunCPU -------------------------------
(***************************************************************************)
(* gpu.runCPU: the blocks of a grid are queued in flat order and drained   *)
(* by a pool of workers; the first diagnosis recorded stops the launch     *)
(* early and becomes the caller's panic.  What runBlock does is module     *)
(* Block's; here it returns a diagnosis or not, whichever it likes, since  *)
(* a racy kernel may do either.                                            *)
(***************************************************************************)
EXTENDS Integers, FiniteSets

CONSTANTS
  Worker,     \* runtime.GOMAXPROCS(0) goroutines at most
  MaxGrid     \* bound: blocks in a grid

ASSUME WorkerAssumption == IsFiniteSet(Worker) /\ Worker # {}
ASSUME MaxGridAssumption == MaxGrid \in Nat

VARIABLES
  launch,    \* the arguments: blocks in the grid, and which sizes are bad
  pool,      \* the workers started: min(GOMAXPROCS, blocks) of them
  next,      \* the queue: the blocks from `next' on are still in it
  fail,      \* the first diagnosis, as the block it is about; -1 for none
  pc,        \* where each worker is
  block,     \* the block each worker took
  caller,    \* where runCPU itself is
  ran,       \* the blocks that ran (history)
  bad,       \* the blocks whose runBlock returned a diagnosis (history)
  late       \* the workers that began a block with `fail' set (history)

history == <<ran, bad, late>>
vars == <<launch, pool, next, fail, pc, block, caller, history>>

NoFail == -1
Grid == 0 .. launch.blocks - 1

Init ==
  /\ launch \in [blocks : 0..MaxGrid, emptyBlock : BOOLEAN, badDyn : BOOLEAN]
  /\ pool = {}
  /\ next = 0
  /\ fail = NoFail
  /\ pc = [w \in Worker |-> "idle"]
  /\ block = [w \in Worker |-> 0]
  /\ caller = "called"
  /\ ran = {}
  /\ bad = {}
  /\ late = {}

Goto(w, where) == pc' = [pc EXCEPT ![w] = where]

(* A dynamic tile of negative size is the caller's mistake. *)
RefuseSize ==
  /\ caller = "called"
  /\ launch.badDyn
  /\ caller' = "refused"
  /\ UNCHANGED <<launch, pool, next, fail, pc, block, history>>

(* A grid or a block with an axis of zero or less holds no threads. *)
NothingToRun ==
  /\ caller = "called"
  /\ ~ launch.badDyn
  /\ launch.blocks = 0 \/ launch.emptyBlock
  /\ caller' = "returned"
  /\ UNCHANGED <<launch, pool, next, fail, pc, block, history>>

Start ==
  /\ caller = "called"
  /\ ~ launch.badDyn /\ launch.blocks > 0 /\ ~ launch.emptyBlock
  /\ \E started \in SUBSET Worker :
       /\ started # {}
       /\ Cardinality(started) <= launch.blocks
       /\ started = Worker \/ Cardinality(started) = launch.blocks
       /\ pool' = started
       /\ pc' = [w \in Worker |-> IF w \in started THEN "take" ELSE "idle"]
  /\ caller' = "waiting"
  /\ UNCHANGED <<launch, next, fail, block, history>>

TakeTwo(w) ==                \* faulty: a block is lost from the queue
  /\ pc[w] = "take"
  /\ next \in Grid
  /\ block' = [block EXCEPT ![w] = next]
  /\ next' = next + 2
  /\ Goto(w, "check")
  /\ UNCHANGED <<launch, pool, fail, caller, history>>

(* for b := range blocks *)
Take(w) ==
  /\ pc[w] = "take"
  /\ next \in Grid
  /\ block' = [block EXCEPT ![w] = next]
  /\ next' = next + 1
  /\ Goto(w, "check")
  /\ UNCHANGED <<launch, pool, fail, caller, history>>

QueueNeverEmpty(w) == FALSE  \* faulty: the channel is not closed

QueueEmpty(w) ==
  /\ pc[w] = "take"
  /\ next \notin Grid
  /\ Goto(w, "exited")
  /\ UNCHANGED <<launch, pool, next, fail, block, caller, history>>

(* The critical section that reads fail, and what it decides. *)
CheckNothing(w) ==           \* faulty: runs on after a failure
  /\ pc[w] = "check"
  /\ Goto(w, "run")
  /\ UNCHANGED <<launch, pool, next, fail, block, caller, history>>

Check(w) ==
  /\ pc[w] = "check"
  /\ Goto(w, IF fail # NoFail THEN "take" ELSE "run")
  /\ UNCHANGED <<launch, pool, next, fail, block, caller, history>>

(* runBlock begins: fail may have been set since the check. *)
Run(w) ==
  /\ pc[w] = "run"
  /\ ran' = ran \union {block[w]}
  /\ late' = IF fail # NoFail THEN late \union {w} ELSE late
  /\ Goto(w, "running")
  /\ UNCHANGED <<launch, pool, next, fail, block, caller, bad>>

Finish(w) ==
  /\ pc[w] = "running"
  /\ \/ Goto(w, "take") /\ UNCHANGED bad
     \/ Goto(w, "record") /\ bad' = bad \union {block[w]}
  /\ UNCHANGED <<launch, pool, next, fail, block, caller, ran, late>>

(* The critical section that records the diagnosis: the first one wins. *)
RecordNothing(w) ==          \* faulty: the diagnosis is dropped
  /\ pc[w] = "record"
  /\ Goto(w, "take")
  /\ UNCHANGED <<launch, pool, next, fail, block, caller, history>>

Record(w) ==
  /\ pc[w] = "record"
  /\ fail' = IF fail = NoFail THEN block[w] ELSE fail
  /\ Goto(w, "take")
  /\ UNCHANGED <<launch, pool, next, block, caller, history>>

(* wg.Wait() *)
Join ==
  /\ caller = "waiting"
  /\ \A w \in pool : pc[w] = "exited"
  /\ caller' = IF fail # NoFail THEN "panicked" ELSE "returned"
  /\ UNCHANGED <<launch, pool, next, fail, pc, block, history>>

Step(w) ==
  Take(w) \/ QueueEmpty(w) \/ Check(w) \/ Run(w) \/ Finish(w) \/ Record(w)

Next ==
  RefuseSize \/ NothingToRun \/ Start \/ Join \/ \E w \in Worker : Step(w)

(* runBlock ends (Block!Terminates), goroutines run. *)
Fairness ==
  /\ WF_vars(RefuseSize \/ NothingToRun \/ Start \/ Join)
  /\ \A w \in Worker : WF_vars(Step(w))

Spec == Init /\ [][Next]_vars /\ Fairness

----------------------------------------------------------------------------
Locations == {"idle", "take", "check", "run", "running", "record", "exited"}

TypeOK ==
  /\ launch \in [blocks : 0..MaxGrid, emptyBlock : BOOLEAN, badDyn : BOOLEAN]
  /\ pool \in SUBSET Worker
  /\ next \in Nat /\ next <= launch.blocks
  /\ fail \in Grid \union {NoFail}
  /\ pc \in [Worker -> Locations]
  /\ block \in [Worker -> Nat]
  /\ caller \in {"called", "refused", "waiting", "panicked", "returned"}
  /\ ran \in SUBSET Grid
  /\ bad \in SUBSET Grid
  /\ late \in SUBSET Worker

(* A launch that returns ran every block of its grid, and every one was    *)
(* clean: no block is lost by the queue, by the drain after a failure or   *)
(* by a worker that leaves.                                                *)
ReturnMeansAllClean ==
  caller = "returned" /\ ~ launch.emptyBlock
    => bad = {} /\ ran = Grid

(* A launch panics exactly when a block was diagnosed, about such a block. *)
PanicMeansDiagnosed ==
  /\ caller = "panicked" => fail \in bad
  /\ caller \in {"panicked", "returned"} /\ bad # {} => caller = "panicked"

(* Once a diagnosis is recorded, every worker begins at most one more      *)
(* block: the drain is prompt.                                             *)
DrainIsPrompt ==
  [][\A w \in Worker : Run(w) /\ fail # NoFail => w \notin late]_vars

(* Every launch comes back to its caller. *)
ComesBack == <>(caller \in {"refused", "panicked", "returned"})

----------------------------------------------------------------------------
(* The invariant behind these.  A launch that started no worker has done   *)
(* nothing; ...                                                            *)
NothingBeforeStart ==
  /\ pool = {} => next = 0 /\ ran = {} /\ bad = {} /\ fail = NoFail
  /\ caller \in {"called", "refused"} => pool = {}
  /\ caller = "waiting" => pool # {}

(* ... only workers of the pool are ever busy, and none exits before the   *)
(* queue is empty; ...                                                     *)
PoolOnly ==
  /\ \A w \in Worker : pc[w] = "idle" <=> w \notin pool
  /\ \A w \in Worker : pc[w] = "exited" => next = launch.blocks

(* ... a block that left the queue ran, or is about to, or is drained      *)
(* after a failure; ...                                                    *)
Held(b) == \E w \in Worker : pc[w] \in {"check", "run"} /\ block[w] = b

TakenIsAccounted ==
  /\ \A w \in Worker : pc[w] \in {"check", "run", "running", "record"} => block[w] \in Grid
  /\ \A b \in Grid : b < next => b \in ran \/ fail # NoFail \/ Held(b)

(* ... a diagnosis is recorded, or a worker is about to record one; ...    *)
DiagnosisIsCarried ==
  /\ \A w \in Worker : pc[w] = "record" => block[w] \in bad
  /\ fail # NoFail => fail \in bad
  /\ bad # {} => fail # NoFail \/ \E w \in Worker : pc[w] = "record"

(* ... a worker that began a block too late begins no other; ...           *)
LateRunsNoMore == \A w \in late : fail # NoFail /\ pc[w] # "run"

(* ... and the caller comes back when everybody is done.                   *)
OverMeansDone ==
  /\ caller \in {"panicked", "returned"} /\ pool # {} => \A w \in pool : pc[w] = "exited"
  /\ caller = "panicked" => fail # NoFail
  /\ caller = "returned" => fail = NoFail
  /\ caller = "returned" /\ pool = {} => launch.blocks = 0 \/ launch.emptyBlock

IInv ==
  /\ TypeOK
  /\ NothingBeforeStart
  /\ PoolOnly
  /\ TakenIsAccounted
  /\ DiagnosisIsCarried
  /\ LateRunsNoMore
  /\ OverMeansDone
=============================================================================
