# simtgo, specified

simtgo lets a GPU kernel be written as an ordinary Go function. `gpu.RunCPU`
runs it on goroutines; `simt.Build` lowers it to CUDA C, has NVRTC compile that
to PTX, and loads the PTX through the CUDA driver. This directory specifies the
parts of it that are hard to test - where threads, goroutines, files and the
driver meet, and where one language becomes another - in TLA+, checks them with
TLC on small instances, and proves the most important results for every size
with TLAPS.

- [The system](#the-system)
- [Modules and the code they model](#modules-and-the-code-they-model)
- [Runs](#runs)
- [Time and fairness](#time-and-fairness)
- [Proofs](#proofs)
- [Where the code does not do what it says](#where-the-code-does-not-do-what-it-says)
- [Not modelled](#not-modelled)
- [Plan](#plan)

## The system

| Component | State | Operations | What is hard | What makes it correct |
|---|---|---|---|---|
| `gpu` block barrier (`gpu/gpu.go`) | threads left, arrivals, current generation | `wait`, the stall timer, `abandon` | timers racing the release, reuse, departures | released exactly when everybody still there has arrived |
| `gpu` warp (`gpu/warp.go`) | the same with a lane mask; slots `vals`, `ops` written without a lock | shuffles, votes, `SyncWarp`: publish, meet, check, read, part | two rendezvous per call, two timers, lanes that call different things | an undiagnosed call is one call of all lanes, and its answer is right |
| `gpu` block (`gpu/gpu.go`, `gpu/shared.go`) | the two kinds of barrier, shared tiles by call order, one diagnosis | one goroutine per thread, deferred abandons, recovered panics | a kernel may do anything | divergent kernels are diagnosed, convergent ones are not |
| `gpu` grid (`gpu/gpu.go`) | queue of blocks, first failure | a pool of workers | draining after a failure | a quiet return ran every block; a panic tells the truth |
| `cuda.Context` (`cuda/driver_cuda.go`) | closed, modules, cache, under a mutex; a poison marker per device without it | `NewContext`, `LoadPTX(Cached)`, `Unload`, `Close`, every driver call | callbacks and driver calls under the mutex, several wrappers of one primary context, sticky faults | no handle outlives its module, no module its context unless the driver would not unload it |
| `cuda.Stream` (`cuda/stream_cuda.go`) | two atomics: closed, abandoned | `Launch`, copies, `Sync`, `Done`, `Wait`, `Close`, `CloseAbandoned` | no lock at all, a device that goes on by itself | Close refuses while a cancelled Wait's work runs; destroyed once |
| `internal/jit` (`jit.go`, `diskcache.go`) | module caches (per context), metadata (per process), PTX files (per user) | `Load` and its retries | three caches with three lifetimes, crashes, damaged files, refused images | one module per context and key; a file that is refused breaks no build |
| `simtgo generate`, registry (`cmd/simtgo/generate.go`, `simt/prebuilt.go`) | a directory of `.cu`, `.ptx` and Go files | generate, `-check`, `-no-ptx`, `-init`; `pickPrebuilt` | files written one by one, runs killed, machines without a toolkit | the exit status tells the truth; PTX belongs to its source |
| `internal/lower` lowering (`lower.go`, `stmt.go`, `expr.go`, `struct.go`) | an emitter walking a checked syntax tree: names taken, labels open, the refusals, the C so far | one rule per statement and expression | two languages that differ in integer widths, overflow, scope, evaluation order, labels, layout | the C computes what the Go means, or the kernel is refused |
| `internal/lower` analyses (`diverge.go`, `readonly.go`) | sets of varying variables and written parameters, memoised per function | fixpoints over bodies and calls | control dependence, helpers, aliasing between arguments | accepted kernels keep their threads together; `const` and `__restrict__` are true |
| `simt` (`kernel.go`, `transpile.go`) | a built kernel; the context's poison | `Build`, `Launch`, `LaunchDim`, `LaunchOn`, `LaunchShared` and their checks | 32-bit sizes, overlap of buffers, faults that surface late | a launch let through is one the C was compiled for; only the culprit is blamed |
| `cuda.Slice` (`slice_cuda.go`) | a pointer and a length | `NewSlice`, `Upload`, `Download`, `Free` | each driver call may fail or fault | see `tile` |
| `tile` | an expression graph, device buffers | the operations, `Materialize`, `MaterializeStepwise` | a kernel with a halo written for each graph; who frees what on which path | both ways of computing agree with the operations; every buffer is freed once |

They interact by calls: `simt.Build` lowers a kernel, asks the registry for a
prebuilt image, and calls `jit.Load`, which calls back into NVRTC from inside
`Context.LoadPTXCached`, with the context's mutex held; `Kernel.Launch` and
`LaunchOn` end in a driver call or in work on a stream; `RunCPU` runs the same
function over `gpu`'s barriers. `tile` uses `jit` and `cuda` the same way.

## Modules and the code they model

**Barriers** holds the two barrier structs as records and the body of each of
their critical sections as an operator on such a record (`Arrive`, `TakeBack`,
`Abandon`, `WarpArrive`, ...). A generation, which in the code is a heap object
with a channel, is its number; its channel is closed when the current number is
higher. The three modules below use it.

**Barrier** is `gpu.barrier` under any number of threads. Its steps are the
critical sections of `wait` and `abandon` and what happens between two of them:
the select may take the closed channel or the timer, and after the timer the
mutex has to be taken again, so the generation may have been released in the
meantime. **Rendezvous** is what callers rely on, without counters, mutex or
generations; Barrier implements it (`KeepsPromise`).

**Warp** is one warp: `Publish` is the unlocked write of a slot, `Arrival`
`warpBarrier.wait` up to the unlock (of the meeting or of the parting), `Check`
the comparison of operations, `Read` the unlocked reads. `hist` remembers what
each lane called and was answered.

**Block** is `runBlock`: threads in warps that call `SyncThreads`, warp
functions, shared tiles and `AssumeBlockDim`, return or panic, in any
combination; then `divergence` and the verdict. A wait with its wake-up is one
step here, since the finer ones are Barrier's and Warp's, and the comparison of
operations comes with the arrival at the parting. `hist` remembers of each
thread's calls its barrier and warp calls, the tiles it asked for, and whether
one was wrong whatever the siblings do.

**RunCPU** is `runCPU`: the refusals, the pool, the queue, the check of `fail`
and the run as separate steps, the join. What a block does is Block's; here it
is clean or diagnosed at will.

**Stream** (`StreamInit`, `StreamNext`, `StreamSpec`: the names without prefix
are Tile's where the two meet in a proof) takes every load, store and
compare-and-swap of the two flags as a step, and every driver call as two (bind,
answer). The device finishes work in order or faults; the driver refuses a
destroyed handle, and any call of it may fail for a reason of its own that does
not poison the context. `failed` remembers that a `cuStreamDestroy` did (or the
bind before it): such a stream is closed and was never destroyed.

**Context** has several `Context` values around one device and goroutines that
make, use, load into, unload from and close them. The mutex is explicit, and
held across the build callback and the driver calls as in the code. The poison
marker is read without it. Every driver call on the way, the retain, the bind,
the load, an unload and the release among them, may fail without a fault;
`stuck` remembers the modules whose unload did, whose handles are gone all the
same.

**JIT** follows `Load` for one source on one architecture: the hit under the
context's mutex, or the build from the request's PTX, from the file or from
NVRTC, each with what it records; the module load, which the driver takes,
refuses with a code that `rejectedPTX` knows, or fails otherwise (`LoadModule`,
`Rejected`, `LoadFails`); the lookup of the entry in the loaded module
(`Function`), which may fail too, and then neither the module nor the file is
dropped; the two retries; and the result assembled after the mutex was released.
PTX is known by its origin, and a cache key by what tells it from the others. A
crash leaves only the file; the file may be damaged at any time, in one of three
ways (`Damaged`): so that the driver refuses it (`garbled`), so that the driver
takes it although the kernel's entry is gone (`cutOff`), or so that it loads
and has the entry (`altered`). `accepted` and `named` are the images this
driver takes and those that have the entry. `writeDisk` (temporary file, rename)
is one step that happens or, on any error or crash, does not, and `forgetDisk`
may fail to remove the file.

**Generate** is `simtgo generate` in its modes. A run plans a set of puts, each
the content one file is to have (none, if it is to be removed), and does them
one step at a time, removals first, in the order of the file names (`Earlier`,
`Due`), between edits of the kernels by their author. CUDA C is known by the
version of the kernel, PTX by the version it was compiled from. `Builds` and
`PickPrebuilt` are what a program built from that directory finds in the
registry.

**The lowering** is split as its source is. *Source* is the syntax tree it
walks: records tagged by kind, an identifier already resolved to its object (a
spelling and a number), every expression with its type. *Divergence* and
*Writes* are the two analyses. *Render* is `expr.go`: an expression becomes a
sequence of tokens with the precedence of its outermost operator, or a refusal;
the operators' precedence, the parentheses, the unsigned domain in which signed
arithmetic wraps, the casts and the checked subscripts are all there, since
whether the C means what the Go means depends on each. *Statements* is
`stmt.go`, over an emitter record whose fields are those of `transpiler`;
*Structs* is `struct.go`; *Lowering* is `lower.go`: the names a unit takes, the
device functions it needs, the refusals of a whole kernel, the package's own
(`LoadPackage`).

What the lowering stands between is modelled apart from it and known to no part
of it. *CText* is how a C++ compiler reads tokens (maximal munch, the grammar of
operators): text whose precedence is wrong is read back as another tree, so a
missing parenthesis is a wrong answer and not a cosmetic difference. *Meaning*
is one interpreter for both languages, which differ in the width and overflow of
integers, promotions, shifts, subscripts out of range, what a declaration's
initialiser sees, copies of structs, and jumps. C's undefined behaviour (signed
overflow, a shift by too much, an object read before it is written) ends a
thread with a signal of its own that no Go thread has. *Scopes* is what the two
compilers say of names before anything runs.

**Kernels** composes them with **Launch** (`simt/kernel.go`'s checks, as
operators). The lowering (`Lower`) and the interpreter (`Execute`) are operator
constants of Kernels, and MCKernels gives them Lowering's `Kernel` and
Meaning's `RunSeq`. An author writes a kernel statement by statement (`Write`,
`Open`, `NextBody`, `Close`) from a menu in the configuration; `Transpile`
lowers it and applies Build's checks; `Launch1`, `LaunchOn`, `LaunchShared`
bind arguments, apply the launch's checks and run the C on every thread, next
to the Go. `Fault`, `Answer` and `Sync` are the context's sticky fault, which
an asynchronous launch leaves for the next call to meet. A launch records what
it answered and what each thread did in either language, and the properties
compare the two.

**Memory** is `cuda/slice_cuda.go` over `Context.call`, each operation as the
set of its outcomes: done, failed, faulted, or turned away by a poisoned
context. `Then` and `ThenEach` go on from every outcome without an error, which
is how `if err != nil { return }` reads between two calls and in a loop of them.
**Tile** is `package tile`: the graph an author records, the kernel that
`codegen.go` writes for it (loops, halo, shared tile, thread by thread), `run`,
`Materialize` and `MaterializeStepwise`. Both are sequential, so a call is one
step over every combination of outcomes of its driver calls. The recursions
through a graph are recursive functions on its nodes (`visits`, `postorder`,
`expr`, `containsFIR`), and the loops over a list (`Passed`, `Only`, `Windows`,
`ThenEach`) functions of how far they have come, so that they can be proved
about.

In every module, an operator marked `faulty` is not part of the specification:
it is a definition as a plausible mistake would have it, used to see that the
properties notice.

## Runs

| Run | Instance | Shows |
|---|---|---|
| `barrier` | 4 threads, 3 calls each | the counters are exact, no release is lost, threads stay in step, and the barrier implements Rendezvous, with timers at any moment |
| `warp` | 3 lanes of a short warp, 2 calls each, 2 timers | whoever waits is in the mask; meetings and partings do not mix; slots stand still while read; if nothing is diagnosed, the n-th calls of all lanes were one call with the right answers |
| `block` | 3 threads in 2 warps, 2 calls each, 1 early timer, tiles and `AssumeBlockDim` among the calls | no false alarm, no missed alarm, nobody waits out a whole timeout in `part`, every block ends |
| `runcpu` | 3 workers, up to 4 blocks | the verdict of a launch is the verdict on its blocks; a prompt drain; it comes back |
| `stream` | 2 goroutines of which one waits, 3 operations | Close refuses what it should; destroyed once; every call returns |
| `context` | 2 goroutines, 2 contexts, 2 modules, 1 key | a module survives its context only if its own unload failed, no stale handle, the cache serves what is loaded, whoever holds a mutex can move |
| `jit` | 2 goroutines, 2 contexts, 1 mishap | one module per context and key, metadata is there for every hit, the log is kept, `NoDiskCache` is never answered from a file, and without prebuilt PTX no file that the driver refuses makes a compile fail |
| `generate` | 2 kernels, 2 versions, 1 architecture, 1 killed run | the exit status tells what the directory is; `-no-ptx` destroys no PTX |
| `generate_stale` | 1 kernel, 2 versions | refuted, see below |
| `kernels` | 16 menus, up to 4 statements beyond the fixed ones, 2 threads, up to 2 launches | the C computes what the Go means, checked builds stop where Go panics, accepted kernels keep their threads together, `const` and `__restrict__` are true, a tile is as large as asked, only the culprit is blamed, structs are laid out as in Go, NVRTC has nothing to complain of |
| `kernels_fields` | 1 menu | refuted, see below |
| `tile` | 4 tensors over 3 signals (5, 5 and 0 samples), 4 filters, blocks of 2 threads, at most 2 taps | the same numbers fused, stepwise and as the operations say; every buffer given back once |

Why the bounds suffice. A race at a barrier needs somebody who completes it,
somebody whose timer fires, and somebody already in the next generation: three
threads, and Barrier has four. The third call in `barrier` is the one that
meets counters two releases old. A warp needs a source, a reader and a third
lane to be late; one shuffle names a lane that may be gone. `block` needs two
warps, because its deadlocks are between a warp mate in a shuffle and another
in `SyncThreads`. Three workers on four blocks leave one block in the queue
while one worker fails and another is between its check and its run. Two
modules in `context` let a module be unloaded while another lives, and a key be
loaded again. One mishap in `jit` is a crash or a damaged file; two goroutines
can be in different retries at once. Two kernels in `generate` leave a run
killed between two of everything.

Each of the menus of `kernels` is about one group of rules of the lowering:
every pair of integer operators in either grouping, over operands that overflow;
mixed widths, shifts and conditions; loops left early, with labels; the two ways
a switch is lowered; shadowing; swaps; barriers under conditions; warp calls in
helpers; calls with shared buffers and atomics; indices outside; tiles; four
struct layouts. The author takes each item at most once and up to `max` of them,
which is enough for one construct inside another with something after it, and
where these rules interact they do so in one statement or in two nested ones.
Device integers have 5 bits, 64-bit ones 7, bytes 3, and `MaxInt32` is 15, so
that sums, products, shifts and sizes overflow at small values; buffers have
three elements so that 3 is out of range. Two threads tell uniform from varying.
`Fuel` bounds the turns of a loop and is never reached by a kernel of these
menus. Of the launches' bindings the arguments are disjoint, touching,
overlapping, equal, empty, missing, or no device memory at all. A second launch
comes after a fault. The menus leave out what SPEC.md itself exempts (shift
counts as wide as the type, `MinInt / -1`, division by zero, narrowing), and the
constructs listed below that the lowering gets wrong.

In `tile`, a signal of 5 samples is three blocks of two threads of which the
last is half empty, and a filter of two taps reads across each border; four
tensors make a windowed operation over a fused expression over two inputs, and a
tensor used twice.

`CHECK_DEADLOCK FALSE` appears where the system may come to rest: threads leave
their kernel, launches return, contexts are all closed. Counters named `Max...`
are bounds of the instance, not of the code.

## Time and fairness

A stall timer may fire at any moment in Barrier and Warp, because nothing in
the code relates five seconds to the speed of a goroutine. That is enough for
safety but no alarm could ever be false or missed, so Block tells two kinds of
timeout apart: *overdue*, when everybody in the block was blocked while the
waiter was there, and *early*, when somebody was merely slow. Only
`NoFalseAlarm` and `PartOnlyGivesUpEarly` assume that there was no early one.
`part` ignores whether its wait timed out; after an early timeout there, a lane
runs ahead of its warp and nothing can be promised about what it meets. That is
the exception (`partGaveUp`) in `PhasesApart`, `SilenceMeansLockstep`,
`NoMissedAlarm` and `SlotsStable`.

Fairness is what goroutines, timers and devices give:

- Block: every thread that can move does, a stall lasts until the timers have
  fired, `wg.Wait` returns. From this `Terminates`.
- RunCPU: workers run and `runBlock` ends, which is Block's `Terminates`.
- Stream: the device finishes its queue unless it faults; goroutines run.
  Nobody promises to cancel a context, so `Cancel` is not fair and a `Wait` has
  to return by polling.

The other modules state no fairness; that no holder of a context's mutex gets
stuck is checked as an invariant, `HoldersMoveOn`.

## Proofs

`BarrierProofs` proves, for any finite set of threads and any number of calls,
what the run `barrier` checks for four. None of the invariants is inductive
alone: that the arrivals are counted exactly needs the threads' generations to
be no later than the barrier's, and that a release frees exactly the waiters
needs both counters. `IInv` is their conjunction with `TypeOK` and `GenBound`.
One lemma per action shows it preserved (`WaitJoins` and `WaitReleases` split
the arrival by whether it is the last); `LastArrival` and `LastDeparture` are
the cardinality facts behind: adding one to the waiters makes them all who are
left exactly when the counter says so. `Refinement` maps every step to a step
of Rendezvous or a stutter (`...Maps`), using `IInv`: a release is `Complete`
or the freeing half of `Leave`, a timer that lost its race is `Return`.

`RunCPUProofs` proves for any pool and any grid that a quiet return ran every
block clean, that a panic is about a block that was diagnosed, and that the
drain is prompt. The argument: a block that has left the queue ran, or is held
by a worker that has yet to look at `fail` or to run it, or `fail` is set
(`TakenIsAccounted`); a diagnosis is recorded or carried by a worker that is
about to record it (`DiagnosisIsCarried`); a worker exits only when the queue is
empty (`PoolOnly`), so that when all have exited nothing is held or carried any
more (`OverMeansDone`). `PromptDrain` uses that a worker which began a block
late is past its check with `fail` set for good (`LateRunsNoMore`).

`SimtProofs` is about what a program may rely on that was built with `simt`. Of
the checks of a launch, for every device, kernel and argument:
`DisjointIsExact`: the two comparisons of `checkAliasing` decide whether two
non-empty ranges share an address. `SharedIsReadOnly`: of any two slice
parameters of a launch let through that share an address both are read only,
which is what the `__restrict__` in the compiled C took for granted; it follows
from the first by a case split on which of the two is written. `HeldIsAsked`: a
count that passes the division check of `LaunchSharedDim` is held whole by the
two 32-bit numbers derived from it. `TileIsThere`: a launch let through with a
tile gets exactly the elements it asked for, within the device's limit. The run
`kernels` checks their consequences end to end (`PointersKeepTheirPromise`,
`TileFits`).

Of the directory, for any kernels, versions and architectures and any number of
killed runs: `ExitIsTrue` and `NoPTXIsHarmless`. A run rewrites a directory that
an earlier one may have left in any state, so nothing can be said of the files
while it is under way except against what it has still to do. The invariant is a
pledge (`HalfWay`): of each file the run plans, whatever waits to be put in it
is what it should have, and it has that already or something waits.
`GeneratePledges` shows it when the run begins, from `PlannedIsPut` (a plan has
one content for a file, and removes none it writes); `TouchKeepsPledge` over one
put; and when nothing waits any more it is what the exit status claims
(`ExitTells`). That `-no-ptx` costs no PTX is the same argument with the content
it read (`PTXPutBack`): what it puts in a PTX file is what was there.

`JITProofs`, for any goroutines, contexts and keys. That a context loads a key
once is a matter of who holds its mutex (`BuildsAlone`: nobody loads for a
context but its holder, and what the holder saw of the cache stays true) and of
the cache being written before the mutex is released (`LoadsAreCached`). That
the metadata is there, of the right origin, although it is kept elsewhere and
read later, is because a key determines the origin (`KeysTellTheOrigin`) and a
request keeps its key through its retries (`RequestsFit`). `NoDiskIsObeyed` is
the same: what carries the key `nvrtc-nodisk`, in a cache or in the metadata, was
compiled in this process, and a caller that asked for no disk keeps away from
the key `nvrtc` even when its prebuilt image is refused.
`RefusedFilesAreHarmless` follows the retry that drops the file. It is about
files that the driver refuses and says so; of a file that the driver takes the
promise is false (see below).

`DeviceProofs` is about package `cuda`'s streams and slices and package `tile`
on top of them.

Streams, for any goroutines. `ClosedIsDestroyed` (a closed stream was destroyed
once, or is about to be, or the one call that was to destroy it failed) needs
that the winner of the compare-and-swap is alone (`OneDestroyer`).
`CloseIsNotFooled` is stated under the hypothesis that at most one goroutine
waits on the stream, which many programs meet and the code does not enforce:
`WaitersKnow` says that what a waiter is about to store is what the device has
finished, and with two waiters this is false, as the trace described below
shows. No weaker statement is passed off as the general one.

Slices, for any driver. `Good(m, B)` says of a memory that the driver has seen
live addresses only and, unless the context is poisoned, that the live buffers
do not overlap and are exactly those of the Slices in `B`, each once; `Keeps`
says that an operation leaves the contents of others alone. Every operation of
Memory is shown to keep both whatever the driver answers, with what it adds or
takes away (`NewSliceOutcomes`, `UploadOutcomes`, `FreeOutcomes`,
`DownloadOutcomes`, ...).

Tensors, for any signals, filters, block size, number of taps and tensors of the
graph, and any outcome of any driver call: `NumbersAreRight` and
`EveryBufferComesHome` are the properties of the run `tile`, and `OneKernelEach`
says that `MaterializeStepwise` launches one kernel for each operation below the
tensor, shared or not. All follow from one invariant, `TileInv`: there is a value for each node
(`val`) such that the graph is well made, each node is worth what its operation
makes of its arguments (`Solves`), and each of the author's handles means what
its node is worth (`Drawn`); and between two calls the device holds nothing
unless its context is poisoned (`AtHome`). The argument has three parts.

- *The author* (`UnaryDrawn` to `FIRDrawn`): each operation makes a node that
  fits, after its arguments and of their length, and a filter is never put over
  another (`GraphsAreWellMade`). `codegen.go` relies on the last: a window's tile
  is filled by code that has no window in it.
- *The kernel* (`FusedKernelIsRight`): on a grid that covers the output, the last
  block half full or not, the generated text computes `val` at each index. The
  expression of a node is worth what the node is, as long as what it reads from
  locals is right (`EvalAgrees`, by induction over the nodes). A window is right
  because each tap of each thread within the output falls on the place of the
  tile that was staged for that sample, or before the first sample, where both
  are zero (`WindowRight`, for any block size and halo); the windows of a block
  come in an order in which each finds its locals (`WindowsRight`).
- *The calls* (`RunOutcomes`, `StepOutcomes`, `StepsOutcomes`): `run` hands the
  kernel the output and one buffer for each input, with its values
  (`HeldOfLaunch`), all of them live and apart, so that `checkAliasing` never
  refuses it (`RunNeverAliases`); and it owns what it took on every path, errors
  included. `MaterializeStepwise` runs graphs of one operation, each worth what
  its node is (`SingleRight`), in an order in which every node comes after its
  arguments (`VisitsInOrder`), and launches when it comes to one not kept yet, so
  once for each (`StoredMore`).

The assumptions are `SizesAssumption` (a block has a thread and a filter may
have a tap) and `DataAssumption` (samples, coefficients and the factor are
numbers: integers for float32, so rounding is not in it, and `sqrtf` and
`hypotf` are some functions on numbers). What a recursion or a loop computes is
proved by induction over numbers, stated for a set of them (`Induction`,
`StrongInduction`, from the library's `WFMin`); each recursive function needs a
lemma of its own (`ExprIs`, `VisitsIs`, `OnlyLoop`, ...) that it is what its
equation says.

`ContextProofs`, for any goroutines, contexts of one device, modules and keys. A
module is loaded, listed, cached, or being unloaded, and the proof is that these
four views never disagree: a handle is listed by its context or is in what is
left of the walk that clears it (`HandlesAreListed`), the cache is emptied of a
module before its handle goes (`CacheHasHandles`), each unload in flight has a
module in the driver, and a module in the driver without a handle is being
unloaded or refused to go (`Unloads`, `stuck`), and the retain count is at least
the contexts that are not closed (`RetainsCounted`), so that no release of one
Context takes away another's modules. `Exclusive` and `MakersAndUsers` say who
may touch what. Counting is by the lemmas at the top (`SubsetsCountLess`,
`OneMore`, ...).

`WarpProofs`, for any lanes, calls and number of timeouts. The counters
(`MaskExact`) are as in Barrier. The rest rests on one observation: as long as
no `part` gave up, the whole warp is on one side of a collective call's exchange
(`OneSide`): either every live lane is before it (in the kernel, publishing, or
waiting in `meet`, or released from its last `part` without knowing yet), or
every one is in it, and then all who read do so through the mask of all. Only
the last arrival or a departure turns a warp from one side to the other. From
that alone `PhasesStayApart` and `SlotsHoldStill` follow, because a lane writes
its slot on the first side and reads on the second. `SilenceIsLockstep` needs
that the slots hold each lane's latest call (`OwnSlots`) and that the calls come
in rounds (`InRounds`): the warp has finished n calls and gathers for the next,
or exchanges in its n-th. `OwnSlots` is about every lane that has ever called
and not only about those still in the call, because a sibling that has read and
waits in `part` must not have changed what a slower lane will read; with the
narrower form `ReadRound` cannot be proved.

`BlockProofs`, for a block of any threads in any warps and whatever calls they
make. The three alarms need one another's ground. The counters of the block's
barrier and of every warp's are exact at once (`BarExact`, `WarpExact`: a thread
waits at one of them at a time), and each warp is on one side of an exchange as
in Warp (`OneSide`). `PartGivesUpOnlyEarly`: when nobody in the block can move,
a warp in an exchange would be all in `part`, and an assembled generation is
released (`StallGathers`). `SilenceIsClean` needs to know what threads that
meet at different places have called: as long as nothing is reported and no
part gave up, the threads of a warp walk one path of barrier and warp calls
(`OnePath`), each where the others are, one call ahead and waiting, or ended
before. The path grows when a warp has parted, by the one operation all of them
compared, and when the block's barrier opens, which finds every thread still in
the block at it, those of other warps too (`PathParts`, `PathSweeps`).
`AlarmsAreTrue` is the converse: threads one call ahead of one path that agree
are ahead by the same call (`SameOperation`), so the comparison after `meet`
passes (`NoMismatch`), the tile that is there is the one asked for
(`NoWrongTile`, by `TilesAsked`), and they cannot all wait (`NoStall`): either
somebody is in `meet`, and then his whole warp, or all are in `SyncThreads`, and
in both cases the last to come would have released them. That nobody is ever
overdue is therefore part of the invariant (`FalseAlarm`).

TLC has checked these invariants (`IInv` of each module, `HalfWay`, `TileInv`)
on the same instances, which is how they were found; for Block with `Paths` cut
to the paths its instance can walk, which a theorem's module must not do, and
for Tile with `val` read off the inputs' data and the author's handles.

The assumptions are those the modules state of their constants: a finite set of
threads, lanes, workers or contexts, bounds that are natural numbers, calls of
the kinds that exist, each told by its kind and argument, a positive `MaxInt32`.

Only model-checked: the lowering and the launches of the kernels it makes
(`Kernels`), whose modules interpret trees with RECURSIVE operators, which the
prover does not take; liveness under fairness (`Terminates`, `ComesBack`,
`EveryCallReturns`); and `HoldersMoveOn`, which speaks of `ENABLED`.

## Where the code does not do what it says

Two runs state what a comment or a document promises and end in a
counterexample.

- `generate_stale`: compile, edit, `-no-ptx`, `-no-ptx` again. The first
  `-no-ptx` writes the new `.cu` beside the old `.ptx`; the second takes the
  pair for a match and registers the old PTX under the new source's hash.
- `kernels_fields`: in `x, a[x].f = 0, 5` the index is inside a field, so it gets
  no temporary (`stmt.go:348`) and the C evaluates it after `x` was set.

Met while modelling, and kept out of the passing runs rather than given one of
their own:

- A cache file that some other program cut off before the kernel's `.entry` can
  still be PTX that the driver takes. `Load` then has the module in the
  context's cache when `mod.Function` fails (`jit.go:264`). Its error is none
  that `rejectedPTX` knows, so nothing is forgotten and nothing compiled; the
  caller gets the error, and so does every later `Load` there, from the module
  cache, and in every other context or process that reads the file.
  `diskcache.go:23` says that nothing there may sink a build, and `jit.go:109`
  counts truncated and tampered files among what is recovered. In JIT the
  promise is `NoFileSinksACompile`, which is therefore in no configuration: as an
  invariant of `MCJIT.cfg` TLC refutes it in eight states (a file, `Corrupt` to
  `cutOff`, `ReadDisk`, `LoadModule`, `Function`). What does hold is
  `RefusedFileSinksNothing`. A file that was altered and kept its entry is
  served, as the tests of the cache rely on; only `NoDiskCache` promises more
  (`NoDiskMeansNoFile`).
- `Stream.Sync` and `Wait` clear the mark of a cancelled `Wait` after their
  driver call has returned; with two goroutines that wait on one stream, the
  mark may be one set in between, and `Close` then accepts
  (`stream_cuda.go:130`, `:195`). `CloseSeesTheTruth` holds with one.
- `jit.go:155`: the retry after a refused prebuilt image meets a damaged file in
  the disk cache and gives up; the retry that drops the file (`:135`) is for
  calls that brought no image. For those `RefusedFileSinksNothing` holds.
- The PTX that a `Result` reports is what was recorded last under the key
  (`jit.go:274`). A second context that reads the file replaces it, so if the
  file was altered in between, the first context's callers are told of PTX that
  their module was not loaded from. `MetadataIsThere` claims presence and origin;
  `NoDiskMeansNoFile` claims the PTX for the callers that passed `NoDiskCache`.
- `diverge.go:213`: a bare `break` under a varying condition inside a switch of
  constants leaves it early, and `exitsVarying` (`:466`) takes the body of an
  inner range loop as run alike by all threads even where its trip count varies,
  so a labelled break in it is missed: a barrier after either is accepted.
- A loop's condition is rendered before its init (`stmt.go:987`), so
  `for i := i; i < 3; i++` tests the outer `i`; `for i := range n` evaluates `n`
  on every turn, and `for n := range n` compares `n` with itself; a range over
  an array reads its live elements.
- `var a, b = b, a` in an inner block becomes two declarations in sequence.
- A local named like the generated length of a dynamic tile collides with it;
  a loop's variable declared again in its body is a redeclaration in C++. Both
  are loud: NVRTC refuses them.
- Assigning to a slice parameter copies the pointer and not its length.
  `x += y`, `x++` and `x <<= k` on signed integers are not done in unsigned
  arithmetic as `x = x + y` is.
- `diagnose` accuses the next synchronous launch of a checked kernel of a fault
  that an asynchronous one left behind (`kernel.go:531`), although its comment
  says that this must not happen; `BlameIsFair` makes the exception explicit.
- `tile` renders a shared subexpression once per use, and counts a kernel that
  failed to load as launched.

## Not modelled

Abstractions within the modules: the maths of the shuffles (which source lane);
the wording of diagnoses (known by kind); in JIT, a module unloaded between the
cache hit and the lookup of its function, and a lookup that fails with one of
the codes of `rejectedPTX`, as a driver might that compiles a module only when a
function of it is asked for; in the lowering, floating point (numbers of every
run are integers), the characters of names, comments and layout; in Launch, the
arithmetic of `LaunchN`; in Block, a dynamic tile whose size was not given to
the launch; a `gate.go` edited by hand; torn or lost PTX files, which an
interrupted run may leave, are served as they are.

Left out altogether: CUDA events; page-locked memory; the search for the CUDA
libraries; the stubs of a build without the `cuda` tag; the mutex behind `gpu`'s
atomics and its float32 functions; the `gpu` package lowering synthesises for
go/types; the random-kernel generator
and its harness; the vet-style analyser, which only reports `lower`'s
diagnostics; kernels and examples. `PROJECT.json` lists every component with
its status.

## Plan

1. **Proofs**: that the padding of a struct reaches its next field for any
   alignments, with the layout of `struct.go` as a recursive function.
2. **Memory** with streams: page-locked buffers under copies that are still
   queued, events, and a slice freed while a stream uses it, composing Memory,
   Stream and Context.
3. **Floats** in the lowering: float32 as a value set with a rounding operator,
   for the conversions and the refusals of `float64.go`.
