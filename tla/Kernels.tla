------------------------------ MODULE Kernels ------------------------------
(***************************************************************************)
(* A kernel from its source to its launches.  An author writes the body of *)
(* one kernel, statement by statement, from a menu; simt.Build lowers it   *)
(* and sizes its tiles; simt.Kernel.Launch checks what it is handed and    *)
(* runs it.  What ran is kept next to what the Go source means, so that    *)
(* every promise the lowering and the launch make together can be asked of *)
(* the two: the C computes what the Go computes, every thread of the block *)
(* reaches every barrier, const and __restrict__ are true.                 *)
(***************************************************************************)
EXTENDS Lowering, Meaning, Scopes, Launch

CONSTANTS
  Themes,           \* sequence of menus: what the author may write, what it is launched with, and the bounds
  Lower(_, _, _),   \* the lowering: Lowering's Kernel
  Execute(_, _)     \* a thread over a body: Meaning's RunSeq

VARIABLES theme,       \* which menu
          frames,      \* the body so far: the open constructs, outermost first
          used,        \* the items of the menu it has (bound: each once)
          kernel,      \* what Build made of it
          runs,        \* the launches, each with what it did
          poisoned     \* the device's sticky fault: "no", "device" (no call has met it) or "recorded"
vars == <<theme, frames, used, kernel, runs, poisoned>>

T == Themes[theme]
Frame(head) == [head |-> head, done |-> <<>>, body |-> <<>>]
Unbuilt == [state |-> "unbuilt"]

-----------------------------------------------------------------------------
(* Writing the body.                                                       *)

\* A construct with its bodies filled in, before the statements it ends with.
Fill(s, bs) ==
  CASE s.k \in {"block", "for", "range"} -> [s EXCEPT !.body = bs[1] \o @]
    [] s.k = "if"    -> [s EXCEPT !.a = bs[1] \o @, !.b = IF Len(bs) > 1 THEN bs[2] \o @ ELSE @]
    [] s.k = "label" -> [s EXCEPT !.s.body = bs[1] \o @]
    [] s.k = "switch" -> [s EXCEPT !.cl = [i \in DOMAIN s.cl |-> [s.cl[i] EXCEPT !.body = bs[i] \o s.cl[i].body]]]

Top == Last(frames)
Onto(fs, f, s) == Append(Front(fs), [f EXCEPT !.body = Append(@, s)])

Take(item) == /\ kernel = Unbuilt
              /\ item \notin used
              /\ Cardinality(used) < T.max
              /\ used' = used \cup {item}

Write == /\ \E i \in DOMAIN T.leaves : Take(<<"leaf", i>>) /\ frames' = Onto(frames, Top, T.leaves[i])
         /\ UNCHANGED <<theme, kernel, runs, poisoned>>
Open == /\ \E i \in DOMAIN T.heads : Take(<<"head", i>>) /\ frames' = Append(frames, Frame(<<T.heads[i]>>))
        /\ UNCHANGED <<theme, kernel, runs, poisoned>>
NextBody == /\ kernel = Unbuilt
            /\ Top.head # <<>>
            /\ Len(Top.done) + 1 < Top.head[1].n
            /\ frames' = Append(Front(frames), [Top EXCEPT !.done = Append(@, Top.body), !.body = <<>>])
            /\ UNCHANGED <<theme, used, kernel, runs, poisoned>>
Close == /\ kernel = Unbuilt
         /\ Top.head # <<>>
         /\ Len(Top.done) + 1 = Top.head[1].n
         /\ LET fs == Front(frames)
            IN  frames' = Onto(fs, Last(fs), Fill(Top.head[1].s, Append(Top.done, Top.body)))
         /\ UNCHANGED <<theme, used, kernel, runs, poisoned>>

-----------------------------------------------------------------------------
(* simt.Build: lowered, refused or not, and its tiles held to the device.  *)

Body == frames[1].body
Package == ("K" :> [ps |-> T.params, ctx |-> TRUE, result |-> "", marks |-> T.marks, struct |-> T.struct, body |-> Body])
           @@ T.helpers

\* Tiles the device cannot hold are no kernel.
Build(unit, limit) ==
  [state |-> IF limit > 0 /\ unit.shared > limit THEN "too much shared memory" ELSE "built",
   unit |-> [maxShared |-> limit] @@ unit]

Transpile(checks) ==
  LET refused == LoadPackage(Package)
      u == Lower(Package, "K", checks)
      why == IF refused # {} THEN refused ELSE u.diags
  IN  /\ kernel = Unbuilt
      /\ Len(frames) = 1 /\ Body # <<>>
      /\ \A f \in DOMAIN Package : GoAccepts(Package[f].ps, Package[f].body)
      /\ kernel' = IF why # {} THEN [state |-> "refused", why |-> why] ELSE Build(u.unit[1], T.limit)
      /\ UNCHANGED <<theme, frames, used, runs, poisoned>>

-----------------------------------------------------------------------------
(* simt.Kernel.Launch.                                                     *)

\* Device memory, an element every ElemBytes: what the one at an address holds before the launch.
ElemBytes == SizeOf["int32"]
Cell(el, addr) == IF el = "struct" THEN StructOf([struct |-> T.struct, c |-> FALSE], LAMBDA i : [t |-> "int32", v |-> addr])
                ELSE [t |-> el, v |-> (addr % 4) + 1]
Elements(r) == r.bytes \div ElemBytes
Window(p, r) == [t |-> "buf", v |-> Table([i \in 0 .. Elements(r) - 1 |-> Cell(p.el, (r.base \div ElemBytes) + i)])]
\* A tile sized at the launch, of as many elements of the type the kernel declares.
TileOf(n) == LET tiles == SelectSeq(Body, LAMBDA s : s.k = "tile" /\ s.n = Dynamic)
             IN  [t |-> "buf", v |-> Table([i \in 0 .. n - 1 |-> [t |-> Head(tiles).el, v |-> 0]])]

ParamOf(o) == CHOOSE i \in DOMAIN T.params : T.params[i].o[1] = o
SliceNames == {p.o[1] : p \in ToSet(SelectSeq(T.params, LAMBDA q : q.t = "slice"))}
Memory(given, n) == [o \in SliceNames |-> Window(T.params[ParamOf(o)], given[ParamOf(o)])] @@ ("dynamic" :> TileOf(n))
Known(given) == \A o \in SliceNames : ParamOf(o) \in DOMAIN given /\ given[ParamOf(o)].kind = "range"

\* cuda.BuildArgs: a slice is its pointer and its length, an int its low 32 bits.
BuildArgs(given) ==
  FlattenSeq(<<>> \o [i \in DOMAIN given |->
    IF given[i].kind = "range" THEN <<[t |-> "ref", v |-> T.params[i].o[1]], [t |-> "int", v |-> Elements(given[i])]>>
    ELSE <<[t |-> "int", v |-> Wrap(TRUE, "int32", given[i].v)]>>])

Bound(c, ps, vs) == Table([o \in {ps[i].o : i \in DOMAIN ps} |->
                             LET i == CHOOSE j \in DOMAIN ps : ps[j].o = o IN Conv(c, ps[i].t, vs[i])])
Finish(st, body) == LET u == Execute(st, body) IN [sig |-> u.sig, mem |-> u.mem, tr |-> u.tr]

\* One thread of the Go kernel, as gpu.RunCPU runs it, and of the C one on the device.
GoThread(tid, given, n) ==
  LET vs == [i \in DOMAIN given |-> IF given[i].kind = "range" THEN [t |-> "ref", v |-> T.params[i].o[1]]
                                    ELSE [t |-> "int", v |-> given[i].v]]
      st == Thread(FALSE, tid, Package, T.struct, <<>>, Memory(given, n))
  IN  Finish([st EXCEPT !.env = <<<<>>, Bound(FALSE, T.params, vs)>>], Body)
CThread(tid, given, n) ==
  LET u == kernel.unit
      f == u.fns["K"]
      full == IF u.width = 0 THEN given ELSE Append(given, NoRange(n))
      st == Thread(TRUE, tid, u.fns, structMembers(T.struct, GoAlign), Globals(tid), Memory(given, Held(u, n)))
  IN  Finish([st EXCEPT !.env = <<Globals(tid), Bound(TRUE, f.ps, BuildArgs(full))>>], f.body)

BlockDim == 2
Threads == 0 .. BlockDim - 1
Faults(c) == \E tid \in Threads : c[tid].sig = <<"trap">>
NoRun == [go |-> <<>>, c |-> <<>>]
Ran(given, n) == [go |-> [tid \in Threads |-> GoThread(tid, given, n)], c |-> [tid \in Threads |-> CThread(tid, given, n)]]

\* cuLaunchKernel, and for a synchronous launch the wait after it.  A fault the device has and no
\* call has met yet is the answer of the first one that meets it; a launch may be queued before it.
Answer(async, fault, met) ==
  CASE poisoned = "recorded" -> "context poisoned"
    [] met \/ (fault /\ ~async) -> "launch failed"
    [] OTHER -> ""
\* Context.call: the first sticky answer is recorded.
Fault(answer, fault) == poisoned' = CASE answer = "launch failed" -> "recorded"
                                      [] fault -> "device"
                                      [] OTHER -> poisoned

\* A kernel handed to a context in order runs; a trap is a launch failure.
LaunchWith(err, async, given, n) ==
  /\ kernel.state = "built"
  /\ Len(runs) < T.launches
  /\ Known(given) \/ err # ""
  /\ \E met \in IF poisoned # "device" THEN {FALSE} ELSE IF async THEN BOOLEAN ELSE {TRUE} :
       \E ran \in {IF err = "" /\ poisoned = "no" THEN Ran(given, n) ELSE NoRun} :
       LET fault == ran # NoRun /\ Faults(ran.c)
           answer == Answer(async, fault, met)
       IN  /\ runs' = Append(runs, [err |-> IF err # "" THEN err ELSE diagnose(kernel.unit, answer), args |-> given, n |-> n,
                                    async |-> async, late |-> poisoned = "device", go |-> ran.go, c |-> ran.c])
           /\ IF err # "" THEN UNCHANGED poisoned ELSE Fault(answer, fault)
  /\ UNCHANGED <<theme, frames, used, kernel>>

Launch1 == \E i \in DOMAIN T.bindings : LaunchWith(LaunchDim(kernel.unit, BlockDim, T.bindings[i]), FALSE, T.bindings[i], 0)
LaunchOn == \E q \in T.queued :
              LaunchWith(LaunchOnDim(kernel.unit, q.stream, BlockDim, T.bindings[q.i]), TRUE, T.bindings[q.i], 0)
LaunchShared == \E i \in DOMAIN T.bindings : \E n \in T.tiles :
                  LaunchWith(LaunchSharedDim(kernel.unit, BlockDim, n, T.bindings[i]), FALSE, T.bindings[i], n)
\* Any other call of the context's, the stream's own Sync among them, meets the fault and names no kernel.
Sync == poisoned = "device" /\ Fault("launch failed", FALSE) /\ UNCHANGED <<theme, frames, used, kernel, runs>>

-----------------------------------------------------------------------------
Init == /\ theme \in DOMAIN Themes
        /\ frames = <<[Frame(<<>>) EXCEPT !.body = T.prelude]>>
        /\ used = {}
        /\ kernel = Unbuilt
        /\ runs = <<>>
        /\ poisoned = "no"
Next == \/ Write \/ Open \/ NextBody \/ Close
        \/ \E checks \in T.checks : Transpile(checks)
        \/ (kernel # Unbuilt /\ (Launch1 \/ LaunchOn \/ LaunchShared \/ Sync))
Spec == Init /\ [][Next]_vars

-----------------------------------------------------------------------------
(* What the lowering and the launch promise together.                      *)

Normal(r, tid) == r.go # <<>> /\ r.go[tid].sig \in {<<"on">>, <<"return">>}
Left(mem) == [o \in SliceNames |-> mem[o]]

\* A launch computes what the Go source means: whenever a thread of the Go kernel runs to its
\* end, the thread of the C one does, having reached the same barriers and collective calls with
\* the same values, and leaves the buffers the same.
SameMeaning ==
  \A r \in ToSet(runs) : \A tid \in Threads :
    Normal(r, tid) => /\ r.c[tid].sig \in {<<"on">>, <<"return">>}
                     /\ r.c[tid].tr = r.go[tid].tr
                     /\ Left(r.c[tid].mem) = Left(r.go[tid].mem)

\* A bounds-checked build stops where Go panics over an index, with the buffers as Go left them
\* (WithBoundsChecks: no index outside a slice or a tile is ever used).
ChecksCatch ==
  \A r \in ToSet(runs) : \A tid \in Threads :
    kernel.unit.boundsChecks /\ r.go # <<>> /\ r.go[tid].sig = <<"panic">>
      => r.c[tid].sig = <<"trap">> /\ Left(r.c[tid].mem) = Left(r.go[tid].mem)

\* An accepted kernel is one whose threads reach the same barriers and the same collective calls,
\* in the same order (checkDivergence; on the device, a block that does not hangs).
Kinds(tr) == [i \in DOMAIN tr |-> tr[i][1]]
BarriersMeet ==
  \A r \in ToSet(runs) : (\A tid \in Threads : Normal(r, tid)) => Kinds(r.c[0].tr) = Kinds(r.c[1].tr)

\* const and __restrict__ are true of every launch let through: nothing is written through a
\* parameter declared const, nor to memory two parameters share.
SharedCells(r, i, j) == {a \in r.args[i].base .. r.args[i].base + r.args[i].bytes - 1 :
                           a \in r.args[j].base .. r.args[j].base + r.args[j].bytes - 1}
PointersKeepTheirPromise ==
  \A r \in ToSet(runs) : r.c # <<>> =>
    \A o \in SliceNames :
      LET i == ParamOf(o)
          shares == \E q \in SliceNames \ {o} : SharedCells(r, i, ParamOf(q)) # {}
      IN  kernel.unit.params[i].readOnly \/ shares
            => \A tid \in Threads : r.c[tid].mem[o] = Window(T.params[i], r.args[i])

\* A launch let through gets a tile of the n elements it asked for: the 32-bit sizes the driver is
\* handed hold it, and with the kernel's own tiles it is what the device offers.
TileFits ==
  \A r \in ToSet(runs) : r.c # <<>> /\ kernel.unit.width # 0
    => /\ Held(kernel.unit, r.n) = r.n
       /\ T.limit > 0 => kernel.unit.shared + r.n * kernel.unit.width <= T.limit

\* A TrapError names a launch of which a thread used a bad index, or (the one fault diagnose cannot
\* tell apart) the first call to meet the fault an asynchronous launch left behind; every synchronous
\* launch of a checked build that used a bad index ends in one.  A launch a poisoned context turned
\* away, or one the host refused, is never blamed.
BadIndex(r) == r.go # <<>> /\ \E tid \in Threads : r.go[tid].sig = <<"panic">>
BlameIsFair ==
  \A r \in ToSet(runs) :
    /\ r.err = "trap" => kernel.unit.boundsChecks /\ (r.late \/ (BadIndex(r) /\ ~r.async))
    /\ kernel.unit.boundsChecks /\ BadIndex(r) /\ ~r.async => r.err = "trap"

\* Where both assertions of a struct hold, the device's compiler put every field where Go has it,
\* whatever alignments it works with (struct.go: a disagreement stops the compilation).
Alignments == {1, 2, 4, 8}
LayoutsAgree ==
  kernel # Unbuilt /\ kernel.state = "built" /\ T.struct # <<>> /\ runs = <<>> =>
    LET members == structMembers(T.struct, GoAlign)
        go == Laid(T.struct, GoAlign)
    IN  \A cAlign \in [DOMAIN GoAlign -> Alignments] :
          Asserted(T.struct, GoAlign, cAlign) =>
            \A i \in DOMAIN T.struct :
              Laid(members, cAlign).at[SelectInSeq(members, LAMBDA m : m = T.struct[i])] = go.at[i]

\* NVRTC accepts what is built: no name is declared twice or out of scope, no goto steps over a
\* declaration or misses its mark, nothing is stored through a pointer to const (the generated C is
\* not the author's to repair).
Compiles ==
  kernel # Unbuilt /\ kernel.state = "built" /\ runs = <<>> =>
    \A f \in DOMAIN kernel.unit.fns : CAccepts(kernel.unit.fns, kernel.unit.fns[f].ps, kernel.unit.fns[f].body, DOMAIN Globals(0))
=============================================================================
