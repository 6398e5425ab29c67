-------------------------------- MODULE Tile --------------------------------
(***************************************************************************)
(* Package tile: a program records a graph of operations on signals and    *)
(* has a tensor of it computed, by one fused kernel (Materialize) or by a  *)
(* kernel for each operation (MaterializeStepwise).  Both are sequential,  *)
(* so a call is one step, over every outcome the driver can give each of   *)
(* its calls.  A node is a number, its position in the graph; numbers      *)
(* stand for float32, and three of them for what CUDA's functions compute. *)
(***************************************************************************)
EXTENDS Memory

CONSTANTS
  BlockSize, MaxTaps,      \* tile.go, scaled down
  Signals,                 \* the author's inputs, in the order they are introduced
  Filters,                 \* coefficients given to FIR, the ones it refuses included
  Factor,                  \* what Scale multiplies by
  MaxTensors               \* bound: tensors of the graph

ASSUME SizesAssumption == BlockSize \in Nat \ {0} /\ MaxTaps \in Nat \ {0}
ASSUME DataAssumption ==
  /\ Signals \in Seq(Seq(Int))
  /\ Filters \subseteq Seq(Int)
  /\ Factor \in Int

VARIABLES
  nodes,      \* Graph.nodes
  err,        \* Graph.err
  tensors,    \* the author's handles: a node, what the author asked for, and whether it may be asked (history)
  mem,        \* the context and its device memory
  answer      \* what the last call returned

graph == <<nodes, err, tensors>>
vars == <<graph, mem, answer>>

NoAnswer == <<>>
Elsewhere == 0             \* a tensor of another graph

Init ==
  /\ nodes = <<>>
  /\ err = FALSE
  /\ tensors = <<>>
  /\ mem = Untouched
  /\ answer = NoAnswer

-----------------------------------------------------------------------------
(* CUDA: what the generated text computes with.                            *)
Stray == 100003            \* a read outside its array
Read(array, i) == IF i \in DOMAIN array THEN array[i] ELSE Stray
Apply1 == [sqrtf |-> [x \in Int |-> 7 * x + 1], fabsf |-> [x \in Int |-> IF x < 0 THEN -x ELSE x]]
hypotf(x, y) == 5 * x + 3 * y

-----------------------------------------------------------------------------
(* codegen.go                                                              *)

\* The nodes a recursion through the arguments comes back from, in order.
visits(ns, root) ==
  LET order[n \in DOMAIN ns] ==
        Append(FlattenSeq([i \in DOMAIN ns[n].args |-> order[ns[n].args[i]]]), n)
  IN  order[root]
\* A list handed from one to the next: follow[x] is what x makes of it.
Passed(follow, list, xs) ==
  LET after[k \in 0 .. Len(xs)] == IF k = 0 THEN list ELSE follow[xs[k]][after[k - 1]]
  IN  after[Len(xs)]
\* seen is what is listed already: a graph has no cycle.
postorder(ns, root) ==
  LET order[n \in DOMAIN ns] ==
        [out \in Seq(DOMAIN ns) |->
           IF n \in Range(out) THEN out ELSE Append(Passed(order, out, ns[n].args), n)]
  IN  order[root][<<>>]
\* The loops over a list that skip every other node.
Only(S, xs) ==
  LET kept[k \in 0 .. Len(xs)] ==
        IF k = 0 THEN <<>> ELSE IF xs[k] \in S THEN Append(kept[k - 1], xs[k]) ELSE kept[k - 1]
  IN  kept[Len(xs)]
OfKind(ns, kind) == {n \in DOMAIN ns : ns[n].kind = kind}

\* The expression of a node, read at index i by a thread with these locals.
expr(ns, held, local, node, i) ==
  LET v[n \in DOMAIN ns] ==
        LET arg(j) == v[ns[n].args[j]]
        IN  CASE n \in DOMAIN local -> local[n]
              [] ns[n].kind = "opInput" -> Read(held[n], i)
              [] ns[n].kind = "opScale" -> ns[n].scale * arg(1)
              [] ns[n].kind = "opAdd" -> arg(1) + arg(2)
              [] ns[n].kind = "opMul" -> arg(1) * arg(2)
              [] ns[n].kind = "opUnary" -> Apply1[ns[n].cfn][arg(1)]
              [] ns[n].kind = "opHypot" -> hypotf(arg(1), arg(2))
              [] OTHER -> 0
  IN  v[node]

Threads == 0 .. BlockSize - 1
LocalsOf(locals, t) == [n \in DOMAIN locals |-> locals[n][t]]

\* Faulty: the halo before the first sample is read like any other.
HaloUnchecked(src, outLen) == src < outLen
Inside(src, outLen) == src >= 0 /\ src < outLen

\* A FIR node in one block: its tile staged with the halo, k by thread k mod BlockSize, the
\* barrier, and what every thread then has in its accumulator.
windowed(ns, held, locals, n, base, outLen) ==
  LET signal == ns[n].args[1]
      h == held[ns[n].args[2]]
      taps == Cardinality(DOMAIN h)
      staged(k) == LET src == base + k - (taps - 1)
                   IN  IF Inside(src, outLen)
                       THEN expr(ns, held, LocalsOf(locals, k % BlockSize), signal, src)
                       ELSE 0
      tile == [k \in 0 .. Min({BlockSize + MaxTaps, BlockSize + taps - 1}) - 1 |-> staged(k)]
  IN  [t \in Threads |-> SumFunction([k \in DOMAIN h |-> h[k] * Read(tile, t + taps - 1 - k)])]

\* The locals of a block after its windows, in their order.
Windows(ns, held, windows, base, outLen) ==
  LET after[k \in 0 .. Len(windows)] ==
        IF k = 0 THEN <<>>
        ELSE With(after[k - 1], windows[k], windowed(ns, held, after[k - 1], windows[k], base, outLen))
  IN  after[Len(windows)]

\* The kernel generate writes, run over a grid on these buffers.
fused(ns, root, held, outLen, grid) ==
  LET windows == Only(OfKind(ns, "opFIR"), postorder(ns, root))
      blocks == [b \in 0 .. grid - 1 |-> Windows(ns, held, windows, b * BlockSize, outLen)]
  IN  [i \in 0 .. outLen - 1 |->
         IF i < grid * BlockSize
         THEN expr(ns, held, LocalsOf(blocks[i \div BlockSize], i % BlockSize), root, i)
         ELSE Junk]

-----------------------------------------------------------------------------
Meet(a, b) == ~(a.ptr >= b.ptr + b.n \/ b.ptr >= a.ptr + a.n)
checkAliasing(m, args) ==
  LET range(j) == m.slices[args[j]]
  IN  range(1).n # 0 /\ \E j \in 2 .. Len(args) : range(j).n # 0 /\ Meet(range(1), range(j))

-----------------------------------------------------------------------------
(* run.go                                                                  *)

\* LaunchSync: the launch, then the wait that reports what happened in it.  A grid of no blocks is refused.
Held(m, inputs, args) == [n \in ToSet(inputs) |->
                            LET s == m.slices[args[1 + SelectInSeq(inputs, LAMBDA x : x = n)]]
                            IN  IF s.ptr \in DOMAIN m.live THEN m.live[s.ptr] ELSE <<>>]
LaunchSync(m, ns, root, inputs, args, grid) ==
  LET out == m.slices[args[1]]
      used == [m EXCEPT !.astray = @ \/ \E j \in DOMAIN args : m.slices[args[j]].ptr \notin DOMAIN m.live]
      done == Written(used, out.ptr,
                      fused(ns, root, Held(m, inputs, args), out.n, grid))
  IN  Then(call(m, IF grid = 0 THEN {} ELSE {used}, AnyFailure),
           LAMBDA o : call(o.mem, {done}, {"sticky"}))

\* Tensor.run over a graph: the output buffer, and in owned what its cleanup frees.  An input that is
\* on the device already is used where it is.
Carry(o, u) == [o EXCEPT !.mem = u.mem, !.err = u.err]
InPlace(o, s) == [o EXCEPT !.args = Append(@, s)]
GiveTo(o, s) == [mem |-> o.mem, err |-> o.err, owned |-> Append(o.owned, s), args |-> Append(o.args, s)]
uploadInput(o, node) ==
  IF node.dev # 0 THEN {InPlace(o, node.dev)}
  ELSE {IF u.err # "" THEN Carry(o, u) ELSE GiveTo(Carry(o, u), u.s) : u \in Upload(o.mem, node.host)}

run(m, ns, root) ==
  LET inputs == Only(OfKind(ns, "opInput"), postorder(ns, root))
      loaded == {[mem |-> l.mem, err |-> l.err, owned |-> <<>>, args |-> <<>>] : l \in call(m, {m}, AnyFailure)}
      output == Then(loaded, LAMBDA o :
                  {IF a.err # "" THEN Carry(o, a) ELSE GiveTo(Carry(o, a), a.s) : a \in NewSlice(o.mem, ns[root].n)})
      given == ThenEach(output, inputs, LAMBDA o, n : uploadInput(o, ns[n]))
      apart == {IF o.err = "" /\ checkAliasing(o.mem, o.args) THEN Carry(o, [mem |-> o.mem, err |-> "alias"])
                ELSE o : o \in given}
      grid == (ns[root].n + BlockSize - 1) \div BlockSize
  IN  Then(apart, LAMBDA o :
        {Carry(o, l) : l \in LaunchSync(o.mem, ns, root, inputs, o.args, grid)})

\* The call is over: the Slice objects are out of reach.
Forgotten(m) == [m EXCEPT !.slices = <<>>]
Over(o, owned, launches, vals) ==
  {[mem |-> Forgotten(m), answer |-> [err |-> o.err, vals |-> vals, launches |-> launches]] :
     m \in FreeAll(o.mem, owned)}
Downloaded(o, s, owned, launches) ==
  IF o.err # "" THEN Over(o, owned, launches, <<>>)
  ELSE UNION {Over(d, owned, launches, IF d.err = "" THEN d.vals ELSE <<>>) : d \in Download(o.mem, s)}

Materialized(m, root) ==
  UNION {Downloaded(o, IF o.args = <<>> THEN 0 ELSE o.args[1], o.owned, 1) : o \in run(m, nodes, root)}

\* One operation over buffers that are there, as a graph of its own.
AsInput(node, s) == [node EXCEPT !.kind = "opInput", !.args = <<>>, !.dev = s]
OfTheFirst(node) == [node EXCEPT !.args = [i \in DOMAIN @ |-> i]]
single(o, n) ==
  LET args == nodes[n].args
  IN  [j \in 1 .. Len(args) + 1 |->
         IF j <= Len(args) THEN AsInput(nodes[args[j]], o.cache[args[j]]) ELSE OfTheFirst(nodes[n])]

\* Faulty: run's cleanup is dropped whether it succeeded or not.
CleanupDropped(r) == {r.mem}
CleanupFailed(r) == IF r.err # "" THEN FreeAll(r.mem, r.owned) ELSE {r.mem}

Cached(o, n) == n \in DOMAIN o.cache

\* A node whose arguments have their buffers.
Keep(o, n, s) == [o EXCEPT !.owned = Append(@, s), !.cache = With(@, n, s)]
AfterLaunch(o, m, e) == [o EXCEPT !.mem = m, !.err = e, !.launches = @ + 1]
step(o, n) ==
  IF Cached(o, n) THEN {o}
  ELSE IF nodes[n].kind = "opInput"
  THEN {IF u.err # "" THEN Carry(o, u) ELSE Keep(Carry(o, u), n, u.s) : u \in Upload(o.mem, nodes[n].host)}
  ELSE UNION {
    {IF r.err # "" THEN AfterLaunch(o, m, r.err) ELSE Keep(AfterLaunch(o, m, ""), n, r.args[1]) : m \in CleanupFailed(r)} :
    r \in run(o.mem, single(o, n), Len(nodes[n].args) + 1)}

Stepwise(m, root) ==
  LET start == {[mem |-> m, err |-> "", cache |-> <<>>, owned |-> <<>>, launches |-> 0]}
  IN  UNION {Downloaded(o, IF root \in DOMAIN o.cache THEN o.cache[root] ELSE 0, o.owned, o.launches) :
               o \in ThenEach(start, visits(nodes, root), step)}

-----------------------------------------------------------------------------
(* tile.go: the author.  tensors end in the one an operation returned.     *)
Newest == Len(tensors)
MayBuild == err = FALSE /\ answer = NoAnswer /\ Newest < MaxTensors

Node(kind, n, args) == [kind |-> kind, n |-> n, args |-> args, host |-> <<>>, dev |-> 0, scale |-> 0, cfn |-> ""]
InputNode(xs) == [Node("opInput", Len(xs), <<>>) EXCEPT !.host = xs]

Add(new, means) ==
  /\ nodes' = nodes \o new
  /\ tensors' = Append(tensors, [node |-> Len(nodes) + Len(new), means |-> means, legal |-> TRUE])
  /\ UNCHANGED <<err, mem, answer>>

\* The graph has an error now, and the author a tensor back.
Fail(a) ==
  /\ err' = TRUE
  /\ tensors' = Append(tensors, [tensors[a] EXCEPT !.legal = FALSE])
  /\ UNCHANGED <<nodes, mem, answer>>

\* Bound: the inputs come first (no operation looks at where in the graph an input is).
Input ==
  /\ MayBuild
  /\ Newest < Len(Signals)
  /\ \A n \in DOMAIN nodes : nodes[n].kind = "opInput"
  /\ Add(<<InputNode(Signals[Newest + 1])>>, Signals[Newest + 1])

NodeOf(a) == nodes[tensors[a].node]
Means(a) == tensors[a].means

Unary(a, cfn) ==
  /\ MayBuild
  /\ Add(<<[Node("opUnary", NodeOf(a).n, <<tensors[a].node>>) EXCEPT !.cfn = cfn]>>,
         [i \in DOMAIN Means(a) |-> Apply1[cfn][Means(a)[i]]])

Scale(a) ==
  /\ MayBuild
  /\ Add(<<[Node("opScale", NodeOf(a).n, <<tensors[a].node>>) EXCEPT !.scale = Factor]>>,
         [i \in DOMAIN Means(a) |-> Factor * Means(a)[i]])

Paired(kind, x, y) == CASE kind = "opAdd" -> x + y [] kind = "opMul" -> x * y [] OTHER -> hypotf(x, y)
SameShape(a, b) == NodeOf(a).n = NodeOf(b).n

binary(a, b, kind) ==
  /\ MayBuild
  /\ IF b # Elsewhere /\ SameShape(a, b)
     THEN Add(<<Node(kind, NodeOf(a).n, <<tensors[a].node, tensors[b].node>>)>>,
              [i \in DOMAIN Means(a) |-> Paired(kind, Means(a)[i], Means(b)[i])])
     ELSE Fail(a)

containsFIR(ns, node) ==
  LET has[n \in DOMAIN ns] == ns[n].kind = "opFIR" \/ \E i \in DOMAIN ns[n].args : has[ns[n].args[i]]
  IN  has[node]

\* y[n] = sum(h[k] * a[n-k])
Filtered(xs, h) ==
  [n \in DOMAIN xs |-> SumFunction([k \in 0 .. Len(h) - 1 |-> IF n - k > 0 THEN h[k + 1] * xs[n - k] ELSE 0])]

FIR(a, h) ==
  /\ MayBuild
  /\ IF Len(h) \in 1 .. MaxTaps /\ ~containsFIR(nodes, tensors[a].node)
     THEN Add(<<InputNode(h), Node("opFIR", NodeOf(a).n, <<tensors[a].node, Len(nodes) + 1>>)>>,
              Filtered(Means(a), h))
     ELSE Fail(a)

\* Bounds: the tensor computed is the last one made (any other was the last of a smaller graph), once,
\* and again on a context that was poisoned (nothing else outlives a call).
Compute(how, outcomes) ==
  /\ Newest > 0
  /\ answer = NoAnswer \/ mem.poisoned
  /\ \E o \in IF err THEN {[mem |-> mem, answer |-> [err |-> "graph", vals |-> <<>>, launches |-> 0]]}
              ELSE outcomes :
       /\ mem' = o.mem
       /\ answer' = [how |-> how, err |-> o.answer.err, vals |-> o.answer.vals, launches |-> o.answer.launches]
  /\ UNCHANGED graph

Materialize == Compute("fused", Materialized(mem, tensors[Newest].node))
MaterializeStepwise == Compute("stepwise", Stepwise(mem, tensors[Newest].node))

Next ==
  \/ Input
  \/ \E a \in DOMAIN tensors :
       \/ \E cfn \in DOMAIN Apply1 : Unary(a, cfn)
       \/ Scale(a)
       \/ \E b \in DOMAIN tensors \union {Elsewhere}, kind \in {"opAdd", "opMul", "opHypot"} : binary(a, b, kind)
       \/ \E h \in Filters : FIR(a, h)
  \/ Materialize
  \/ MaterializeStepwise

Spec == Init /\ [][Next]_vars

-----------------------------------------------------------------------------
\* Fused or step by step, what comes back is what the author's operations say, and nothing but a
\* driver that fails keeps it from coming (codegen.go, docs/tile.md: one definition of what each
\* element is worth, halo included).
SameNumbers ==
  answer # NoAnswer =>
    IF ~tensors[Newest].legal THEN answer.err = "graph"
    ELSE IF answer.err = "" THEN answer.vals = tensors[Newest].means
    ELSE answer.err \in AnyFailure \union {"poisoned"}

\* Whatever failed and wherever, a call gives back every buffer it took, once, and the driver never
\* sees an address that is not live; only a poisoned context keeps what it had (run.go: "everything
\* the call allocated").
BuffersComeHome == (mem.live = <<>> \/ mem.poisoned) /\ ~mem.astray

\* Step by step there is one kernel for each operation the tensor is made from, however many others
\* use its result ("the number of kernels it had to launch").
EachOperationOnce ==
  answer # NoAnswer /\ answer.err = "" /\ answer.how = "stepwise" =>
    answer.launches = Cardinality({n \in Range(visits(nodes, tensors[Newest].node)) : nodes[n].kind # "opInput"})
=============================================================================
