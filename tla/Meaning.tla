------------------------------ MODULE Meaning ------------------------------
(***************************************************************************)
(* What a kernel means, in the two languages the lowering stands between.  *)
(* A program is a tree of records tagged by k; the same interpreter runs   *)
(* the Go source and the C it became.  c says which of the two it is: the  *)
(* languages differ in integer widths, promotions, overflow, subscripts    *)
(* out of range, what a declaration's own initialiser sees, and in the few *)
(* statements only one of them has.  Everything here is the environment of *)
(* internal/lower (go/types, the Go and CUDA C language definitions, the   *)
(* gpu package's per-thread view), kept small: a thread runs alone.        *)
(***************************************************************************)
EXTENDS Source, Bitwise

CONSTANTS NarrowBits,   \* int8: narrower than the device's int
          DeviceBits,   \* int32, uint32, C's int, and Go's int as the documented narrowing leaves it
          WideBits,     \* int64
          Fuel          \* bound: loop iterations one thread may run

Unsigned == {"uint32", "unsigned int", "unsigned long long"}
Bits(c, t) == CASE t \in {"int8", "signed char"} -> NarrowBits
                [] t \in {"int64", "long long", "unsigned long long"} -> WideBits
                [] OTHER -> DeviceBits

Bad(why) == [t |-> "bad", v |-> why]
IsBad(x) == x.t = "bad"
Truth(b) == [t |-> "bool", v |-> b]
Num(x)  == IF x.t = "bool" THEN (IF x.v THEN 1 ELSE 0) ELSE x.v
Holds(x) == Num(x) # 0

\* v reduced to the width of t, two's complement.
Wrap(c, t, v) == LET m == 2 ^ Bits(c, t)
                     r == v % m
                 IN  IF t \in Unsigned \/ 2 * r < m THEN r ELSE r - m
Conv(c, t, x) == IF IsBad(x) \/ t \in {x.t, "bool"} \/ x.t \in {"ref", "arr"} THEN x
                 ELSE [t |-> t, v |-> Wrap(c, t, Num(x))]

\* C's integer promotions and usual arithmetic conversions; Go has neither.
Promote(c, t) == IF c /\ (t = "bool" \/ Bits(c, t) < DeviceBits) THEN "int" ELSE t
Common(c, t, u) == LET p == Promote(c, t)
                       q == Promote(c, u)
                   IN  CASE Bits(c, p) > Bits(c, q) -> p
                         [] Bits(c, p) < Bits(c, q) -> q
                         [] OTHER -> IF p \in Unsigned THEN p ELSE q

Trunc(a, b) == LET m == (IF a < 0 THEN -a ELSE a) \div (IF b < 0 THEN -b ELSE b)
               IN  IF (a < 0) = (b < 0) THEN m ELSE -m

Compare(op, a, b) == CASE op = "==" -> a = b  [] op = "!=" -> a # b  [] op = "<" -> a < b
                       [] op = "<=" -> a <= b [] op = ">" -> a > b   [] op = ">=" -> a >= b
Relations == {"==", "!=", "<", "<=", ">", ">="}

Arith(c, op, x, y) ==
  LET t == IF op \in Shifts THEN Promote(c, x.t) ELSE Common(c, x.t, y.t)
      w == Bits(c, t)
      a == Wrap(c, t, Num(x))
      b == IF op \in Shifts THEN Num(y) ELSE Wrap(c, t, Num(y))
      A == a % 2 ^ w
      B == b % 2 ^ w
      raw == CASE op = "+" -> a + b [] op = "-" -> a - b [] op = "*" -> a * b
               [] op = "/" -> Trunc(a, b) [] op = "%" -> a - b * Trunc(a, b)
               [] op = "&" -> A & B [] op = "|" -> A | B [] op = "^" -> A ^^ B
               [] op = "&^" -> A & (2 ^ w - 1 - B)
               [] op = "<<" -> IF b >= w THEN 0 ELSE a * 2 ^ b
               [] op = ">>" -> IF b >= w THEN (IF a < 0 THEN -1 ELSE 0) ELSE a \div 2 ^ b
      undefined == /\ c
                   /\ \/ op \in Shifts /\ b >= w
                      \/ /\ op \in {"+", "-", "*", "/", "<<"}
                         /\ t \notin Unsigned
                         /\ Wrap(c, t, raw) # raw
  IN  CASE IsBad(x) -> x
        [] IsBad(y) -> y
        [] op \in Relations -> Truth(Compare(op, a, b))
        [] (op \in {"/", "%"} /\ b = 0) \/ (op \in Shifts /\ b < 0) -> Bad(IF c THEN "ub" ELSE "arithmetic panic")
        [] undefined -> Bad("ub")
        [] OTHER -> [t |-> t, v |-> Wrap(c, t, raw)]

Unary(c, op, x) ==
  CASE IsBad(x) -> x
    [] op = "!" -> Truth(~Holds(x))
    [] op = "-" -> Arith(c, "-", [t |-> x.t, v |-> 0], x)
    [] op = "+" -> x
    [] op \in {"^", "~"} -> [t |-> Promote(c, x.t), v |-> Wrap(c, Promote(c, x.t), -1 - Num(x))]
    [] op \in {"--", "++"} -> Arith(c, SubSeq(op, 1, 1), x, [t |-> x.t, v |-> 1])

-----------------------------------------------------------------------------
(* The state of one thread: env is a sequence of scopes, a slice is a      *)
(* reference to a buffer of mem, tr the barriers and collective calls it   *)
(* has reached, sig why it left the statement it was in.                   *)

Thread(c, tid, fns, struct, globals, mem) ==
  [c |-> c, tid |-> tid, fns |-> fns, struct |-> struct, env |-> <<globals>>, mem |-> mem, tr |-> <<>>,
   sig |-> <<"on">>, val |-> Truth(FALSE), left |-> Fuel]

On(st) == st.sig = <<"on">>
Stop(st, why) == [st EXCEPT !.sig = <<why>>]
Scope(st, o) == SelectLastInSeq(st.env, LAMBDA f : o \in DOMAIN f)
Lookup(st, o) == IF Scope(st, o) = 0 THEN Bad("undeclared") ELSE st.env[Scope(st, o)][o]
Bind(st, o, x) == [st EXCEPT !.env[Len(st.env)] = (o :> x) @@ @]
Push(st) == [st EXCEPT !.env = Append(@, <<>>)]
Pop(st)  == [st EXCEPT !.env = Front(@)]

Zero == [t |-> "int8", v |-> 0]
Members(st) == SelectSeq(st.struct, LAMBDA d : d.t # "pad")
StructOf(st, Value(_)) == [t |-> "struct",
                           v |-> Table([f \in {d.f : d \in ToSet(Members(st))} |->
                                          LET i == SelectInSeq(st.struct, LAMBDA d : d.f = f)
                                          IN  Conv(st.c, st.struct[i].t, Value(i))])]
ZeroOf(st, var) == CASE var.t = "struct" -> StructOf(st, LAMBDA i : Zero)
                 [] var.t = "array" -> [t |-> "arr", v |-> Table([i \in 0 .. var.n - 1 |-> [t |-> var.el, v |-> 0]])]
                 [] OTHER -> [t |-> var.t, v |-> 0]

\* gpu.Ctx: where the thread stands.  One block of two threads, the second of two.
Position(st, m) == CASE m = "ThreadIdx" -> st.tid [] m = "BlockIdx" -> 1
                     [] m \in {"BlockDim", "GridDim"} -> 2
                     [] m \in {"GlobalID", "GlobalIDX"} -> 2 + st.tid
                     [] m \in {"BlockDimY", "GridDimY"} -> 1
                     [] OTHER -> 0
Globals(tid) == [threadIdx_x |-> [t |-> "unsigned int", v |-> tid], blockIdx_x |-> [t |-> "unsigned int", v |-> 1],
                 blockDim_x |-> [t |-> "unsigned int", v |-> 2], gridDim_x |-> [t |-> "unsigned int", v |-> 2],
                 threadIdx_y |-> [t |-> "unsigned int", v |-> 0], blockIdx_y |-> [t |-> "unsigned int", v |-> 0],
                 blockDim_y |-> [t |-> "unsigned int", v |-> 1], gridDim_y |-> [t |-> "unsigned int", v |-> 1]]

RECURSIVE Eval(_, _), PutIn(_, _, _, _), Literal(_, _)

Deref(st, x) == IF x.t = "ref" THEN st.mem[x.v] ELSE x
Element(st, x, i) == CASE IsBad(x) -> x
                       [] IsBad(i) -> i
                       [] i.v \notin DOMAIN Deref(st, x).v -> Bad(IF st.c THEN "ub" ELSE "panic")
                       [] OTHER -> Deref(st, x).v[i.v]

Eval(st, e) ==
  CASE e.k = "const" -> [t |-> e.t, v |-> e.v]
    [] e.k = "var"   -> IF Lookup(st, e.o).t = "indet" THEN Bad("ub") ELSE Lookup(st, e.o)
    [] e.k = "un"    -> Unary(st.c, e.op, Eval(st, e.x))
    [] e.k = "bin" /\ e.op \in {"&&", "||"} ->
         LET x == Eval(st, e.x)
             y == Eval(st, e.y)
         IN  CASE IsBad(x) \/ Holds(x) # (e.op = "&&") -> IF IsBad(x) THEN x ELSE Truth(Holds(x))
               [] OTHER -> IF IsBad(y) THEN y ELSE Truth(Holds(y))
    [] e.k = "bin"   -> Arith(st.c, e.op, Eval(st, e.x), Eval(st, e.y))
    [] e.k = "idx"   -> Element(st, Eval(st, e.x), Eval(st, e.i))
    [] e.k = "sel"   -> Element(st, Eval(st, e.x), [t |-> "field", v |-> e.f])
    [] e.k = "lit"   -> Literal(st, e)
    [] e.k = "conv"  -> Conv(st.c, e.t, Eval(st, e.x))
    [] e.k = "len"   -> [t |-> "int", v |-> Cardinality(DOMAIN Deref(st, Eval(st, e.x)).v)]
    [] e.k = "ctx"   -> [t |-> "int", v |-> Position(st, e.m)]
    [] e.k = "min"   -> LET x == Eval(st, e.x)
                            y == Eval(st, e.y)
                        IN  CASE IsBad(x) -> x [] IsBad(y) -> y
                              [] OTHER -> IF (x.v < y.v) = (e.op = "min") THEN x ELSE y
    [] e.k = "guard" -> LET i == Eval(st, e.i)
                            n == Eval(st, e.n)
                        IN  IF IsBad(i) \/ (~IsBad(n) /\ 0 <= i.v /\ i.v < n.v) THEN i ELSE Bad("trap")
    [] OTHER         -> Bad("ub")     \* a call where no call can be, or what no parse accepts

\* A struct literal: by field name or position in Go, by member position in C, the rest zero.
Literal(st, e) ==
  LET at(i) == IF st.c \/ ~e.keyed THEN i ELSE SelectInSeq(e.elts, LAMBDA x : x.f = st.struct[i].f)
      given == IF st.c THEN e.es ELSE [i \in DOMAIN e.elts |-> e.elts[i].e]
      value(i) == IF at(i) \in DOMAIN given /\ given[at(i)].k # "empty" THEN Eval(st, given[at(i)]) ELSE Zero
      bad == {i \in DOMAIN st.struct : IsBad(value(i))}
  IN  IF bad # {} THEN value(CHOOSE i \in bad : \A j \in bad : i <= j) ELSE StructOf(st, value)

\* Where an assignment goes: a variable and the path below it, subscripts evaluated now.
RECURSIVE Place(_, _)
Place(st, e) == CASE e.k = "var" -> [o |-> e.o, path |-> <<>>]
                  [] e.k = "idx" -> [Place(st, e.x) EXCEPT !.path = Append(@, Eval(st, e.i))]
                  [] e.k = "sel" -> [Place(st, e.x) EXCEPT !.path = Append(@, [t |-> "field", v |-> e.f])]
                  [] OTHER -> [o |-> "no lvalue", path |-> <<>>]

PutIn(c, x, path, new) == IF path = <<>> THEN Conv(c, x.t, new)
                          ELSE [x EXCEPT !.v[Head(path).v] = PutIn(c, @, Tail(path), new)]

RECURSIVE Reaches(_, _)
Reaches(x, path) == path = <<>> \/ (~IsBad(Head(path)) /\ Head(path).v \in DOMAIN x.v
                                    /\ Reaches(x.v[Head(path).v], Tail(path)))

Store(st, place, new) ==
  LET x == Lookup(st, place.o)
      bad == SelectInSeq(place.path, IsBad)
  IN  CASE IsBad(new) -> Stop(st, new.v)
        [] IsBad(x) -> Stop(st, x.v)
        [] bad # 0 -> Stop(st, place.path[bad].v)
        [] x.t = "indet" -> [st EXCEPT !.env[Scope(st, place.o)][place.o] = new]
        [] ~Reaches(Deref(st, x), place.path) -> Stop(st, IF st.c THEN "ub" ELSE "panic")
        [] x.t = "ref" /\ place.path # <<>> -> [st EXCEPT !.mem[x.v] = PutIn(st.c, @, place.path, new)]
        [] OTHER -> [st EXCEPT !.env[Scope(st, place.o)][place.o] = PutIn(st.c, @, place.path, new)]
-----------------------------------------------------------------------------
(* Effects: calls, atomics, barriers and collective operations.            *)

RECURSIVE Do(_, _), Run(_, _), RunSeq(_, _, _), Rounds(_, _), Ranging(_, _, _, _)

Atomics == [AtomicAddI32 |-> "add", AtomicMinI32 |-> "min", AtomicMaxI32 |-> "max", AtomicExchI32 |-> "exch",
            AtomicCASI32 |-> "cas", atomicAdd |-> "add", atomicMin |-> "min", atomicMax |-> "max",
            atomicExch |-> "exch", atomicCAS |-> "cas"]
AtomicResult(op, old, args) ==
  LET a == Head(args)
  IN  CASE op = "add" -> [a EXCEPT !.v = Wrap(TRUE, "int32", old.v + a.v)]
        [] op = "min" -> IF a.v < old.v THEN a ELSE old
        [] op = "max" -> IF a.v > old.v THEN a ELSE old
        [] op = "exch" -> a
        [] op = "cas" -> IF old.v = a.v THEN args[2] ELSE old

Values(st, es) == <<>> \o [i \in DOMAIN es |-> Eval(st, es[i])]
Give(st, x) == IF IsBad(x) THEN Stop(st, x.v) ELSE [st EXCEPT !.val = x]
Arrive(st, what) == [st EXCEPT !.tr = Append(@, what)]

Atomic(st, op, target, es) ==
  LET place == Place(st, target)
      args == Values(st, es)
      bad == SelectInSeq(args, IsBad)
      old == Eval(st, target)
  IN  IF bad # 0 \/ IsBad(old) THEN Stop(st, (IF bad # 0 THEN args[bad] ELSE old).v)
      ELSE [Store(st, place, AtomicResult(op, old, args)) EXCEPT !.val = old]

\* A collective call gives every thread an answer of its own; the mask must name the whole warp.
Collective(st, what, args, full) ==
  LET bad == SelectInSeq(args, IsBad)
  IN  CASE bad # 0 -> Stop(st, args[bad].v)
        [] ~full -> Stop(st, "ub")
        [] OTHER -> Give(Arrive(st, <<what>> \o [i \in DOMAIN args |-> args[i].v]),
                         IF ~st.c /\ what \in {"Any", "All"} THEN Truth(st.tid # 0) ELSE [t |-> "int", v |-> st.tid])

Call(st, f, args) ==
  LET ps == st.fns[f].ps
      frame == Table([o \in {ps[i].o : i \in DOMAIN ps} |->
                        LET i == CHOOSE j \in DOMAIN ps : ps[j].o = o IN Conv(st.c, ps[i].t, args[i])])
      u == RunSeq([st EXCEPT !.env = <<Head(st.env), frame>>], st.fns[f].body, 1)
      bad == SelectInSeq(args, IsBad)
  IN  IF bad # 0 THEN Stop(st, args[bad].v)
      ELSE [u EXCEPT !.env = st.env, !.sig = IF @ = <<"return">> THEN <<"on">> ELSE @]

FullMask == [k |-> "const", t |-> "unsigned int", v |-> "0xffffffff"]

\* The value of an expression that may have an effect, left in val.
Do(st, e) ==
  CASE ~On(st) -> st
    [] e.k = "assume" -> IF e.n.v = Position(st, "BlockDim") THEN st ELSE Stop(st, "contract")
    [] e.k = "bin" /\ e.x.k = "call" ->                             \* __any_sync(...) != 0
         LET u == Do(st, e.x) IN IF On(u) THEN Give(u, Arith(u.c, e.op, u.val, Eval(u, e.y))) ELSE u
    [] e.k = "ctx" /\ e.m = "SyncThreads" -> Arrive(st, <<"barrier">>)
    [] e.k = "atomic" -> Atomic(st, Atomics[e.m], [k |-> "idx", x |-> e.b, i |-> e.i], e.args)
    [] e.k = "warp" -> Collective(st, e.m, Values(st, e.args), TRUE)
    [] e.k = "call" /\ e.f = "__syncthreads" -> Arrive(st, <<"barrier">>)
    [] e.k = "call" /\ e.f \in DOMAIN Atomics -> Atomic(st, Atomics[e.f], Head(e.args).x, Tail(e.args))
    [] e.k = "call" /\ e.f = "collective" -> Collective(st, e.m, Values(st, Tail(e.args)), Head(e.args) = FullMask)
    [] e.k = "call" -> IF e.f \in DOMAIN st.fns THEN Call(st, e.f, Values(st, e.args)) ELSE Stop(st, "ub")
    [] OTHER -> Give(st, Eval(st, e))

-----------------------------------------------------------------------------
(* Statements.                                                             *)

\* a, b = c, d: places and values first, then the stores; a new variable is in scope, unset,
\* while its initialiser runs (Go's resolution never names it there, C's may).
Assign(st, s) ==
  LET fresh == FoldLeftDomain(LAMBDA u, i : IF i \in s.new THEN Bind(u, s.l[i].o, [t |-> "indet", v |-> 0]) ELSE u,
                              st, s.l)
      places == <<>> \o [i \in DOMAIN s.l |-> Place(fresh, s.l[i])]
      read == FoldLeft(LAMBDA u, e : LET d == Do(u.st, e) IN [st |-> d, vs |-> Append(u.vs, d.val)],
                       [st |-> fresh, vs |-> <<>>], s.r)
      put(u, i) == CASE ~On(u) -> u
                     [] i \in s.new -> Store(u, places[i], Conv(st.c, s.l[i].t, read.vs[i]))
                     [] OTHER -> Store(u, places[i], read.vs[i])
  IN  IF On(read.st) THEN FoldLeftDomain(put, read.st, s.l) ELSE read.st

Update(st, l, op, e) ==
  LET u == Do(st, e)
  IN  IF On(u) THEN Store(u, Place(u, l), Arith(st.c, op, Eval(u, l), u.val)) ELSE u

Declare(st, s) == IF s.r = <<>> THEN FoldLeft(LAMBDA u, v : Bind(u, v.o, ZeroOf(u, v)), st, s.l)
                  ELSE Assign(st, [l |-> s.l, r |-> s.r, new |-> DOMAIN s.l])

\* A block's tile: shared storage under a name; one sized at the launch is there already.
Tile(st, s) == LET at == IF s.n = Dynamic THEN "dynamic" ELSE IF st.c THEN s.o ELSE s.o[1]
                   u == IF s.n = Dynamic THEN st ELSE [st EXCEPT !.mem = (at :> ZeroOf(st, s)) @@ @]
               IN  Bind(u, s.o, [t |-> "ref", v |-> at])

Leaves(st, s, how) == st.sig \in {<<how, "">>, <<how, s.lab>>}
Ended(st, s) == IF Leaves(st, s, "break") THEN Stop(st, "on") ELSE st
Next1(st, s) == IF Leaves(st, s, "continue") THEN Stop(st, "on") ELSE st

Rounds(st, s) ==
  LET c == IF s.c = <<>> THEN Give(st, Truth(TRUE)) ELSE Do(st, Head(s.c))
      b == Next1(Pop(RunSeq(Push(c), s.body, 1)), s)
  IN  CASE ~On(c) \/ ~Holds(c.val) -> c
        [] st.left = 0 -> Stop(st, "stuck")
        [] ~On(b) -> Ended(b, s)
        [] OTHER -> Rounds([RunSeq(b, s.post, 1) EXCEPT !.left = @ - 1], s)

\* Go's range: what is ranged over is evaluated once, an array copied, a variable new each round.
Ranging(st, s, x, i) ==
  LET n == IF x.t \in {"ref", "arr"} THEN Cardinality(DOMAIN Deref(st, x).v) ELSE x.v
      key(u) == IF s.key = <<>> THEN u ELSE Bind(u, s.key[1].o, [t |-> s.key[1].t, v |-> i])
      val(u) == IF s.val = <<>> THEN u ELSE Bind(u, s.val[1].o, Deref(u, x).v[i])
      b == Next1(Pop(RunSeq(val(key(Push(st))), s.body, 1)), s)
  IN  CASE i >= n -> st
        [] st.left = 0 -> Stop(st, "stuck")
        [] ~On(b) -> Ended(b, s)
        [] OTHER -> Ranging([b EXCEPT !.left = @ - 1], s, x, i + 1)

\* The clause a switch lands in (0: none), by the first case that matches, the default failing all.
Lands(st, s, tag) ==
  LET hit(c) == \E e \in ToSet(c.l) : IF s.tag = <<>> THEN Holds(Eval(st, e)) ELSE Eval(st, e).v = tag.v
  IN  IF SelectInSeq(s.cl, hit) # 0 THEN SelectInSeq(s.cl, hit) ELSE SelectInSeq(s.cl, LAMBDA c : c.dflt)

RECURSIVE Clauses(_, _, _)
Clauses(st, s, i) ==
  LET b == Pop(RunSeq(Push(st), s.cl[i].body, 1))
      on == IF s.k = "cswitch" THEN On(b) ELSE b.sig = <<"fall">>
  IN  IF i \in 1 .. Len(s.cl) THEN IF on THEN Clauses(Stop(b, "on"), s, i + 1)
                                   ELSE IF b.sig = <<"break", "">> THEN Stop(b, "on") ELSE b
      ELSE st

Switch(st, s) ==
  LET u == RunSeq(st, s.init, 1)
      t == IF s.tag = <<>> THEN u ELSE Do(u, Head(s.tag))
  IN  IF On(t) THEN Clauses(t, s, Lands(t, s, t.val)) ELSE t

If(st, s) == LET u == Do(RunSeq(st, s.init, 1), s.c)
             IN  CASE ~On(u) -> u
                   [] Holds(u.val) -> Pop(RunSeq(Push(u), s.a, 1))
                   [] OTHER -> RunSeq(u, s.b, 1)

Run(st, s) ==
  CASE ~On(st) \/ s.k \in {"mark", "skip"} -> st
    [] s.k = "expr"   -> Do(st, s.x)
    [] s.k = "assign" -> IF s.op \in {"=", ":="} THEN Assign(st, s) ELSE Update(st, s.l[1], s.op, s.r[1])
    [] s.k = "inc"    -> Update(st, s.x, s.op, [k |-> "const", t |-> s.x.t, v |-> 1])
    [] s.k = "var"    -> Declare(st, s)
    [] s.k = "tile"   -> Tile(st, s)
    [] s.k = "block"  -> Pop(RunSeq(Push(st), s.body, 1))
    [] s.k = "if"     -> Pop(If(Push(st), s))
    [] s.k = "for"    -> Pop(Rounds(RunSeq(Push(st), s.init, 1), s))
    [] s.k = "range"  -> LET u == Do(st, s.x) IN IF On(u) THEN Ranging(u, s, u.val, 0) ELSE u
    [] s.k \in {"switch", "cswitch"} -> Pop(Switch(Push(st), s))
    [] s.k = "label"  -> Run(st, [s.s EXCEPT !.lab = s.n])
    [] s.k \in {"break", "continue", "goto"} -> [st EXCEPT !.sig = <<s.k, s.n>>]
    [] s.k = "fall"   -> Stop(st, "fall")
    [] s.k = "return" -> LET u == IF s.r = <<>> THEN st ELSE Do(st, s.r[1])
                         IN  IF On(u) THEN Stop(u, "return") ELSE u

\* Statements in order; a goto goes on at its mark when the mark is further down.
RunSeq(st, ss, i) ==
  IF i > Len(ss) THEN st
  ELSE LET u == Run(st, ss[i])
           at == {j \in i + 1 .. Len(ss) : u.sig[1] = "goto" /\ ss[j].k = "mark" /\ ss[j].n = u.sig[2]}
       IN  CASE On(u) -> RunSeq(u, ss, i + 1)
             [] at # {} -> RunSeq(Stop(u, "on"), ss, CHOOSE j \in at : TRUE)
             [] OTHER -> u
=============================================================================
