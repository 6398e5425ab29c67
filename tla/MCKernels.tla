------------------------------ MODULE MCKernels ------------------------------
(***************************************************************************)
(* The menus.  A kernel K(ctx, a, b []int32, n int32), a block of two      *)
(* threads, 5-bit device integers; a statement of a menu is one a kernel   *)
(* of the repository has, cut to its shape.                                *)
(***************************************************************************)
EXTENDS Kernels

a == <<"a", 1>>
b == <<"b", 2>>
n == <<"n", 3>>
A == Slice(a)
B == Slice(b)
N == Var(n, "int32")
K32(v) == Const("int32", v)
KI(v) == Const("int", v)
Ti == Ctx("ThreadIdx")
Local(name, i) == Var(<<name, i>>, "int32")
Count(name, i) == Var(<<name, i>>, "int")
AtA(e) == Idx(A, e, "int32")
AtB(e) == Idx(B, e, "int32")
Put(i, e) == Set(AtA(i), "=", e)
AddTo(i, e) == Set(AtA(i), "=", Bin("+", AtA(i), e, "int32"))
Less(x, y) == Bin("<", x, y, "bool")
Same(x, y) == Bin("==", x, y, "bool")
Params2 == <<SliceOf(a, "int32"), SliceOf(b, "int32"), N>>

\* a at the bottom of memory, b above it, both of three elements.
Apart(v) == <<DevRange(0, 12), DevRange(12, 12), NoRange(v)>>
Menu == [params |-> Params2, marks |-> {}, helpers |-> <<>>, struct |-> <<>>, prelude |-> <<>>, leaves |-> <<>>, heads |-> <<>>, max |-> 1,
         bindings |-> <<Apart(2)>>, tiles |-> {}, queued |-> {}, checks |-> {FALSE}, limit |-> 0, launches |-> 1]
Construct(s, k) == [s |-> s, n |-> k]

-----------------------------------------------------------------------------
(* Expressions: two operators in either grouping, over values that         *)
(* overflow, and their unary forms.                                        *)
BinOps == <<"+", "-", "*", "/", "%", "&", "|", "^", "&^", ">>">>
X == AtB(KI(0))
Y == AtB(KI(2))
Un1 == <<"-", "^", "+">>
Trees == Each(BinOps, LAMBDA p : Each(BinOps, LAMBDA q :
               <<Bin(p, Bin(q, X, N, "int32"), Y, "int32"), Bin(p, X, Bin(q, N, Y, "int32"), "int32"),
                 Bin(p, X, Bin(q, Y, K32(1), "int32"), "int32"), Bin(p, Bin(q, X, K32(14), "int32"), N, "int32")>>))
         \o Each(BinOps, LAMBDA p : Each(Un1, LAMBDA u :
               <<Bin(p, X, Un(u, Y), "int32"), Un(u, Bin(p, X, Y, "int32")),
                Bin(p, Un(u, N), Y, "int32"), Un(u, Un(u, X))>>))
Expressions == [Menu EXCEPT !.leaves = <<>> \o [i \in DOMAIN Trees |-> Put(KI(0), Trees[i])]]

(* Other widths: bytes that are storage only, 64 bits, unsigned, shifts,   *)
(* min and max, and conditions.                                            *)
c8 == <<"c", 4>>
C8 == Convert("int32", Idx(Slice(c8), KI(1), "int8"))
Long(e) == Convert("int64", e)
Nat32(e) == Convert("uint32", e)
Mixed == <<Bin("+", C8, X, "int32"), Bin("*", C8, Convert("int32", Idx(Slice(c8), KI(2), "int8")), "int32"),
           Convert("int32", Bin("*", Long(X), Long(Y), "int64")), Convert("int32", Bin("+", Bin("*", Long(Y), Const("int64", 40), "int64"), Long(N), "int64")),
           Convert("int32", Bin("-", Nat32(N), Nat32(Y), "uint32")), Convert("int32", Bin("/", Bin("-", Nat32(N), Nat32(Y), "uint32"), Nat32(N), "uint32")),
           Convert("int32", Bin(">>", Un("-", Nat32(X)), K32(2), "uint32")),
           Bin("<<", Y, N, "int32"), Bin("<<", Y, K32(3), "int32"), Bin(">>", Un("-", Y), N, "int32"), Bin("<<", Bin("+", X, Y, "int32"), K32(1), "int32"),
           Bin("<<", Y, Bin("+", N, K32(1), "int32"), "int32"), Bin("-", K32(-16), Bin("-", X, K32(1), "int32"), "int32"),
           Least("min", Bin("+", X, Y, "int32"), N), Least("max", Un("-", X), Bin("*", N, Y, "int32")),
           Convert("int32", Bin("*", Ti, KI(3), "int")), Convert("int32", Ctx("GlobalID")),
           Convert("int32", Const("int64", -64)), Bin("*", Bin("*", Bin("+", X, Y, "int32"), Un("-", N), "int32"), K32(7), "int32")>>
Conds == LET p == Less(X, Y)
             q == Same(N, Bin("+", X, Y, "int32"))
             r == Bin(">=", Bin("&", Y, N, "int32"), X, "bool")
         IN  <<Bin("&&", p, Bin("||", q, r, "bool"), "bool"), Bin("||", Bin("&&", p, q, "bool"), r, "bool"), Un("!", Bin("&&", p, r, "bool")),
               Bin("&&", Un("!", p), Un("!", q), "bool"), Bin("!=", Bin("|", X, Y, "int32"), Bin("^", X, Y, "int32"), "bool"),
               Same(p, q), Bin("&&", Less(KI(0), Length(B)), Less(AtB(KI(0)), N), "bool"),
               Bin("||", Same(N, K32(2)), Less(AtB(KI(9)), N), "bool"), Less(Nat32(Un("-", X)), Nat32(Y)), Less(Long(X), Const("int64", -1))>>
Widths == [Menu EXCEPT !.params = @ \o <<SliceOf(c8, "int8")>>,
                       !.leaves = (<<>> \o [i \in DOMAIN Mixed |-> Put(Ti, Mixed[i])])
                                  \o [i \in DOMAIN Conds |-> When(Conds[i], <<Put(Ti, K32(9))>>)],
                       !.bindings = <<Append(Apart(2), DevRange(24, 12)), Append(Apart(-3), DevRange(28, 12))>>]

-----------------------------------------------------------------------------
(* Loops that are left early, labelled or not, counted up or ranged over.  *)
I == Count("i", 5)
X1 == Local("x", 10)
J == Count("j", 6)
V == Local("v", 7)
I2 == Local("i", 8)
CountTo(v, limit) == For(<<Define(<<v>>, <<KI(0)>>)>>, <<Less(v, limit)>>, <<Step1(v, "+")>>, <<>>)
Bump(i) == Set(AtA(i), "+", K32(1))
Opened(s, last) == [s EXCEPT !.body = last]
On1(v, leave) == When(Same(v, Convert("int", N)), <<leave>>)
Loops == [Menu EXCEPT
  !.leaves = <<Bump(I), Bump(KI(2)), On1(I, Branch("continue", "")), On1(J, Branch("break", "")), On1(J, Branch("continue", "L")),
               On1(J, Branch("break", "L")), On1(J, Return(<<>>))>>,
  !.heads = <<Construct(Label("L", Opened(CountTo(I, KI(3)), <<Define(<<X1>>, <<AtB(I)>>), Set(AtA(I), "-", X1)>>)), 1), Construct(Range1(<<J>>, <<V>>, B, <<Set(AtA(J), "=", V)>>), 1)>>,
  !.max = 4]

(* The two switches, a fallthrough, and a break inside each.               *)
Case1(l) == Case(l, <<>>)
Switches == [Menu EXCEPT
  !.leaves = <<Bump(KI(0)), Branch("break", ""), Set(AtA(KI(1)), "=", N), Branch("break", ""), Branch("continue", "")>>,
  !.heads = <<Construct(SwitchOn(<<>>, <<N>>, <<Case1(<<K32(1)>>), Case(<<K32(2), K32(3)>>, <<Fall>>), Default(<<>>)>>), 3),
              Construct(SwitchOn(<<>>, <<N>>, <<Case1(<<AtB(KI(1))>>), Default(<<>>)>>), 2),
              Construct(SwitchOn(<<Define(<<V>>, <<AtB(KI(0))>>)>>, <<>>,
                                 <<Default(<<>>), Case1(<<Less(V, N), Same(N, K32(3))>>)>>), 2),
              Construct(Range1(<<J>>, <<>>, N, <<>>), 1), Construct(Label("L", Range1(<<I>>, <<>>, A, <<>>)), 1)>>,
  !.max = 3, !.bindings = <<Apart(2), Apart(1), Apart(5)>>]

-----------------------------------------------------------------------------
(* Names: a variable declared over another it reads, in blocks, loops and  *)
(* initialisers; several assigned at once.                                 *)
X2 == Local("x", 11)
X3 == Local("x", 12)
Y1 == Local("y", 13)
Names1 == [Menu EXCEPT
  !.prelude = <<Define(<<X1>>, <<Bin("+", N, K32(1), "int32")>>)>>,
  !.leaves = <<Define(<<X2>>, <<Bin("+", X1, K32(2), "int32")>>), VarDecl(<<X3>>, <<Bin("*", X2, X1, "int32")>>),
               Put(KI(0), X1), Put(KI(2), X3), Set(X1, "=", AtB(KI(1)))>>,
  !.heads = <<Construct(Block(<<>>), 1),
              Construct(IfElse(<<Define(<<X2>>, <<Un("-", X1)>>)>>, Less(X2, N), <<>>, <<Put(KI(1), X2)>>), 1),
              Construct(Range1(<<>>, <<V>>, B, <<Set(X1, "+", V)>>), 1)>>,
  !.max = 4]
Swaps == [Menu EXCEPT
  !.prelude = <<Define(<<X1, Y1>>, <<N, AtB(KI(0))>>)>>,
  !.leaves = <<Assigns(<<X1, Y1>>, "=", <<Y1, Bin("+", X1, Y1, "int32")>>), Put(KI(2), X1), Step1(AtA(KI(1)), "-"),
               Assigns(<<AtA(KI(0)), AtA(KI(1))>>, "=", <<AtA(KI(1)), AtA(KI(0))>>),
               Assigns(<<X1, AtA(X1)>>, "=", <<K32(1), K32(5)>>), Assigns(<<AtA(X1), X1>>, "=", <<X1, AtA(KI(2))>>),
               Assigns(<<AtA(AtA(KI(0))), AtA(KI(0))>>, "=", <<K32(2), Y1>>)>>,
  !.max = 3]

-----------------------------------------------------------------------------
(* Barriers and collective calls under conditions some of which differ     *)
(* between the threads.  What a condition reads of memory nobody writes.   *)
V1 == Local("u", 15)
Div == [Menu EXCEPT
  !.prelude = <<Define(<<V1>>, <<K32(0)>>)>>,
  !.leaves = <<Barrier, Set(V1, "=", Convert("int32", Ti)), When(Less(V1, K32(1)), <<Branch("break", "")>>), Set(V1, "+", K32(1)), Return(<<>>)>>,
  !.heads = <<Construct(CountTo(I, KI(2)), 1), Construct(When(Less(V1, K32(1)), <<>>), 1),
              Construct(When(Less(AtB(KI(0)), N), <<>>), 1)>>,
  !.max = 4]
Warps == [Menu EXCEPT
  !.leaves = <<Put(KI(0), WarpOp("ShuffleI32", <<K32(1), KI(0)>>)), Define(<<V1>>, <<WarpOp("ShuffleXorI32", <<N, KI(1)>>)>>),
               Do1(CallOf("sync", <<SliceOf(a, "int32"), V1>>, "")), Set(AtA(KI(1)), "+", V1), Do1(CallOf("sync", <<SliceOf(b, "int32"), N>>, ""))>>,
  !.heads = <<Construct(When(WarpOp("Any", <<Less(N, K32(3))>>), <<>>), 1), Construct(When(Less(V1, K32(1)), <<>>), 1),
              Construct(Range1(<<J>>, <<>>, N, <<>>), 1), Construct(When(Same(AtB(KI(0)), N), <<>>), 1)>>,
  !.helpers = [sync |-> [ps |-> <<SliceOf(<<"p", 40>>, "int32"), Var(<<"k", 41>>, "int32")>>, ctx |-> TRUE, result |-> "", marks |-> {"device"}, struct |-> <<>>,
                         body |-> <<When(Less(Var(<<"k", 41>>, "int32"), K32(9)), <<Set(Idx(Slice(<<"p", 40>>), KI(0), "int32"), "=", K32(3))>>), Barrier>>]],
  !.max = 3]

-----------------------------------------------------------------------------
(* Calls into the package and atomics, launched with buffers that share    *)
(* memory, touch, or are no device memory at all.                          *)
P == <<"p", 41>>
Q == <<"q", 42>>
R == <<"r", 43>>
Helper(ps, result, body) == [ps |-> ps, ctx |-> FALSE, result |-> result, marks |-> {}, struct |-> <<>>, body |-> body]
OneOf(o, i) == Idx(Slice(o), i, "int32")
Helpers == [copy  |-> Helper(<<SliceOf(P, "int32"), SliceOf(Q, "int32")>>, "", <<Set(OneOf(P, KI(0)), "=", OneOf(Q, KI(1)))>>),
            both  |-> Helper(<<SliceOf(Q, "int32"), SliceOf(R, "int32")>>, "",
                             <<Do1(CallOf("copy", <<Slice(R), Slice(Q)>>, "")), Do1(AtomicOn("AtomicAddI32", Slice(R), KI(2), <<K32(3)>>))>>),
            total |-> Helper(<<SliceOf(P, "int32"), Var(R, "int32")>>, "int32",
                             <<When(Less(Var(R, "int32"), OneOf(P, KI(0))), <<Return(<<K32(7)>>)>>), Return(<<Bin("+", Length(Slice(P)), OneOf(P, KI(1)), "int32")>>)>>)]
Ranges == <<<<DevRange(0, 12), DevRange(8, 12), NoRange(1)>>, <<DevRange(0, 12), DevRange(0, 0), NoRange(1)>>,
            <<DevRange(4, 12), DevRange(4, 12), NoRange(1)>>, <<DevRange(12, 12), DevRange(0, 12), NoRange(1)>>,
            <<DevRange(0, 12), NoRange(1)>>, <<NoRange(0), DevRange(0, 12), NoRange(1)>>>>
Calls1 == [Menu EXCEPT
  !.helpers = Helpers,
  !.leaves = <<Do1(CallOf("copy", <<A, B>>, "")), Do1(CallOf("copy", <<A, A>>, "")), Do1(CallOf("both", <<A, B>>, "")), Do1(CallOf("both", <<B, A>>, "")),
               Set(AtA(KI(1)), "=", CallOf("total", <<B, N>>, "int32")), Set(AtA(KI(1)), "=", CallOf("total", <<A, AtB(KI(2))>>, "int32")),
               Do1(AtomicOn("AtomicMaxI32", B, KI(0), <<Bin("-", N, K32(1), "int32")>>)), Set(AtA(KI(2)), "=", AtomicOn("AtomicCASI32", A, Ti, <<K32(1), N>>)),
               When(Less(AtB(KI(1)), AtA(KI(1))), <<Return(<<>>)>>)>>,
  !.max = 2, !.bindings = <<Apart(2)>> \o Ranges]

-----------------------------------------------------------------------------
(* Indices outside, built with the checks and without; a fault poisons the *)
(* context for the launch after it.                                        *)
Bounds == [Menu EXCEPT
  !.leaves = <<Put(N, K32(1)), Put(KI(3), N), AddTo(Bin("-", N, K32(1), "int32"), K32(1)), When(Less(AtB(N), K32(2)), <<Put(KI(0), K32(6))>>),
               Assigns(<<AtA(KI(0)), AtA(Bin("+", N, K32(1), "int32"))>>, "=", <<N, K32(4)>>), Assigns(<<AtA(AtB(KI(0))), AtA(N)>>, "=", <<AtB(KI(2)), K32(4)>>),
               VarDecl(<<Array(<<"r", 17>>, 2)>>, <<>>), Set(Idx(Array(<<"r", 17>>, 2), N, "int32"), "=", AtB(KI(0))), Set(AtA(KI(1)), "=", Idx(Array(<<"r", 17>>, 2), KI(1), "int32")),
               Do1(CallOf("at", <<A, N>>, "")), Do1(AtomicOn("AtomicAddI32", A, N, <<K32(1)>>))>>,
  !.helpers = [at |-> Helper(<<SliceOf(P, "int32"), Var(R, "int32")>>, "", <<Set(OneOf(P, Var(R, "int32")), "=", K32(5))>>)],
  !.max = 2, !.bindings = <<Apart(1), Apart(3), Apart(-1)>>, !.checks = BOOLEAN,
  !.queued = {[i |-> i, stream |-> TRUE] : i \in 1 .. 2}, !.launches = 2]

-----------------------------------------------------------------------------
(* Tiles, their sizes around what 32 bits and the device hold, and the     *)
(* declared block size.                                                    *)
S1 == Slice(<<"s", 18>>)
D1 == Slice(<<"d", 19>>)
E1 == Slice(<<"e", 20>>)
Tiled(limit) == [Menu EXCEPT
  !.leaves = <<TileDecl(<<"s", 18>>, "SharedI32", 2), Set(Idx(S1, Ti, "int32"), "=", N), Put(KI(0), Idx(S1, Ti, "int32")), TileDecl(<<"d", 19>>, "SharedDynI32", Dynamic), TileDecl(<<"e", 20>>, "SharedDynI64", Dynamic),
               When(Less(Ti, Length(E1)), <<Set(Idx(E1, Ti, "int64"), "-", Long(AtB(KI(1)))), Put(KI(1), Convert("int32", Idx(E1, Ti, "int64")))>>),
               Put(KI(1), Convert("int32", Length(D1))), When(Less(Ti, Length(D1)), <<Set(Idx(D1, Ti, "int32"), "+", AtB(KI(0))), Put(KI(2), Idx(D1, Ti, "int32"))>>),
               Assume(K32(2)), Assume(K32(4)), Assume(K32(0))>>,
  !.max = 3, !.tiles = {-1, 0, 1, 3, 4, 8}, !.queued = {[i |-> 1, stream |-> limit = 0]}, !.limit = limit]

-----------------------------------------------------------------------------
(* Structs: holes before a field, at the end, in both places and nowhere,  *)
(* read, written and made by literals.                                     *)
Field(f, t) == [f |-> f, t |-> t]
St == <<"s", 21>>
At0(i) == Idx(Slice(St), i, "struct")
W1 == Var(<<"w", 22>>, "struct")
Shaped(fields) == [Menu EXCEPT
  !.params = <<SliceOf(a, "int32"), SliceOf(St, "struct"), N>>, !.struct = fields,
  !.prelude = <<Define(<<W1>>, <<At0(KI(2))>>), Set(Sel(W1, "x", "int32"), "-", K32(2))>>,
  !.leaves = <<Set(Sel(At0(KI(1)), "x", "int32"), "=", N), Put(KI(1), Sel(At0(Ti), "x", "int32")), Set(At0(KI(0)), "=", At0(KI(1))),
               Set(At0(KI(0)), "=", Lit(TRUE, <<[f |-> "z", e |-> Const("int64", 5)], [f |-> "x", e |-> Bin("+", N, K32(1), "int32")]>>)),
               Set(At0(Ti), "=", Lit(FALSE, <<>> \o [i \in DOMAIN fields |-> [f |-> fields[i].f, e |-> Const(fields[i].t, i)]])),
               Set(At0(KI(1)), "=", W1)>>,
  !.max = 2]
Shapes == <<<<Field("y", "int8"), Field("x", "int32"), Field("z", "int64")>>, <<Field("z", "int64"), Field("x", "int32")>>,
            <<Field("x", "int32"), Field("z", "int64"), Field("y", "int8")>>, <<Field("x", "int32"), Field("y", "int32"), Field("z", "int64")>>>>
Structured == <<>> \o [i \in DOMAIN Shapes |-> Shaped(Shapes[i])]

-----------------------------------------------------------------------------
\* The menus below the passing run: several assigned at once, one of them a field of an element.
Below == <<[Shaped(Shapes[2]) EXCEPT !.prelude = <<Define(<<X1>>, <<Bin("-", N, K32(1), "int32")>>)>>,
                                     !.leaves = <<Put(KI(0), X1), Assigns(<<X1, AtA(X1)>>, "=", <<K32(0), K32(5)>>),
                                                  Assigns(<<X1, Sel(At0(X1), "x", "int32")>>, "=", <<K32(0), K32(5)>>)>>]>>
\* What is handed over as a constant is under a LET, where TLC's account of the next-state relation
\* stops: it unfolds every use of every operator.
MCBelow == LET all == Below IN all
Menus == <<Expressions, Widths, Loops, Switches, Names1, Swaps, Div, Warps, Calls1, Bounds, Tiled(0), Tiled(20)>> \o Structured
MCThemes == LET all == Menus IN all
MCLower(prog, f, checks) == LET lowered1 == Kernel(prog, f, checks) IN lowered1
MCExecute(st, body) == LET end == RunSeq(st, body, 1) IN end
MCWidth == [int |-> 5, int32 |-> 5, uint32 |-> 5, int64 |-> 7, uint64 |-> 7]
MCAlign == [int8 |-> 1, int32 |-> 4, int64 |-> 8]
=============================================================================
