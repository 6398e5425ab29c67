------------------------------- MODULE Render -------------------------------
(***************************************************************************)
(* internal/lower/expr.go, atomic.go, warp.go, float64.go and the types of *)
(* lower.go: a checked Go expression becomes the text of a C one, carrying *)
(* the precedence of its outermost operator, or a refusal.  t is the       *)
(* emitter: prog the package, ren the locals that had to be respelled,     *)
(* lens the length of every slice and tile, wrap the open unsigned domain, *)
(* checks whether subscripts are range-checked, float64 whether the kernel *)
(* opted in, gone the variables already refused.                           *)
(***************************************************************************)
EXTENDS Writes, CText, Structs

CONSTANTS GoAlign,    \* go/types' alignment of each type on the building host
          Width,      \* the C width of an integer type, as refuseWideShift knows it
          LongMax     \* the largest int64

\* A rendered expression: tokens, precedence, and why it is refused ("" when it is not).
Piece(s, p, why) == [s |-> s, p |-> p, why |-> why]
precArg == 2
precOr == 4
precAnd == 5
precBitOr == 6
precBitXor == 7
precBitAnd == 8
precEq == 9
precRel == 10
precShift == 11
precAdd == 12
precMul == 13
precPrefix == 14
precPostfix == 15
precAtom == 16

cBinaryPrec ==
  ("*" :> precMul) @@ ("/" :> precMul) @@ ("%" :> precMul) @@ ("+" :> precAdd) @@ ("-" :> precAdd)
  @@ ("<<" :> precShift) @@ (">>" :> precShift) @@ ("<" :> precRel) @@ ("<=" :> precRel) @@ (">" :> precRel)
  @@ (">=" :> precRel) @@ ("==" :> precEq) @@ ("!=" :> precEq) @@ ("&" :> precBitAnd) @@ ("^" :> precBitXor)
  @@ ("|" :> precBitOr) @@ ("&&" :> precAnd) @@ ("||" :> precOr)

Refuse(why) == Piece(<<>>, precAtom, why)
Atom(s, why) == Piece(s, precAtom, why)
\* The first refusal of a statement is the only one it gets.
First(whys) == LET i == SelectInSeq(whys, LAMBDA w : w # "") IN IF i = 0 THEN "" ELSE whys[i]
Paren(s) == <<Tok("(")>> \o s \o <<Tok(")")>>
at(x, min) == IF x.p < min THEN Paren(x.s) ELSE x.s
Comma(parts) == FoldLeft(LAMBDA acc, s : IF acc = <<>> THEN s ELSE acc \o <<Tok(",")>> \o s, <<>>, parts)
Called(f, parts) == <<Name(f)>> \o Paren(Comma(parts))

cppKeywords == {"auto", "class", "const", "double", "float", "int", "long", "new", "short", "this"}
cname(n) == IF n \in cppKeywords THEN n \o "_" ELSE n
cnameOf(t, o) == IF o \in DOMAIN t.ren THEN t.ren[o] ELSE cname(o[1])

Narrow == "int8" :> "signed char" @@ "uint8" :> "unsigned char"
SignedInts == {"int", "int32", "int64"}
Integer(ty) == ty \in SignedInts \cup {"uint32", "uint64"} \cup DOMAIN Narrow

\* The C type of a value, and of a thing laid out in memory, where an int would change the stride.
ctype(t, ty) ==
  CASE ty \in {"int", "int32"} -> [s |-> "int", why |-> ""]
    [] ty = "int64"   -> [s |-> "long long", why |-> ""]
    [] ty = "uint32"  -> [s |-> "unsigned int", why |-> ""]
    [] ty = "uint64"  -> [s |-> "unsigned long long", why |-> ""]
    [] ty \in {"bool"} -> [s |-> ty, why |-> ""]
    [] ty = "float32" -> [s |-> "float", why |-> ""]
    [] ty = "float64" -> [s |-> "double", why |-> IF t.float64 THEN "" ELSE "float64 is opt-in"]
    [] ty = "struct"  -> LET diags == structType(t.struct, GoAlign).diags
                         IN  [s |-> ty, why |-> CHOOSE w \in {""} \cup diags : diags = {} \/ w # ""]
    [] ty \in DOMAIN Narrow -> [s |-> "void", why |-> "storage only"]
    [] OTHER -> [s |-> "void", why |-> "unsupported type"]
ctypeElem(t, ty) ==
  CASE ty \in {"int", "uint"} -> [s |-> "void", why |-> "int does not cross to the device"]
    [] ty \in DOMAIN Narrow -> [s |-> Narrow[ty], why |-> ""]
    [] OTHER -> ctype(t, ty)

unsignedOf == [int |-> "unsigned int", int32 |-> "unsigned int", int64 |-> "unsigned long long"]
\* The unsigned type a piece of wrapping arithmetic is computed in, "" for anything else.
wrapTypeOf(e) == IF /\ e.k \in {"bin", "un"} /\ e.t \in DOMAIN unsignedOf
                    /\ IF e.k = "bin" THEN e.op \in {"+", "-", "*", "<<"} ELSE e.op = "-"
                 THEN unsignedOf[e.t] ELSE ""
inWrapDomain(t, e) == wrapTypeOf(e) = t.wrap
Suffix == [uint32 |-> "u", int64 |-> "ll", uint64 |-> "ull", bool |-> "bool"]
intSuffix(ty) == IF ty \in DOMAIN Suffix THEN Suffix[ty] ELSE ""
number(v, suffix) == IF v < 0 THEN Piece(<<Tok("-"), Number(-v, suffix)>>, precPrefix, "")
                     ELSE Atom(<<Number(v, suffix)>>, "")

constant(e) == CASE e.t = "bool" -> Atom(<<Number(e.v, "bool")>>, "")
                 [] e.t = "int64" /\ e.v = -LongMax - 1 ->
                      Atom(Paren(<<Tok("-"), Number(LongMax, "ll"), Tok("-"), Number(1, "")>>), "")
                 [] Integer(e.t) -> number(e.v, intSuffix(e.t))
                 [] OTHER -> Refuse("unsupported constant")

unarySep(op, operand) == IF operand # <<>> /\ op \in {"-", "+"} /\ operand[1].p = "op" /\ operand[1].s = op
                         THEN <<Space>> ELSE <<>>

narrowOperand(e) == e.t \in DOMAIN Narrow
refuseNarrowBinary(x, y) == IF narrowOperand(x) \/ narrowOperand(y) THEN "storage only" ELSE ""
refuseWideShift(x, y, op) ==
  CASE op \notin Shifts \/ x.t \notin DOMAIN Width -> ""
    [] y.k # "const" -> IF op = "<<" /\ x.t \in {"int", "uint"} THEN "a shift of int" ELSE ""
    [] OTHER -> IF y.v >= Width[x.t] THEN "too wide a shift" ELSE ""

\* int(x) of 64 bits is exact on the host and truncates on the device.
checkNarrowing(to, x) == IF to \in {"int", "uint"} /\ x.t \in {"int64", "uint64"} THEN "narrowing" ELSE ""

ctxBuiltins ==
  LET direct(v) == Piece(<<Cast("int"), Name(v)>>, precPrefix, "")
      global(b, d, i) == Piece(<<Cast("int")>> \o Paren(<<Name(b), Tok("*"), Name(d), Tok("+"), Name(i)>>), precPrefix, "")
  IN  [ThreadIdx |-> direct("threadIdx_x"), ThreadIdxY |-> direct("threadIdx_y"),
       BlockIdx |-> direct("blockIdx_x"), BlockIdxY |-> direct("blockIdx_y"),
       BlockDim |-> direct("blockDim_x"), BlockDimY |-> direct("blockDim_y"),
       GridDim |-> direct("gridDim_x"), GridDimY |-> direct("gridDim_y"),
       GlobalID |-> global("blockIdx_x", "blockDim_x", "threadIdx_x"),
       GlobalIDX |-> global("blockIdx_x", "blockDim_x", "threadIdx_x"),
       GlobalIDY |-> global("blockIdx_y", "blockDim_y", "threadIdx_y"),
       SyncThreads |-> Atom(<<Name("__syncthreads"), Tok("("), Tok(")")>>, "")]

gpuAtomics == [AtomicAddI32 |-> "atomicAdd", AtomicMinI32 |-> "atomicMin", AtomicMaxI32 |-> "atomicMax",
               AtomicExchI32 |-> "atomicExch", AtomicCASI32 |-> "atomicCAS"]
warpOp(c, mask, lane, cbool) == [c |-> c, mask |-> mask, lane |-> lane, cbool |-> cbool]
ctxWarp == [ShuffleI32 |-> warpOp("__shfl_sync", TRUE, TRUE, FALSE),
            ShuffleXorI32 |-> warpOp("__shfl_xor_sync", TRUE, TRUE, FALSE),
            ShuffleUpI32 |-> warpOp("__shfl_up_sync", TRUE, TRUE, FALSE),
            ShuffleDownI32 |-> warpOp("__shfl_down_sync", TRUE, TRUE, FALSE),
            Ballot |-> warpOp("__ballot_sync", TRUE, FALSE, FALSE),
            Any |-> warpOp("__any_sync", TRUE, FALSE, TRUE), All |-> warpOp("__all_sync", TRUE, FALSE, TRUE),
            SyncWarp |-> warpOp("__syncwarp", TRUE, FALSE, FALSE)]
warpFullMask == <<Number("0xffffffff", "mask")>>

-----------------------------------------------------------------------------
RECURSIVE expr(_, _)

\* What is no part of the arithmetic is computed as it always was and converted once, here.
outsideWrap(t, e) == expr([t EXCEPT !.wrap = ""], e)
enterWrapAs(t, e) ==
  IF e.k = "const" /\ e.v >= 0
  THEN number(e.v, IF t.wrap = "unsigned long long" THEN "ull" ELSE "u")
  ELSE LET x == outsideWrap(t, e) IN Piece(<<Cast(t.wrap)>> \o Paren(x.s), precPrefix, x.why)

binaryPlain(t, e) ==
  LET x == expr(t, e.x)
      y == IF e.op \in Shifts THEN outsideWrap(t, e.y) ELSE expr(t, e.y)
      why == First(<<x.why, y.why>>)
  IN  CASE e.op \in DOMAIN cBinaryPrec ->
             Piece(at(x, cBinaryPrec[e.op]) \o <<Tok(e.op), Space>> \o at(y, cBinaryPrec[e.op] + 1),
                   cBinaryPrec[e.op], why)
        [] e.op = "&^" -> Piece(at(x, precBitAnd) \o <<Tok("&"), Tok("~")>> \o at(y, precPrefix), precBitAnd, why)
        [] OTHER -> Refuse("unsupported operator")
unaryPlain(t, e) ==
  LET x == expr(t, e.x)
      operand == at(x, precPrefix)
  IN  Piece(<<Tok(e.op)>> \o unarySep(e.op, operand) \o operand, precPrefix, x.why)

\* A region of wrapping arithmetic opens at its outermost operator and converts back once.
openWrap(t, e) ==
  LET plain(u) == IF e.k = "bin" THEN binaryPlain(u, e) ELSE unaryPlain(u, e)
      x == plain([t EXCEPT !.wrap = wrapTypeOf(e)])
  IN  IF wrapTypeOf(e) = "" \/ t.wrap # "" THEN plain(t)
      ELSE Piece(<<Cast(ctype(t, e.t).s)>> \o Paren(x.s), precPrefix, x.why)

binary(t, e) ==
  LET why == First(<<refuseNarrowBinary(e.x, e.y),
                     refuseWideShift(e.x, e.y, e.op),
                     IF e.op \in {"==", "!="} /\ e.x.t \in {"array", "struct"} THEN "compared field by field" ELSE "">>)
  IN  IF why # "" THEN Refuse(why) ELSE openWrap(t, e)
unary(t, e) ==
  CASE narrowOperand(e.x) -> Refuse("storage only")
    [] e.op \in {"-", "+", "!"} -> openWrap(t, e)
    [] e.op = "^" -> LET x == expr(t, e.x) IN Piece(<<Tok("~")>> \o at(x, precPrefix), precPrefix, x.why)
    [] OTHER -> Refuse("unsupported unary operator")

ident(t, o) == CASE o[1] = "_" -> Refuse("the blank identifier")
                 [] o \in t.gone -> Refuse("refused at its declaration")
                 [] o[2] < 0 -> Refuse("declared outside the kernel")
                 [] OTHER -> Atom(<<Name(cnameOf(t, o))>>, "")

lengthOf(t, e) == IF e.k = "var" /\ e.o \in DOMAIN t.lens THEN Atom(t.lens[e.o], "")
                  ELSE Piece(<<Number(0, "")>>, precAtom, "len() of neither a slice parameter nor a tile")

\* The number of elements of what is indexed, <<>> where none can be named.
boundOf(t, x) == CASE x.t = "array" -> <<Number(x.n, "")>>
                   [] x.k = "var" /\ x.o \in DOMAIN t.lens -> t.lens[x.o]
                   [] OTHER -> <<>>
\* Faulty: a constant subscript is taken to be inside.
ConstantsTrusted(t, x, isConst, rendered) ==
  IF ~t.checks \/ boundOf(t, x) = <<>> \/ isConst THEN rendered
  ELSE Called("simtgo_bounds", <<rendered, boundOf(t, x)>>)
checked(t, x, isConst, rendered) ==
  IF ~t.checks \/ boundOf(t, x) = <<>> \/ (isConst /\ x.t = "array") THEN rendered
  ELSE Called("simtgo_bounds", <<rendered, boundOf(t, x)>>)
indexed(t, x, isConst, rendered) ==
  at(expr(t, x), precPostfix) \o <<Tok("[")>> \o checked(t, x, isConst, rendered) \o <<Tok("]")>>
index(t, e) == LET i == expr(t, e.i)
               IN  IF e.x.t \notin {"slice", "array"} THEN Refuse("only slices and arrays can be indexed")
                   ELSE Piece(indexed(t, e.x, e.i.k = "const", i.s), precPostfix, First(<<expr(t, e.x).why, i.why>>))
selector(t, e) == LET x == expr(t, e.x)
                  IN  Piece(at(x, precPostfix) \o <<Tok("."), Name(cname(e.f))>>, precPostfix, x.why)

\* A struct literal: every field, positionally, and the padding stepped over.
composite(t, e) ==
  LET given(i) == SelectInSeq(e.elts, LAMBDA x : x.f = t.struct[i].f)
      value(i) == CASE e.keyed /\ given(i) # 0 -> expr(t, e.elts[given(i)].e)
                    [] ~e.keyed /\ i \in DOMAIN e.elts -> expr(t, e.elts[i].e)
                    [] OTHER -> Atom(<<Number(0, "")>>, "")
      values == <<>> \o [i \in DOMAIN t.struct |-> value(i)]
      braced == LET ps == withPadding(t.struct, GoAlign, values)
                IN  [i \in DOMAIN ps |-> IF ps[i].s = <<>> THEN <<Tok("{"), Tok("}")>> ELSE ps[i].s]
  IN  Piece(<<Name("struct"), Tok("{")>> \o Comma(braced) \o <<Tok("}")>>, precPostfix,
            First(<<ctype(t, "struct").why>> \o [i \in DOMAIN values |-> values[i].why]))

conversion(t, e) ==
  LET x == expr(t, e.x)
      cast == IF e.t \in DOMAIN Narrow THEN [s |-> Narrow[e.t], why |-> ""] ELSE ctype(t, e.t)
  IN  Piece(<<Cast(cast.s)>> \o Paren(x.s), precPrefix, First(<<checkNarrowing(e.t, e.x), cast.why, x.why>>))

args(t, es) == <<>> \o [i \in DOMAIN es |-> at(expr(t, es[i]), precArg)]
argsWhy(t, es) == First(<<>> \o [i \in DOMAIN es |-> expr(t, es[i]).why])

\* Narrow operands have no overload, and a NaN is propagated in Go and ignored on the device.
minMax(t, e) == CASE narrowOperand(e.x) \/ narrowOperand(e.y) -> Refuse("storage only")
                  [] e.x.t \in {"float32", "float64"} -> Refuse("propagates a NaN in Go")
                  [] OTHER -> Atom(Called(e.op, args(t, <<e.x, e.y>>)), argsWhy(t, <<e.x, e.y>>))

\* A slice goes to a device function as the pointer and the length its signature splits it into.
deviceArgs(t, e) == LET ps == t.prog[e.f].ps
                    IN  FlattenSeq(<<>> \o [i \in DOMAIN ps |->
                          IF ps[i].t = "slice" THEN <<at(expr(t, e.args[i]), precArg), lengthOf(t, e.args[i]).s>>
                          ELSE <<at(expr(t, e.args[i]), precArg)>>])
deviceCall(t, e) ==
  CASE e.f \notin DOMAIN t.prog -> Refuse("not declared in this package")
    [] aliasedArgs(t.prog, e) -> Refuse("passed the same buffer twice")
    [] OTHER -> Atom(Called(cname(e.f), deviceArgs(t, e)), argsWhy(t, e.args))

\* gpu.AtomicAddI32(s, i, v) is atomicAdd(&s[i], v): the one address the lowering takes.
atomic(t, e) ==
  CASE e.m \notin DOMAIN gpuAtomics -> Refuse("no device equivalent")
    [] e.b.k # "var" -> Refuse("an atomic needs the buffer itself")
    [] ident(t, e.b.o).why # "" -> ident(t, e.b.o)
    [] e.b.o \notin DOMAIN t.lens -> Refuse("an atomic needs a slice parameter or a tile")
    [] OTHER -> Atom(Called(gpuAtomics[e.m], <<<<Tok("&")>> \o indexed(t, e.b, e.i.k = "const", expr(t, e.i).s)>> \o args(t, e.args)),
                     First(<<expr(t, e.i).why, argsWhy(t, e.args)>>))

\* A lane is unsigned to CUDA, so a constant one must not be negative; the mask is the emitter's.
checkLane(op, es) == IF op.lane /\ Len(es) > 1 /\ es[2].k = "const" /\ es[2].v < 0 THEN "a negative lane" ELSE ""
warp(t, e) ==
  LET op == ctxWarp[e.m]
      text == Called(op.c, (IF op.mask THEN <<warpFullMask>> ELSE <<>>) \o args(t, e.args))
      why == First(<<checkLane(op, e.args), argsWhy(t, e.args)>>)
  IN  IF op.cbool THEN Piece(text \o <<Tok("!="), Number(0, "")>>, precEq, why) ELSE Atom(text, why)

\* Everything Go writes as a call: conversions, builtins, gpu.Ctx, package gpu, the package's own.
call(t, e) ==
  CASE e.k = "conv"   -> conversion(t, e)
    [] e.k = "len"    -> lengthOf(t, e.x)
    [] e.k = "min"    -> minMax(t, e)
    [] e.k = "ctx"    -> IF e.m \in DOMAIN ctxBuiltins THEN ctxBuiltins[e.m] ELSE Refuse("not available on the device")
    [] e.k = "call"   -> deviceCall(t, e)
    [] e.k = "atomic" -> atomic(t, e)
    [] e.k = "warp"   -> warp(t, e)
    [] OTHER          -> Refuse("unsupported call")

expr(t, e) ==
  CASE t.wrap # "" /\ ~inWrapDomain(t, e) -> enterWrapAs(t, e)
    [] e.k = "const"  -> constant(e)
    [] e.k = "var"    -> ident(t, e.o)
    [] e.k = "bin"    -> binary(t, e)
    [] e.k = "un"     -> unary(t, e)
    [] e.k = "idx"    -> index(t, e)
    [] e.k = "sel"    -> selector(t, e)
    [] e.k = "lit"    -> composite(t, e)
    [] OTHER          -> call(t, e)
=============================================================================
