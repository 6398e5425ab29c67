------------------------------- MODULE Source -------------------------------
(***************************************************************************)
(* The checked Go syntax tree the lowering walks (go/ast and go/types):    *)
(* records tagged by k, an identifier already resolved to its object       *)
(* <<spelling, number>>, every expression carrying its type t, a folded    *)
(* constant being a const node.  A parenthesis is not a node.  A slice is  *)
(* only ever a parameter or a shared tile; a program maps the package's    *)
(* functions to their parameters (the leading gpu.Ctx left out) and body.  *)
(***************************************************************************)
EXTENDS Integers, Sequences, SequencesExt, FiniteSets, TLC

Const(t, v)        == [k |-> "const", t |-> t, v |-> v]
Var(o, t)          == [k |-> "var", o |-> o, t |-> t]
Slice(o)           == Var(o, "slice")
SliceOf(o, el)     == [k |-> "var", o |-> o, t |-> "slice", el |-> el]      \* as a parameter
Array(o, n)        == [k |-> "var", o |-> o, t |-> "array", n |-> n, el |-> "int32"]
Bin(op, x, y, t)   == [k |-> "bin", op |-> op, x |-> x, y |-> y, t |-> t]
Un(op, x)          == [k |-> "un", op |-> op, x |-> x, t |-> x.t]
Idx(x, i, t)       == [k |-> "idx", x |-> x, i |-> i, t |-> t]
Sel(x, f, t)       == [k |-> "sel", x |-> x, f |-> f, t |-> t]
Lit(keyed, elts)   == [k |-> "lit", keyed |-> keyed, elts |-> elts, t |-> "struct"]   \* elts: [f, e]
Convert(t, x)      == [k |-> "conv", t |-> t, x |-> x]
Length(x)          == [k |-> "len", x |-> x, t |-> "int"]
Ctx(m)             == [k |-> "ctx", m |-> m, t |-> "int"]
Least(op, x, y)    == [k |-> "min", op |-> op, x |-> x, y |-> y, t |-> x.t]
CallOf(f, args, t) == [k |-> "call", f |-> f, args |-> args, t |-> t]
AtomicOn(m, b, i, args) == [k |-> "atomic", m |-> m, b |-> b, i |-> i, args |-> args, t |-> "int32"]
WarpOp(m, args)    == [k |-> "warp", m |-> m, args |-> args, t |-> IF m \in {"Any", "All"} THEN "bool" ELSE "int32"]

Assigns(l, op, r)  == [k |-> "assign", l |-> l, op |-> op, r |-> r, new |-> {}]
Set(l, op, r)      == Assigns(<<l>>, op, <<r>>)
Define(l, r)       == [k |-> "assign", l |-> l, op |-> ":=", r |-> r, new |-> DOMAIN l]
Step1(x, op)       == [k |-> "inc", x |-> x, op |-> op]
VarDecl(l, r)      == [k |-> "var", l |-> l, r |-> r, t |-> "decl"]
Dynamic == -1       \* a tile sized at the launch
Runtime == -2       \* a tile whose size is no constant
\* ctx.SharedI32(n) and its kin, by the name m of the constructor.
TileTypes == [SharedI32 |-> "int32", SharedI64 |-> "int64", SharedDynI32 |-> "int32", SharedDynI64 |-> "int64"]
TileDecl(o, m, n)  == [k |-> "tile", o |-> o, m |-> m, n |-> n, t |-> "array", el |-> TileTypes[m]]
Do1(x)             == [k |-> "expr", x |-> x]
Block(body)        == [k |-> "block", body |-> body]
IfElse(init, c, a, b) == [k |-> "if", init |-> init, c |-> c, a |-> a, b |-> b]
When(c, a)         == IfElse(<<>>, c, a, <<>>)
For(init, c, post, body) == [k |-> "for", init |-> init, c |-> c, post |-> post, body |-> body, lab |-> ""]
Range1(key, val, x, body) == [k |-> "range", key |-> key, val |-> val, x |-> x, body |-> body, lab |-> ""]
SwitchOn(init, tag, cl) == [k |-> "switch", init |-> init, tag |-> tag, cl |-> cl]
Case(l, body)      == [l |-> l, dflt |-> FALSE, body |-> body]
Default(body)      == [l |-> <<>>, dflt |-> TRUE, body |-> body]
Label(n, s)        == [k |-> "label", n |-> n, s |-> s]
Branch(k, n)       == [k |-> k, n |-> n]
Fall               == [k |-> "fall"]
Return(r)          == [k |-> "return", r |-> r]
Barrier            == Do1(Ctx("SyncThreads"))

Assume(n)          == Do1([k |-> "assume", n |-> n, t |-> ""])
Shifts == {"<<", ">>"}

\* A function taken as the table of its values, not as the rule that gives them (the same to TLA+,
\* a calculation made once and not at every look-up to TLC).
Table(f) == <<>> @@ f

\* What Of gives for each, end to end.  (<<>> \o makes a tuple of the function once and for all.)
Each(ns, Of(_)) == FlattenSeq(<<>> \o [i \in DOMAIN ns |-> Of(ns[i])])

Kids(n) ==
  CASE n.k \in {"un", "conv", "len", "sel", "inc", "expr"} -> <<n.x>>
    [] n.k \in {"bin", "min"} -> <<n.x, n.y>>
    [] n.k = "idx" -> <<n.x, n.i>>
    [] n.k \in {"call", "warp"} -> n.args
    [] n.k = "lit" -> IF "es" \in DOMAIN n THEN n.es ELSE [i \in DOMAIN n.elts |-> n.elts[i].e]
    [] n.k = "guard" -> <<n.i, n.n>>
    [] n.k = "atomic" -> <<n.b, n.i>> \o n.args
    [] n.k = "assign" -> n.l \o n.r
    [] n.k = "var" /\ n.t = "decl" -> n.l \o n.r
    [] n.k = "block" -> n.body
    [] n.k = "if" -> n.init \o <<n.c>> \o n.a \o n.b
    [] n.k = "for" -> n.init \o n.c \o n.post \o n.body
    [] n.k = "range" -> n.key \o n.val \o <<n.x>> \o n.body
    [] n.k \in {"switch", "cswitch"} -> n.init \o n.tag \o Each(n.cl, LAMBDA cl : cl.l \o cl.body)
    [] n.k = "label" -> <<n.s>>
    [] n.k = "return" -> n.r
    [] OTHER -> <<>>

\* ast.Inspect: the node and everything below it, in source order.
RECURSIVE Nodes(_)
Nodes(n) == <<n>> \o Each(Kids(n), Nodes)
AllNodes(body) == Each(body, Nodes)
Some(ns, Test(_)) == \E i \in DOMAIN ns : Test(ns[i])
Union(ns, Of(_)) == UNION {Of(ns[i]) : i \in DOMAIN ns}

\* The statement sequences right below a statement.
Bodies(s) == CASE s.k \in {"block", "for", "range"} -> <<s.body>>
               [] s.k = "if" -> <<s.a, s.b>>
               [] s.k \in {"switch", "cswitch"} -> [i \in DOMAIN s.cl |-> s.cl[i].body]
               [] s.k = "label" -> <<<<s.s>>>>
               [] OTHER -> <<>>

\* The variable an index or selector chain is rooted at.
RECURSIVE Base(_)
Base(e) == CASE e.k = "var" -> {e.o} [] e.k \in {"idx", "sel"} -> Base(e.x) [] OTHER -> {}
=============================================================================
