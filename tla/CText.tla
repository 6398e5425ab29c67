------------------------------- MODULE CText -------------------------------
(***************************************************************************)
(* How a C++ compiler reads the expression text the lowering writes: the   *)
(* lexer's maximal munch, and C's grammar of operators.  A token is a      *)
(* record: an operator or bracket, a name, a number with the type its      *)
(* suffix gives it, a cast, or the space that keeps two tokens apart.      *)
(***************************************************************************)
EXTENDS Integers, Sequences, SequencesExt, Source

CONSTANT IntMax      \* the largest value of C's int

Tok(s)     == [p |-> "op", s |-> s]
Name(s)    == [p |-> "id", s |-> s]
Cast(s)    == [p |-> "cast", s |-> s]
Number(v, suffix) == [p |-> "num", s |-> suffix, v |-> v]
Space      == [p |-> "space", s |-> " "]

\* The longest token wins: two signs with nothing between them are one operator.
Lex(ts) == LET fused(acc, x) ==
                 IF /\ acc # <<>> /\ x.p = "op" /\ x.s \in {"-", "+"} /\ Last(acc) = x
                 THEN Append(Front(acc), Tok(x.s \o x.s)) ELSE Append(acc, x)
           IN  SelectSeq(FoldLeft(fused, <<>>, ts), LAMBDA x : x.p # "space")

\* C's table: a larger number binds tighter.
CLevel == ("||" :> 1) @@ ("&&" :> 2) @@ ("|" :> 3) @@ ("^" :> 4) @@ ("&" :> 5) @@ ("==" :> 6) @@ ("!=" :> 6)
          @@ ("<" :> 7) @@ ("<=" :> 7) @@ (">" :> 7) @@ (">=" :> 7) @@ ("<<" :> 8) @@ (">>" :> 8)
          @@ ("+" :> 9) @@ ("-" :> 9) @@ ("*" :> 10) @@ ("/" :> 10) @@ ("%" :> 10)
PrefixOps == {"-", "+", "!", "~", "--", "++", "&"}
LiteralType(v, suffix) == CASE suffix = "u" -> "unsigned int" [] suffix = "ll" -> "long long"
                            [] suffix = "ull" -> "unsigned long long" [] suffix = "bool" -> "bool"
                            [] suffix = "mask" -> "unsigned int"
                            [] OTHER -> IF v > IntMax THEN "long long" ELSE "int"

Builtins == [__shfl_sync |-> "ShuffleI32", __shfl_xor_sync |-> "ShuffleXorI32", __shfl_up_sync |-> "ShuffleUpI32",
             __shfl_down_sync |-> "ShuffleDownI32", __ballot_sync |-> "Ballot", __any_sync |-> "Any",
             __all_sync |-> "All", __syncwarp |-> "SyncWarp"]
ReadCall(f, args) ==
  CASE f = "simtgo_bounds" -> [k |-> "guard", i |-> args[1], n |-> args[2], t |-> "long long"]
    [] f \in {"min", "max"} -> [k |-> "min", op |-> f, x |-> args[1], y |-> args[2], t |-> ""]
    [] f \in DOMAIN Builtins -> [k |-> "call", f |-> "collective", m |-> Builtins[f], args |-> args, t |-> ""]
    [] OTHER -> CallOf(f, args, "")

Wrong == [e |-> [k |-> "error"], i |-> 99]       \* no expression starts here

RECURSIVE Climb(_, _, _), Primary(_, _), Postfix(_, _), Operators(_, _, _), Arguments(_, _, _, _)

Is(ts, i, s) == i \in DOMAIN ts /\ ts[i].p = "op" /\ ts[i].s = s

Arguments(ts, i, close, got) ==
  IF Is(ts, i, close) THEN [es |-> got, i |-> i + 1]
  ELSE LET a == Climb(ts, IF Is(ts, i, ",") THEN i + 1 ELSE i, 0)
       IN  IF a.i > Len(ts) THEN [es |-> Append(got, a.e), i |-> a.i] ELSE Arguments(ts, a.i, close, Append(got, a.e))

Primary(ts, i) ==
  CASE i \notin DOMAIN ts -> Wrong
    [] ts[i].p = "num" -> [e |-> Const(LiteralType(ts[i].v, ts[i].s), ts[i].v), i |-> i + 1]
    [] ts[i].p = "cast" -> LET x == Primary(ts, i + 1) IN [e |-> Convert(ts[i].s, x.e), i |-> x.i]
    [] ts[i].p = "id" /\ Is(ts, i + 1, "(") -> LET a == Arguments(ts, i + 2, ")", <<>>)
                                               IN  Postfix(ts, [e |-> ReadCall(ts[i].s, a.es), i |-> a.i])
    [] ts[i].p = "id" /\ Is(ts, i + 1, "{") -> LET a == Arguments(ts, i + 2, "}", <<>>)
                                               IN  Postfix(ts, [e |-> [k |-> "lit", es |-> a.es], i |-> a.i])
    [] Is(ts, i, "{") -> [e |-> [k |-> "empty"], i |-> i + 2]
    [] ts[i].p = "id" -> Postfix(ts, [e |-> Var(ts[i].s, ""), i |-> i + 1])
    [] ts[i].s = "(" -> LET x == Climb(ts, i + 1, 0)
                        IN  IF Is(ts, x.i, ")") THEN Postfix(ts, [e |-> x.e, i |-> x.i + 1]) ELSE Wrong
    [] ts[i].s \in PrefixOps -> LET x == Primary(ts, i + 1)
                                IN  [e |-> [k |-> "un", op |-> ts[i].s, x |-> x.e, t |-> ""], i |-> x.i]
    [] OTHER -> Wrong

Postfix(ts, x) ==
  CASE Is(ts, x.i, "[") -> LET j == Climb(ts, x.i + 1, 0) IN Postfix(ts, [e |-> Idx(x.e, j.e, ""), i |-> j.i + 1])
    [] Is(ts, x.i, ".") -> Postfix(ts, [e |-> Sel(x.e, ts[x.i + 1].s, ""), i |-> x.i + 2])
    [] OTHER -> x

Operators(ts, x, level) ==
  IF x.i \in DOMAIN ts /\ ts[x.i].p = "op" /\ ts[x.i].s \in DOMAIN CLevel /\ CLevel[ts[x.i].s] > level
  THEN LET y == Climb(ts, x.i + 1, CLevel[ts[x.i].s])
       IN  Operators(ts, [e |-> Bin(ts[x.i].s, x.e, y.e, ""), i |-> y.i], level)
  ELSE x
Climb(ts, i, level) == Operators(ts, Primary(ts, i), level)

Read(text) == LET ts == Lex(text) IN IF ts = <<>> THEN [k |-> "error"] ELSE Climb(ts, 1, 0).e
=============================================================================
