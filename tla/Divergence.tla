----------------------------- MODULE Divergence -----------------------------
(***************************************************************************)
(* internal/lower/diverge.go: does every thread of a block reach the       *)
(* barriers and the collective calls a kernel executes?  A structured walk *)
(* over the source, after a fixpoint that finds the variables two threads  *)
(* of one block may hold different values in.                              *)
(***************************************************************************)
EXTENDS Source

ctxUniform == {"BlockIdx", "BlockIdxY", "BlockDim", "BlockDimY", "GridDim", "GridDimY"}

-----------------------------------------------------------------------------
(* Which values vary, given the variables known to.                        *)

RECURSIVE varyingExpr(_, _)
anyVaries(vary, es) == \E i \in DOMAIN es : varyingExpr(vary, es[i])

\* A call into the package, an atomic and every collective answer per thread.
varyingExpr(vary, e) ==
  CASE e.k \in {"const", "len"} -> FALSE
    [] e.k = "var" -> e.t # "slice" /\ e.o \in vary
    [] e.k = "ctx" -> e.m \notin ctxUniform
    [] e.k \in {"bin", "min", "un", "conv", "idx", "sel", "lit"} -> anyVaries(vary, Kids(e))
    [] OTHER -> TRUE

\* A clause of s.tag or of its cases that two threads may answer differently.
switchVaries(vary, s) == anyVaries(vary, s.tag) \/ \E i \in DOMAIN s.cl : anyVaries(vary, s.cl[i].l)

\* A loop with this body may be left early by some threads only: a bare jump inside a nested
\* loop is that loop's, a labelled one and a return count wherever they stand.
RECURSIVE exits(_, _, _, _)
exitsVarying(vary, ss, div, nested) == \E i \in DOMAIN ss : exits(vary, ss[i], div, nested)
exits(vary, s, div, nested) ==
  CASE s.k \in {"break", "continue"} -> div /\ (s.n # "" \/ ~nested)
    [] s.k = "return" -> div
    [] s.k = "block" -> exitsVarying(vary, s.body, div, nested)
    [] s.k = "label" -> exits(vary, s.s, div, nested)
    [] s.k = "if"    -> LET inner == div \/ varyingExpr(vary, s.c)
                        IN  exitsVarying(vary, s.a, inner, nested) \/ exitsVarying(vary, s.b, inner, nested)
    [] s.k = "for"   -> exitsVarying(vary, s.body, div \/ anyVaries(vary, s.c), TRUE)
    [] s.k = "range" -> exitsVarying(vary, s.body, div, TRUE)
    [] s.k = "switch" -> LET inner == div \/ switchVaries(vary, s)
                         IN  \E i \in DOMAIN s.cl : exitsVarying(vary, s.cl[i].body, inner, nested)
    [] OTHER -> FALSE

\* Faulty: only the condition decides how often a loop runs.
ConditionAlone(vary, s) == anyVaries(vary, s.c)
forVaries(vary, s) == anyVaries(vary, s.c) \/ exitsVarying(vary, s.body, FALSE, FALSE)
rangeVaries(vary, s) == \/ s.x.t \notin {"slice", "array"} /\ varyingExpr(vary, s.x)
                        \/ exitsVarying(vary, s.body, FALSE, FALSE)

-----------------------------------------------------------------------------
(* The fixpoint.                                                           *)

RECURSIVE baseOf(_)
baseOf(e) == CASE e.k = "var" -> <<e>> [] e.k \in {"idx", "sel"} -> baseOf(e.x) [] OTHER -> <<>>

\* An element of a slice is one address the whole block reads; an array is the thread's own.
markVarying(e) ==
  LET b == baseOf(e)
  IN  IF b = <<>> \/ (e.k # "var" /\ b[1].t = "slice") THEN {} ELSE {b[1].o}
marked(es) == Union(es, markVarying)

RECURSIVE mark(_, _, _)
markAll(vary, ss, div) == Union(ss, LAMBDA s : mark(vary, s, div))

\* The variables s may leave varying; div: not every thread gets here, so what it assigns varies.
mark(vary, s, div) ==
  CASE s.k = "assign" -> UNION {IF div \/ Len(s.l) # Len(s.r) \/ varyingExpr(vary, s.r[i])
                                THEN markVarying(s.l[i]) ELSE {} : i \in DOMAIN s.l}
    [] s.k = "inc"   -> IF div THEN markVarying(s.x) ELSE {}
    [] s.k = "var"   -> UNION {IF div \/ (i \in DOMAIN s.r /\ varyingExpr(vary, s.r[i]))
                               THEN {s.l[i].o} ELSE {} : i \in DOMAIN s.l}
    [] s.k = "block" -> markAll(vary, s.body, div)
    [] s.k = "label" -> mark(vary, s.s, div)
    [] s.k = "if"    -> LET inner == div \/ varyingExpr(vary, s.c)
                        IN  markAll(vary, s.init, div) \cup markAll(vary, s.a \o s.b, inner)
    [] s.k = "for"   -> LET inner == div \/ forVaries(vary, s)
                        IN  markAll(vary, s.init, div) \cup markAll(vary, s.post \o s.body, inner)
    [] s.k = "range" -> LET inner == div \/ rangeVaries(vary, s)
                        IN  (IF inner THEN marked(s.key) ELSE {})
                            \cup (IF inner \/ varyingExpr(vary, s.x) THEN marked(s.val) ELSE {})
                            \cup markAll(vary, s.body, inner)
    [] s.k = "switch" -> LET inner == div \/ switchVaries(vary, s)
                         IN  markAll(vary, s.init, div) \cup Union(s.cl, LAMBDA c : markAll(vary, c.body, inner))
    [] OTHER -> {}

RECURSIVE grow(_, _)
grow(vary, body) == LET more == vary \cup markAll(vary, body, FALSE)
                    IN  IF more = vary THEN vary ELSE grow(more, body)

\* The launch gives a kernel's scalar parameters one value; a device function's caller need not.
varyingObjects(prog, f, entry) ==
  grow(IF entry THEN {} ELSE {p.o : p \in {q \in ToSet(prog[f].ps) : q.t # "slice"}}, prog[f].body)

-----------------------------------------------------------------------------
(* The walk.  w: what the function reaches, whether some threads may have  *)
(* returned already, and the refusals.  at: the innermost construct not    *)
(* every thread enters, "" on the block's common path.                     *)

report(w, at) == CASE at # "" -> [w EXCEPT !.diags = @ \cup {at}]
                   [] w.returns -> [w EXCEPT !.diags = @ \cup {"after a return"}]
                   [] OTHER -> w

\* The ctx.SyncThreads() call, as a statement of its own.
isBarrier(s) == s.k = "expr" /\ s.x.k = "ctx" /\ s.x.m = "SyncThreads"

RECURSIVE check(_, _, _), barrierUse(_, _, _, _)
checkAll(w, ss, at) == FoldLeft(LAMBDA u, s : check(u, s, at), w, ss)

checkCall(w, c, at) ==
  CASE c.k = "warp" -> report([w EXCEPT !.warp = TRUE], at)
    [] c.k = "call" /\ c.f \in DOMAIN w.prog ->
         LET use == barrierUse(w.prog, c.f, FALSE, w.busy)
             u == [w EXCEPT !.diags = @ \cup use.diags]
         IN  CASE use.barrier -> report([u EXCEPT !.barrier = TRUE], at)
               [] use.warp -> report([u EXCEPT !.warp = TRUE], at)
               [] OTHER -> u
    [] OTHER -> w
checkExpr(w, e, at) == FoldLeft(LAMBDA u, n : checkCall(u, n, at), w, Nodes(e))
checkExprs(w, es, at) == FoldLeft(LAMBDA u, e : checkExpr(u, e, at), w, es)

Inner(at, varies, what) == IF at = "" /\ varies THEN what ELSE at

check(w, s, at) ==
  CASE isBarrier(s)   -> report([w EXCEPT !.barrier = TRUE], at)
    [] s.k = "expr"   -> checkExpr(w, s.x, at)
    [] s.k \in {"assign", "var"} -> checkExprs(w, s.l \o s.r, at)
    [] s.k = "inc"    -> checkExpr(w, s.x, at)
    [] s.k = "block"  -> checkAll(w, s.body, at)
    [] s.k = "label"  -> check(w, s.s, at)
    [] s.k = "if"     -> checkAll(checkExpr(checkAll(w, s.init, at), s.c, at), s.a \o s.b,
                                  Inner(at, varyingExpr(w.vary, s.c), "if"))
    [] s.k = "for"    -> LET inner == Inner(at, forVaries(w.vary, s), "loop")
                         IN  checkAll(checkExprs(checkAll(w, s.init, at), s.c, inner), s.post \o s.body, inner)
    [] s.k = "range"  -> checkAll(checkExpr(w, s.x, at), s.body, Inner(at, rangeVaries(w.vary, s), "loop"))
    [] s.k = "switch" -> LET inner == Inner(at, switchVaries(w.vary, s), "switch")
                         IN  FoldLeft(LAMBDA u, c : checkAll(checkExprs(u, c.l, inner), c.body, inner),
                                      checkExprs(checkAll(w, s.init, at), s.tag, at), s.cl)
    [] s.k = "return" -> [checkExprs(w, s.r, at) EXCEPT !.returns = @ \/ at # ""]
    [] OTHER -> w

\* A function's walk as it begins: which variables vary in it, and nothing reached yet.
divergeWalk(prog, f, vary, busy) ==
  [prog |-> prog, busy |-> busy \cup {f}, vary |-> vary,
   barrier |-> FALSE, warp |-> FALSE, returns |-> FALSE, diags |-> {}]

\* A summary true at every call site; a cycle answers with the empty one, recursion being refused.
barrierUse(prog, f, entry, busy) ==
  IF f \in busy THEN divergeWalk(prog, f, {}, busy)
  ELSE checkAll(divergeWalk(prog, f, varyingObjects(prog, f, entry), busy), prog[f].body, "")

checkDivergence(prog, f) == barrierUse(prog, f, TRUE, {}).diags
=============================================================================
