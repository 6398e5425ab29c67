----------------------------- MODULE Statements -----------------------------
(***************************************************************************)
(* internal/lower/stmt.go: Go statements become C statements.  The emitter *)
(* t grows by: out the C written so far, diags the refusals, names every   *)
(* spelling taken, labels the labelled loops that are open, pend the label *)
(* the next loop carries, brk what a bare break would leave, ind how deep  *)
(* the walk is, dev/result the device function being lowered, sig what the *)
(* kernel's signature spells, and what the launch is told: need the block  *)
(* size, shared the bytes of the tiles, dyn the tile sized at the launch.  *)
(* The C is kept as the tree a compiler reads in the text (CText!Read).    *)
(***************************************************************************)
EXTENDS Render

CDecl(name, ty, x)  == Define(<<Var(name, ty)>>, <<Read(x.s)>>)
CSet(l, op, x)      == Set(Read(l), op, Read(x.s))
Mark(n)             == [k |-> "mark", n |-> n]

fail(t, why)        == IF why = "" THEN t ELSE [t EXCEPT !.diags = Append(@, why)]
line(t, c)          == [t EXCEPT !.out = Append(@, c)]
poison(t, o)        == [t EXCEPT !.gone = @ \cup {o}]
emit(t, c, why)     == fail(line(t, c), why)

\* A generated name nothing in the function spells, and the emitter that has taken it.
reserve(t, base) == IF base \notin t.names THEN base
                    ELSE base \o ToString(CHOOSE i \in 2 .. 9 : /\ base \o ToString(i) \notin t.names
                                                                /\ \A j \in 2 .. i - 1 : base \o ToString(j) \in t.names)
taken(t, n)   == [t EXCEPT !.names = @ \cup {n}]
release(t, n) == [t EXCEPT !.names = @ \ {n}]

\* Faulty: an initialiser never names the variable it hides.
NeverRenames(t, o, e) == t
\* a := a + 1 reads the outer a in Go and itself in C: the new one is respelled.
shadowRename(t, o, e) ==
  LET n == reserve(t, o[1])
  IN  IF Some(Nodes(e), LAMBDA use : use.k = "var" /\ use.t # "decl" /\ use.o[1] = o[1] /\ use.o # o)
      THEN [taken(t, n) EXCEPT !.ren = (o :> cname(n)) @@ @] ELSE t

\* The C type and shape of a variable.
cdecl(t, v) == IF v.t = "array" THEN [ctypeElem(t, v.el) EXCEPT !.why = IF v.n = 0 THEN "no zero-length array" ELSE @]
               ELSE ctype(t, v.t)
zeroValue(t, v, name) == CASE v.t = "array" -> VarDecl(<<[v EXCEPT !.o = name, !.el = cdecl(t, v).s]>>, <<>>)
                           [] v.t = "struct" -> VarDecl(<<[v EXCEPT !.o = name]>>, <<>>)
                           [] OTHER -> Define(<<Var(name, cdecl(t, v).s)>>, <<Const("int", 0)>>)

\* `T name` for a new variable; one without a device type is poisoned.
declare(t, v) == LET d == cdecl(t, v)
                 IN  [t |-> IF d.why = "" THEN t ELSE poison(t, v.o), name |-> cnameOf(t, v.o), ty |-> d.s, why |-> d.why]
\* C++ will not assign an array; Go copies it.
refuseArrayValue(e) == IF e.t = "array" THEN "a whole array cannot be assigned" ELSE ""

\* T name = e, with what became of the emitter.
define(t, v, e) ==
  LET d == declare(shadowRename(t, v.o, e), v)
      x == expr(d.t, e)
  IN  CASE refuseArrayValue(v) # "" -> [t |-> poison(t, v.o), c |-> <<>>, why |-> refuseArrayValue(v)]
        [] d.why # "" -> [t |-> d.t, c |-> <<>>, why |-> d.why]
        [] OTHER -> [t |-> d.t, c |-> <<CDecl(d.name, d.ty, x)>>, why |-> x.why]

\* An assignment or increment, as a statement or a for clause.
simple(t, s) ==
  LET refused(why) == [t |-> t, c |-> <<>>, why |-> why]
      x == expr(t, IF s.k = "inc" THEN s.x ELSE s.l[1])
      y == expr(t, s.r[1])
  IN  CASE s.k = "inc" -> IF narrowOperand(s.x) THEN refused("storage only")
                          ELSE [t |-> t, c |-> <<Step1(Read(x.s), s.op)>>, why |-> x.why]
        [] s.k # "assign" -> refused("unsupported clause")
        [] Len(s.l) # 1 \/ Len(s.r) # 1 -> refused("multiple assignment in a clause")
        [] s.op = ":=" -> define(t, s.l[1], s.r[1])
        [] s.op \notin {"=", "+", "-", "*", "/", "%", "&", "|", "^", "<<", ">>"} -> refused("unsupported assignment")
        [] refuseArrayValue(s.l[1]) # "" -> refused(refuseArrayValue(s.l[1]))
        [] s.op # "=" /\ (narrowOperand(s.l[1]) \/ narrowOperand(s.r[1])) -> refused("storage only")
        [] OTHER -> [t |-> t, c |-> <<CSet(x.s, s.op, y)>>, why |-> First(<<x.why, y.why>>)]

written(r, t) == fail([r.t EXCEPT !.out = t.out \o r.c], r.why)
clause(t, ss) == IF ss = <<>> THEN [t |-> t, c |-> <<>>, why |-> ""] ELSE simple(t, ss[1])

-----------------------------------------------------------------------------
RECURSIVE baseName(_)
baseName(e) == CASE e.k = "var" -> cname(e.o[1]) [] e.k = "idx" -> baseName(e.x) [] e.k = "sel" -> cname(e.f)
                 [] OTHER -> "tmp"

\* An index that reads the same in both phases: a constant, or a variable this statement leaves alone.
stableIndex(e, assigned) == e.k = "const" \/ (e.k = "var" /\ e.o \notin assigned)

\* One left-hand side: its text, its index lifted into a temporary where it could change.
assignTarget(t, l, assigned) ==
  LET n == reserve(t, baseName(l) \o "_idx")
      d == ctype(t, l.i.t)
      x == expr(t, l)
  IN  IF l.k # "idx" \/ stableIndex(l.i, assigned) THEN [t |-> t, s |-> x.s, why |-> x.why]
      ELSE [t |-> line(taken(t, n), CDecl(n, d.s, expr(t, l.i))), s |-> indexed(t, l.x, FALSE, <<Name(n)>>),
            why |-> First(<<d.why, expr(t, l.i).why, expr(t, l.x).why>>)]

\* a, b = c, d: the targets, then every value into a temporary, then the stores.
parallelAssign(t, s) ==
  LET assigned == {s.l[i].o : i \in {j \in DOMAIN s.l : s.l[j].k = "var"}}
      target(acc, i) ==
        LET l == s.l[i]
            a == assignTarget(acc.t, l, assigned)
        IN  CASE l.k = "var" /\ l.o[1] = "_" -> [t |-> fail(acc.t, "the blank identifier"), s |-> Append(acc.s, <<>>)]
              [] i \in s.new -> [acc EXCEPT !.s = Append(@, <<>>)]
              [] OTHER -> [t |-> fail(a.t, a.why), s |-> Append(acc.s, a.s)]
      value(acc, i) ==
        LET n == reserve(acc.t, baseName(s.l[i]) \o "_tmp")
            d == ctype(acc.t, s.l[i].t)
            x == expr(acc.t, s.r[i])
        IN  IF s.l[i].t = "array" THEN [acc EXCEPT !.t = fail(poison(@, s.l[i].o), refuseArrayValue(s.l[i])), !.s = Append(@, "")]
            ELSE [t |-> emit(taken(acc.t, n), CDecl(n, d.s, x), First(<<d.why, x.why>>)), s |-> Append(acc.s, n)]
      targets == FoldLeftDomain(target, [t |-> t, s |-> <<>>], s.l)
      temps == FoldLeftDomain(value, [t |-> targets.t, s |-> <<>>], s.r)
      store(u, i) == LET from == Atom(<<Name(temps.s[i])>>, "")
                         d == declare(u, s.l[i])
                     IN  CASE i \in s.new -> line(d.t, CDecl(d.name, d.ty, from))
                           [] targets.s[i] = <<>> \/ temps.s[i] = "" -> u
                           [] OTHER -> line(u, CSet(targets.s[i], "=", from))
  IN  FoldLeftDomain(store, temps.t, s.l)

\* var a, b = x, y: each name declared in turn.
decl(t, s) ==
  LET each(u, i) ==
        LET v == s.l[i]
            w == IF s.r = <<>> THEN u ELSE shadowRename(u, v.o, s.r[i])
            d == cdecl(w, v)
            x == expr(w, s.r[i])
        IN  CASE s.r # <<>> /\ refuseArrayValue(v) # "" -> fail(poison(u, v.o), refuseArrayValue(v))
              [] d.why # "" -> fail(poison(w, v.o), d.why)
              [] s.r = <<>> -> line(w, zeroValue(w, v, cnameOf(w, v.o)))
              [] OTHER -> emit(w, CDecl(cnameOf(w, v.o), d.s, x), x.why)
  IN  FoldLeftDomain(each, t, s.l)

\* A __shared__ tile: at the top level only; one sized at the launch only in a kernel, and once.
sharedElems    == [SharedI32 |-> "int32", SharedI64 |-> "int64"]
sharedDynElems == [SharedDynI32 |-> "int32", SharedDynI64 |-> "int64"]
sharedReq(elem, n, dynamic) == [elem |-> elem, n |-> n, dynamic |-> dynamic]

\* The request a constructor makes, <<>> where it is malformed: a length the host computes.
sharedCall(s) == CASE s.m \in DOMAIN sharedDynElems -> <<sharedReq(sharedDynElems[s.m], 0, TRUE)>>
                   [] s.n = Runtime -> <<>>
                   [] OTHER -> <<sharedReq(sharedElems[s.m], s.n, FALSE)>>

dynamicShared(t, s, name, ctypeName, width) ==
  CASE t.dev -> fail(t, "a dynamic tile may only be declared in a kernel")
    [] t.dyn # "" -> fail(t, "a second dynamic tile")
    [] name \o "_len" \in t.sig -> fail(t, "the tile's length collides with the signature")
    [] OTHER -> [line(t, [s EXCEPT !.o = name, !.el = ctypeName])
                   EXCEPT !.lens = (s.o :> <<Name(name \o "_len")>>) @@ @, !.dyn = name, !.dynWidth = width]
shared(t, s, req) ==
  LET name == cname(s.o[1])
      elem == ctypeElem(t, req.elem)
      width == SizeOf[req.elem]
  IN  CASE t.ind # 1 -> fail(t, "shared memory must be declared at the top level")
        [] elem.why # "" -> fail(poison(t, s.o), elem.why)
        [] req.dynamic -> dynamicShared(t, s, name, elem.s, width)
        [] OTHER -> [line(t, [s EXCEPT !.o = name, !.el = elem.s]) EXCEPT !.lens = (s.o :> <<Number(req.n, "")>>) @@ @,
                                                                          !.shared = @ + width * req.n]

\* A tile is what a := of one of its constructors declares.
failTupleAssign(t) == fail(t, "several values from one expression")
assign(t, s) == CASE s.k = "tile" -> IF sharedCall(s) = <<>> THEN fail(poison(t, s.o), "a tile needs a constant size")
                                     ELSE shared(t, s, sharedCall(s)[1])
                  [] Len(s.l) > 1 /\ Len(s.l) # Len(s.r) -> failTupleAssign(t)
                  [] Len(s.l) > 1 -> parallelAssign(t, s)
                  [] OTHER -> written(simple(t, s), t)

returnStmt(t, s) ==
  CASE s.r = <<>> -> line(t, Return(<<>>))
    [] ~t.dev \/ t.result = "" -> fail(t, "nothing to return a value to")
    [] Len(s.r) > 1 -> fail(t, "at most one value")
    [] OTHER -> LET x == expr(t, s.r[1]) IN emit(t, Return(<<Read(x.s)>>), x.why)

\* ctx.AssumeBlockDim(n): a promise about the launch, made once, unconditionally, and written nowhere.
assumeBlockDim(t, n) ==
  CASE t.dev -> fail(t, "AssumeBlockDim in a device function")
    [] t.ind # 1 -> fail(t, "AssumeBlockDim below the top level")
    [] n.k # "const" -> fail(t, "AssumeBlockDim needs a constant")
    [] n.v <= 0 -> fail(t, "AssumeBlockDim needs a positive size")
    [] t.need \notin {0, n.v} -> fail(t, "AssumeBlockDim declared twice")
    [] OTHER -> [t EXCEPT !.need = n.v]

\* A labelled jump is a goto; what a bare break would leave.
jump(t, s) == IF s.n \notin DOMAIN t.labels THEN fail(t, "does not label a for loop")
              ELSE line(t, Branch("goto", t.labels[s.n] \o "_" \o s.k))
enclosing(t) == IF t.brk = <<>> THEN "loop" ELSE Last(t.brk)
branch(t, s) ==
  CASE s.k = "fall" -> fail(t, "fallthrough where no C switch is")
    [] s.n # "" -> jump(t, s)
    [] s.k = "break" /\ enclosing(t) = "if switch" -> fail(t, "cannot break out of an if/else chain")
    [] OTHER -> line(t, s)

-----------------------------------------------------------------------------
RECURSIVE stmt(_, _)
stmts(t, ss) == FoldLeft(stmt, t, ss)
\* The statements of a brace, in a buffer of their own.
inside(t, ss, depth) == [stmts([t EXCEPT !.out = <<>>, !.ind = @ + depth], ss) EXCEPT !.ind = t.ind]
close(t, u, c) == line([u EXCEPT !.out = t.out], c)
\* An initialiser gets a brace of its own, as Go gives it a scope.
scoped(t, init, Rest(_)) ==
  IF init = <<>> THEN Rest(t)
  ELSE LET u == written(simple([t EXCEPT !.out = <<>>, !.ind = @ + 1], init[1]), [t EXCEPT !.out = <<>>])
           w == Rest(u)
       IN  close(t, [w EXCEPT !.ind = t.ind], Block(w.out))

ifStmt(t, s) ==
  LET rest(u) == LET c == expr(u, s.c)
                     a == inside(u, s.a, 1)
                     b == inside(a, s.b, 1)
                 IN  fail(close(u, b, IfElse(<<>>, Read(c.s), a.out, b.out)), c.why)
  IN  scoped(t, s.init, rest)

\* Faulty: the target of a labelled continue ends the body's own scope.
TargetInTheBody(t, body, head, lbl) ==
  LET u == inside([t EXCEPT !.brk = Append(@, "loop")], body, 1)
  IN  [u EXCEPT !.brk = t.brk, !.out = head \o @ \o (IF lbl.cont THEN <<Mark(lbl.name \o "_continue")>> ELSE <<>>)]
\* A labelled continue needs its target at the end of the body, below a scope it leaves.
loopBody(t, body, head, lbl) ==
  LET u == inside([t EXCEPT !.brk = Append(@, "loop")], body, IF lbl.cont THEN 2 ELSE 1)
  IN  [u EXCEPT !.brk = t.brk,
                !.out = IF lbl.cont THEN <<Block(head \o @), Mark(lbl.name \o "_continue")>> ELSE head \o @]
noLabel == [name |-> "", brk |-> FALSE, cont |-> FALSE]
takeLabel(t) == [t EXCEPT !.pend = noLabel]

\* The condition is rendered before the initialiser is.
forStmt(t0, s) ==
  LET t == takeLabel(t0)
      c == IF s.c = <<>> THEN Atom(<<>>, "") ELSE expr(t, s.c[1])
      init == clause(t, s.init)
      post == clause(init.t, s.post)
      u == loopBody(post.t, s.body, <<>>, t0.pend)
      cond == IF s.c = <<>> THEN <<>> ELSE <<Read(c.s)>>
  IN  fail(close(t, u, For(init.c, cond, post.c, u.out)), First(<<c.why, init.why, post.why>>))

assignsToIdent(body, o) ==
  Some(AllNodes(body), LAMBDA n : \/ n.k = "assign" /\ n.op # ":=" /\ Some(n.l, LAMBDA l : l.k = "var" /\ l.o = o)
                                  \/ n.k = "inc" /\ n.x.k = "var" /\ n.x.o = o)

\* for i, v := range x counts a C variable up to a limit the loop reads every round.
rangeStmt(t0, s) ==
  LET lbl == t0.pend
      t == takeLabel(t0)
      indexable == s.x.t \in {"slice", "array"}
      limit == CASE s.x.t = "slice" -> lengthOf(t, s.x) [] s.x.t = "array" -> Atom(<<Number(s.x.n, "")>>, "")
                 [] OTHER -> expr(t, s.x)
      counter == IF indexable THEN [s |-> "int", why |-> ""] ELSE ctype(t, s.x.t)
      key == IF s.key # <<>> THEN cname(s.key[1].o[1]) ELSE reserve(t, cname(s.val[1].o[1]) \o "_i")
      t1 == IF s.key # <<>> THEN t ELSE taken(t, key)
      steered == s.key # <<>> /\ assignsToIdent(s.body, s.key[1].o)
      name == IF steered THEN reserve(t1, key \o "_i") ELSE key
      t2 == IF steered THEN taken(t1, name) ELSE t1
      count == <<Name(name)>>
      copy == IF steered THEN <<CDecl(key, counter.s, Atom(count, ""))>> ELSE <<>>
      elem == cdecl(t, s.val[1])
      value == IF s.val = <<>> THEN <<>>
               ELSE <<CDecl(cname(s.val[1].o[1]), elem.s,
                            Atom(at(expr(t2, s.x), precPostfix) \o <<Tok("[")>> \o count \o <<Tok("]")>>, ""))>>
      u == loopBody(t2, s.body, copy \o value, lbl)
      loop == For(<<CDecl(name, counter.s, Atom(<<Number(0, "")>>, ""))>>,
                  <<Read(count \o <<Tok("<")>> \o at(limit, precRel + 1))>>, <<Step1(Var(name, ""), "+")>>, u.out)
  IN  CASE s.key = <<>> /\ s.val = <<>> -> fail(t, "only for i := range x")
        [] ~indexable /\ ~Integer(s.x.t) -> fail(t, "cannot range over this")
        [] s.val # <<>> /\ ~indexable -> fail(t, "only a slice or an array has a value")
        [] OTHER -> [fail(close(t, u, loop), First(<<counter.why, limit.why, IF s.val = <<>> THEN "" ELSE elem.why>>))
                       EXCEPT !.names = IF s.key = <<>> \/ steered THEN @ \ {name} ELSE @]

\* Only a loop carries a label; its C targets exist where they are jumped to.
labeled(t, s) ==
  LET jumps(k) == Some(Nodes(s.s), LAMBDA n : n.k = k /\ n.n = s.n)
      lbl == [name |-> cname(s.n), brk |-> jumps("break"), cont |-> jumps("continue")]
      u == stmt([t EXCEPT !.labels = (s.n :> lbl.name) @@ @, !.pend = lbl], s.s)
      w == [u EXCEPT !.pend = noLabel, !.labels = [n \in DOMAIN @ \ {s.n} |-> @[n]]]
  IN  CASE s.s.k \notin {"for", "range"} -> fail(t, "a label may only be placed on a for loop")
        [] lbl.brk -> line(w, Mark(lbl.name \o "_break"))
        [] OTHER -> w

-----------------------------------------------------------------------------
constantCases(s) == /\ s.tag # <<>> /\ Integer(s.tag[1].t)
                    /\ \A i \in DOMAIN s.cl : \A j \in DOMAIN s.cl[i].l : s.cl[i].l[j].k = "const"

\* A clause without the fallthrough that ends it.
trimFallthrough(body) == IF body # <<>> /\ Last(body).k = "fall" THEN [body |-> Front(body), falls |-> TRUE]
                         ELSE [body |-> body, falls |-> FALSE]

\* Constant cases: a C switch, a break closing every clause that does not fall through.
cSwitch(t, s) ==
  LET clauseOf(acc, cl) ==
        LET trim == trimFallthrough(cl.body)
            u == inside(acc.t, trim.body, 2)
        IN  [t |-> u, cl |-> Append(acc.cl, [cl EXCEPT !.body = IF trim.falls THEN u.out ELSE Append(u.out, Branch("break", ""))])]
      all == FoldLeft(clauseOf, [t |-> [t EXCEPT !.brk = Append(@, "C switch")], cl |-> <<>>], s.cl)
      tag == expr(t, s.tag[1])
  IN  fail(close(t, [all.t EXCEPT !.brk = t.brk],
                 [k |-> "cswitch", init |-> <<>>, tag |-> <<Read(tag.s)>>, cl |-> all.cl]), tag.why)

\* One clause's condition: its values or-ed, each compared with the local that holds the tag.
caseCond(t, tag, l) ==
  LET one(e) == IF tag = "" THEN at(expr(t, e), precOr + 1)
                ELSE <<Name(tag), Tok("==")>> \o at(expr(t, e), precEq + 1)
  IN  FoldLeft(LAMBDA acc, e : IF acc = <<>> THEN one(e) ELSE acc \o <<Tok("||")>> \o one(e), <<>>, l)

\* A clause is a brace of its own; deep: how many the walk has entered.
clauseBlock(t, body, deep) == inside(t, body, deep)

\* Anything else: the tag into a local, evaluated once, and the if/else chain Go describes, default last.
chainSwitch(t, s) ==
  LET tag == IF s.tag = <<>> THEN "" ELSE reserve(t, "switch_tag")
      x == IF s.tag = <<>> THEN Atom(<<>>, "") ELSE expr(t, s.tag[1])
      d == IF s.tag = <<>> THEN [s |-> "", why |-> ""] ELSE ctype(t, s.tag[1].t)
      deep == IF s.tag = <<>> THEN 1 ELSE 2
      named == SelectSeq(s.cl, LAMBDA cl : ~cl.dflt)
      dflt == SelectSeq(s.cl, LAMBDA cl : cl.dflt)
      arm(acc, cl) == LET u == clauseBlock(acc.t, cl.body, deep)
                      IN  [t |-> fail(u, argsWhy(acc.t, cl.l)),
                           arms |-> Append(acc.arms, [c |-> caseCond(acc.t, tag, cl.l), body |-> u.out])]
      start == [t EXCEPT !.brk = Append(@, "if switch"), !.names = IF tag = "" THEN @ ELSE @ \cup {tag}]
      all == FoldLeft(arm, [t |-> start, arms |-> <<>>], named)
      last == IF dflt = <<>> THEN [all.t EXCEPT !.out = <<>>] ELSE clauseBlock(all.t, dflt[1].body, deep)
      chain == FoldRight(LAMBDA a, rest : <<IfElse(<<>>, Read(a.c), a.body, rest)>>, all.arms,
                         IF dflt = <<>> THEN <<>> ELSE <<Block(last.out)>>)
      u == [last EXCEPT !.brk = t.brk, !.out = t.out, !.names = @ \ {tag}]
  IN  CASE s.tag # <<>> /\ s.tag[1].t \in {"struct", "array"} -> fail(t, "cannot switch on this")
        [] tag = "" -> [u EXCEPT !.out = @ \o chain]
        [] OTHER -> fail(line(u, Block(<<CDecl(tag, d.s, x)>> \o chain)), First(<<d.why, x.why>>))

switchStmt(t, s) == scoped(t, s.init, LAMBDA u : IF constantCases(s) THEN cSwitch(u, s) ELSE chainSwitch(u, s))

stmt(t, s) ==
  CASE s.k \in {"assign", "tile"} -> assign(t, s)
    [] s.k = "inc"    -> written(simple(t, s), t)
    [] s.k = "expr" /\ s.x.k = "assume" -> assumeBlockDim(t, s.x.n)
    [] s.k = "expr"   -> LET x == expr(t, s.x) IN emit(t, Do1(Read(x.s)), x.why)
    [] s.k = "var"    -> decl(t, s)
    [] s.k = "if"     -> ifStmt(t, s)
    [] s.k = "for"    -> forStmt(t, s)
    [] s.k = "range"  -> rangeStmt(t, s)
    [] s.k = "block"  -> LET u == inside(t, s.body, 1) IN close(t, u, Block(u.out))
    [] s.k = "switch" -> switchStmt(t, s)
    [] s.k = "label"  -> labeled(t, s)
    [] s.k \in {"break", "continue", "fall"} -> branch(t, s)
    [] s.k = "return" -> returnStmt(t, s)
    [] s.k = "skip"   -> t
    [] OTHER          -> fail(t, "unsupported statement")
=============================================================================
