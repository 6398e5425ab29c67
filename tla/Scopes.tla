------------------------------- MODULE Scopes -------------------------------
(***************************************************************************)
(* What the two compilers say of names before anything runs: go/types of   *)
(* the source (LoadPackage refuses what it refuses), NVRTC of the C.  Both *)
(* block-structured, so one walk serves: c says which language it is, env  *)
(* maps a spelling to the variable it names, here holds what the block has *)
(* declared.  They differ in what a declaration's own initialiser sees, in *)
(* whether a loop's variable may be declared again in its body, and in     *)
(* their jumps.                                                            *)
(***************************************************************************)
EXTENDS Source

Spelled(c, o)   == IF c THEN o ELSE o[1]
Declares(s)     == CASE s.k = "assign" -> [i \in DOMAIN s.l |-> IF i \in s.new THEN <<s.l[i].o>> ELSE <<>>]
                     [] s.k = "var" -> [i \in DOMAIN s.l |-> <<s.l[i].o>>]
                     [] s.k = "tile" -> <<<<s.o>>>>
                     [] OTHER -> <<>>
Declared(s)     == Each(Declares(s), LAMBDA os : os)
With(c, env, os) == FoldLeft(LAMBDA e, o : (Spelled(c, o) :> o) @@ e, env, os)
Names(c, os)    == [i \in DOMAIN os |-> Spelled(c, os[i])]

\* Every variable used is the one its spelling names here, and what is called exists.
Resolved(c, env, es) ==
  ~Some(AllNodes(es), LAMBDA n : \/ n.k = "error"
                                 \/ /\ n.k = "var" /\ (c \/ n.o[2] > 0)
                                    /\ ~(Spelled(c, n.o) \in DOMAIN env /\ env[Spelled(c, n.o)] = n.o))

RECURSIVE okSeq(_, _, _, _, _), okStmt(_, _, _, _, _)

okSeq(c, ss, env, here, in) ==
  IF ss = <<>> THEN TRUE
  ELSE LET s == Head(ss)
           ds == Declared(s)
           after == With(c, env, ds)
       IN  /\ okStmt(c, s, env, after, in)
           /\ IsInjective(Names(c, ds)) /\ ToSet(Names(c, ds)) \cap here = {}
           /\ okSeq(c, Tail(ss), after, here \cup ToSet(Names(c, ds)), in)

After(c, env, init) == With(c, env, Each(init, Declared))
Old(s) == [i \in DOMAIN s.l |-> IF i \in s.new THEN Const("", 0) ELSE s.l[i]]

\* in: what a break, a continue and a label may leave.
okStmt(c, s, env, after, in) ==
  LET own == IF c THEN after ELSE env
  IN  CASE s.k = "assign" -> Resolved(c, own, s.r) /\ Resolved(c, env, Old(s))
        [] s.k = "var"   -> Resolved(c, own, s.r)
        [] s.k \in {"expr", "inc"} -> Resolved(c, env, <<s.x>>)
        [] s.k = "return" -> Resolved(c, env, s.r)
        [] s.k = "block" -> okSeq(c, s.body, env, {}, in)
        [] s.k = "if"    -> LET e == After(c, env, s.init)
                            IN  /\ okSeq(c, s.init, env, {}, in) /\ Resolved(c, e, <<s.c>>)
                                /\ okSeq(c, s.a, e, {}, in) /\ okSeq(c, s.b, e, {}, in)
        [] s.k = "for"   -> LET e == After(c, env, s.init)
                                ds == Each(s.init, Declared)
                            IN  /\ okSeq(c, s.init, env, {}, in) /\ okSeq(c, s.post, e, {}, in)
                                /\ Resolved(c, e, s.c)
                                /\ okSeq(c, s.body, e, IF c THEN ToSet(Names(c, ds)) ELSE {}, in \cup {"break", "continue"})
        [] s.k = "range" -> LET os == [i \in DOMAIN (s.key \o s.val) |-> (s.key \o s.val)[i].o]
                            IN  /\ Resolved(c, env, <<s.x>>) /\ IsInjective(Names(c, os))
                                /\ okSeq(c, s.body, With(c, env, os), {}, in \cup {"break", "continue"})
        [] s.k \in {"switch", "cswitch"} ->
             LET e == After(c, env, s.init)
             IN  /\ okSeq(c, s.init, env, {}, in) /\ Resolved(c, e, s.tag)
                 /\ \A i \in DOMAIN s.cl : /\ Resolved(c, e, s.cl[i].l)
                                           /\ okSeq(c, s.cl[i].body, e, {}, in \cup {"break"})
        [] s.k = "label" -> s.n \notin in /\ okStmt(c, s.s, env, after, in \cup {s.n})
        [] s.k \in {"break", "continue"} -> (IF s.n = "" THEN s.k ELSE s.n) \in in
        [] OTHER -> TRUE

\* A goto finds its mark further down a sequence it is inside, and steps over no declaration to it.
RECURSIVE JumpsLand(_, _)
JumpsLand(ss, marks) ==
  \A i \in DOMAIN ss :
    LET clear == {m \in marks \cup {ss[j].n : j \in {k \in i + 1 .. Len(ss) : ss[k].k = "mark"}} :
                    \A j \in i + 1 .. Len(ss) :
                      (\E k \in j + 1 .. Len(ss) : ss[k].k = "mark" /\ ss[k].n = m) => Declared(ss[j]) = <<>>}
    IN  IF ss[i].k = "goto" THEN ss[i].n \in clear
        ELSE \A b \in DOMAIN Bodies(ss[i]) : JumpsLand(Bodies(ss[i])[b], clear)

\* What a statement reads of its own; a variable only ever assigned to is an error in Go.
ReadIn(s) == CASE s.k = "assign" -> s.r \o SelectSeq(s.l, LAMBDA l : l.k # "var" \/ s.op \notin {"=", ":="})
               [] s.k = "var"    -> IF s.t = "decl" THEN s.r ELSE <<>>
               [] s.k \in {"inc", "expr"} -> <<s.x>>
               [] s.k = "if"     -> <<s.c>>
               [] s.k = "for"    -> s.c
               [] s.k = "range"  -> <<s.x>>
               [] s.k = "switch" -> s.tag \o Each(s.cl, LAMBDA cl : cl.l)
               [] s.k = "return" -> s.r
               [] OTHER -> <<>>
VarsOf(es) == Union(AllNodes(es), LAMBDA n : IF n.k = "var" THEN {n.o} ELSE {})
Locals(ss) == Each(AllNodes(ss), LAMBDA n : CASE n.k = "range" -> [j \in DOMAIN (n.key \o n.val) |-> (n.key \o n.val)[j].o]
                                             [] n.k = "var" /\ n.t # "decl" -> <<>>
                                             [] OTHER -> Declared(n))

\* go/types accepts a function with these parameters and this body.
GoAccepts(ps, ss) ==
  LET params == [i \in DOMAIN ps |-> ps[i].o]
      all == AllNodes(ss)
      labels == SelectSeq(all, LAMBDA n : n.k = "label")
  IN  /\ okSeq(FALSE, ss, With(FALSE, <<>>, params), ToSet(Names(FALSE, params)), {})
      /\ IsInjective(Locals(ss))
      /\ ToSet(Locals(ss)) \subseteq Union(all, LAMBDA n : VarsOf(ReadIn(n)))
      /\ IsInjective([i \in DOMAIN labels |-> labels[i].n])
      /\ \A i \in DOMAIN labels : Some(all, LAMBDA n : n.k \in {"break", "continue"} /\ n.n = labels[i].n)

\* Nothing is stored through a pointer to const, nor is it handed on as one to store through.
ConstKept(fns, ps, ss) ==
  LET const == {ps[i].o : i \in {j \in DOMAIN ps : ps[j].t = "const ref"}}
      stores(n) == CASE n.k = "assign" -> SelectSeq(n.l, LAMBDA l : l.k # "var")
                     [] n.k = "inc" /\ n.x.k # "var" -> <<n.x>>
                     [] n.k = "un" /\ n.op = "&" -> <<n.x>>
                     [] n.k = "call" /\ n.f \in DOMAIN fns ->
                          [i \in DOMAIN n.args |-> IF fns[n.f].ps[i].t = "ref" THEN n.args[i] ELSE Const("", 0)]
                     [] OTHER -> <<>>
  IN  ~Some(AllNodes(ss), LAMBDA n : Union(stores(n), Base) \cap const # {})

\* NVRTC accepts a function of the file fns with these parameters and this body; builtins are its globals.
CAccepts(fns, ps, ss, builtins) ==
  LET params == [i \in DOMAIN ps |-> ps[i].o]
  IN  /\ IsInjective(params)
      /\ ConstKept(fns, ps, ss)
      /\ okSeq(TRUE, ss, With(TRUE, [b \in builtins |-> b], params), ToSet(params), {})
      /\ JumpsLand(ss, {})
=============================================================================
