------------------------------ MODULE Lowering ------------------------------
(***************************************************************************)
(* internal/lower/lower.go: one kernel of a package becomes one            *)
(* translation unit, or the list of what it was refused for.  A package    *)
(* maps each function to its parameters ps (a leading gpu.Ctx left out),   *)
(* whether it takes one (ctx), its result type ("" for none), its body,    *)
(* and marks: the directives it and its file carry (and an import the file *)
(* may not have), and what its declaration has that no kernel may (method, *)
(* generic, results, ...).                                                 *)
(***************************************************************************)
EXTENDS Statements, Divergence

\* Every spelling a function contains, and the ones that become C variables.
Spelling(n) == CASE n.k = "var" /\ n.t # "decl" -> {n.o[1]}
                 [] n.k = "tile" -> {n.o[1]}
                 [] n.k = "sel" -> {n.f}
                 [] n.k = "call" -> {n.f}
                 [] n.k = "conv" -> {n.t}
                 [] n.k = "label" -> {n.n}
                 [] OTHER -> {}
collectNames(prog, f) == {f} \cup Union(AllNodes(prog[f].body) \o prog[f].ps, Spelling)
Defines(n) == CASE n.k = "assign" -> {n.l[i].o[1] : i \in n.new}
                [] n.k = "var" /\ n.t = "decl" -> Union(n.l, Spelling)
                [] n.k = "tile" -> {n.o[1]}
                [] n.k = "range" -> Union(n.key \o n.val, Spelling)
                [] OTHER -> {}
collectDeclared(prog, f) == Union(AllNodes(prog[f].body), Defines) \cup Union(prog[f].ps, Spelling)

-----------------------------------------------------------------------------
Slices(ps)       == SelectSeq(ps, LAMBDA p : p.t = "slice")
lenOf(p)         == cname(p.o[1]) \o "_len"
generated(ps)    == {lenOf(p) : p \in ToSet(Slices(ps))}
reservedPrefix   == "simtgo_"
Reserved(n)      == Len(n) >= Len(reservedPrefix) /\ SubSeq(n, 1, Len(reservedPrefix)) = reservedPrefix
checkReserved(n) == IF Reserved(n) THEN {"reserved"} ELSE {}

\* A name the emitter generates must not be one of the author's own variables.
checkGeneratedNames(prog, f) ==
  LET declared == collectDeclared(prog, f)
  IN  (IF generated(prog[f].ps) \cap declared # {} THEN {"a generated length is declared"} ELSE {})
      \cup (IF \E n \in declared : cname(n) # n /\ cname(n) \in declared THEN {"an escaped keyword is declared"} ELSE {})
      \cup UNION {checkReserved(n) : n \in declared}

-----------------------------------------------------------------------------
(* The package: what stands against all of it, whichever kernel is asked   *)
(* for.  The first check to refuse anything is the only one that speaks.   *)

\* A function with a kernel's signature, and one that is meant as a kernel; its file may opt out too.
takesCtx(d)     == d.ctx /\ "method" \notin d.marks
IsKernelDecl(d) == takesCtx(d) /\ d.marks \cap {"ignore", "device"} = {}
isKernelDecl(prog, f) == "ignored file" \notin prog[f].marks /\ IsKernelDecl(prog[f])

CheckImports(prog) == IF \E f \in DOMAIN prog : "import" \in prog[f].marks THEN {"an import"} ELSE {}
CheckDeviceMarkers(prog) == IF \E f \in DOMAIN prog : "device" \in prog[f].marks /\ ~takesCtx(prog[f])
                            THEN {"the device directive does nothing"} ELSE {}
LoadPackage(prog) == IF CheckImports(prog) # {} THEN CheckImports(prog) ELSE CheckDeviceMarkers(prog)

-----------------------------------------------------------------------------
(* The signature.                                                          *)

\* const: on no path does anything write through it.
readOnly(prog, f, p) == p.o \notin writtenParams(prog, f, {})

\* A slice is a pointer and the length C does not carry; an array would be passed by reference.
pointerDecl(name, const) == Var(name, IF const THEN "const ref" ELSE "ref")
cparam(t, p, const) == IF p.t = "slice" THEN <<pointerDecl(cname(p.o[1]), const), Var(lenOf(p), "int")>>
                       ELSE <<Var(cname(p.o[1]), ctype(t, p.t).s)>>
signature(t, prog, f) == Each(prog[f].ps, LAMBDA p : cparam(t, p, readOnly(prog, f, p)))
checkParam(t, p) == CASE p.t = "slice" -> ctypeElem(t, p.el).why
                      [] p.t = "array" -> "an array parameter"
                      [] OTHER -> ctype(t, p.t).why
checkParams(t, prog, f) == {checkParam(t, p) : p \in ToSet(prog[f].ps)} \ {""}

lengths(prog, f) == LET ss == Slices(prog[f].ps)
                    IN  FoldLeft(LAMBDA acc, p : (p.o :> <<Name(lenOf(p))>>) @@ acc, <<>>, ss)

\* The emitter as a function's body is begun.
emitter(prog, f, float64, checks, device) ==
  [prog |-> prog, ren |-> <<>>, lens |-> lengths(prog, f), wrap |-> "", checks |-> checks,
   float64 |-> float64, struct |-> prog[f].struct, gone |-> {}, out |-> <<>>, diags |-> <<>>, names |-> collectNames(prog, f),
   labels |-> <<>>, pend |-> noLabel, brk |-> <<>>, ind |-> 1, dev |-> device,
   result |-> prog[f].result, need |-> 0, shared |-> 0, dyn |-> "", dynWidth |-> 0,
   sig |-> {cname(p.o[1]) : p \in ToSet(prog[f].ps)} \cup generated(prog[f].ps)]
lowered(prog, f, float64, checks, device) == stmts(emitter(prog, f, float64, checks, device), prog[f].body)

-----------------------------------------------------------------------------
(* Device functions: each is lowered once, whoever reaches it.             *)

Callees(prog, f) == Union(AllNodes(prog[f].body), LAMBDA n : IF n.k = "call" /\ n.f \in DOMAIN prog THEN {n.f} ELSE {})
RECURSIVE Reached(_, _)
Reached(prog, fs) == LET more == fs \cup UNION {Callees(prog, f) : f \in fs}
                     IN  IF more = fs THEN fs ELSE Reached(prog, more)
Recursive(prog, f) == f \in Reached(prog, Callees(prog, f))

deviceFunc(prog, f) ==
  LET d == prog[f]
  IN  checkReserved(f)
      \cup (IF Recursive(prog, f) THEN {"recursion"} ELSE {})
      \cup (IF isKernelDecl(prog, f) THEN {"a kernel is called"} ELSE {})
      \cup (d.marks \cap {"method", "generic", "variadic", "results", "named result", "fastmath", "float64"})
      \cup (IF d.result = "array" THEN {"an array result"} ELSE {})

\* A function's own refusals, those of its signature, and those of its body.
deviceDiags(prog, f, float64, checks) ==
  LET u == lowered(prog, f, float64, checks, TRUE)
  IN  deviceFunc(prog, f) \cup checkGeneratedNames(prog, f) \cup checkParams(u, prog, f) \cup ToSet(u.diags)
      \cup (IF prog[f].result \in {"", "array"} THEN {} ELSE {ctype(u, prog[f].result).why} \ {""})

-----------------------------------------------------------------------------
(* The kernel: what stands against it, or its unit.                        *)

Unit(fns, params, u, bytes, checks, marks) ==
  [fns |-> fns, params |-> params, need |-> u.need, shared |-> bytes, width |-> u.dynWidth,
   fastMath |-> "fastmath" \in marks, boundsChecks |-> checks]
Param(slice, const) == [slice |-> slice, readOnly |-> const]

\* The first of these a function has is all it is refused for.
NoKernel(d) == CASE "method" \in d.marks -> {"a method"} [] "results" \in d.marks -> {"returns values"}
                 [] "generic" \in d.marks -> {"generic"} [] ~d.ctx -> {"no gpu.Ctx"} [] OTHER -> {}

\* A name that clashes is no reason to stop: the body's own refusals are reported with it.
lowerKernel(prog, f, checks) ==
  LET marks == prog[f].marks
      float64 == "float64" \in marks
      u == lowered(prog, f, float64, checks, FALSE)
      helpers == Reached(prog, Callees(prog, f))
      helper == [g \in helpers |-> lowered(prog, g, float64, checks, TRUE)]
      tile == IF u.dyn = "" THEN <<>> ELSE <<Var(u.dyn \o "_len", "int")>>
  IN  [diags |-> checkReserved(f) \cup
                 IF NoKernel(prog[f]) # {} THEN NoKernel(prog[f])
                 ELSE checkGeneratedNames(prog, f) \cup checkDivergence(prog, f)
                      \cup checkParams(u, prog, f) \cup ToSet(u.diags)
                      \cup UNION {deviceDiags(prog, g, float64, checks) : g \in helpers},
       unit |-> Unit((f :> [ps |-> signature(u, prog, f) \o tile, body |-> u.out])
                       @@ [g \in helpers |-> [ps |-> signature(helper[g], prog, g), body |-> helper[g].out]],
                     [i \in DOMAIN prog[f].ps |-> LET p == prog[f].ps[i] IN Param(p.t = "slice", readOnly(prog, f, p))],
                     u, FoldSet(LAMBDA g, sum : sum + helper[g].shared, u.shared, helpers), checks, marks)]

\* A unit only where nothing was refused: no half-lowered C escapes.
Kernel(prog, f, checks) == LET k == lowerKernel(prog, f, checks)
                           IN  [diags |-> k.diags, unit |-> IF k.diags = {} THEN <<k.unit>> ELSE <<>>]
=============================================================================
