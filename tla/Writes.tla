------------------------------- MODULE Writes -------------------------------
(***************************************************************************)
(* internal/lower/readonly.go: which slice parameters a function may write *)
(* through, on any path, into any callee, and which call hands one buffer  *)
(* to two parameters of which one is written.  A wrong answer is a const   *)
(* or a __restrict__ that promises the C++ compiler something untrue.      *)
(***************************************************************************)
EXTENDS Source

paramObjects(prog, f) == {prog[f].ps[i].o : i \in DOMAIN prog[f].ps}

\* mine: the parameters of the function at hand, which are all that is asked about.
markBase(mine, e) == Base(e) \cap mine
markAny(mine, es) == Union(es, LAMBDA e : markBase(mine, e))

\* The buffer an assignment target writes into: only an index reaches through the pointer.
RECURSIVE markTarget(_, _)
markTarget(mine, e) == CASE e.k = "idx" -> markBase(mine, e.x) [] e.k = "sel" -> markTarget(mine, e.x) [] OTHER -> {}

RECURSIVE writtenParams(_, _, _)
\* What the callee does to its parameters is done to the buffers handed to it.
markForwarded(prog, mine, c, busy) ==
  LET ps == prog[c.f].ps
  IN  IF Len(ps) # Len(c.args) THEN markAny(mine, c.args)
      ELSE UNION {markBase(mine, c.args[i]) : i \in {j \in DOMAIN ps : ps[j].o \in writtenParams(prog, c.f, busy)}}

\* What a call writes: an atomic its buffer, what cannot be resolved everything it is given.
markCallWrites(prog, mine, c, busy) ==
  CASE c.k \in {"conv", "len", "min", "ctx", "warp"} -> {}
    [] c.k = "atomic" -> markBase(mine, c.b)
    [] c.f \in DOMAIN prog -> markForwarded(prog, mine, c, busy)
    [] OTHER -> markAny(mine, c.args)

\* A function on the path to itself is taken to write everything it is given.
writtenParams(prog, f, busy) ==
  LET mine == paramObjects(prog, f)
      writes(n) == CASE n.k = "assign" -> Union(n.l, LAMBDA l : markTarget(mine, l))
                     [] n.k = "inc" -> markTarget(mine, n.x)
                     [] n.k \in {"call", "atomic"} -> markCallWrites(prog, mine, n, busy \cup {f})
                     [] OTHER -> {}
  IN  IF f \in busy THEN mine ELSE Union(AllNodes(prog[f].body), writes)

\* The object an argument passes as a buffer: only an identifier can be one.
argBuffer(e) == IF e.k = "var" /\ e.t = "slice" THEN {e.o} ELSE {}

\* Two arguments of one call that are the same buffer where the callee writes one of them.
aliasedArgs(prog, c) ==
  LET ps == prog[c.f].ps
      written == writtenParams(prog, c.f, {})
  IN  /\ Len(ps) = Len(c.args)
      /\ \E i, j \in DOMAIN ps : /\ i < j
                                 /\ argBuffer(c.args[i]) \cap argBuffer(c.args[j]) # {}
                                 /\ {ps[i].o, ps[j].o} \cap written # {}
=============================================================================
