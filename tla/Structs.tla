------------------------------ MODULE Structs ------------------------------
(***************************************************************************)
(* internal/lower/struct.go: a Go struct becomes a C++ one whose holes are *)
(* written out as padding members, with two assertions about it that the   *)
(* C++ compiler checks, and a literal names every member by its position.  *)
(* A struct is a sequence of fields [f, t]; sizes are Go's, the alignments *)
(* a compiler gives the types are a parameter, the host's and the device's *)
(* being two compilers' business.                                          *)
(***************************************************************************)
EXTENDS Integers, Sequences, SequencesExt, TLC

SizeOf == [int8 |-> 1, int16 |-> 2, int32 |-> 4, int64 |-> 8, int |-> 8]
Bytes(m) == IF m.t = "pad" THEN m.n ELSE SizeOf[m.t]
Alignment(align, m) == IF m.t = "pad" THEN 1 ELSE align[m.t]
RoundUp(n, a) == ((n + a - 1) \div a) * a
Largest(ns) == FoldLeft(LAMBDA a, b : IF a < b THEN b ELSE a, 1, ns)

\* Where a compiler with these alignments puts each member, and the size and alignment of the whole.
PlaceMember(acc, bytes, align) ==
  LET at == RoundUp(acc.next, align)
  IN  [at |-> Append(acc.at, at), next |-> at + bytes]
Outline(all, widest) == [at |-> all.at, end |-> all.next, size |-> RoundUp(all.next, widest), align |-> widest]
Laid(members, align) ==
  Outline(FoldLeft(LAMBDA acc, m : PlaceMember(acc, Bytes(m), Alignment(align, m)), [at |-> <<>>, next |-> 0], members),
          Largest([i \in DOMAIN members |-> Alignment(align, members[i])]))

\* The hole before a field, and after the last (i one more than there are): Go's offsets say.
Gap(fields, go, i) ==
  CASE i > Len(fields) -> go.size - go.end
    [] i = 1 -> go.at[1]
    [] OTHER -> go.at[i] - (go.at[i - 1] + Bytes(fields[i - 1]))
structLayout(fields, go) == [padBefore |-> [i \in DOMAIN fields |-> Gap(fields, go, i) > 0],
                             padTail |-> Gap(fields, go, Len(fields) + 1) > 0]

padPrefix == "simtgo_pad"
Pad(n) == [f |-> padPrefix, t |-> "pad", n |-> n]

\* Faulty: the holes are left to the device's compiler.
BareMembers(fields, align) == fields
\* The members of the C++ struct, in the order it declares them: each field after its hole, then the last hole.
Hole(n) == IF n > 0 THEN <<Pad(n)>> ELSE <<>>
WithHoles(fields, go) ==
  FoldLeftDomain(LAMBDA acc, i : acc \o Hole(Gap(fields, go, i)) \o <<fields[i]>>, <<>>, fields)
  \o Hole(Gap(fields, go, Len(fields) + 1))
structMembers(fields, align) == WithHoles(fields, Laid(fields, align))

\* static_assert(sizeof ...) and static_assert(alignof ...), as the device's compiler answers them.
SameOutline(a, b) == a.size = b.size /\ a.align = b.align
Asserted(fields, goAlign, cAlign) ==
  SameOutline(Laid(structMembers(fields, goAlign), cAlign), Laid(fields, goAlign))

\* A literal's values, an empty initialiser stepping over each padding member.
Empty == [s |-> <<>>, p |-> 16, why |-> ""]
Stepping(layout, values) ==
  FoldLeftDomain(LAMBDA acc, i : acc \o (IF layout.padBefore[i] THEN <<Empty>> ELSE <<>>) \o <<values[i]>>, <<>>, values)
  \o (IF layout.padTail THEN <<Empty>> ELSE <<>>)
withPadding(fields, align, values) == Stepping(structLayout(fields, Laid(fields, align)), values)

\* Why a field has no device form, "" when it has.
cfield(d) ==
  CASE Len(d.f) >= Len(padPrefix) /\ SubSeq(d.f, 1, Len(padPrefix)) = padPrefix -> "a field named like padding"
    [] d.t \in {"int", "uint"} -> "int does not cross to the device"
    [] OTHER -> ""

\* The C++ struct a Go one becomes, and what stands against it.
structType(fields, align) ==
  [members |-> structMembers(fields, align),
   diags |-> {IF d.f = "_" THEN "a blank field" ELSE cfield(d) : d \in ToSet(fields)} \ {""}]
=============================================================================
