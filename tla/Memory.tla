------------------------------- MODULE Memory -------------------------------
(***************************************************************************)
(* cuda/slice_cuda.go: device buffers, as one goroutine makes, fills,      *)
(* reads and frees them.  m is the context with what the driver holds for  *)
(* it:                                                                     *)
(*   live      the contents of each allocation, by its address             *)
(*   poisoned  Context.poisoned is set                                     *)
(*   astray    the driver was handed an address that is not live           *)
(*   slices    the Slice objects, which are shared by pointer              *)
(* An operation is the set of its outcomes: the m it leaves, an error      *)
(* ("" for none) and what it returns.                                      *)
(***************************************************************************)
EXTENDS Integers, FiniteSets, FiniteSetsExt, SequencesExt

CONSTANT Junk     \* what memory holds that nobody has written

Untouched == [live |-> <<>>, poisoned |-> FALSE, astray |-> FALSE, slices |-> <<>>]

\* What follows an outcome that is not an error; and a step for each member of a sequence.
Then(outcomes, F(_)) == UNION {IF o.err = "" THEN F(o) ELSE {o} : o \in outcomes}
ThenEach(outcomes, xs, F(_, _)) ==
  LET after[k \in 0 .. Len(xs)] ==
        IF k = 0 THEN outcomes ELSE Then(after[k - 1], LAMBDA o : F(o, xs[k]))
  IN  after[Len(xs)]

\* Context.call: bind turns a poisoned context away; else the driver has done it, or fails in a way
\* it can fail here, and fault remembers a sticky failure.
fault(m, e) == [m EXCEPT !.poisoned = e = "sticky"]
call(m, done, failures) ==
  IF m.poisoned THEN {[mem |-> m, err |-> "poisoned"]}
  ELSE {[mem |-> x, err |-> ""] : x \in done}
       \union {[mem |-> fault(m, e), err |-> e] : e \in failures}
AnyFailure == {"failed", "sticky"}

\* The driver hands out the lowest address with room, makes no allocation of nothing, and takes
\* whatever address it is given.
End(m, a) == a + Cardinality(DOMAIN m.live[a])
Room(m, n) ==
  Min({a \in {1} \union {End(m, b) : b \in DOMAIN m.live} :
         \A b \in DOMAIN m.live : a + n <= b \/ End(m, b) <= a})
With(f, x, v) == [y \in DOMAIN f \union {x} |-> IF y = x THEN v ELSE f[y]]
Allocated(m, n) == [m EXCEPT !.live = With(@, Room(m, n), [i \in 0 .. n - 1 |-> Junk])]
Handed(m, a) == [m EXCEPT !.astray = @ \/ a \notin DOMAIN m.live]
Alloc(m, n) == call(m, IF n = 0 THEN {} ELSE {Allocated(m, n)}, AnyFailure)
Written(m, a, xs) == [Handed(m, a) EXCEPT !.live = [b \in DOMAIN @ |-> IF b = a THEN xs ELSE @[b]]]

Array(xs) == [i \in 0 .. Len(xs) - 1 |-> xs[i + 1]]
Listed(array) == [i \in 1 .. Cardinality(DOMAIN array) |-> array[i - 1]]

Wrapped(m, a, n) == [m EXCEPT !.slices = Append(@, [ptr |-> a, n |-> n])]
NewSlice(m, n) ==
  Then(Alloc(m, n), LAMBDA o :
    {[mem |-> Wrapped(o.mem, Room(m, n), n), err |-> "", s |-> Len(m.slices) + 1]})

CopyFrom(m, s, xs) ==
  LET slice == m.slices[s]
  IN  IF Len(xs) # slice.n THEN {[mem |-> m, err |-> "length"]}
      ELSE IF slice.n = 0 THEN {[mem |-> m, err |-> ""]}
      ELSE call(m, {Written(m, slice.ptr, Array(xs))}, AnyFailure)

Download(m, s) ==
  LET slice == m.slices[s]
  IN  Then(IF slice.n = 0 THEN {[mem |-> m, err |-> ""]}
           ELSE call(m, {Handed(m, slice.ptr)}, AnyFailure),
           LAMBDA o : {[mem |-> o.mem, err |-> "",
                        vals |-> IF slice.ptr \in DOMAIN m.live THEN Listed(m.live[slice.ptr]) ELSE <<>>]})

\* The errors of a free are dropped; a live buffer is refused only by a device that faulted.
Freed(m, a) == [Handed(m, a) EXCEPT !.live = [b \in DOMAIN @ \ {a} |-> @[b]]]
Emptied(m, s) == [m EXCEPT !.slices[s].ptr = 0]
Free(m, s) ==
  LET slice == m.slices[s]
  IN  IF slice.ptr = 0 THEN {m}
      ELSE {Emptied(o.mem, s) : o \in call(m, {Freed(m, slice.ptr)}, {"sticky"})}
FreeAll(m, owned) ==
  LET after[k \in 0 .. Len(owned)] ==
        IF k = 0 THEN {m} ELSE UNION {Free(x, owned[k]) : x \in after[k - 1]}
  IN  after[Len(owned)]

\* A copy that fails gives the buffer back.
Upload(m, xs) ==
  Then(NewSlice(m, Len(xs)), LAMBDA o :
    UNION {IF c.err = "" THEN {[mem |-> c.mem, err |-> "", s |-> o.s]}
           ELSE {[mem |-> x, err |-> c.err] : x \in Free(c.mem, o.s)} : c \in CopyFrom(o.mem, o.s, xs)})
=============================================================================
