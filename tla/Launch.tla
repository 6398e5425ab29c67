------------------------------- MODULE Launch -------------------------------
(***************************************************************************)
(* simt/kernel.go: what a built kernel checks at a launch.  A kernel is    *)
(* the part of its unit a launch needs: the block size it declared (0 when *)
(* it declared none), the bytes of its tiles, the width of an element of   *)
(* the tile sized at the launch (0: no such tile), its parameters, what    *)
(* the device offers per block (0: nobody to ask).  An argument is a       *)
(* device range, or anything that cannot report one.                       *)
(***************************************************************************)
EXTENDS Integers, Sequences

CONSTANT MaxInt32        \* math.MaxInt32
ASSUME MaxInt32Assumption == MaxInt32 \in Nat \ {0}

DevRange(base, bytes) == [kind |-> "range", base |-> base, bytes |-> bytes]
NoRange(v)   == [kind |-> "value", v |-> v]

\* Half-open ranges of device addresses that have none in common.
Disjoint(a, b) == a.base >= b.base + b.bytes \/ b.base >= a.base + a.bytes

\* The parameters whose argument is a range with anything in it.
Spans(params, args) == {i \in DOMAIN params : /\ params[i].slice
                                              /\ args[i].kind = "range"
                                              /\ args[i].bytes # 0}
\* Faulty: a pair one of which is only read is let through.
BothWritten(params, args) == {p \in Spans(params, args) \X Spans(params, args) :
                                /\ p[1] < p[2]
                                /\ ~Disjoint(args[p[1]], args[p[2]])
                                /\ ~(params[p[1]].readOnly \/ params[p[2]].readOnly)}
\* The pairs that share memory one of the two is written through.
Clashes(params, args) == {p \in Spans(params, args) \X Spans(params, args) :
                            /\ p[1] < p[2]
                            /\ ~Disjoint(args[p[1]], args[p[2]])
                            /\ ~(params[p[1]].readOnly /\ params[p[2]].readOnly)}
checkAliasing(k, args) == /\ Len(args) >= Len(k.params)
                          /\ Clashes(k.params, args) # {}

\* A tile sized at the launch has its length as one argument more.
checkArgs(k, args) == Len(args) - (IF k.width # 0 THEN 1 ELSE 0) # Len(k.params)

\* The half every launch shares; "" when the kernel is handed to the driver.
launch(k, block, args) ==
  CASE k.need # 0 /\ block # k.need -> "block size"
    [] checkArgs(k, args) -> "argument count"
    [] checkAliasing(k, args) -> "alias"
    [] OTHER -> ""

LaunchDim(k, block, args) == IF k.width # 0 THEN "dynamic tile" ELSE launch(k, block, args)
\* Queued on a stream (stream: it is not nil), which makes every check the launch above makes.
LaunchOnDim(k, stream, block, args) == IF ~stream THEN "no stream" ELSE LaunchDim(k, block, args)

\* Faulty: the number of elements is held to 32 bits, their bytes are not.
CountsElements(k, n) == n > MaxInt32
\* n elements: both the bytes and the length are 32-bit on the device.
tooMany(k, n) == n > MaxInt32 \div k.width
LaunchSharedDim(k, block, n, args) ==
  CASE k.width = 0 -> "no dynamic tile"
    [] n < 0 -> "not a size"
    [] tooMany(k, n) -> "does not fit 32 bits"
    [] k.maxShared > 0 /\ k.shared + n * k.width > k.maxShared -> "shared memory"
    [] OTHER -> launch(k, block, Append(args, NoRange(n)))

\* The elements the driver sets aside for n: it is handed a 32-bit number of bytes.
Held(k, n) == IF k.width = 0 THEN 0 ELSE ((n * k.width) % (2 * (MaxInt32 + 1))) \div k.width

\* A fault is blamed on an index only where the checks were built in and the device faulted here.
\* Faulty: a launch a poisoned context turned away is diagnosed too.
AnyFailure == {"launch failed", "illegal address", "context poisoned"}
faulted == {"launch failed", "illegal address"}
diagnose(k, err) == IF k.boundsChecks /\ err \in faulted THEN "trap" ELSE err
=============================================================================
