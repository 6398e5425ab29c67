----------------------------- MODULE SimtProofs -----------------------------
(***************************************************************************)
(* What a program may rely on that was built with package simt.            *)
(*                                                                         *)
(* A launch that simt/kernel.go lets through, for every device, kernel and *)
(* argument: the comparison of half-open ranges is exact, so the const and *)
(* __restrict__ the lowering writes are true, and a tile of n elements is  *)
(* n elements in the 32 bits that carry its size to the driver.            *)
(*                                                                         *)
(* The directory "simtgo generate" leaves beside it, for every set of      *)
(* kernels, versions and architectures and any number of interrupted runs: *)
(* the exit status is true, and -no-ptx costs no PTX.  The invariant is    *)
(* that every file of the run in progress is there as it should be or will *)
(* be put, whatever an earlier run left in its place (HalfWay).            *)
(***************************************************************************)
EXTENDS Launch, Generate, SequenceTheorems, TLAPS

Ranges == [kind : {"range"}, base : Nat, bytes : Nat]
Addresses(r) == r.base .. r.base + r.bytes - 1
Parameters == [slice : BOOLEAN, readOnly : BOOLEAN]
LaunchableKernels == [need : Nat, width : Nat, shared : Nat, maxShared : Nat,
            params : Seq(Parameters)]
\* The checks let the launch through.
Passes(k, block, args) == launch(k, block, args) = ""
PassesShared(k, block, n, args) == LaunchSharedDim(k, block, n, args) = ""
Arguments == Ranges \cup [kind : {"value"}, v : Int]

-----------------------------------------------------------------------------
\* Two ranges with anything in them are told disjoint exactly where no address is in both
\* (kernel.go's overlap test: neither a false alarm nor a missed one).
THEOREM DisjointIsExact ==
  ASSUME NEW a \in Ranges, NEW b \in Ranges, a.bytes # 0, b.bytes # 0
  PROVE  Disjoint(a, b) <=> Addresses(a) \cap Addresses(b) = {}
<1>1. /\ a.base \in Nat /\ a.bytes \in Nat
      /\ b.base \in Nat /\ b.bytes \in Nat
  BY DEF Ranges
<1>2. ASSUME Disjoint(a, b), NEW x \in Addresses(a), x \in Addresses(b)
      PROVE  FALSE
  BY <1>1, <1>2 DEF Disjoint, Addresses
<1>3. ASSUME ~Disjoint(a, b)
      PROVE  \E x \in Addresses(a) : x \in Addresses(b)
  <2>1. CASE a.base >= b.base
    <3>1. a.base \in Addresses(a) /\ a.base \in Addresses(b)
      BY <1>1, <1>3, <2>1 DEF Disjoint, Addresses
    <3> QED
      BY <3>1
  <2>2. CASE a.base < b.base
    <3>1. b.base \in Addresses(a) /\ b.base \in Addresses(b)
      BY <1>1, <1>3, <2>2 DEF Disjoint, Addresses
    <3> QED
      BY <3>1
  <2> QED
    BY <1>1, <2>1, <2>2
<1> QED
  BY <1>2, <1>3

-----------------------------------------------------------------------------
\* A launch that passes the shared half of the checks has an argument for every parameter.
LEMMA ArgumentsAreThere ==
  ASSUME NEW k \in LaunchableKernels, NEW block \in Nat, NEW args \in Seq(Arguments),
         Passes(k, block, args)
  PROVE  Len(args) >= Len(k.params)
<1>1. ~checkArgs(k, args)
  BY DEF Passes, launch
<1>2. k.params \in Seq(Parameters) /\ k.width \in Nat
  BY DEF LaunchableKernels
<1>3. Len(args) \in Nat /\ Len(k.params) \in Nat
  BY <1>2, LenProperties
<1>4. CASE k.width = 0
  <2>1. Len(args) - 0 = Len(k.params)
    BY <1>1, <1>4 DEF checkArgs
  <2> QED
    BY <1>3, <2>1
<1>5. CASE k.width # 0
  <2>1. Len(args) - 1 = Len(k.params)
    BY <1>1, <1>5 DEF checkArgs
  <2> QED
    BY <1>3, <2>1
<1> QED
  BY <1>4, <1>5

\* Where a launch is let through, memory two slice parameters share is written through neither:
\* no argument makes the const or the __restrict__ of the generated signature a lie.
THEOREM SharedIsReadOnly ==
  ASSUME NEW k \in LaunchableKernels, NEW block \in Nat, NEW args \in Seq(Arguments),
         Passes(k, block, args),
         NEW i \in Spans(k.params, args), NEW j \in Spans(k.params, args), i # j,
         NEW x \in Addresses(args[i]), x \in Addresses(args[j])
  PROVE  k.params[i].readOnly /\ k.params[j].readOnly
<1>1. Len(args) >= Len(k.params)
  BY ArgumentsAreThere
<1>2. Clashes(k.params, args) = {}
  BY <1>1 DEF Passes, launch, checkAliasing
<1>3. /\ i \in 1 .. Len(k.params) /\ j \in 1 .. Len(k.params)
      /\ Len(k.params) \in Nat /\ Len(args) \in Nat
      /\ args \in [1 .. Len(args) -> Arguments]
  <2>1. k.params \in Seq(Parameters)
    BY DEF LaunchableKernels
  <2>2. i \in DOMAIN k.params /\ j \in DOMAIN k.params
    BY DEF Spans
  <2>3. DOMAIN k.params = 1 .. Len(k.params) /\ Len(k.params) \in Nat
    BY <2>1, LenProperties
  <2>4. Len(args) \in Nat /\ args \in [1 .. Len(args) -> Arguments]
    BY LenProperties
  <2> QED
    BY <2>2, <2>3, <2>4
<1>4. args[i] \in Ranges /\ args[j] \in Ranges /\ args[i].bytes # 0 /\ args[j].bytes # 0
  <2>1. i \in 1 .. Len(args) /\ j \in 1 .. Len(args)
    BY <1>1, <1>3
  <2>2. args[i] \in Arguments /\ args[j] \in Arguments
    BY <1>3, <2>1
  <2> QED
    BY <2>2 DEF Spans, Arguments, Ranges
<1>5. ~Disjoint(args[i], args[j]) /\ ~Disjoint(args[j], args[i])
  BY <1>4, DisjointIsExact
<1>6. CASE i < j
  <2>1. <<i, j>> \notin Clashes(k.params, args)
    BY <1>2
  <2> QED
    BY <1>5, <1>6, <2>1 DEF Clashes
<1>7. CASE j < i
  <2>1. <<j, i>> \notin Clashes(k.params, args)
    BY <1>2
  <2> QED
    BY <1>5, <1>7, <2>1 DEF Clashes
<1>8. i < j \/ j < i
  BY <1>3
<1> QED
  BY <1>6, <1>7, <1>8

-----------------------------------------------------------------------------
\* Dividing first leaves nothing to overflow: n elements of w bytes fit where n is at most m \div w.
LEMMA DividedFits ==
  ASSUME NEW m \in Nat, NEW w \in Nat \ {0}, NEW n \in Nat, n <= m \div w
  PROVE  n * w \in Nat /\ n * w <= m
<1> DEFINE q == m \div w
<1>1. q \in Nat /\ q * w <= m
  OBVIOUS
<1>2. n * w <= q * w
  <2>1. q - n \in Nat /\ (q - n) * w \in Nat
    BY <1>1
  <2>2. (q - n) * w = q * w - n * w
    BY <1>1
  <2> QED
    BY <1>1, <2>1, <2>2
<1> QED
  BY <1>1, <1>2

\* What a refused size would have cost: the count a launch lets through is the count the driver
\* sets aside, its bytes a positive 32-bit int (kernel.go divides before it multiplies).
THEOREM HeldIsAsked ==
  ASSUME NEW k \in LaunchableKernels, NEW n \in Nat, k.width # 0, ~tooMany(k, n)
  PROVE  n * k.width <= MaxInt32 /\ Held(k, n) = n
<1>1. MaxInt32 \in Nat /\ k.width \in Nat \ {0}
  BY MaxInt32Assumption DEF LaunchableKernels
<1>2. MaxInt32 \div k.width \in Nat
  BY <1>1
<1>3. n * k.width \in Nat /\ n * k.width <= MaxInt32
  BY <1>1, <1>2, DividedFits DEF tooMany
<1>4. (n * k.width) % (2 * (MaxInt32 + 1)) = n * k.width
  <2> DEFINE bytes == n * k.width
  <2>1. bytes \in Nat /\ bytes < 2 * (MaxInt32 + 1)
    BY <1>1, <1>3
  <2> HIDE DEF bytes
  <2>2. bytes % (2 * (MaxInt32 + 1)) = bytes
    BY <1>1, <2>1
  <2> QED
    BY <2>2 DEF bytes
<1>5. (n * k.width) \div k.width = n
  BY <1>1
<1> QED
  BY <1>1, <1>3, <1>4, <1>5 DEF Held

\* A launch with a tile sized at it, let through, gets that tile, inside what the device offers.
THEOREM TileIsThere ==
  ASSUME NEW k \in LaunchableKernels, NEW block \in Nat, NEW n \in Int, NEW args \in Seq(Arguments),
         PassesShared(k, block, n, args)
  PROVE  /\ n \in Nat /\ Held(k, n) = n
         /\ k.maxShared > 0 => k.shared + n * k.width <= k.maxShared
<1>1. /\ k.width \in Nat /\ k.shared \in Nat /\ k.maxShared \in Nat
      /\ n * k.width \in Int
  <2>1. k.width \in Nat /\ k.shared \in Nat /\ k.maxShared \in Nat
    BY DEF LaunchableKernels
  <2> QED
    BY <2>1
<1>2. k.width # 0
  BY <1>1 DEF PassesShared, LaunchSharedDim
<1>3. ~(n < 0)
  BY <1>1, <1>2 DEF PassesShared, LaunchSharedDim
<1>4. ~tooMany(k, n)
  BY <1>1, <1>2, <1>3 DEF PassesShared, LaunchSharedDim
<1>5. ~(k.maxShared > 0 /\ k.shared + n * k.width > k.maxShared)
  BY <1>1, <1>2, <1>3, <1>4 DEF PassesShared, LaunchSharedDim
<1>6. n \in Nat
  BY <1>3
<1>7. k.maxShared > 0 => k.shared + n * k.width <= k.maxShared
  BY <1>1, <1>5
<1>8. Held(k, n) = n
  BY <1>2, <1>4, <1>6, HeldIsAsked
<1> QED
  BY <1>6, <1>7, <1>8
-----------------------------------------------------------------------------
\* No two files of the output directory are one.
LEMMA FilesApart ==
  /\ \A k \in Kernel : CuFile(k).arch = 1000 /\ CuFile(k).kernel = k /\ CuFile(k) # GoFile
  /\ \A k \in Kernel, a \in Arch :
       /\ PtxFile(k, a).arch = a /\ PtxFile(k, a).kernel = k
       /\ PtxFile(k, a) # GoFile /\ \A j \in Kernel : PtxFile(k, a) # CuFile(j)
  /\ 1000 \notin Arch
BY ArchAssumption DEF CuFile, PtxFile, GoFile

\* The Go file is none of the files of a kernel.
LEMMA OneGoFile == \A f \in TreeFiles : f # GoFile
BY FilesApart DEF TreeFiles

\* What is lowered has CUDA C.
LEMMA LoweredHaveCode == TypeOK => Lowered \subseteq Kernel /\ \A k \in Lowered : src[k] \in Version
BY DEF Lowered, Units

\* What a run is about to do is well formed.
LEMMA WriteAllType ==
  ASSUME TypeOK, NEW compiled \in SUBSET Lowered, NEW a \in Arch, NEW mode,
         mode = "no-ptx" => \A k \in compiled : ptx[k][a] # Missing
  PROVE  \A p \in WriteAll(Lowered, compiled, a, mode) :
           IF p.file = GoFile THEN p.to = RenderGen(Lowered, compiled, a) /\ p.to \in GenFiles
           ELSE p.file \in TreeFiles /\ p.to \in Content
<1> USE LoweredHaveCode
<1>1. RenderGen(Lowered, compiled, a) \in GenFiles
  BY DEF RenderGen, GenFiles
<1>2. ASSUME NEW f \in Plan(Lowered, compiled, a)
      PROVE  /\ f \in TreeFiles
             /\ (IF f.arch \in Arch /\ mode = "no-ptx" THEN ptx[f.kernel][f.arch] ELSE src[f.kernel]) \in Content
  <2>1. CASE f \in {CuFile(k) : k \in Lowered}
    BY <2>1, FilesApart DEF TreeFiles, Content, TypeOK
  <2>2. CASE f \in {PtxFile(k, a) : k \in compiled}
    <3>1. PICK k \in compiled : f = PtxFile(k, a)
      BY <2>2
    <3>2. k \in Kernel /\ f.kernel = k /\ f.arch = a /\ src[k] \in Version
      BY <3>1, FilesApart
    <3>3. ptx[k][a] \in Content
      BY <3>2 DEF TypeOK
    <3> QED
      BY <3>1, <3>2, <3>3 DEF TreeFiles, Content
  <2> QED
    BY <1>2, <2>1, <2>2 DEF Plan
<1>3. \A f \in Existing : f \in TreeFiles
  BY DEF Existing, TreeFiles
<1>4. ASSUME NEW p \in WriteAll(Lowered, compiled, a, mode)
      PROVE  IF p.file = GoFile THEN p.to = RenderGen(Lowered, compiled, a) /\ p.to \in GenFiles
             ELSE p.file \in TreeFiles /\ p.to \in Content
  <2>1. CASE \E f \in Orphans(Plan(Lowered, compiled, a), mode = "no-ptx") : p = Put(f, Missing)
    BY <2>1, <1>3, OneGoFile DEF Orphans, Put, Content
  <2>2. CASE \E f \in Plan(Lowered, compiled, a) :
               p = Put(f, IF f.arch \in Arch /\ mode = "no-ptx" THEN ptx[f.kernel][f.arch] ELSE src[f.kernel])
    BY <2>2, <1>2, OneGoFile DEF Put
  <2>3. CASE p = Put(GoFile, RenderGen(Lowered, compiled, a))
    BY <2>3, <1>1 DEF Put
  <2> QED
    BY <1>4, <2>1, <2>2, <2>3 DEF WriteAll
<1> QED
  BY <1>4

-----------------------------------------------------------------------------
\* A put that is carried out: it leaves the set, and one file changes.
PutDone(p) ==
  /\ todo' = todo \ {p}
  /\ \/ /\ p.file = GoFile /\ p.to \in GenFiles /\ gen' = p.to
        /\ cu' = cu /\ ptx' = ptx
     \/ /\ gen' = gen
        /\ \E k \in Kernel : /\ p.file = CuFile(k) /\ p.to \in Content
                             /\ cu' = [cu EXCEPT ![k] = p.to] /\ ptx' = ptx
     \/ /\ gen' = gen
        /\ \E k \in Kernel, a \in Arch :
             /\ p.file = PtxFile(k, a) /\ p.to \in Content
             /\ ptx' = [ptx EXCEPT ![k][a] = p.to] /\ cu' = cu

\* That is what a step of a run does.
LEMMA TouchDoes ==
  ASSUME TypeOK, Touch
  PROVE  \E p \in todo : PutDone(p)
<1>1. PICK p \in Due :
        /\ todo' = todo \ {p}
        /\ IF p.file = GoFile THEN gen' = p.to /\ UNCHANGED <<cu, ptx>>
                              ELSE Apply(p.file, p.to) /\ UNCHANGED gen
  BY DEF Touch
<1>2. p \in todo
  BY DEF Due
<1>3. CASE p.file = GoFile
  BY <1>1, <1>2, <1>3 DEF TypeOK, PutDone
<1>4. CASE p.file # GoFile
  <2>1. p.file \in TreeFiles /\ p.to \in Content
    BY <1>2, <1>4 DEF TypeOK
  <2>2. CASE \E k \in Kernel : p.file = CuFile(k)
    <3>1. PICK k \in Kernel : p.file = CuFile(k)
      BY <2>2
    <3>2. p.file.arch = 1000 /\ p.file.kernel = k /\ 1000 \notin Arch
      BY <3>1, FilesApart
    <3>3. cu' = [cu EXCEPT ![k] = p.to] /\ ptx' = ptx /\ gen' = gen
      BY <1>1, <1>4, <3>2 DEF Apply
    <3> QED
      BY <1>1, <1>2, <2>1, <3>1, <3>3 DEF PutDone
  <2>3. CASE \E k \in Kernel, a \in Arch : p.file = PtxFile(k, a)
    <3>1. PICK k \in Kernel, a \in Arch : p.file = PtxFile(k, a)
      BY <2>3
    <3>2. p.file.arch = a /\ p.file.kernel = k /\ a # 1000
      BY <3>1, FilesApart
    <3>3. ptx' = [ptx EXCEPT ![k][a] = p.to] /\ cu' = cu /\ gen' = gen
      BY <1>1, <1>4, <3>2 DEF Apply
    <3> QED
      BY <1>1, <1>2, <2>1, <3>1, <3>3 DEF PutDone
  <2> QED
    BY <2>1, <2>2, <2>3 DEF TreeFiles
<1> QED
  BY <1>3, <1>4 DEF PutDone

\* A run that dies tears the file it was at, or none.
LEMMA InterruptedTypes ==
  ASSUME TypeOK, Interrupted
  PROVE  /\ cu' \in [Kernel -> Content] /\ ptx' \in [Kernel -> [Arch -> Content]]
         /\ gen' \in GenFiles
<1>1. PICK p \in Due :
        \/ UNCHANGED <<cu, ptx, gen>>
        \/ p.file = GoFile /\ gen' = NoGen /\ UNCHANGED <<cu, ptx>>
        \/ Stage(p) = 2 /\ Apply(p.file, Torn) /\ UNCHANGED gen
  BY DEF Interrupted
<1>2. CASE UNCHANGED <<cu, ptx, gen>>
  BY <1>2 DEF TypeOK
<1>3. CASE p.file = GoFile /\ gen' = NoGen /\ UNCHANGED <<cu, ptx>>
  BY <1>3 DEF TypeOK, NoGen, GenFiles
<1>4. CASE Stage(p) = 2 /\ Apply(p.file, Torn) /\ UNCHANGED gen
  <2>1. p.file \in TreeFiles
    BY <1>4 DEF Due, TypeOK, Stage
  <2>2. /\ p.file.arch = 1000 => p.file.kernel \in Kernel
        /\ p.file.arch \in Arch => p.file.kernel \in Kernel
    BY <2>1, FilesApart DEF TreeFiles
  <2>3. Torn \in Content
    BY DEF Content
  <2>4. cu' \in [Kernel -> Content]
    BY <1>4, <2>2, <2>3 DEF Apply, TypeOK
  <2>5. ptx' \in [Kernel -> [Arch -> Content]]
    BY <1>4, <2>2, <2>3 DEF Apply, TypeOK
  <2> QED
    BY <1>4, <2>4, <2>5 DEF TypeOK
<1> QED
  BY <1>1, <1>2, <1>3, <1>4

\* What the choices of a Generate step are.
LEMMA GenerateDoes ==
  ASSUME TypeOK, Generate
  PROVE  \E mode \in {"compile", "no-ptx"}, a \in Arch, compiled \in SUBSET Lowered :
           /\ run' = [mode |-> mode, arch |-> a, verdict |-> Verdict(compiled, mode = "no-ptx")]
           /\ todo' = WriteAll(Lowered, compiled, a, mode)
           /\ mode = "no-ptx" => \A k \in compiled : ptx[k][a] # Missing
<1>1. PICK mode \in {"compile", "no-ptx"}, a \in Arch :
        \E compiled \in IF pkgBad THEN {{}}
                        ELSE IF mode = "no-ptx" THEN {ReusePTX(a)} ELSE SUBSET Units :
          /\ run' = [mode |-> mode, arch |-> a, verdict |-> Verdict(compiled, mode = "no-ptx")]
          /\ todo' = WriteAll(Lowered, compiled, a, mode)
  BY DEF Generate
<1>2. PICK compiled \in IF pkgBad THEN {{}}
                        ELSE IF mode = "no-ptx" THEN {ReusePTX(a)} ELSE SUBSET Units :
          /\ run' = [mode |-> mode, arch |-> a, verdict |-> Verdict(compiled, mode = "no-ptx")]
          /\ todo' = WriteAll(Lowered, compiled, a, mode)
  BY <1>1
<1>3. /\ compiled \in SUBSET Lowered
      /\ mode = "no-ptx" => \A k \in compiled : ptx[k][a] # Missing
  BY <1>2 DEF Lowered, ReusePTX
<1> QED
  BY <1>2, <1>3

\* A run that writes ends one of three ways.
LEMMA VerdictType ==
  ASSUME NEW compiled, NEW noPTX
  PROVE  Verdict(compiled, noPTX) \in {"ok", "refused", "failed"}
BY DEF Verdict

\* The type invariant holds in the beginning, and every step keeps it.
LEMMA TypeBegins == Init => TypeOK
<1> SUFFICES ASSUME Init PROVE TypeOK
  OBVIOUS
<1>1. cu \in [Kernel -> Content] /\ ptx \in [Kernel -> [Arch -> Content]]
  BY DEF Init, Content
<1>2. gen \in GenFiles
  BY DEF Init, NoGen, GenFiles
<1>3. run \in Runs /\ exit \in Runs /\ Idle
  BY DEF Init, Runs, NoRun, Idle
<1> QED
  BY <1>1, <1>2, <1>3 DEF Init, TypeOK

LEMMA TypeStep ==
  ASSUME TypeOK, [Next]_vars
  PROVE  TypeOK'
<1>1. CASE Edit
  <2>1. src' \in [Kernel -> Version \cup {Gone, Refused}] /\ pkgBad' \in BOOLEAN
    BY <1>1 DEF Edit, TypeOK
  <2>2. UNCHANGED <<cu, ptx, gen, gate, run, todo, crashes>> /\ exit' = NoRun /\ Idle
    BY <1>1 DEF Edit, files
  <2> QED
    BY <2>1, <2>2 DEF TypeOK, Idle, Runs
<1>2. CASE WritesNothing
  <2>1. UNCHANGED <<src, pkgBad, cu, ptx, gen, gate, run, todo, crashes>> /\ Idle
    BY <1>2 DEF WritesNothing, files, package
  <2>2. PICK mode \in {"compile", "no-ptx", "check"}, a \in Arch :
          \E verdict \in {"ok", "failed"} : Ends(mode, a, verdict)
    BY <1>2 DEF WritesNothing
  <2>3. exit' \in Runs
    BY <2>2 DEF Ends, Runs
  <2> QED
    BY <2>1, <2>3 DEF TypeOK, Idle
<1>3. CASE Generate
  <2>1. PICK mode \in {"compile", "no-ptx"}, a \in Arch, compiled \in SUBSET Lowered :
           /\ run' = [mode |-> mode, arch |-> a, verdict |-> Verdict(compiled, mode = "no-ptx")]
           /\ todo' = WriteAll(Lowered, compiled, a, mode)
           /\ mode = "no-ptx" => \A k \in compiled : ptx[k][a] # Missing
    BY <1>3, GenerateDoes
  <2>2. run' \in Runs /\ run'.mode = mode /\ ~ Idle'
    BY <2>1, VerdictType DEF Runs, Idle
  <2>3. \A p \in todo' : IF p.file = GoFile THEN p.to \in GenFiles
                         ELSE p.file \in TreeFiles /\ p.to \in Content
    BY <2>1, WriteAllType
  <2>4. UNCHANGED <<src, pkgBad, cu, ptx, gen, gate, crashes>> /\ exit' = NoRun
    BY <1>3 DEF Generate, files, package
  <2> QED
    BY <2>2, <2>3, <2>4 DEF TypeOK, Runs
<1>4. CASE Touch
  <2>1. UNCHANGED <<src, pkgBad, gate, run, exit, crashes>> /\ todo' \subseteq todo
    BY <1>4 DEF Touch, package
  <2>2. /\ cu' \in [Kernel -> Content] /\ ptx' \in [Kernel -> [Arch -> Content]]
        /\ gen' \in GenFiles
    <3>1. PICK p \in todo : PutDone(p)
      BY <1>4, TouchDoes
    <3>2. CASE p.file = GoFile /\ p.to \in GenFiles /\ gen' = p.to /\ cu' = cu /\ ptx' = ptx
      BY <3>2 DEF TypeOK
    <3>3. ASSUME NEW k \in Kernel, gen' = gen, p.to \in Content,
                 cu' = [cu EXCEPT ![k] = p.to], ptx' = ptx
          PROVE  /\ cu' \in [Kernel -> Content] /\ ptx' \in [Kernel -> [Arch -> Content]]
                 /\ gen' \in GenFiles
      BY <3>3 DEF TypeOK
    <3>4. ASSUME NEW k \in Kernel, NEW a \in Arch, gen' = gen, p.to \in Content,
                 ptx' = [ptx EXCEPT ![k][a] = p.to], cu' = cu
          PROVE  /\ cu' \in [Kernel -> Content] /\ ptx' \in [Kernel -> [Arch -> Content]]
                 /\ gen' \in GenFiles
      BY <3>4 DEF TypeOK
    <3> QED
      BY <3>1, <3>2, <3>3, <3>4 DEF PutDone
  <2> QED
    BY <2>1, <2>2 DEF TypeOK, Idle
<1>5. CASE Interrupted
  <2>1. /\ UNCHANGED <<src, pkgBad, gate>> /\ todo' = {} /\ run' = NoRun /\ exit' = NoRun
        /\ crashes' = crashes + 1
    BY <1>5 DEF Interrupted, package
  <2>2. /\ cu' \in [Kernel -> Content] /\ ptx' \in [Kernel -> [Arch -> Content]]
        /\ gen' \in GenFiles
    BY <1>5, InterruptedTypes
  <2>3. run' \in Runs /\ exit' \in Runs /\ crashes' \in Nat
    BY <2>1 DEF TypeOK, Runs
  <2> QED
    BY <2>1, <2>2, <2>3 DEF TypeOK
<1>6. CASE Exit
  <2>1. /\ UNCHANGED <<src, pkgBad, cu, ptx, gen, todo, crashes>> /\ todo = {} /\ run' = NoRun
        /\ exit' = [mode |-> run.mode, arch |-> run.arch, verdict |-> run.verdict]
        /\ run # NoRun
    BY <1>6 DEF Exit, package, Ends, Idle, NoRun
  <2>2. exit' \in Runs
    BY <2>1 DEF TypeOK, Runs
  <2>3. gate' \in SUBSET Kernel
    BY <1>6 DEF Exit, TypeOK, Names
  <2> QED
    BY <2>1, <2>2, <2>3 DEF TypeOK, Runs, Idle, NoRun
<1>7. CASE UNCHANGED vars
  BY <1>7 DEF vars, package, files, TypeOK, Idle
<1> QED
  BY <1>1, <1>2, <1>3, <1>4, <1>5, <1>6, <1>7 DEF Next

-----------------------------------------------------------------------------
\* A run has one put for each file it plans, and removes none of them.
LEMMA PlannedIsPut ==
  ASSUME TypeOK, NEW compiled \in SUBSET Lowered, NEW a \in Arch, NEW mode,
         NEW f \in Plan(Lowered, compiled, a),
         NEW text, text = IF f.arch \in Arch /\ mode = "no-ptx" THEN ptx[f.kernel][f.arch]
                                                              ELSE src[f.kernel]
  PROVE  /\ \E p \in WriteAll(Lowered, compiled, a, mode) : p.file = f
         /\ \A p \in WriteAll(Lowered, compiled, a, mode) : p.file = f => p.to = text
<1>1. Put(f, text) \in WriteAll(Lowered, compiled, a, mode)
  BY DEF WriteAll
<1>2. f # GoFile
  BY FilesApart, LoweredHaveCode DEF Plan
<1>3. ASSUME NEW p \in WriteAll(Lowered, compiled, a, mode), p.file = f
      PROVE  p.to = text
  <2>1. CASE \E g \in Orphans(Plan(Lowered, compiled, a), mode = "no-ptx") : p = Put(g, Missing)
    BY <2>1, <1>3 DEF Orphans, Put
  <2>2. CASE \E g \in Plan(Lowered, compiled, a) :
               p = Put(g, IF g.arch \in Arch /\ mode = "no-ptx" THEN ptx[g.kernel][g.arch] ELSE src[g.kernel])
    BY <2>2, <1>3 DEF Put
  <2>3. CASE p = Put(GoFile, RenderGen(Lowered, compiled, a))
    BY <2>3, <1>2, <1>3 DEF Put
  <2> QED
    BY <1>3, <2>1, <2>2, <2>3 DEF WriteAll
<1> QED
  BY <1>1, <1>3 DEF Put

\* A run begins with everything still to put.
LEMMA GeneratePledges ==
  ASSUME TypeOK, Generate
  PROVE  HalfWay'
<1>1. PICK mode \in {"compile", "no-ptx"}, a \in Arch, compiled \in SUBSET Lowered :
           /\ run' = [mode |-> mode, arch |-> a, verdict |-> Verdict(compiled, mode = "no-ptx")]
           /\ todo' = WriteAll(Lowered, compiled, a, mode)
           /\ mode = "no-ptx" => \A k \in compiled : ptx[k][a] # Missing
  BY GenerateDoes
<1>2. UNCHANGED <<src, pkgBad, cu, ptx, gen>> /\ run'.mode = mode /\ run'.arch = a
      /\ run'.verdict = Verdict(compiled, mode = "no-ptx")
  BY <1>1 DEF Generate, files, package
<1>3. Lowered' = Lowered /\ Units' = Units /\ Names' = Names
  BY <1>2 DEF Lowered, Units, Names
<1> DEFINE W == WriteAll(Lowered, compiled, a, mode)
           R == RenderGen(Lowered, compiled, a)
<1>4. R' = R
  BY <1>2, <1>3 DEF RenderGen
<1>5. /\ \A p \in W : p.file = GoFile => p.to = R
      /\ \E p \in W : p.file = GoFile
  <2>1. Put(GoFile, R) \in W
    BY DEF WriteAll
  <2> QED
    BY <1>1, <2>1, WriteAllType DEF Put
<1>6. ASSUME NEW k \in Lowered
      PROVE  /\ \A p \in W : p.file = CuFile(k) => p.to = src[k]
             /\ \E p \in W : p.file = CuFile(k)
  <2>1. CuFile(k) \in Plan(Lowered, compiled, a)
    BY DEF Plan
  <2>2. CuFile(k).arch \notin Arch /\ CuFile(k).kernel = k
    BY FilesApart, LoweredHaveCode
  <2> QED
    BY <2>1, <2>2, PlannedIsPut
<1>7. ASSUME NEW k \in compiled
      PROVE  /\ \A p \in W : p.file = PtxFile(k, a) =>
                  p.to # Missing /\ (mode = "compile" => p.to = src[k])
             /\ \E p \in W : p.file = PtxFile(k, a)
  <2>1. PtxFile(k, a) \in Plan(Lowered, compiled, a)
    BY DEF Plan
  <2>2. PtxFile(k, a).arch = a /\ PtxFile(k, a).kernel = k /\ src[k] \in Version
    BY FilesApart, LoweredHaveCode
  <2>3. src[k] # Missing
    BY <2>2, VersionAssumption
  <2>4. CASE mode = "no-ptx"
    <3>1. ptx[k][a] # Missing
      BY <1>1, <2>4
    <3> QED
      BY <2>1, <2>2, <2>4, <3>1, PlannedIsPut
  <2>5. CASE mode = "compile"
    BY <2>1, <2>2, <2>3, <2>5, PlannedIsPut
  <2> QED
    BY <2>4, <2>5
<1>8. Verdict(compiled, mode = "no-ptx") = "ok" =>
        /\ ~ pkgBad /\ Units = Names
        /\ mode = "compile" => compiled = Units
  BY DEF Verdict
<1>9. Pledge(compiled)'
  <2>1. PutOrThere(GoFile, gen, LAMBDA text : text = RenderGen(Lowered, compiled, run.arch))'
    BY <1>1, <1>2, <1>3, <1>4, <1>5 DEF PutOrThere, IsPut, GoFile
  <2>2. \A k \in Lowered' : PutOrThere(CuFile(k), cu[k], LAMBDA text : text = src[k])'
    BY <1>1, <1>2, <1>3, <1>6 DEF PutOrThere, IsPut, CuFile
  <2>3. \A k \in compiled :
          PutOrThere(PtxFile(k, run.arch), ptx[k][run.arch], LAMBDA text : EmbedWorks(k, text))'
    BY <1>1, <1>2, <1>7 DEF PutOrThere, IsPut, PtxFile, EmbedWorks
  <2> QED
    BY <1>2, <1>3, <1>8, <2>1, <2>2, <2>3 DEF Pledge
<1> QED
  BY <1>1, <1>2, <1>3, <1>9 DEF HalfWay

\* A put carried out is there, and undoes no other.
LEMMA TouchKeepsPledge ==
  ASSUME TypeOK, HalfWay, Touch
  PROVE  HalfWay'
<1>1. PICK p \in todo : PutDone(p)
  BY TouchDoes
<1>2. UNCHANGED <<src, pkgBad, run>> /\ ~ Idle
  BY <1>1 DEF Touch, TypeOK, package
<1>3. Lowered' = Lowered /\ Units' = Units /\ Names' = Names
  BY <1>2 DEF Lowered, Units, Names
<1>4. PICK compiled \in SUBSET Lowered : Pledge(compiled)
  BY <1>2 DEF HalfWay
<1>5. run.mode \in {"compile", "no-ptx"} /\ run.arch \in Arch
  BY <1>2 DEF HalfWay, TypeOK, Runs, NoRun, Idle
<1>6. compiled \subseteq Kernel /\ Lowered \subseteq Kernel
  BY LoweredHaveCode
<1> DEFINE R == RenderGen(Lowered, compiled, run.arch)
           Works(k, text) == text # Missing /\ (run.mode = "compile" => text = src[k])
<1>7. R' = R
  BY <1>2, <1>3 DEF RenderGen
<1>8. /\ \A q \in todo : q.file = GoFile => q.to = R
      /\ gen = R \/ \E q \in todo : q.file = GoFile
  BY <1>4 DEF Pledge, PutOrThere, IsPut
<1>9. \A k \in Lowered : /\ \A q \in todo : q.file = CuFile(k) => q.to = src[k]
                         /\ cu[k] = src[k] \/ \E q \in todo : q.file = CuFile(k)
  BY <1>4 DEF Pledge, PutOrThere, IsPut
<1>10. \A k \in compiled : /\ \A q \in todo : q.file = PtxFile(k, run.arch) => Works(k, q.to)
                           /\ Works(k, ptx[k][run.arch]) \/ \E q \in todo : q.file = PtxFile(k, run.arch)
  BY <1>4 DEF Pledge, PutOrThere, IsPut, EmbedWorks
<1>11. gen' = R \/ \E q \in todo' : q.file = GoFile
  BY <1>1, <1>8, FilesApart DEF PutDone
<1>12. \A k \in Lowered : cu'[k] = src[k] \/ \E q \in todo' : q.file = CuFile(k)
  <2> TAKE k \in Lowered
  <2>1. CASE p.file = CuFile(k)
    <3>1. p.to = src[k]
      BY <1>9, <2>1
    <3>2. cu' = [cu EXCEPT ![k] = p.to]
      BY <1>1, <1>6, <2>1, FilesApart DEF PutDone
    <3> QED
      BY <1>6, <3>1, <3>2 DEF TypeOK
  <2>2. CASE p.file # CuFile(k)
    <3>1. cu'[k] = cu[k]
      BY <1>1, <1>6, <2>2 DEF TypeOK, PutDone
    <3> QED
      BY <1>1, <1>9, <2>2, <3>1 DEF PutDone
  <2> QED
    BY <2>1, <2>2
<1>13. \A k \in compiled :
          Works(k, ptx'[k][run.arch]) \/ \E q \in todo' : q.file = PtxFile(k, run.arch)
  <2> TAKE k \in compiled
  <2>1. CASE p.file = PtxFile(k, run.arch)
    <3>1. Works(k, p.to)
      BY <1>10, <2>1
    <3>2. ptx' = [ptx EXCEPT ![k][run.arch] = p.to]
      BY <1>1, <1>5, <1>6, <2>1, FilesApart DEF PutDone
    <3>3. ptx'[k][run.arch] = p.to
      BY <1>5, <1>6, <3>2 DEF TypeOK
    <3> QED
      BY <3>1, <3>3
  <2>2. CASE p.file # PtxFile(k, run.arch)
    <3>1. ptx'[k][run.arch] = ptx[k][run.arch]
      BY <1>1, <1>5, <1>6, <2>2 DEF TypeOK, PutDone
    <3> HIDE DEF Works
    <3> QED
      BY <1>1, <1>10, <2>2, <3>1 DEF PutDone
  <2> QED
    BY <2>1, <2>2
<1>14. Pledge(compiled)'
  <2>1. PutOrThere(GoFile, gen, LAMBDA text : text = RenderGen(Lowered, compiled, run.arch))'
    BY <1>1, <1>2, <1>3, <1>7, <1>8, <1>11 DEF PutOrThere, IsPut, GoFile, PutDone
  <2>2. \A k \in Lowered' : PutOrThere(CuFile(k), cu[k], LAMBDA text : text = src[k])'
    <3>1. \A k \in Lowered :
            /\ \A q \in todo' : q.file = CuFile(k) => q.to = src[k]
            /\ cu'[k] = src[k] \/ \E q \in todo' : q.file = CuFile(k)
      BY <1>1, <1>9, <1>12 DEF PutDone
    <3> QED
      BY <1>2, <1>3, <3>1 DEF PutOrThere, IsPut, CuFile
  <2>3. \A k \in compiled :
          PutOrThere(PtxFile(k, run.arch), ptx[k][run.arch], LAMBDA text : EmbedWorks(k, text))'
    BY <1>1, <1>2, <1>10, <1>13 DEF PutOrThere, IsPut, PtxFile, EmbedWorks, PutDone
  <2> QED
    BY <1>2, <1>3, <1>4, <2>1, <2>2, <2>3 DEF Pledge
<1> QED
  BY <1>2, <1>3, <1>5, <1>14 DEF HalfWay

\* Every step keeps what a run in progress promises; outside Generate and Touch no run is in progress.
LEMMA HalfWayStep ==
  ASSUME TypeOK, HalfWay, [Next]_vars
  PROVE  HalfWay'
<1>1. CASE Edit
  BY <1>1 DEF Edit, HalfWay, Idle
<1>2. CASE WritesNothing
  BY <1>2 DEF WritesNothing, HalfWay, Idle
<1>3. CASE Interrupted \/ Exit
  BY <1>3 DEF Interrupted, Exit, HalfWay, Idle, NoRun
<1>4. CASE UNCHANGED vars
  <2>1. UNCHANGED <<src, pkgBad, cu, ptx, gen, run, todo>>
    BY <1>4 DEF vars, package, files
  <2>2. Idle' = Idle /\ Lowered' = Lowered /\ Units' = Units /\ Names' = Names
    BY <2>1 DEF Idle, Lowered, Units, Names
  <2>3. ASSUME NEW compiled \in SUBSET Lowered, Pledge(compiled)
        PROVE  Pledge(compiled)'
    <3>1. PutOrThere(GoFile, gen, LAMBDA text : text = RenderGen(Lowered, compiled, run.arch))'
      BY <2>1, <2>2, <2>3 DEF Pledge, PutOrThere, IsPut, RenderGen, GoFile
    <3>2. \A k \in Lowered' : PutOrThere(CuFile(k), cu[k], LAMBDA text : text = src[k])'
      BY <2>1, <2>2, <2>3 DEF Pledge, PutOrThere, IsPut, CuFile
    <3>3. \A k \in compiled :
            PutOrThere(PtxFile(k, run.arch), ptx[k][run.arch], LAMBDA text : EmbedWorks(k, text))'
      BY <2>1, <2>2, <2>3 DEF Pledge, PutOrThere, IsPut, PtxFile, EmbedWorks
    <3> QED
      BY <2>1, <2>2, <2>3, <3>1, <3>2, <3>3 DEF Pledge
  <2> QED
    BY <2>1, <2>2, <2>3 DEF HalfWay
<1> QED
  BY <1>1, <1>2, <1>3, <1>4, GeneratePledges, TouchKeepsPledge DEF Next

-----------------------------------------------------------------------------
\* A -no-ptx run changes no PTX file at all.
LEMMA TouchPutsBack ==
  ASSUME TypeOK, PTXPutBack, Touch, run.mode = "no-ptx"
  PROVE  ptx' = ptx
<1>1. PICK p \in todo : PutDone(p)
  BY TouchDoes
<1>2. ASSUME NEW k \in Kernel, NEW a \in Arch, p.file = PtxFile(k, a),
             ptx' = [ptx EXCEPT ![k][a] = p.to]
      PROVE  ptx' = ptx
  <2>1. p.to = ptx[k][a]
    BY <1>2, FilesApart DEF PTXPutBack
  <2> QED
    BY <1>2, <2>1 DEF TypeOK
<1> QED
  BY <1>1, <1>2 DEF PutDone

\* What a -no-ptx run has still to put into PTX files stays what is there.
LEMMA PutBackStep ==
  ASSUME TypeOK, PTXPutBack, [Next]_vars
  PROVE  PTXPutBack'
<1>1. CASE Generate
  <2>1. PICK mode \in {"compile", "no-ptx"}, a \in Arch, compiled \in SUBSET Lowered :
           /\ run' = [mode |-> mode, arch |-> a, verdict |-> Verdict(compiled, mode = "no-ptx")]
           /\ todo' = WriteAll(Lowered, compiled, a, mode)
           /\ mode = "no-ptx" => \A k \in compiled : ptx[k][a] # Missing
    BY <1>1, GenerateDoes
  <2>2. ptx' = ptx /\ run'.mode = mode
    BY <1>1, <2>1 DEF Generate, files
  <2>3. ASSUME NEW p \in todo', mode = "no-ptx", p.file.arch \in Arch
        PROVE  p.to = ptx[p.file.kernel][p.file.arch]
    <3>1. CASE \E g \in Orphans(Plan(Lowered, compiled, a), mode = "no-ptx") : p = Put(g, Missing)
      BY <2>3, <3>1 DEF Orphans, Put
    <3>2. CASE \E g \in Plan(Lowered, compiled, a) :
                 p = Put(g, IF g.arch \in Arch /\ mode = "no-ptx" THEN ptx[g.kernel][g.arch] ELSE src[g.kernel])
      BY <2>3, <3>2 DEF Put
    <3>3. CASE p = Put(GoFile, RenderGen(Lowered, compiled, a))
      BY <2>3, <3>3, ArchAssumption DEF Put, GoFile
    <3> QED
      BY <2>1, <2>3, <3>1, <3>2, <3>3 DEF WriteAll
  <2> QED
    BY <2>2, <2>3 DEF PTXPutBack
<1>2. CASE Touch
  <2>1. run' = run /\ todo' \subseteq todo
    BY <1>2 DEF Touch
  <2>2. CASE run.mode = "no-ptx"
    <3>1. ptx' = ptx
      BY <1>2, <2>2, TouchPutsBack
    <3> QED
      BY <2>1, <3>1 DEF PTXPutBack
  <2> QED
    BY <2>1, <2>2 DEF PTXPutBack
<1>3. CASE Edit \/ WritesNothing \/ UNCHANGED vars
  BY <1>3 DEF Edit, WritesNothing, vars, files, package, PTXPutBack
<1>4. CASE Interrupted \/ Exit
  BY <1>4 DEF Interrupted, Exit, NoRun, PTXPutBack
<1> QED
  BY <1>1, <1>2, <1>3, <1>4 DEF Next

-----------------------------------------------------------------------------
\* When a run ends nothing is left to put, so that the promise is the tree; and nothing touches the
\* tree until the package is edited or another run begins.
LEMMA ExitTells ==
  ASSUME TypeOK, HalfWay, ExitTellsTheTree, [Next]_vars
  PROVE  ExitTellsTheTree'
<1>1. CASE exit' = NoRun
  BY <1>1 DEF ExitTellsTheTree, NoRun
<1>2. CASE WritesNothing
  <2>1. UNCHANGED <<src, pkgBad, cu, ptx, gen>>
    BY <1>2 DEF WritesNothing, files, package
  <2>2. Lowered' = Lowered /\ Units' = Units /\ Names' = Names
    BY <2>1 DEF Lowered, Units, Names
  <2>3. CASE exit'.verdict = "failed"
    BY <2>3 DEF ExitTellsTheTree
  <2>4. CASE \E a \in Arch : /\ ~ pkgBad /\ Current(Units, ReusePTX(a), a)
                             /\ Ends("check", a, "ok")
    <3>1. PICK a \in Arch : Current(Units, ReusePTX(a), a) /\ Ends("check", a, "ok")
      BY <2>4
    <3>2. exit'.verdict = "ok" /\ exit'.mode = "check"
      BY <3>1 DEF Ends
    <3>3. gen = RenderGen(Units, ReusePTX(a), a) /\ \A k \in Units : cu[k] = src[k]
      BY <3>1 DEF Current
    <3>4. gen.whole /\ gen.gate = Units /\ \A r \in gen.reg : ptx[r.kernel][r.arch] # Missing
      BY <3>3 DEF RenderGen, ReusePTX
    <3> QED
      BY <2>1, <2>2, <3>2, <3>3, <3>4 DEF ExitTellsTheTree
  <2>5. exit'.verdict = "failed"
        \/ \E a \in Arch : ~ pkgBad /\ Current(Units, ReusePTX(a), a) /\ Ends("check", a, "ok")
    BY <1>2 DEF WritesNothing, Ends
  <2> QED
    BY <2>3, <2>4, <2>5
<1>3. CASE Exit
  <2>1. /\ UNCHANGED <<src, pkgBad, cu, ptx, gen>> /\ todo = {} /\ ~ Idle
        /\ exit' = [mode |-> run.mode, arch |-> run.arch, verdict |-> run.verdict]
    BY <1>3 DEF Exit, Ends, package
  <2>2. Lowered' = Lowered /\ Units' = Units /\ Names' = Names
    BY <2>1 DEF Lowered, Units, Names
  <2>3. PICK compiled \in SUBSET Lowered : Pledge(compiled)
    BY <2>1 DEF HalfWay
  <2>4. /\ gen = RenderGen(Lowered, compiled, run.arch)
        /\ \A k \in Lowered : cu[k] = src[k]
        /\ \A k \in compiled : /\ ptx[k][run.arch] # Missing
                               /\ run.mode = "compile" => ptx[k][run.arch] = src[k]
    BY <2>1, <2>3 DEF Pledge, PutOrThere, EmbedWorks
  <2>5. /\ gen.whole /\ gen.gate = Lowered
        /\ gen.reg = {[kernel |-> k, hash |-> src[k], arch |-> run.arch] : k \in compiled}
    BY <2>4 DEF RenderGen
  <2>6. \A r \in gen.reg : ptx[r.kernel][r.arch] # Missing
    BY <2>4, <2>5
  <2>7. CASE run.verdict = "ok"
    <3>1. ~ pkgBad /\ Units = Names /\ Lowered = Units /\ (run.mode = "compile" => compiled = Units)
      BY <2>3, <2>7 DEF Pledge, Lowered
    <3>2. run.mode = "compile" =>
            \A k \in Units :
              /\ ptx[k][run.arch] = src[k]
              /\ [kernel |-> k, hash |-> src[k], arch |-> run.arch] \in gen.reg
      BY <2>4, <2>5, <3>1
    <3> QED
      BY <2>1, <2>2, <2>4, <2>5, <2>6, <2>7, <3>1, <3>2 DEF ExitTellsTheTree
  <2>8. CASE run.verdict # "ok"
    BY <2>1, <2>2, <2>5, <2>8 DEF ExitTellsTheTree
  <2> QED
    BY <2>7, <2>8
<1>4. CASE exit' = exit /\ UNCHANGED <<src, pkgBad, cu, ptx, gen>>
  <2>1. Lowered' = Lowered /\ Units' = Units /\ Names' = Names
    BY <1>4 DEF Lowered, Units, Names
  <2> QED
    BY <1>4, <2>1 DEF ExitTellsTheTree
<1>5. CASE Touch
  <2>1. exit' = exit /\ ~ Idle
    BY <1>5 DEF Touch, Due, TypeOK
  <2> QED
    BY <1>1, <2>1 DEF TypeOK
<1>6. Edit \/ Generate \/ Interrupted => exit' = NoRun
  BY DEF Edit, Generate, Interrupted
<1>7. UNCHANGED vars => exit' = exit /\ UNCHANGED <<src, pkgBad, cu, ptx, gen>>
  BY DEF vars, files, package
<1> QED
  BY <1>1, <1>2, <1>3, <1>4, <1>5, <1>6, <1>7 DEF Next

-----------------------------------------------------------------------------
\* The inductive invariant of simtgo generate.
THEOREM GenerateInvariance == Spec => []IInv
<1>1. Init => IInv
  <2> SUFFICES ASSUME Init PROVE IInv
    OBVIOUS
  <2>1. Idle /\ run.mode = "none" /\ exit.verdict = "none"
    BY DEF Init, NoRun, Idle
  <2> QED
    BY <2>1, TypeBegins DEF IInv, HalfWay, PTXPutBack, ExitTellsTheTree
<1>2. IInv /\ [Next]_vars => IInv'
  BY TypeStep, HalfWayStep, PutBackStep, ExitTells DEF IInv
<1> QED
  BY <1>1, <1>2, PTL DEF Spec

\* Its type invariant.
THEOREM GenerateTypeCorrect == Spec => []TypeOK
<1>1. IInv => TypeOK
  BY DEF IInv
<1> QED
  BY <1>1, GenerateInvariance, PTL

\* The exit status of simtgo generate tells what the tree is, whatever finished or interrupted runs
\* left in it (generate.go: run, writeAll, checkCurrent).
THEOREM ExitIsTrue == Spec => []ExitTellsTheTree
<1>1. IInv => ExitTellsTheTree
  BY DEF IInv
<1> QED
  BY <1>1, GenerateInvariance, PTL

\* simtgo generate -no-ptx neither removes nor changes a PTX file (generate.go: writeAll).
THEOREM NoPTXIsHarmless == Spec => NoPTXDestroysNothing
<1>1. IInv /\ [Next]_vars =>
        [run.mode = "no-ptx" /\ crashes' = crashes => ptx' = ptx]_vars
  <2> SUFFICES ASSUME IInv, Next, run.mode = "no-ptx", crashes' = crashes
               PROVE  ptx' = ptx
    BY DEF vars, files
  <2>1. CASE Touch
    BY <2>1, TouchPutsBack DEF IInv
  <2>2. CASE Interrupted
    <3>1. crashes \in Nat /\ crashes' = crashes + 1
      BY <2>2 DEF Interrupted, IInv, TypeOK
    <3> QED
      BY <3>1
  <2>3. CASE Edit \/ WritesNothing \/ Generate \/ Exit
    BY <2>3 DEF Edit, WritesNothing, Generate, Exit, files
  <2> QED
    BY <2>1, <2>2, <2>3 DEF Next
<1> QED
  BY <1>1, GenerateInvariance, PTL DEF Spec, NoPTXDestroysNothing
=============================================================================
