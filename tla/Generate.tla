------------------------------ MODULE Generate ------------------------------
(***************************************************************************)
(* "simtgo generate" and what a program built beside it is served: the     *)
(* package of kernels as its author edits it, the output directory a run   *)
(* reads and then rewrites file by file, and the registry of prebuilt PTX  *)
(* that a program linked from that directory has.  Generated CUDA C is     *)
(* known by the version of its kernel, and so is its hash; a PTX file is   *)
(* known by the version it was compiled from.                              *)
(***************************************************************************)
EXTENDS Integers

CONSTANTS
  Kernel,     \* kernel names: numbers, in the order of the file names
  Version,    \* what the CUDA C of a kernel may be
  Arch,       \* -arch: numbers, in the order of the file names
  MaxCrashes  \* bound: runs that are interrupted

ASSUME KernelAssumption == Kernel \subseteq Nat
ASSUME ArchAssumption == Arch \subseteq 1 .. 999

VARIABLES
  src,      \* each kernel: its version, or why it has none
  pkgBad,   \* the package as a whole is refused (a forbidden import)
  cu, ptx,  \* <kernel>.cu and <kernel>.<arch>.ptx
  gen,      \* prebuilt_gen.go: the kernels it gates and registers
  gate,     \* gate.go: the kernels it names
  run,      \* the run in progress: its flags and verdict
  todo,     \* what it has still to do to the files: a set of puts
  exit,     \* how the last run ended, until the package is edited
  crashes

package == <<src, pkgBad>>
files == <<cu, ptx, gen, gate>>
vars == <<package, files, run, todo, exit, crashes>>

Gone == "no such kernel"
Refused == "cannot be lowered"
Missing == "no file"
Torn == "half a file"
NoRun == [mode |-> "none", arch |-> 0, verdict |-> "none"]
Content == Version \cup {Missing, Torn}
ASSUME VersionAssumption == Version \cap {Gone, Refused, Missing, Torn} = {}
NoGen == [whole |-> FALSE, gate |-> {}, reg |-> {}]

Names == {k \in Kernel : src[k] # Gone}
Units == {k \in Kernel : src[k] \in Version}
Lowered == IF pkgBad THEN {} ELSE Units

Init ==
  /\ src \in [Kernel -> Version \cup {Gone, Refused}]
  /\ pkgBad = FALSE
  /\ cu = [k \in Kernel |-> Missing]
  /\ ptx = [k \in Kernel |-> [a \in Arch |-> Missing]]
  /\ gen = NoGen
  /\ gate = {}
  /\ run = NoRun
  /\ todo = {}
  /\ exit = NoRun
  /\ crashes = 0

Idle == run.mode = "none"

(* The author edits a kernel, or an import, between two runs.              *)
Edit ==
  /\ Idle
  /\ \/ \E k \in Kernel, v \in Version \cup {Gone, Refused} :
          v # src[k] /\ src' = [src EXCEPT ![k] = v] /\ UNCHANGED pkgBad
     \/ pkgBad' = ~ pkgBad /\ UNCHANGED src
  /\ exit' = NoRun
  /\ UNCHANGED <<files, run, todo, crashes>>

----------------------------------------------------------------------------
(* reusePTX: the PTX on disk beside CUDA C that is still what lowering     *)
(* gives.                                                                  *)
ReusePTX(a) == {k \in Units : cu[k] = src[k] /\ ptx[k][a] # Missing}

(* The files of a run; a put is what is done to one of them.  The order is *)
(* that of os.ReadDir and sort.Strings: a kernel's PTX before its CUDA C.  *)
CuFile(k) == [kernel |-> k, arch |-> 1000]
PtxFile(k, a) == [kernel |-> k, arch |-> a]
GoFile == [kernel |-> 0, arch |-> 0]
Put(f, content) == [file |-> f, to |-> content]
Existing ==
  {CuFile(k) : k \in {j \in Kernel : cu[j] # Missing}}
    \cup {f \in {PtxFile(k, a) : k \in Kernel, a \in Arch} : ptx[f.kernel][f.arch] # Missing}

Before(f, g) == f.kernel < g.kernel \/ (f.kernel = g.kernel /\ f.arch < g.arch)
(* All removals come before all writes, and the Go file last.              *)
Stage(p) == CASE p.file = GoFile -> 3 [] p.to = Missing -> 1 [] OTHER -> 2
Earlier(p, q) == Stage(p) < Stage(q) \/ (Stage(p) = Stage(q) /\ Before(p.file, q.file))
Due == {p \in todo : \A q \in todo : ~ Earlier(q, p)}

(* renderGen: gates every unit, registers those with PTX under the hash of *)
(* their source and embeds the file of that name.                          *)
RenderGen(units, compiled, a) ==
  [whole |-> TRUE, gate |-> units,
   reg |-> {[kernel |-> k, hash |-> src[k], arch |-> a] : k \in compiled}]

(* plan: the files to write.                                               *)
PlanWithoutPTX(units, compiled, a) ==   \* faulty: forgets the PTX it embeds
  {CuFile(k) : k \in units}

Plan(units, compiled, a) ==
  {CuFile(k) : k \in units} \cup {PtxFile(k, a) : k \in compiled}

(* writeAll: what the run no longer writes is removed, but -no-ptx removes *)
(* no PTX.                                                                 *)
OrphansAny(planned, noPTX) == Existing \ planned     \* faulty: PTX too

Orphans(planned, noPTX) ==
  {f \in Existing \ planned : ~ (noPTX /\ f.arch \in Arch)}

(* A PTX file is written with what was compiled, or with what was read     *)
(* from it.                                                                *)
WriteAll(units, compiled, a, mode) ==
  LET planned == Plan(units, compiled, a)
      Text(f) == IF f.arch \in Arch /\ mode = "no-ptx" THEN ptx[f.kernel][f.arch]
                                                       ELSE src[f.kernel]
  IN {Put(f, Missing) : f \in Orphans(planned, mode = "no-ptx")}
       \cup {Put(f, Text(f)) : f \in planned}
       \cup {Put(GoFile, RenderGen(units, compiled, a))}

(* checkCurrent: every file the run would write is there with that text.   *)
Current(units, compiled, a) ==
  /\ \A k \in units : cu[k] = src[k]
  /\ gen = RenderGen(units, compiled, a)

----------------------------------------------------------------------------
Ends(mode, a, verdict) ==
  exit' = [mode |-> mode, arch |-> a, verdict |-> verdict]

(* run, where it ends without writing: a refused package under -check or   *)
(* -init, a package with no kernels, -check, or NVRTC out of reach.        *)
WritesNothing ==
  /\ Idle
  /\ \E mode \in {"compile", "no-ptx", "check"}, a \in Arch :
       \/ /\ pkgBad            \* -check, or -init
          /\ Ends(mode, a, "failed")
       \/ /\ ~ pkgBad /\ Names = {}
          /\ Ends(mode, a, "failed")
       \/ /\ ~ pkgBad /\ Names # {} /\ mode = "check"
          /\ Ends(mode, a, IF Current(Units, ReusePTX(a), a) THEN "ok" ELSE "failed")
       \/ /\ ~ pkgBad /\ Names # {} /\ mode = "compile" /\ Units # {}
          /\ Ends(mode, a, "failed")
  /\ UNCHANGED <<package, files, run, todo, crashes>>

(* run, where it goes on to writeAll: a refused package empties the gate,  *)
(* otherwise the kernels that lowered are written.  NVRTC may refuse some. *)
Verdict(compiled, noPTX) ==
  IF pkgBad \/ Names # Units THEN "refused"
  ELSE IF noPTX \/ compiled = Units THEN "ok" ELSE "failed"

Generate ==
  /\ Idle
  /\ pkgBad \/ Names # {}
  /\ \E mode \in {"compile", "no-ptx"}, a \in Arch :
       \E compiled \in IF pkgBad THEN {{}}
                       ELSE IF mode = "no-ptx" THEN {ReusePTX(a)} ELSE SUBSET Units :
         /\ run' = [mode |-> mode, arch |-> a,
                    verdict |-> Verdict(compiled, mode = "no-ptx")]
         /\ todo' = WriteAll(Lowered, compiled, a, mode)
  /\ exit' = NoRun
  /\ UNCHANGED <<package, files, crashes>>

(* One os.Remove or os.WriteFile.                                          *)
Apply(f, text) ==
  /\ cu' = IF f.arch = 1000 THEN [cu EXCEPT ![f.kernel] = text] ELSE cu
  /\ ptx' = IF f.arch \in Arch THEN [ptx EXCEPT ![f.kernel][f.arch] = text] ELSE ptx

Touch ==
  /\ \E p \in Due :
       /\ todo' = todo \ {p}
       /\ IF p.file = GoFile THEN gen' = p.to /\ UNCHANGED <<cu, ptx>>
                             ELSE Apply(p.file, p.to) /\ UNCHANGED gen
  /\ UNCHANGED <<package, gate, run, exit, crashes>>

(* A run is killed, or a call of the file system fails: what it was        *)
(* writing may be half there.                                              *)
Interrupted ==
  /\ crashes < MaxCrashes
  /\ crashes' = crashes + 1
  /\ \E p \in Due :
       \/ UNCHANGED <<cu, ptx, gen>>
       \/ p.file = GoFile /\ gen' = NoGen /\ UNCHANGED <<cu, ptx>>
       \/ Stage(p) = 2 /\ Apply(p.file, Torn) /\ UNCHANGED gen
  /\ todo' = {}
  /\ run' = NoRun
  /\ exit' = NoRun
  /\ UNCHANGED <<package, gate>>

(* After writeAll: with -init, gate.go is scaffolded once; then the verdict*)
Exit ==
  /\ ~ Idle
  /\ todo = {}
  /\ gate' \in {gate} \cup (IF gate = {} /\ ~ pkgBad THEN {Names} ELSE {})
  /\ Ends(run.mode, run.arch, run.verdict)
  /\ run' = NoRun
  /\ UNCHANGED <<package, cu, ptx, gen, todo, crashes>>

Next == Edit \/ WritesNothing \/ Generate \/ Touch \/ Interrupted \/ Exit

Spec == Init /\ [][Next]_vars

----------------------------------------------------------------------------
(* A program built from the tree: the Go file is whole, everything gate.go *)
(* names is in it and every file it embeds exists.                         *)
Builds ==
  /\ gen.whole
  /\ gate \subseteq gen.gate
  /\ \A r \in gen.reg : ptx[r.kernel][r.arch] # Missing

(* pickPrebuilt: the newest baseline no newer than the device.             *)
PickPrebuilt(hash, device) ==
  LET usable == {r \in gen.reg : r.hash = hash /\ r.arch <= device}
  IN {r \in usable : \A q \in usable : q.arch <= r.arch}

GenFiles ==
  [whole : BOOLEAN, gate : SUBSET Kernel,
   reg : SUBSET [kernel : Kernel, hash : Version, arch : Arch]]
TreeFiles == {CuFile(k) : k \in Kernel} \cup {PtxFile(k, a) : k \in Kernel, a \in Arch}
Runs ==
  {NoRun} \cup [mode : {"compile", "no-ptx", "check"}, arch : Arch,
               verdict : {"ok", "refused", "failed"}]

TypeOK ==
  /\ src \in [Kernel -> Version \cup {Gone, Refused}] /\ pkgBad \in BOOLEAN
  /\ cu \in [Kernel -> Content] /\ ptx \in [Kernel -> [Arch -> Content]]
  /\ gen \in GenFiles /\ gate \in SUBSET Kernel
  /\ run \in Runs /\ exit \in Runs /\ crashes \in Nat
  /\ \A p \in todo : IF p.file = GoFile THEN p.to \in GenFiles
                     ELSE p.file \in TreeFiles /\ p.to \in Content
  /\ todo # {} => ~ Idle
  /\ exit # NoRun => Idle

(* The exit status tells what the tree is, whatever earlier runs, finished *)
(* or interrupted, left in it.  Zero: the gate is exactly the kernels that *)
(* lower, beside their CUDA C, nothing embedded is missing, and a run that *)
(* compiled registered every kernel's own PTX.  A refusal: what was        *)
(* refused is out of the gate, so that go build fails on it.               *)
ExitTellsTheTree ==
  /\ exit.verdict = "ok" =>
       /\ gen.whole /\ gen.gate = Units
       /\ \A k \in Units : cu[k] = src[k]
       /\ \A r \in gen.reg : ptx[r.kernel][r.arch] # Missing
       /\ exit.mode # "check" => Units = Names
       /\ exit.mode = "compile" =>
            \A k \in Units :
              /\ ptx[k][exit.arch] = src[k]
              /\ [kernel |-> k, hash |-> src[k], arch |-> exit.arch] \in gen.reg
  /\ exit.verdict = "refused" => gen.gate = Lowered

(* A -no-ptx run never costs the tree a PTX file: the machine that cannot  *)
(* rebuild it neither removes it, whatever became of its kernel, nor       *)
(* changes it, unless it dies writing it back.                             *)
NoPTXDestroysNothing ==
  [][run.mode = "no-ptx" /\ crashes' = crashes => ptx' = ptx]_vars

----------------------------------------------------------------------------
(* Why, half way through a run: what it has still to put where an earlier  *)
(* run may have left anything, and what it has put already.                *)
IsPut(f, Good(_)) ==
  \A p \in todo : p.file = f => Good(p.to)
PutOrThere(f, there, Good(_)) ==
  /\ IsPut(f, Good)
  /\ Good(there) \/ \E p \in todo : p.file = f

EmbedWorks(k, ptxText) ==
  /\ ptxText # Missing
  /\ run.mode = "compile" => ptxText = src[k]

Pledge(compiled) ==
  /\ PutOrThere(GoFile, gen, LAMBDA text : text = RenderGen(Lowered, compiled, run.arch))
  /\ \A k \in Lowered : PutOrThere(CuFile(k), cu[k], LAMBDA text : text = src[k])
  /\ \A k \in compiled :
       PutOrThere(PtxFile(k, run.arch), ptx[k][run.arch], LAMBDA text : EmbedWorks(k, text))
  /\ run.verdict = "ok" =>
       /\ ~ pkgBad /\ Units = Names
       /\ run.mode = "compile" => compiled = Units

HalfWay ==
  ~ Idle =>
    /\ run.mode \in {"compile", "no-ptx"}
    /\ \E compiled \in SUBSET Lowered : Pledge(compiled)

(* What a -no-ptx run puts into PTX files is what is there.                *)
PTXPutBack ==
  run.mode = "no-ptx" =>
    \A p \in todo : p.file.arch \in Arch => p.to = ptx[p.file.kernel][p.file.arch]

IInv == TypeOK /\ HalfWay /\ PTXPutBack /\ ExitTellsTheTree

----------------------------------------------------------------------------
(* What the registry's comment and the generator's test promise: a program *)
(* is never served PTX that was not built from the source it asks for.     *)
NothingStaleIsServed ==
  Builds =>
    \A k \in Units, device \in Arch :
      \A r \in PickPrebuilt(src[k], device) : ptx[r.kernel][r.arch] \in {src[k], Torn}
=============================================================================
