---------------------------- MODULE RunCPUProofs ----------------------------
(***************************************************************************)
(* For every pool and every grid: what the caller of runCPU is told is     *)
(* true, and the queue is drained promptly after a failure.                *)
(***************************************************************************)
EXTENDS RunCPU, TLAPS

(* The initial states satisfy the inductive invariant. *)
LEMMA InitIInv == Init => IInv
  <1>. SUFFICES ASSUME Init PROVE IInv
    OBVIOUS
  <1>. USE MaxGridAssumption DEF Init
  <1>1. TypeOK
    BY DEF TypeOK, NoFail, Locations, Grid
  <1>2. NothingBeforeStart
    BY DEF NothingBeforeStart
  <1>3. PoolOnly
    BY DEF PoolOnly
  <1>4. TakenIsAccounted
    BY DEF TakenIsAccounted, Grid
  <1>5. DiagnosisIsCarried /\ LateRunsNoMore /\ OverMeansDone
    BY DEF DiagnosisIsCarried, LateRunsNoMore, OverMeansDone
  <1>. QED
    BY <1>1, <1>2, <1>3, <1>4, <1>5 DEF IInv

(* The steps of the caller keep it. *)
LEMMA CallerKeepsIInv ==
  ASSUME IInv, RefuseSize \/ NothingToRun \/ Start \/ Join
  PROVE  IInv'
  <1>. USE MaxGridAssumption DEF IInv, history
  <1>1. CASE RefuseSize
    <2>. USE <1>1 DEF RefuseSize
    <2>1. TypeOK'
      BY DEF TypeOK, Grid
    <2>2. NothingBeforeStart'
      BY DEF NothingBeforeStart
    <2>3. PoolOnly' /\ TakenIsAccounted' /\ DiagnosisIsCarried' /\ LateRunsNoMore'
      BY DEF PoolOnly, TakenIsAccounted, DiagnosisIsCarried, LateRunsNoMore, Held, Grid
    <2>4. OverMeansDone'
      BY DEF OverMeansDone
    <2>. QED
      BY <2>1, <2>2, <2>3, <2>4
  <1>2. CASE NothingToRun
    <2>. USE <1>2 DEF NothingToRun
    <2>1. TypeOK'
      BY DEF TypeOK, Grid
    <2>2. NothingBeforeStart'
      BY DEF NothingBeforeStart
    <2>3. PoolOnly' /\ TakenIsAccounted' /\ DiagnosisIsCarried' /\ LateRunsNoMore'
      BY DEF PoolOnly, TakenIsAccounted, DiagnosisIsCarried, LateRunsNoMore, Held, Grid
    <2>4. OverMeansDone'
      BY DEF OverMeansDone, NothingBeforeStart
    <2>. QED
      BY <2>1, <2>2, <2>3, <2>4
  <1>3. CASE Start
    <2>. USE <1>3 DEF Start
    <2>1. pool = {} /\ next = 0 /\ ran = {} /\ bad = {} /\ fail = NoFail
      BY DEF NothingBeforeStart
    <2>2. PICK started \in SUBSET Worker :
            /\ started # {}
            /\ pool' = started
            /\ pc' = [w \in Worker |-> IF w \in started THEN "take" ELSE "idle"]
      OBVIOUS
    <2>3. TypeOK'
      BY <2>2 DEF TypeOK, Grid, Locations
    <2>4. NothingBeforeStart' /\ OverMeansDone'
      BY <2>2 DEF NothingBeforeStart, OverMeansDone
    <2>5. PoolOnly'
      BY <2>2 DEF PoolOnly
    <2>6. TakenIsAccounted'
      BY <2>1, <2>2 DEF TakenIsAccounted, Grid
    <2>7. DiagnosisIsCarried'
      BY <2>1, <2>2 DEF DiagnosisIsCarried
    <2>8. LateRunsNoMore'
      BY <2>1, <2>2 DEF LateRunsNoMore
    <2>. QED
      BY <2>3, <2>4, <2>5, <2>6, <2>7, <2>8
  <1>4. CASE Join
    <2>. USE <1>4 DEF Join
    <2>1. TypeOK'
      BY DEF TypeOK, Grid
    <2>2. NothingBeforeStart'
      BY DEF NothingBeforeStart
    <2>3. PoolOnly' /\ TakenIsAccounted' /\ DiagnosisIsCarried' /\ LateRunsNoMore'
      BY DEF PoolOnly, TakenIsAccounted, DiagnosisIsCarried, LateRunsNoMore, Held, Grid
    <2>4. OverMeansDone'
      BY DEF OverMeansDone, NothingBeforeStart
    <2>. QED
      BY <2>1, <2>2, <2>3, <2>4
  <1>. QED
    BY <1>1, <1>2, <1>3, <1>4

(* The steps of a worker keep it. *)
LEMMA WorkerKeepsIInv ==
  ASSUME IInv, NEW w \in Worker, Step(w)
  PROVE  IInv'
  <1>. USE MaxGridAssumption DEF IInv, history, Goto
  <1>0. pc[w] \in {"take", "check", "run", "running", "record"} /\ w \in pool /\ pool # {}
    BY DEF Step, Take, QueueEmpty, Check, Run, Finish, Record, PoolOnly
  <1>1. CASE Take(w)
    <2>. USE <1>0, <1>1 DEF Take
    <2>1. next < launch.blocks /\ launch.blocks \in Nat /\ next \in Nat
      BY DEF TypeOK, Grid
    <2>2. TypeOK'
      BY <2>1 DEF TypeOK, Grid, Locations
    <2>3. NothingBeforeStart'
      BY DEF NothingBeforeStart
    <2>4. PoolOnly'
      BY <2>1 DEF PoolOnly, TypeOK
    <2>5. TakenIsAccounted'
      <3>1. \A v \in Worker : pc'[v] \in {"check", "run", "running", "record"} => block'[v] \in Grid'
        BY DEF TakenIsAccounted, TypeOK, Grid
      <3>2. ASSUME NEW b \in Grid', b < next'
            PROVE  b \in ran' \/ fail' # NoFail \/ Held(b)'
        <4>1. CASE b = next
          BY <4>1 DEF Held, TypeOK
        <4>2. CASE b # next
          <5>1. b \in Grid /\ b < next
            BY <3>2, <4>2, <2>1 DEF Grid
          <5>2. \A v \in Worker : pc[v] \in {"check", "run"} => v # w
            OBVIOUS
          <5>. QED
            BY <5>1, <5>2 DEF TakenIsAccounted, Held, TypeOK
        <4>. QED
          BY <4>1, <4>2
      <3>. QED
        BY <3>1, <3>2 DEF TakenIsAccounted
    <2>6. DiagnosisIsCarried'
      BY DEF DiagnosisIsCarried, TypeOK
    <2>7. LateRunsNoMore'
      BY DEF LateRunsNoMore, TypeOK
    <2>8. OverMeansDone'
      BY DEF OverMeansDone
    <2>. QED
      BY <2>2, <2>3, <2>4, <2>5, <2>6, <2>7, <2>8
  <1>2. CASE QueueEmpty(w)
    <2>. USE <1>0, <1>2 DEF QueueEmpty
    <2>1. next = launch.blocks
      BY DEF TypeOK, Grid
    <2>2. TypeOK'
      BY DEF TypeOK, Grid, Locations
    <2>3. NothingBeforeStart'
      BY DEF NothingBeforeStart
    <2>4. PoolOnly'
      BY <2>1 DEF PoolOnly, TypeOK
    <2>5. TakenIsAccounted'
      BY DEF TakenIsAccounted, Held, TypeOK, Grid
    <2>6. DiagnosisIsCarried'
      BY DEF DiagnosisIsCarried, TypeOK
    <2>7. LateRunsNoMore'
      BY DEF LateRunsNoMore, TypeOK
    <2>8. OverMeansDone'
      BY DEF OverMeansDone
    <2>. QED
      BY <2>2, <2>3, <2>4, <2>5, <2>6, <2>7, <2>8
  <1>3. CASE Check(w)
    <2>. USE <1>0, <1>3 DEF Check
    <2>2. TypeOK'
      BY DEF TypeOK, Grid, Locations
    <2>3. NothingBeforeStart'
      BY DEF NothingBeforeStart
    <2>4. PoolOnly'
      BY DEF PoolOnly, TypeOK
    <2>5. TakenIsAccounted'
      BY DEF TakenIsAccounted, Held, TypeOK, Grid
    <2>6. DiagnosisIsCarried'
      BY DEF DiagnosisIsCarried, TypeOK
    <2>7. LateRunsNoMore'
      BY DEF LateRunsNoMore, TypeOK
    <2>8. OverMeansDone'
      BY DEF OverMeansDone
    <2>. QED
      BY <2>2, <2>3, <2>4, <2>5, <2>6, <2>7, <2>8
  <1>4. CASE Run(w)
    <2>. USE <1>0, <1>4 DEF Run
    <2>2. TypeOK'
      BY DEF TypeOK, Grid, Locations, TakenIsAccounted
    <2>3. NothingBeforeStart'
      BY DEF NothingBeforeStart
    <2>4. PoolOnly'
      BY DEF PoolOnly, TypeOK
    <2>5. TakenIsAccounted'
      BY DEF TakenIsAccounted, Held, TypeOK, Grid
    <2>6. DiagnosisIsCarried'
      BY DEF DiagnosisIsCarried, TypeOK
    <2>7. LateRunsNoMore'
      BY DEF LateRunsNoMore, TypeOK
    <2>8. OverMeansDone'
      BY DEF OverMeansDone
    <2>. QED
      BY <2>2, <2>3, <2>4, <2>5, <2>6, <2>7, <2>8
  <1>5. CASE Finish(w)
    <2>. USE <1>0, <1>5 DEF Finish
    <2>2. TypeOK'
      BY DEF TypeOK, Grid, Locations, TakenIsAccounted
    <2>3. NothingBeforeStart'
      BY DEF NothingBeforeStart
    <2>4. PoolOnly'
      BY DEF PoolOnly, TypeOK
    <2>5. TakenIsAccounted'
      BY DEF TakenIsAccounted, Held, TypeOK, Grid
    <2>6. DiagnosisIsCarried'
      BY DEF DiagnosisIsCarried, TypeOK
    <2>7. LateRunsNoMore'
      BY DEF LateRunsNoMore, TypeOK
    <2>8. OverMeansDone'
      BY DEF OverMeansDone
    <2>. QED
      BY <2>2, <2>3, <2>4, <2>5, <2>6, <2>7, <2>8
  <1>6. CASE Record(w)
    <2>. USE <1>0, <1>6 DEF Record
    <2>1. fail' # NoFail /\ fail' \in bad
      BY DEF DiagnosisIsCarried, TakenIsAccounted, TypeOK, Grid, NoFail
    <2>2. TypeOK'
      BY <2>1 DEF TypeOK, Grid, Locations
    <2>3. NothingBeforeStart'
      BY DEF NothingBeforeStart
    <2>4. PoolOnly'
      BY DEF PoolOnly, TypeOK
    <2>5. TakenIsAccounted'
      BY <2>1 DEF TakenIsAccounted, TypeOK, Grid
    <2>6. DiagnosisIsCarried'
      BY <2>1 DEF DiagnosisIsCarried, TypeOK
    <2>7. LateRunsNoMore'
      BY <2>1 DEF LateRunsNoMore, TypeOK
    <2>8. OverMeansDone'
      BY <2>1 DEF OverMeansDone
    <2>. QED
      BY <2>2, <2>3, <2>4, <2>5, <2>6, <2>7, <2>8
  <1>. QED
    BY <1>1, <1>2, <1>3, <1>4, <1>5, <1>6 DEF Step

(* IInv is an invariant of runCPU. *)
THEOREM Invariance == Spec => []IInv
  <1>1. Init => IInv
    BY InitIInv
  <1>2. IInv /\ [Next]_vars => IInv'
    <2>. SUFFICES ASSUME IInv, [Next]_vars PROVE IInv'
      OBVIOUS
    <2>1. CASE RefuseSize \/ NothingToRun \/ Start \/ Join
      BY <2>1, CallerKeepsIInv
    <2>2. ASSUME NEW w \in Worker, Step(w) PROVE IInv'
      BY <2>2, WorkerKeepsIInv
    <2>3. CASE UNCHANGED vars
      BY <2>3 DEF vars, history, IInv, TypeOK, NothingBeforeStart, PoolOnly, TakenIsAccounted,
                  DiagnosisIsCarried, LateRunsNoMore, OverMeansDone, Held, Grid
    <2>. QED
      BY <2>1, <2>2, <2>3 DEF Next
  <1>. QED
    BY <1>1, <1>2, PTL DEF Spec

(* The state stays well typed: the queue never runs past the grid and the  *)
(* failure is about a block of it.                                         *)
THEOREM TypeCorrect == Spec => []TypeOK
  <1>1. IInv => TypeOK
    BY DEF IInv
  <1>. QED
    BY <1>1, Invariance, PTL

(* A launch that returns ran every block of its grid, and all were clean.  *)
THEOREM ReturnIsClean == Spec => []ReturnMeansAllClean
  <1>1. IInv => ReturnMeansAllClean
    <2>. SUFFICES ASSUME IInv, caller = "returned", ~ launch.emptyBlock
                  PROVE  bad = {} /\ ran = Grid
      BY DEF ReturnMeansAllClean
    <2>. USE MaxGridAssumption DEF IInv
    <2>1. CASE pool = {}
      <3>1. launch.blocks = 0 /\ bad = {} /\ ran = {}
        BY <2>1 DEF OverMeansDone, NothingBeforeStart
      <3>. QED
        BY <3>1 DEF Grid
    <2>2. CASE pool # {}
      <3>1. PICK w \in pool : pc[w] = "exited"
        BY <2>2 DEF OverMeansDone
      <3>2. next = launch.blocks
        BY <3>1 DEF PoolOnly, TypeOK
      <3>3. \A v \in Worker : pc[v] \in {"idle", "exited"}
        BY <2>2 DEF OverMeansDone, PoolOnly
      <3>4. fail = NoFail
        BY DEF OverMeansDone
      <3>5. bad = {}
        BY <3>3, <3>4 DEF DiagnosisIsCarried
      <3>6. \A b \in Grid : b \in ran
        BY <3>2, <3>3, <3>4 DEF TakenIsAccounted, Held, Grid, TypeOK
      <3>7. ran \subseteq Grid
        BY DEF TypeOK
      <3>. QED
        BY <3>5, <3>6, <3>7
    <2>. QED
      BY <2>1, <2>2
  <1>. QED
    BY <1>1, Invariance, PTL

(* A launch panics exactly when a block was diagnosed, about such a block. *)
THEOREM PanicIsDiagnosed == Spec => []PanicMeansDiagnosed
  <1>1. IInv => PanicMeansDiagnosed
    <2>. SUFFICES ASSUME IInv PROVE PanicMeansDiagnosed
      OBVIOUS
    <2>. USE DEF IInv
    <2>1. caller = "panicked" => fail \in bad
      BY DEF OverMeansDone, DiagnosisIsCarried
    <2>2. ASSUME caller = "returned" PROVE bad = {}
      <3>1. CASE pool = {}
        BY <3>1 DEF NothingBeforeStart
      <3>2. CASE pool # {}
        <4>1. \A v \in Worker : pc[v] \in {"idle", "exited"}
          BY <2>2, <3>2 DEF OverMeansDone, PoolOnly
        <4>. QED
          BY <2>2, <4>1 DEF OverMeansDone, DiagnosisIsCarried
      <3>. QED
        BY <3>1, <3>2
    <2>. QED
      BY <2>1, <2>2 DEF PanicMeansDiagnosed
  <1>. QED
    BY <1>1, Invariance, PTL

(* Once a diagnosis is recorded, every worker begins at most one more      *)
(* block.                                                                  *)
THEOREM PromptDrain == Spec => DrainIsPrompt
  <1>1. IInv /\ [Next]_vars => [\A w \in Worker : Run(w) /\ fail # NoFail => w \notin late]_vars
    BY DEF IInv, LateRunsNoMore, Run
  <1>. QED
    BY <1>1, Invariance, PTL DEF Spec, DrainIsPrompt
=============================================================================
