------------------------------ MODULE JITProofs ------------------------------
(***************************************************************************)
(* For any number of goroutines, contexts, crashes and damaged files: what *)
(* jit.Load promises of the modules it loads, of the metadata it returns   *)
(* and of the file it must not depend on.                                  *)
(***************************************************************************)
EXTENDS JIT, TLAPS

(* A call that goes on, with or without an image, is still a call.         *)
LEMMA Moved ==
  ASSUME NEW r \in Loading, NEW where \in Places, NEW picture \in PTX \cup {None}
  PROVE  /\ [r EXCEPT !.at = where] \in Loading
         /\ [r EXCEPT !.at = where, !.image = picture] \in Loading
         /\ [r EXCEPT !.image = picture, !.at = where] \in Loading
  BY DEF Loading

(* So is a new one, ...                                                    *)
LEMMA Asked ==
  ASSUME NEW c \in Ctx, NEW req \in Request
  PROVE  [at |-> "lock", ctx |-> c, req |-> req, first |-> req,
          key |-> CacheKey(req), retried |-> FALSE, image |-> None] \in Loading
  <1>1. CacheKey(req) \in Key
    BY DEF CacheKey, Key
  <1>2. "lock" \in Places /\ None \in PTX \cup {None}
    BY DEF Places
  <1>. QED
    BY <1>1, <1>2 DEF Loading

(* ... and one that is tried again, with another request and key.          *)
LEMMA Retried ==
  ASSUME NEW r \in Loading, NEW req \in Request, NEW key \in Key
  PROVE  [r EXCEPT !.retried = TRUE, !.req = req, !.key = key, !.image = None,
                   !.at = "lock"] \in Loading
  BY DEF Loading, Places

LEMMA Reasked ==
  ASSUME NEW req \in Request
  PROVE  /\ [req EXCEPT !.noDisk = TRUE] \in Request
         /\ [req EXCEPT !.ptx = FALSE] \in Request
         /\ CacheKey(req) \in Key
  BY DEF Request, CacheKey, Key

(* Setting one entry of a table kept per context and key.                  *)
LEMMA Cell ==
  ASSUME NEW S, NEW f \in [Ctx -> [Key -> S]], NEW c \in Ctx, NEW k \in Key, NEW v \in S
  PROVE  /\ [f EXCEPT ![c][k] = v] \in [Ctx -> [Key -> S]]
         /\ \A d \in Ctx, j \in Key :
              [f EXCEPT ![c][k] = v][d][j] = IF d = c /\ j = k THEN v ELSE f[d][j]
  OBVIOUS

(* A caller that is not idle is inside Load.                               *)
LEMMA UnderWay ==
  ASSUME TypeOK, NEW p \in Caller, ~ At(p, "idle")
  PROVE  call[p] \in Loading
  BY DEF TypeOK, At, Idle

(* Trying again is a move of the caller's call.                            *)
LEMMA Again ==
  ASSUME NEW p \in Caller, call[p] \in Loading, NEW req \in Request, NEW key \in Key,
         Retry(p, req, key)
  PROVE  \E r \in Loading : call' = [call EXCEPT ![p] = r]
  <1>1. [call[p] EXCEPT !.retried = TRUE, !.req = req, !.key = key, !.image = None,
                        !.at = "lock"] \in Loading
    BY Retried
  <1>. QED
    BY <1>1, Zenon DEF Retry

(* A step of a caller moves that caller's call and no other one.           *)
LEMMA CallAlone ==
  ASSUME TypeOK, NEW p \in Caller, Load(p) \/ Step(p)
  PROVE  \E r \in {Idle} \cup Loading : call' = [call EXCEPT ![p] = r]
  <1>. USE UnderWay, Moved DEF At
  <1>1. CASE Load(p)
    BY <1>1, Asked DEF Load
  <1>2. CASE Hit(p)
    <2>1. call[p] \in Loading
      BY <1>2 DEF Hit
    <2>. QED
      BY <1>2, <2>1 DEF Hit, Goto, Places, TypeOK, PTX, None
  <1>3. CASE Miss(p)
    <2>1. call[p] \in Loading
      BY <1>3 DEF Miss
    <2>. QED
      BY <1>3, <2>1 DEF Miss, Goto, Places, TypeOK, PTX, None
  <1>4. CASE Bring(p)
    <2>1. call[p] \in Loading
      BY <1>4 DEF Bring
    <2>. QED
      BY <1>4, <2>1 DEF Bring, Remember, Built, Places, TypeOK, PTX, None
  <1>5. CASE ReadDisk(p)
    <2>1. call[p] \in Loading
      BY <1>5 DEF ReadDisk
    <2>. QED
      BY <1>5, <2>1 DEF ReadDisk, Goto, Built, Places, TypeOK, PTX, None
  <1>6. CASE Found(p)
    <2>1. call[p] \in Loading
      BY <1>6 DEF Found
    <2>. QED
      BY <1>6, <2>1
      DEF Found, RememberKeepingLog, Remember, recall, Goto, Places, TypeOK, PTX, None
  <1>7. CASE Compile(p)
    <2>1. call[p] \in Loading
      BY <1>7 DEF Compile
    <2>. QED
      BY <1>7, <2>1 DEF Compile, Built, Places, TypeOK, PTX, None
  <1>8. CASE CompileFails(p) \/ LoadFails(p) \/ Return(p)
    BY <1>8 DEF CompileFails, LoadFails, Return, Fail
  <1>9. CASE WriteDisk(p)
    <2>1. call[p] \in Loading
      BY <1>9 DEF WriteDisk
    <2>. QED
      BY <1>9, <2>1 DEF WriteDisk, Goto, Places, TypeOK, PTX, None
  <1>10. CASE Record(p)
    <2>1. call[p] \in Loading
      BY <1>10 DEF Record
    <2>. QED
      BY <1>10, <2>1 DEF Record, Remember, Goto, Places, TypeOK, PTX, None
  <1>11. CASE LoadModule(p)
    <2>1. call[p] \in Loading
      BY <1>11 DEF LoadModule
    <2>. QED
      BY <1>11, <2>1 DEF LoadModule, Built, Release, Places, TypeOK, PTX, None
  <1>12. CASE Rejected(p)
    <2>1. call[p] \in Loading
      BY <1>12 DEF Rejected
    <2>. QED
      BY <1>12, <2>1 DEF Rejected, Goto, Release, Places, TypeOK, PTX, None
  <1>13. CASE Function(p)
    <2>1. call[p] \in Loading
      BY <1>13 DEF Function
    <2>2. \A where \in {"recall", "noEntry"} : [call[p] EXCEPT !.at = where] \in Loading
      BY <2>1, None \in PTX \cup {None} DEF Places
    <2>. QED
      BY <1>13, <2>2 DEF Function, Goto, Fail
  <1>14. CASE RetryWithoutDisk(p)
    <2>1. call[p] \in Loading /\ call[p].req \in Request /\ call[p].key \in Key
      BY <1>14 DEF RetryWithoutDisk, Loading
    <2>2. Retry(p, [call[p].req EXCEPT !.noDisk = TRUE], call[p].key)
      BY <1>14 DEF RetryWithoutDisk
    <2>. QED
      BY <2>1, <2>2, Reasked, Again
  <1>15. CASE RetryWithoutPrebuilt(p)
    <2>1. call[p] \in Loading /\ call[p].req \in Request
      BY <1>15 DEF RetryWithoutPrebuilt, Loading
    <2>2. LET req == [call[p].req EXCEPT !.ptx = FALSE] IN Retry(p, req, CacheKey(req))
      BY <1>15 DEF RetryWithoutPrebuilt
    <2>. QED
      BY <2>1, <2>2, Reasked, Again
  <1>16. CASE GiveUp(p)
    <2>1. call[p] \in Loading
      BY <1>16 DEF GiveUp
    <2>. QED
      BY <1>16, <2>1 DEF GiveUp, Built, Places, TypeOK, PTX, None
  <1>. QED
    BY <1>1, <1>2, <1>3, <1>4, <1>5, <1>6, <1>7, <1>8, <1>9, <1>10, <1>11, <1>12, <1>13,
       <1>14, <1>15, <1>16
    DEF Step

(* loadPTXLocked and the cache entry: one cell of each table.              *)
LEMMA Published ==
  ASSUME TypeOK, NEW p \in Caller, LoadModule(p)
  PROVE  LET there(d, j) == d = call[p].ctx /\ j = call[p].key
         IN /\ cache' \in [Ctx -> [Key -> PTX \cup {None}]]
            /\ loads' \in [Ctx -> [Key -> Nat]]
            /\ \A d \in Ctx, j \in Key :
                 /\ cache'[d][j] = IF there(d, j) THEN call[p].image ELSE cache[d][j]
                 /\ loads'[d][j] = IF there(d, j) THEN loads[d][j] + 1 ELSE loads[d][j]
  <1> DEFINE c == call[p].ctx
             k == call[p].key
             image == call[p].image
  <1>1. c \in Ctx /\ k \in Key /\ image \in PTX \cup {None}
    BY UnderWay DEF LoadModule, At, Loading
  <1>2. cache \in [Ctx -> [Key -> PTX \cup {None}]] /\ loads \in [Ctx -> [Key -> Nat]]
    BY DEF TypeOK
  <1>3. loads[c][k] \in Nat /\ loads[c][k] + 1 \in Nat
    BY <1>1, <1>2
  <1>4. /\ cache' = [cache EXCEPT ![c][k] = image]
        /\ loads' = [loads EXCEPT ![c][k] = loads[c][k] + 1]
    BY DEF LoadModule
  <1> HIDE DEF c, k, image
  <1>5. /\ cache' \in [Ctx -> [Key -> PTX \cup {None}]]
        /\ \A d \in Ctx, j \in Key :
             cache'[d][j] = IF d = c /\ j = k THEN image ELSE cache[d][j]
    BY <1>1, <1>2, <1>4, Cell
  <1>6. /\ loads' \in [Ctx -> [Key -> Nat]]
        /\ \A d \in Ctx, j \in Key :
             loads'[d][j] = IF d = c /\ j = k THEN loads[c][k] + 1 ELSE loads[d][j]
    BY <1>1, <1>2, <1>3, <1>4, Cell
  <1>. QED
    BY <1>5, <1>6 DEF c, k, image

(* The steps of a caller keep the type invariant.                          *)
LEMMA TypeStep ==
  ASSUME IInv, NEW p \in Caller, Load(p) \/ Step(p)
  PROVE  TypeOK'
  <1>. USE DEF IInv, TypeOK, machine
  <1>0. call' \in [Caller -> {Idle} \cup Loading]
    BY CallAlone
  <1>fields. call[p].at # "idle" =>
               call[p].ctx \in Ctx /\ call[p].key \in Key /\ call[p].image \in PTX \cup {None}
    BY UnderWay DEF At, Loading

  <1>1. CASE Load(p)
    BY <1>0, <1>fields, <1>1 DEF Load
  <1>2. CASE Hit(p)
    BY <1>0, <1>fields, <1>2 DEF Hit
  <1>3. CASE Miss(p)
    BY <1>0, <1>fields, <1>3 DEF Miss, At
  <1>4. CASE Bring(p)
    BY <1>0, <1>fields, <1>4 DEF Bring, Remember, Key, PTX, At
  <1>5. CASE ReadDisk(p)
    BY <1>0, <1>fields, <1>5 DEF ReadDisk
  <1>6. CASE Found(p)
    BY <1>0, <1>fields, <1>6 DEF Found, Remember, RememberKeepingLog, recall, At
  <1>7. CASE Compile(p)
    BY <1>0, <1>fields, <1>7 DEF Compile
  <1>8. CASE CompileFails(p)
    BY <1>0, <1>fields, <1>8 DEF CompileFails, Release, At
  <1>9. CASE WriteDisk(p)
    BY <1>0, <1>fields, <1>9 DEF WriteDisk, At, RequestsFit, None
  <1>10. CASE Record(p)
    BY <1>0, <1>fields, <1>10 DEF Record, Remember, At
  <1>11. CASE LoadModule(p)
    <2>1. mu' \in [Ctx -> Caller \cup {Nobody}]
      BY <1>fields, <1>11 DEF LoadModule, Release, At
    <2>. QED
      BY <1>0, <2>1, <1>11, Published DEF LoadModule
  <1>12. CASE RetryWithoutDisk(p)
    BY <1>0, <1>fields, <1>12 DEF RetryWithoutDisk, forgetDisk
  <1>13. CASE RetryWithoutPrebuilt(p)
    BY <1>0, <1>fields, <1>13 DEF RetryWithoutPrebuilt
  <1>14. CASE GiveUp(p)
    BY <1>0, <1>fields, <1>14 DEF GiveUp
  <1>15. CASE Return(p)
    BY <1>0, <1>fields, <1>15 DEF Return
  <1>16. CASE Rejected(p) \/ LoadFails(p)
    BY <1>0, <1>fields, <1>16 DEF Rejected, LoadFails, Release, At
  <1>17. CASE Function(p)
    BY <1>0, <1>fields, <1>17 DEF Function
  <1>. QED
    BY <1>1, <1>2, <1>3, <1>4, <1>5, <1>6, <1>7, <1>8, <1>9, <1>10, <1>11, <1>12, <1>13,
       <1>14, <1>15, <1>16, <1>17
    DEF Step

(* What the others' calls are after a step of p.                           *)
LEMMA Alone ==
  ASSUME TypeOK, NEW p \in Caller, Load(p) \/ Step(p), NEW q \in Caller, q # p
  PROVE  call'[q] = call[q]
  BY CallAlone DEF TypeOK

(* The mutex is handed from Miss to the end of the build.                  *)
LEMMA BuildsAloneStep ==
  ASSUME IInv, NEW p \in Caller, Load(p) \/ Step(p)
  PROVE  BuildsAlone'
  <1>. USE NobodyAssumption, Alone, UnderWay DEF IInv, BuildsAlone, Building, At, Idle
  <1>0. TypeOK /\ call \in [Caller -> {Idle} \cup Loading]
    BY DEF TypeOK
  <1>holders. \A c \in Ctx : mu[c] \in Caller \cup {Nobody}
    BY DEF TypeOK
  <1>ctx. call[p].at # "idle" => call[p].ctx \in Ctx
    BY <1>0 DEF Loading

  <1>1. CASE Load(p)
    BY <1>0, <1>holders, <1>ctx, <1>1 DEF Load, CacheKey, TypeOK

  <1>2. CASE Hit(p)
    BY <1>0, <1>holders, <1>ctx, <1>2 DEF Hit, Goto, TypeOK

  <1>3. CASE Miss(p)
    BY <1>0, <1>holders, <1>ctx, <1>3 DEF Miss, Goto, TypeOK

  <1>4. CASE Bring(p)
    BY <1>0, <1>holders, <1>ctx, <1>4 DEF Bring, Remember, Built, TypeOK

  <1>5. CASE ReadDisk(p)
    <2>1. /\ call[p].at = "read" /\ call'[p].at \in {"compile", "remember"}
          /\ call'[p].ctx = call[p].ctx /\ call'[p].key = call[p].key
      BY <1>0, <1>5, UnderWay DEF ReadDisk, Goto, Built, Loading
    <2>2. UNCHANGED <<mu, cache>>
      BY <1>5 DEF ReadDisk
    <2>. QED
      BY <1>holders, <2>1, <2>2

  <1>6. CASE Found(p)
    BY <1>0, <1>holders, <1>ctx, <1>6
    DEF Found, RememberKeepingLog, Remember, recall, Goto, TypeOK

  <1>7. CASE Compile(p)
    BY <1>0, <1>holders, <1>ctx, <1>7 DEF Compile, Built, TypeOK

  <1>8. CASE CompileFails(p)
    BY <1>0, <1>holders, <1>ctx, <1>8 DEF CompileFails, Fail, Release, TypeOK

  <1>9. CASE WriteDisk(p)
    BY <1>0, <1>holders, <1>ctx, <1>9 DEF WriteDisk, Goto, TypeOK

  <1>10. CASE Record(p)
    BY <1>0, <1>holders, <1>ctx, <1>10 DEF Record, Remember, Goto, TypeOK

  <1>11. CASE LoadModule(p) \/ Rejected(p) \/ LoadFails(p)
    <2>1. /\ call[p].at = "module" /\ call'[p].at \in {"function", "rejected", "idle"}
          /\ mu[call[p].ctx] = p
      BY <1>0, <1>11, UnderWay DEF LoadModule, Rejected, LoadFails, Built, Goto, Fail, Loading
    <2>2. mu' = [mu EXCEPT ![call[p].ctx] = Nobody]
      BY <1>11 DEF LoadModule, Rejected, LoadFails, Release
    <2>3. ASSUME NEW q \in Caller, Building(q)'
          PROVE  mu'[call'[q].ctx] = q /\ cache'[call'[q].ctx][call'[q].key] = None
      <3>1. q # p /\ Building(q) /\ call'[q] = call[q]
        BY <2>1, <2>3
      <3>2. mu[call[q].ctx] = q /\ call[q].ctx # call[p].ctx
        BY <2>1, <3>1
      <3>3. call[q].ctx \in Ctx /\ call[q].key \in Key
        BY <3>1, UnderWay DEF Loading
      <3>4. cache'[call[q].ctx][call[q].key] = cache[call[q].ctx][call[q].key]
        BY <1>0, <1>11, <3>2, <3>3, Published DEF Rejected, LoadFails
      <3>. QED
        BY <1>0, <2>2, <3>1, <3>2, <3>3, <3>4 DEF TypeOK
    <2>4. ASSUME NEW d \in Ctx, mu'[d] # Nobody
          PROVE  (Building(mu[d]) /\ call[mu[d]].ctx = d)'
      <3>1. d # call[p].ctx /\ mu'[d] = mu[d]
        BY <1>ctx, <1>holders, <2>1, <2>2, <2>4 DEF TypeOK
      <3>2. mu[d] # p /\ mu[d] \in Caller
        BY <1>holders, <2>4, <3>1
      <3>. QED
        BY <2>4, <3>1, <3>2
    <2>. QED
      BY <2>3, <2>4

  <1>12. CASE RetryWithoutDisk(p)
    <2>1. call[p].at = "rejected" /\ call'[p].at = "lock"
      BY <1>0, <1>12, UnderWay DEF RetryWithoutDisk, Retry, Loading
    <2>2. UNCHANGED <<mu, cache>>
      BY <1>12 DEF RetryWithoutDisk
    <2>. QED
      BY <1>holders, <2>1, <2>2

  <1>13. CASE RetryWithoutPrebuilt(p)
    <2>1. call[p].at = "rejected" /\ call'[p].at = "lock"
      BY <1>0, <1>13, UnderWay DEF RetryWithoutPrebuilt, Retry, Loading
    <2>2. UNCHANGED <<mu, cache>>
      BY <1>13 DEF RetryWithoutPrebuilt
    <2>. QED
      BY <1>holders, <2>1, <2>2

  <1>14. CASE GiveUp(p)
    BY <1>0, <1>holders, <1>ctx, <1>14 DEF GiveUp, Built, TypeOK

  <1>15. CASE Return(p)
    BY <1>0, <1>holders, <1>ctx, <1>15 DEF Return, TypeOK

  <1>16. CASE Function(p)
    <2>1. /\ call[p].at = "function" /\ call'[p].at \in {"recall", "noEntry", "idle"}
          /\ UNCHANGED <<mu, cache>>
      BY <1>0, <1>16, UnderWay DEF Function, Goto, Fail, Loading
    <2>. QED
      BY <1>holders, <2>1

  <1>. QED
    BY <1>1, <1>2, <1>3, <1>4, <1>5, <1>6, <1>7, <1>8, <1>9, <1>10, <1>11, <1>12, <1>13,
       <1>14, <1>15, <1>16
    DEF Step

(* Only loadPTXLocked loads, and only where nothing was cached.            *)
LEMMA LoadsStep ==
  ASSUME IInv, NEW p \in Caller, Load(p) \/ Step(p)
  PROVE  LoadsAreCached'
  <1>. USE DEF IInv, LoadsAreCached
  <1>1. CASE LoadModule(p)
    <2>1. call[p].ctx \in Ctx /\ call[p].key \in Key
      BY <1>1, UnderWay DEF LoadModule, At, Loading
    <2>2. cache[call[p].ctx][call[p].key] = None /\ call[p].image # None
      BY <1>1 DEF LoadModule, BuildsAlone, Building, RequestsFit, At
    <2>3. loads[call[p].ctx][call[p].key] = 0
      BY <2>1, <2>2
    <2>. QED
      BY <1>1, <2>1, <2>2, <2>3, Published
  <1>2. CASE ~ LoadModule(p)
    <2>1. UNCHANGED <<cache, loads>>
      BY <1>2
      DEF Step, Load, Hit, Miss, Bring, ReadDisk, Found, Compile, CompileFails,
          WriteDisk, Record, Rejected, LoadFails, Function, RetryWithoutDisk,
          RetryWithoutPrebuilt, GiveUp, Return
    <2>. QED
      BY <2>1
  <1>. QED
    BY <1>1, <1>2

(* Artifacts and cached modules keep their origin; neither they nor a log  *)
(* disappears in a step of a caller.                                       *)
LEMMA KeysStep ==
  ASSUME IInv, NEW p \in Caller, Load(p) \/ Step(p)
  PROVE  /\ KeysTellTheOrigin'
         /\ \A k \in Key : artifactOf[k].ptx # None => artifactOf'[k].ptx # None
         /\ \A c \in Ctx, k \in Key : cache[c][k] # None => cache'[c][k] # None
         /\ \A k \in Key : artifactOf[k].log => artifactOf'[k].log
         /\ accepted' = accepted
  <1>. USE DEF IInv, KeysTellTheOrigin, RequestsFit, At, machine
  <1>0. call[p].at # "idle" => call[p] \in Loading
    BY UnderWay
  <1>fields. artifactOf \in
               [Key -> [ptx : PTX \cup {None}, log : BOOLEAN, prebuilt : BOOLEAN]]
    BY DEF TypeOK
  <1>1. CASE Bring(p) \/ Found(p) \/ Record(p)
    <2>1. call[p].key \in Key
      BY <1>0, <1>1 DEF Bring, Found, Record, Loading
    <2>2. CASE Bring(p)
      BY <1>fields, <2>1, <2>2 DEF Bring, Remember, None
    <2>3. CASE Found(p)
      BY <1>fields, <2>1, <2>3 DEF Found, RememberKeepingLog, Remember, recall, None
    <2>4. CASE Record(p)
      BY <1>fields, <2>1, <2>4 DEF Record, Remember, None
    <2>. QED
      BY <1>1, <2>2, <2>3, <2>4
  <1>2. CASE LoadModule(p)
    <2>1. call[p].ctx \in Ctx /\ call[p].key \in Key
      BY <1>0, <1>2 DEF LoadModule, Loading
    <2>2. /\ call[p].image # None
          /\ call[p].image = "prebuilt" <=> call[p].key = "prebuilt"
          /\ call[p].key = "nvrtc-nodisk" => call[p].image = "compiled"
          /\ artifactOf[call[p].key].ptx # None
      BY <1>2 DEF LoadModule
    <2>3. artifactOf' = artifactOf /\ accepted' = accepted
      BY <1>2 DEF LoadModule
    <2>. QED
      BY <1>2, <2>1, <2>2, <2>3, Published
  <1>3. CASE ~ Bring(p) /\ ~ Found(p) /\ ~ Record(p) /\ ~ LoadModule(p)
    <2>1. UNCHANGED <<artifactOf, cache, accepted>>
      BY <1>3
      DEF Step, Load, Hit, Miss, ReadDisk, Compile, CompileFails, WriteDisk, Rejected,
          LoadFails, Function, RetryWithoutDisk, RetryWithoutPrebuilt, GiveUp, Return
    <2>. QED
      BY <2>1
  <1>. QED
    BY <1>1, <1>2, <1>3

(* What the others know of their requests survives a step of p, ...        *)
LEMMA OthersFit ==
  ASSUME IInv, NEW p \in Caller, Load(p) \/ Step(p), NEW q \in Caller, q # p
  PROVE  RequestsFit(q)'
  <1>1. call'[q] = call[q] /\ RequestsFit(q)
    BY Alone DEF IInv
  <1>2. call[q].at # "idle" => call[q].ctx \in Ctx /\ call[q].key \in Key
    BY UnderWay DEF IInv, At, Loading
  <1>. QED
    BY <1>1, <1>2, KeysStep DEF RequestsFit, At

(* ... and p's own request fits the place it has come to.                  *)
LEMMA OwnFits ==
  ASSUME IInv, NEW p \in Caller, Load(p) \/ Step(p)
  PROVE  RequestsFit(p)'
  <1>. USE DEF IInv, RequestsFit, At, machine
  <1>0. /\ call \in [Caller -> {Idle} \cup Loading]
        /\ call[p].at # "idle" => call[p] \in Loading
    BY UnderWay DEF TypeOK

  <1>1. CASE Load(p)
    BY <1>0, <1>1 DEF Load, CacheKey, Loading, Idle, Places, Request

  <1>2. CASE Hit(p)
    BY <1>0, <1>2 DEF Hit, Goto, Loading, Idle, Places, TypeOK

  <1>3. CASE Miss(p)
    BY <1>0, <1>3 DEF Miss, Goto, Loading, Idle, Places, TypeOK

  <1>4. CASE Bring(p)
    BY <1>0, <1>4 DEF Bring, Remember, Built, Loading, Idle, Places, TypeOK

  <1>5. CASE ReadDisk(p)
    <2>1. call[p] \in Loading /\ call[p].at = "read"
      BY <1>0, <1>5 DEF ReadDisk
    <2>2. CASE Goto(p, "compile")
      BY <1>0, <2>1, <2>2 DEF Goto, Loading
    <2>3. CASE disk # None /\ Built(p, disk, "remember")
      <3>1. disk # "prebuilt"
        BY DEF TypeOK, Damaged, None
      <3>. QED
        BY <1>0, <2>1, <2>3, <3>1 DEF Built, Loading
    <2>. QED
      BY <1>5, <2>2, <2>3 DEF ReadDisk

  <1>6. CASE Found(p)
    BY <1>0, <1>6
    DEF Found, RememberKeepingLog, Remember, recall, Goto, Loading, Idle, Places, TypeOK

  <1>7. CASE Compile(p)
    BY <1>0, <1>7 DEF Compile, Built, Loading, Idle, Places, TypeOK

  <1>8. CASE CompileFails(p)
    BY <1>0, <1>8 DEF CompileFails, Fail, Idle

  <1>9. CASE WriteDisk(p)
    BY <1>0, <1>9 DEF WriteDisk, Goto, Loading, Idle, Places, TypeOK

  <1>10. CASE Record(p)
    <2>1. /\ call[p] \in Loading /\ call[p].at = "record"
          /\ call'[p] = [call[p] EXCEPT !.at = "module"]
      BY <1>0, <1>10 DEF Record, Goto
    <2>2. artifactOf'[call[p].key].ptx = "compiled"
      BY <1>10, <2>1 DEF Record, Remember, Loading, TypeOK
    <2>. QED
      BY <2>1, <2>2 DEF Loading, None

  <1>11. CASE LoadModule(p)
    <2>1. call[p] \in Loading /\ call[p].at = "module" /\ accepted' = accepted
      BY <1>0, <1>11 DEF LoadModule
    <2>2. call'[p] = [call[p] EXCEPT !.image = None, !.at = "function"]
      BY <1>0, <1>11 DEF LoadModule, Built
    <2>3. cache'[call[p].ctx][call[p].key] # None
      BY <1>11, <2>1, Published DEF Loading
    <2>. QED
      BY <2>1, <2>2, <2>3 DEF Loading

  <1>12. CASE Rejected(p)
    <2>1. /\ call[p] \in Loading /\ call[p].at = "module" /\ call[p].image \notin accepted
          /\ accepted' = accepted
      BY <1>0, <1>12 DEF Rejected
    <2>2. call'[p] = [call[p] EXCEPT !.at = "rejected"]
      BY <1>0, <1>12 DEF Rejected, Goto
    <2>. QED
      BY <2>1, <2>2 DEF Loading

  <1>13. CASE LoadFails(p) \/ Return(p)
    BY <1>0, <1>13 DEF LoadFails, Return, Fail, Idle

  <1>14. CASE Function(p)
    <2>1. /\ call[p] \in Loading /\ call[p].at = "function"
          /\ UNCHANGED <<accepted, cache>>
      BY <1>0, <1>14 DEF Function
    <2>2. CASE Goto(p, "recall") \/ Goto(p, "noEntry")
      BY <1>0, <2>1, <2>2 DEF Goto, Loading
    <2>3. CASE Fail(p)
      BY <1>0, <2>3 DEF Fail, Idle
    <2>. QED
      BY <1>14, <2>2, <2>3 DEF Function

  <1>15. CASE RetryWithoutDisk(p)
    <2>1. call[p] \in Loading /\ call[p].at = "rejected" /\ ~ call[p].req.ptx
      BY <1>0, <1>15 DEF RetryWithoutDisk
    <2>2. call'[p] = [call[p] EXCEPT !.retried = TRUE,
                        !.req = [call[p].req EXCEPT !.noDisk = TRUE],
                        !.key = call[p].key, !.image = None, !.at = "lock"]
      BY <1>0, <1>15 DEF RetryWithoutDisk, Retry
    <2>. QED
      BY <2>1, <2>2 DEF Loading, Request

  <1>16. CASE RetryWithoutPrebuilt(p)
    <2>1. call[p] \in Loading /\ call[p].at = "rejected" /\ call[p].req.ptx
      BY <1>0, <1>16 DEF RetryWithoutPrebuilt
    <2> DEFINE req == [call[p].req EXCEPT !.ptx = FALSE]
    <2>2. call'[p] = [call[p] EXCEPT !.retried = TRUE, !.req = req, !.key = CacheKey(req),
                        !.image = None, !.at = "lock"]
      BY <1>0, <1>16 DEF RetryWithoutPrebuilt, Retry
    <2>. QED
      BY <2>1, <2>2 DEF Loading, Request, CacheKey

  <1>17. CASE GiveUp(p)
    BY <1>0, <1>17 DEF GiveUp, Built, Loading, Idle, Places, TypeOK

  <1>. QED
    BY <1>1, <1>2, <1>3, <1>4, <1>5, <1>6, <1>7, <1>8, <1>9, <1>10, <1>11, <1>12, <1>13,
       <1>14, <1>15, <1>16, <1>17
    DEF Step

----------------------------------------------------------------------------
(* Every first run starts in the invariant, ...                            *)
LEMMA InitIInv == Init => IInv
  <1>. SUFFICES ASSUME Init PROVE IInv
    OBVIOUS
  <1>. USE NobodyAssumption, MaxMishapsAssumption DEF Init, Empty, Idle, At
  <1>1. TypeOK
    BY DEF TypeOK, None, PTX, Damaged, NoArtifact
  <1>2. BuildsAlone
    BY DEF BuildsAlone, Building
  <1>3. LoadsAreCached /\ KeysTellTheOrigin
    BY DEF LoadsAreCached, KeysTellTheOrigin, NoArtifact
  <1>4. \A p \in Caller : RequestsFit(p)
    BY DEF RequestsFit
  <1>. QED
    BY <1>1, <1>2, <1>3, <1>4 DEF IInv

(* ... so does the process after a crash, and a damaged file changes       *)
(* nothing that was promised.                                              *)
LEMMA MishapsKeepIInv ==
  ASSUME IInv, Crash \/ Corrupt
  PROVE  IInv'
  <1>1. CASE Crash
    <2>. USE <1>1, NobodyAssumption DEF Crash, Empty, Idle, At, machine
    <2>1. TypeOK'
      BY DEF IInv, TypeOK, None, PTX, NoArtifact
    <2>2. BuildsAlone'
      BY DEF BuildsAlone, Building
    <2>3. LoadsAreCached' /\ KeysTellTheOrigin'
      BY DEF LoadsAreCached, KeysTellTheOrigin, NoArtifact
    <2>4. \A p \in Caller : RequestsFit(p)'
      BY DEF RequestsFit
    <2>. QED
      BY <2>1, <2>2, <2>3, <2>4 DEF IInv
  <1>2. CASE Corrupt
    <2>. USE <1>2 DEF Corrupt, IInv, machine
    <2>1. TypeOK'
      BY DEF TypeOK
    <2>2. BuildsAlone' /\ LoadsAreCached' /\ KeysTellTheOrigin'
      BY DEF BuildsAlone, Building, At, LoadsAreCached, KeysTellTheOrigin
    <2>3. \A p \in Caller : RequestsFit(p)'
      BY DEF RequestsFit, At
    <2>. QED
      BY <2>1, <2>2, <2>3
  <1>. QED
    BY <1>1, <1>2

(* Every step keeps it.                                                    *)
LEMMA NextIInv == IInv /\ [Next]_vars => IInv'
  <1>. SUFFICES ASSUME IInv, [Next]_vars PROVE IInv'
    OBVIOUS
  <1>1. ASSUME NEW p \in Caller, Load(p) \/ Step(p) PROVE IInv'
    <2>1. \A q \in Caller : RequestsFit(q)'
      BY <1>1, OwnFits, OthersFit
    <2>. QED
      BY <1>1, <2>1, TypeStep, BuildsAloneStep, LoadsStep, KeysStep DEF IInv
  <1>2. CASE UNCHANGED vars
    BY <1>2 DEF vars, machine, IInv, TypeOK, BuildsAlone, Building, At, LoadsAreCached,
                KeysTellTheOrigin, RequestsFit
  <1>. QED
    BY <1>1, <1>2, MishapsKeepIInv DEF Next

(* The inductive invariant holds.                                          *)
THEOREM Invariance == Spec => []IInv
  BY InitIInv, NextIInv, PTL DEF Spec

----------------------------------------------------------------------------
(* The state of the loader stays well typed.                               *)
THEOREM TypeCorrect == Spec => []TypeOK
  <1>1. IInv => TypeOK
    BY DEF IInv
  <1>. QED
    BY <1>1, Invariance, PTL

(* However many goroutines ask and recover, a context loads one module per *)
(* cache key.                                                              *)
THEOREM OneModulePerKey == Spec => []LoadedOncePerContext
  <1>1. IInv => LoadedOncePerContext
    BY DEF IInv, LoadsAreCached, LoadedOncePerContext
  <1>. QED
    BY <1>1, Invariance, PTL

(* Whoever reads the metadata of a module finds it, with the right origin, *)
(* although no lock spans its recording and its reading.                   *)
THEOREM RecallFindsTheOrigin == Spec => []MetadataIsThere
  <1>1. ASSUME IInv, NEW p \in Caller, At(p, "recall")
        PROVE  LET image == cache[call[p].ctx][call[p].key]  a == recall(call[p].key)
               IN image # None /\ a.ptx # None /\ (a.prebuilt <=> image = "prebuilt")
    <2>1. call[p].ctx \in Ctx /\ call[p].key \in Key
      BY <1>1, UnderWay DEF IInv, At, Loading
    <2>2. cache[call[p].ctx][call[p].key] # None
      BY <1>1 DEF IInv, RequestsFit, At
    <2>. QED
      BY <1>1, <2>1, <2>2 DEF IInv, KeysTellTheOrigin, recall
  <1>2. IInv => MetadataIsThere
    BY <1>1 DEF MetadataIsThere
  <1>. QED
    BY <1>2, Invariance, PTL

(* The image a call without prebuilt PTX fails with was refused by a driver *)
(* that takes nothing compiled here: of the files that may be in the cache, *)
(* none that the driver refuses makes it fail.                              *)
THEOREM RefusedFilesAreHarmless == Spec => []RefusedFileSinksNothing
  <1>1. IInv => RefusedFileSinksNothing
    BY DEF IInv, RequestsFit, At, RefusedFileSinksNothing
  <1>. QED
    BY <1>1, Invariance, PTL

(* Who passed NoDiskCache is answered with what this process compiled, or   *)
(* with the prebuilt image it brought, module and PTX alike.                *)
THEOREM NoDiskIsObeyed == Spec => []NoDiskMeansNoFile
  <1>1. ASSUME IInv, NEW p \in Caller, At(p, "recall"), call[p].first.noDisk
        PROVE  LET image == cache[call[p].ctx][call[p].key]
               IN image \in {"compiled", "prebuilt"} /\ recall(call[p].key).ptx = image
    <2>1. call[p].ctx \in Ctx /\ call[p].key \in Key
      BY <1>1, UnderWay DEF IInv, At, Loading
    <2>2. /\ cache[call[p].ctx][call[p].key] # None
          /\ call[p].key \in {"prebuilt", "nvrtc-nodisk"}
      BY <1>1, <2>1 DEF IInv, RequestsFit, At, Key
    <2>. QED
      BY <1>1, <2>1, <2>2 DEF IInv, KeysTellTheOrigin, recall
  <1>2. IInv => NoDiskMeansNoFile
    BY <1>1 DEF NoDiskMeansNoFile
  <1>. QED
    BY <1>2, Invariance, PTL

(* No step but the end of the process loses the log of a compilation.      *)
THEOREM LogsSurvive == Spec => LogIsKept
  <1>1. ASSUME IInv, [Next]_vars
        PROVE  [\A k \in Key :
                  artifactOf[k].log => artifactOf'[k].log \/ mishaps' > mishaps]_vars
    <2>1. CASE Crash
      BY <1>1, <2>1 DEF Crash, IInv, TypeOK
    <2>2. CASE Corrupt \/ UNCHANGED vars
      BY <2>2 DEF Corrupt, vars
    <2>3. ASSUME NEW p \in Caller, Load(p) \/ Step(p)
          PROVE  \A k \in Key : artifactOf[k].log => artifactOf'[k].log
      BY <1>1, <2>3, KeysStep
    <2>. QED
      BY <1>1, <2>1, <2>2, <2>3 DEF Next
  <1>. QED
    BY <1>1, Invariance, PTL DEF Spec, LogIsKept
=============================================================================
