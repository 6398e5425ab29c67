------------------------------ MODULE Context ------------------------------
(***************************************************************************)
(* cuda.Context: goroutines and several Context values around one device's *)
(* primary context.  A Context owns the modules loaded through it, and its *)
(* mutex guards that bookkeeping and is held across LoadPTXCached's build; *)
(* the poison marker is shared by all of them and read without the mutex.  *)
(* The driver (retain count, resident modules, a sticky device fault) is   *)
(* modelled from how the source uses it.                                   *)
(***************************************************************************)
EXTENDS Integers, Sequences, FiniteSets, SequencesExt

CONSTANTS
  Goroutine,
  Ctx,          \* the Context values around this device
  Nobody,       \* nobody holds the mutex
  Key,          \* cache keys of LoadPTXCached
  MaxModules    \* bound: modules ever loaded

ASSUME CtxAssumption == IsFiniteSet(Ctx)
ASSUME NobodyAssumption == Nobody \notin Goroutine
ASSUME MaxModulesAssumption == MaxModules \in Nat

VARIABLES
  refs,         \* driver: retains of the primary context not yet released
  resident,     \* driver: modules in the primary context
  faulted,      \* driver: the device hit a sticky fault
  poisoned,     \* the marker in the package-level table
  owner,        \* the Context of each module ever loaded, in load order
  status,       \* what NewContext did of each Context
  closed, modules, cache,   \* the fields of each Context, ...
  mu,           \* ... and who holds its mutex
  handle,       \* the modules whose field c is not zero
  stuck,        \* the modules whose unload returned an error (history)
  call          \* where each goroutine is, in which context, with what

device == <<refs, resident, faulted>>
fields == <<closed, modules, cache, handle>>
vars == <<device, poisoned, owner, status, fields, stuck, mu, call>>

NoModule == 0
NoKey == "no key"
NoCtx == "no context"
Idle == [at |-> "idle", ctx |-> NoCtx, key |-> NoKey, mod |-> NoModule, rest |-> <<>>]

Init ==
  /\ refs = 0
  /\ resident = {}
  /\ faulted = FALSE
  /\ poisoned = FALSE
  /\ owner = <<>>
  /\ status = [c \in Ctx |-> "none"]
  /\ closed = [c \in Ctx |-> FALSE]
  /\ modules = [c \in Ctx |-> <<>>]
  /\ cache = [c \in Ctx |-> [k \in Key |-> NoModule]]
  /\ mu = [c \in Ctx |-> Nobody]
  /\ handle = {}
  /\ stuck = {}
  /\ call = [g \in Goroutine |-> Idle]

At(g, where) == call[g].at = where
Goto(g, where) == call' = [call EXCEPT ![g].at = where]
Return(g) == call' = [call EXCEPT ![g] = Idle]
Unlock(g) == mu' = [mu EXCEPT ![call[g].ctx] = Nobody]

(* The device faults while some context is in use. *)
Fault ==
  /\ refs > 0 /\ ~ faulted
  /\ faulted' = TRUE
  /\ UNCHANGED <<refs, resident, poisoned, owner, status, fields, mu, call, stuck>>

----------------------------------------------------------------------------
(* NewContext: a call of the driver or a look at the marker per step.  A   *)
(* refusal after the retain leaves the retain behind.  Which name a new    *)
(* Context has does not matter.                                            *)
Unmade == {c \in Ctx : status[c] = "none"}

NewContext(g) ==
  /\ At(g, "idle")
  /\ Unmade # {}
  /\ LET c == CHOOSE u \in Unmade : TRUE
     IN /\ status' = [status EXCEPT ![c] = "making"]
        /\ call' = [call EXCEPT ![g].at = "retain", ![g].ctx = c]
  /\ UNCHANGED <<device, poisoned, owner, fields, mu, stuck>>

Refuse(g) == status' = [status EXCEPT ![call[g].ctx] = "refused"] /\ Return(g)

Retain(g) ==
  /\ At(g, "retain")
  /\ \/ faulted /\ poisoned' = TRUE /\ Refuse(g) /\ UNCHANGED refs
     \/ ~ faulted /\ Refuse(g) /\ UNCHANGED <<poisoned, refs>>
     \/ ~ faulted /\ refs' = refs + 1 /\ Goto(g, "check") /\ UNCHANGED <<poisoned, status>>
  /\ UNCHANGED <<resident, faulted, owner, fields, mu, stuck>>

CheckPoison(g) ==
  /\ At(g, "check")
  /\ IF poisoned THEN Refuse(g) ELSE Goto(g, "attributes") /\ UNCHANGED status
  /\ UNCHANGED <<device, poisoned, owner, fields, mu, stuck>>

ReadAttributes(g) ==
  /\ At(g, "attributes")
  /\ Refuse(g) \/ (Goto(g, "tryBind") /\ UNCHANGED status)
  /\ UNCHANGED <<device, poisoned, owner, fields, mu, stuck>>

(* return c, c.bind(): the Context is handed out either way. *)
TryBind(g) ==
  /\ At(g, "tryBind")
  /\ \E outcome \in {"beside an error", "live"} :
       /\ outcome = "live" => ~ poisoned
       /\ status' = [status EXCEPT ![call[g].ctx] = outcome]
  /\ Return(g)
  /\ UNCHANGED <<device, poisoned, owner, fields, mu, stuck>>

----------------------------------------------------------------------------
(* A method of a Context, or of a Module that was once loaded, is called.  *)
Call(g) ==
  /\ At(g, "idle")
  /\ \/ \E c \in Ctx, where \in {"close", "bindUse"} :
          status[c] = "live" /\ call' = [call EXCEPT ![g].at = where, ![g].ctx = c]
     \/ \E c \in Ctx, k \in Key \cup {NoKey} :
          /\ status[c] = "live" /\ Len(owner) < MaxModules
          /\ call' = [call EXCEPT ![g].at = "load", ![g].ctx = c, ![g].key = k]
     \/ \E i \in DOMAIN owner :
          call' = [call EXCEPT ![g].at = "unload", ![g].ctx = owner[i], ![g].mod = i]
  /\ UNCHANGED <<device, poisoned, owner, status, fields, mu, stuck>>

(* Faulty variant: bind takes the mutex to read the marker.                *)
BindsUnderMu(g, at) == At(g, at) /\ mu[call[g].ctx] = Nobody

(* bind looks at the marker and needs no mutex, whoever holds it.          *)
Binds(g, at) == At(g, at)

(* Context.call: bind refuses, or fails itself; otherwise the driver is    *)
(* called, which may fail, and a sticky answer sets the marker.            *)
(* Sync, Alloc, Free, the copies, launches and Module.Function are no more *)
(* than this; the outcome of the others follows below.                     *)
Bind(g, at, next) ==
  /\ Binds(g, at)
  /\ ~ poisoned
  /\ Goto(g, next)
  /\ UNCHANGED <<device, poisoned, owner, status, fields, mu, stuck>>

Poison(g, at) ==
  /\ At(g, at)
  /\ faulted
  /\ poisoned' = TRUE

Use(g) ==
  \/ Bind(g, "bindUse", "using")
  \/ /\ Poison(g, "using") \/ (At(g, "using") /\ ~ faulted /\ UNCHANGED poisoned)
                           \/ (Binds(g, "bindUse") /\ UNCHANGED poisoned)
     /\ Return(g)
     /\ UNCHANGED <<device, owner, status, fields, mu, stuck>>

Acquire(g, at) == At(g, at) /\ mu[call[g].ctx] = Nobody
Lock(g) == mu' = [mu EXCEPT ![call[g].ctx] = g]

(* LoadPTX and LoadPTXCached: refused once closed, or served from the      *)
(* cache, or built with the mutex held.                                    *)
Cached(g) == call[g].key # NoKey /\ cache[call[g].ctx][call[g].key] # NoModule

Served(g) ==
  /\ Acquire(g, "load")
  /\ closed[call[g].ctx] \/ Cached(g)
  /\ Return(g)
  /\ UNCHANGED <<device, poisoned, owner, status, fields, mu, stuck>>

(* Faulty variant: a closed context still builds.                          *)
BuildThoughClosed(g) ==
  /\ Acquire(g, "load")
  /\ ~ Cached(g)
  /\ Goto(g, IF call[g].key = NoKey THEN "bindLoad" ELSE "building")
  /\ Lock(g)
  /\ UNCHANGED <<device, poisoned, owner, status, fields, stuck>>

Build(g) ==
  /\ Acquire(g, "load")
  /\ ~ closed[call[g].ctx] /\ ~ Cached(g)
  /\ Goto(g, IF call[g].key = NoKey THEN "bindLoad" ELSE "building")
  /\ Lock(g)
  /\ UNCHANGED <<device, poisoned, owner, status, fields, stuck>>

Built(g) ==
  /\ At(g, "building")
  /\ Goto(g, "bindLoad")
  /\ UNCHANGED <<device, poisoned, owner, status, fields, mu, stuck>>

BindLoad(g) == Bind(g, "bindLoad", "loading")

(* The build, the bind or the driver fails: the deferred Unlock runs.      *)
LoadFails(g) ==
  /\ \/ At(g, "building") /\ UNCHANGED poisoned
     \/ Binds(g, "bindLoad") /\ UNCHANGED poisoned
     \/ At(g, "loading") /\ ~ faulted /\ UNCHANGED poisoned
     \/ Poison(g, "loading")
  /\ Return(g)
  /\ Unlock(g)
  /\ UNCHANGED <<device, owner, status, fields, stuck>>

Loaded(g) ==
  LET c == call[g].ctx  k == call[g].key  i == Len(owner) + 1
  IN /\ At(g, "loading")
     /\ ~ faulted
     /\ owner' = Append(owner, c)
     /\ resident' = resident \cup {i}
     /\ handle' = handle \cup {i}
     /\ modules' = [modules EXCEPT ![c] = Append(@, i)]
     /\ cache' = IF k = NoKey THEN cache ELSE [cache EXCEPT ![c][k] = i]
     /\ Return(g)
     /\ Unlock(g)
     /\ UNCHANGED <<refs, faulted, poisoned, status, closed, stuck>>

(* Faulty variant: the cache still knows the unloaded module.              *)
ForgetButTheCache(c, i) ==
  /\ modules' = [modules EXCEPT ![c] = RemoveFirst(@, i)]
  /\ UNCHANGED cache

(* Module.Unload: the context forgets the module, and the handle is        *)
(* cleared before the driver is called, so that a second time is no call.  *)
Forget(c, i) ==
  /\ modules' = [modules EXCEPT ![c] = RemoveFirst(@, i)]
  /\ cache' = [cache EXCEPT ![c] = [k \in Key |-> IF @[k] = i THEN NoModule ELSE @[k]]]

Unload(g) ==
  /\ Acquire(g, "unload")
  /\ Forget(call[g].ctx, call[g].mod)
  /\ handle' = handle \ {call[g].mod}
  /\ IF call[g].mod \in handle
     THEN Goto(g, "bindUnload") /\ Lock(g)
     ELSE Return(g) /\ UNCHANGED mu
  /\ UNCHANGED <<device, poisoned, owner, status, closed, stuck>>

BindUnload(g) == Bind(g, "bindUnload", "unloading")

(* cuModuleUnload, or the bind before it: a module that the driver keeps   *)
(* is nobody's any more.                                                   *)
Dropped(g, at) ==
  /\ At(g, at) /\ ~ faulted
  /\ resident' = resident \ {call[g].mod}
  /\ UNCHANGED <<poisoned, stuck>>

Kept(g, bound, at) ==
  /\ \/ Binds(g, bound) /\ UNCHANGED poisoned
     \/ Poison(g, at)
     \/ At(g, at) /\ ~ faulted /\ UNCHANGED poisoned
  /\ stuck' = stuck \cup {call[g].mod}
  /\ UNCHANGED resident

Unloaded(g) ==
  /\ Dropped(g, "unloading") \/ Kept(g, "bindUnload", "unloading")
  /\ Return(g)
  /\ Unlock(g)
  /\ UNCHANGED <<refs, faulted, owner, status, fields>>

(* Context.Close: the modules from the last to the first, whatever fails,  *)
(* then the primary context.                                               *)
CloseAgain(g) ==
  /\ Acquire(g, "close")
  /\ closed[call[g].ctx]
  /\ Return(g)
  /\ UNCHANGED <<device, poisoned, owner, status, fields, mu, stuck>>

(* Faulty variant: Close is not idempotent.                                *)
CloseTwice(g) ==
  /\ Acquire(g, "close")
  /\ closed' = [closed EXCEPT ![call[g].ctx] = TRUE]
  /\ call' = [call EXCEPT ![g].at = "walk", ![g].rest = modules[call[g].ctx]]
  /\ Lock(g)
  /\ UNCHANGED <<device, poisoned, owner, status, modules, cache, handle, stuck>>

Close(g) ==
  /\ Acquire(g, "close")
  /\ ~ closed[call[g].ctx]
  /\ closed' = [closed EXCEPT ![call[g].ctx] = TRUE]
  /\ call' = [call EXCEPT ![g].at = "walk", ![g].rest = modules[call[g].ctx]]
  /\ Lock(g)
  /\ UNCHANGED <<device, poisoned, owner, status, modules, cache, handle, stuck>>

CloseNext(g) ==
  /\ At(g, "walk")
  /\ call[g].rest # <<>>
  /\ LET i == Last(call[g].rest)
     IN /\ handle' = handle \ {i}
        /\ call' = [call EXCEPT ![g].rest = Front(@), ![g].mod = i,
                                ![g].at = IF i \in handle THEN "bindWalk" ELSE "walk"]
  /\ UNCHANGED <<device, poisoned, owner, status, closed, modules, cache, mu, stuck>>

CloseBind(g) == Bind(g, "bindWalk", "walkUnloading")

(* Faulty variant: the first failure ends the walk.                        *)
CloseStopsAtAFailure(g) ==
  /\ \/ Dropped(g, "walkUnloading") /\ Goto(g, "walk")
     \/ /\ Kept(g, "bindWalk", "walkUnloading")
        /\ call' = [call EXCEPT ![g].at = "walk", ![g].rest = <<>>]
  /\ UNCHANGED <<refs, faulted, owner, status, fields, mu>>

CloseUnloaded(g) ==
  /\ Dropped(g, "walkUnloading") \/ Kept(g, "bindWalk", "walkUnloading")
  /\ Goto(g, "walk")
  /\ UNCHANGED <<refs, faulted, owner, status, fields, mu>>

(* The last release ends the primary context and every module in it; the   *)
(* Context is closed even where the release fails.                         *)
CloseRelease(g) ==
  /\ At(g, "walk")
  /\ call[g].rest = <<>>
  /\ modules' = [modules EXCEPT ![call[g].ctx] = <<>>]
  /\ cache' = [cache EXCEPT ![call[g].ctx] = [k \in Key |-> NoModule]]
  /\ \/ UNCHANGED <<refs, resident>>
     \/ refs' = refs - 1 /\ resident' = IF refs = 1 THEN {} ELSE resident
  /\ Return(g)
  /\ Unlock(g)
  /\ UNCHANGED <<faulted, poisoned, owner, status, closed, handle, stuck>>

Step(g) ==
  \/ Retain(g) \/ CheckPoison(g) \/ ReadAttributes(g) \/ TryBind(g) \/ Use(g)
  \/ Served(g) \/ Build(g) \/ Built(g) \/ BindLoad(g) \/ LoadFails(g) \/ Loaded(g)
  \/ Unload(g) \/ BindUnload(g) \/ Unloaded(g)
  \/ CloseAgain(g) \/ Close(g) \/ CloseNext(g) \/ CloseBind(g)
  \/ CloseUnloaded(g) \/ CloseRelease(g)

Next == Fault \/ \E g \in Goroutine : NewContext(g) \/ Call(g) \/ Step(g)

Spec == Init /\ [][Next]_vars

----------------------------------------------------------------------------
Holding ==
  {"building", "bindLoad", "loading", "bindUnload", "unloading", "walk", "bindWalk", "walkUnloading"}

Making == {"retain", "check", "attributes", "tryBind"}
Unloading == {"bindUnload", "unloading", "bindWalk", "walkUnloading"}
Walking == {"walk", "bindWalk", "walkUnloading"}
Working == {"close", "bindUse", "using", "load", "unload"} \cup Holding
Modules == DOMAIN owner

Calls == [at : {"idle"} \cup Making \cup Working, ctx : Ctx \cup {NoCtx},
          key : Key \cup {NoKey}, mod : {NoModule} \cup Modules, rest : Seq(Modules)]

TypeOK ==
  /\ refs \in Nat
  /\ faulted \in BOOLEAN
  /\ poisoned => faulted
  /\ owner \in Seq(Ctx)
  /\ resident \subseteq Modules /\ handle \subseteq Modules /\ stuck \subseteq Modules
  /\ status \in [Ctx -> {"none", "making", "refused", "beside an error", "live"}]
  /\ closed \in [Ctx -> BOOLEAN]
  /\ modules \in [Ctx -> Seq(Modules)]
  /\ cache \in [Ctx -> [Key -> {NoModule} \cup Modules]]
  /\ mu \in [Ctx -> Goroutine \cup {Nobody}]
  /\ call \in [Goroutine -> Calls]

(* Close unloads what is left, whatever fails on the way: a module         *)
(* survives its context only where its own unload was tried and failed, in *)
(* the bind before the call or in the driver, by a fault or otherwise.     *)
NothingOutlivesItsContext ==
  \A c \in Ctx : closed[c] /\ mu[c] = Nobody =>
    \A i \in resident : owner[i] = c => i \in stuck

(* A module whose handle is set is in the driver, and the driver is never  *)
(* asked to unload one that is not: not twice by Unload and Close, not     *)
(* after the primary context went away under another Context's release.   *)
NoStaleHandle ==
  /\ handle \subseteq resident
  /\ \A g \in Goroutine : call[g].at \in {"unloading", "walkUnloading"} => call[g].mod \in resident

(* What LoadPTXCached would serve is loaded: an unloaded module is served  *)
(* neither from the cache nor unloaded again by Close.                     *)
CacheServesLoadedModules ==
  \A c \in Ctx, k \in Key : mu[c] = Nobody /\ cache[c][k] # NoModule =>
    /\ cache[c][k] \in handle
    /\ \E at \in DOMAIN modules[c] : modules[c][at] = cache[c][k]

(* No deadlock: whoever holds a mutex can take its next step, although the *)
(* marker is read, PTX is built and the driver is called with it held; so  *)
(* a mutex is always given back and everybody else gets on.                *)
HoldersMoveOn ==
  \A g \in Goroutine : call[g].at \in Holding => ENABLED Step(g)

----------------------------------------------------------------------------
(* What carries the first three from step to step, for any number of       *)
(* goroutines, contexts and modules.  A call works in a context that was   *)
(* made, and only one call makes a context.                                *)
MakersAndUsers ==
  /\ \A g \in Goroutine :
       /\ call[g].at \in Making => call[g].ctx \in Ctx /\ status[call[g].ctx] = "making"
       /\ call[g].at \in Working => call[g].ctx \in Ctx /\ status[call[g].ctx] = "live"
  /\ \A g, h \in Goroutine :
       call[g].at \in Making /\ call[h].at \in Making /\ call[g].ctx = call[h].ctx => g = h
  /\ \A i \in Modules : status[owner[i]] = "live"

(* The mutex is held from a Lock to its Unlock, and after the bit is set   *)
(* only by the Close that set it.                                          *)
Exclusive ==
  /\ \A c \in Ctx : mu[c] # Nobody => call[mu[c]].ctx = c /\ call[mu[c]].at \in Holding
  /\ \A g \in Goroutine : call[g].at \in Holding =>
       mu[call[g].ctx] = g /\ (closed[call[g].ctx] <=> call[g].at \in Walking)

(* Contexts keep their modules apart. *)
OwnModules ==
  /\ \A c \in Ctx : \A at \in DOMAIN modules[c] : owner[modules[c][at]] = c
  /\ \A c \in Ctx, k \in Key : cache[c][k] # NoModule => owner[cache[c][k]] = c
  /\ \A g \in Goroutine :
       /\ call[g].at \in Unloading \cup {"unload"} =>
            call[g].mod \in Modules /\ owner[call[g].mod] = call[g].ctx
       /\ call[g].at \in Walking =>
            \A at \in DOMAIN call[g].rest : owner[call[g].rest[at]] = call[g].ctx

(* A handle is still to be found: in the list of its context, or among     *)
(* what is left of the walk of its Close.                                  *)
HandlesAreListed ==
  \A i \in handle :
    IF closed[owner[i]]
    THEN /\ mu[owner[i]] # Nobody
         /\ \E at \in DOMAIN call[mu[owner[i]]].rest : call[mu[owner[i]]].rest[at] = i
    ELSE \E at \in DOMAIN modules[owner[i]] : modules[owner[i]][at] = i

CacheHasHandles ==
  \A c \in Ctx, k \in Key : cache[c][k] # NoModule =>
    IF closed[c] THEN mu[c] # Nobody ELSE cache[c][k] \in handle

(* What is being unloaded is in the driver and nobody's handle any more;   *)
(* everything else in the driver has its handle or refused to go.          *)
Unloads ==
  /\ handle \subseteq resident
  /\ \A g \in Goroutine : call[g].at \in Unloading => call[g].mod \in resident \ handle
  /\ \A i \in resident \ (handle \cup stuck) :
       \E g \in Goroutine : call[g].at \in Unloading /\ call[g].mod = i

(* The driver counts at least the contexts that are still to be closed or  *)
(* that are past their Retain.                                             *)
Retained ==
  {c \in Ctx :
     \/ status[c] = "live" /\ ~ (closed[c] /\ mu[c] = Nobody)
     \/ \E g \in Goroutine : call[g].ctx = c /\ call[g].at \in Making \ {"retain"}}

RetainsCounted == Cardinality(Retained) <= refs

IInv ==
  /\ TypeOK
  /\ MakersAndUsers
  /\ Exclusive
  /\ OwnModules
  /\ HandlesAreListed
  /\ CacheHasHandles
  /\ Unloads
  /\ RetainsCounted
=============================================================================
