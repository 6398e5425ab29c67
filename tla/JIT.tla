-------------------------------- MODULE JIT --------------------------------
(***************************************************************************)
(* jit.Load for one kernel source on one architecture: goroutines that     *)
(* load it into contexts, the module cache of each context (held under the *)
(* context's mutex across the build), what the process remembers about     *)
(* each build, and the PTX file that outlives the process.  The driver     *)
(* that accepts an image or not, and NVRTC, are external; unloading a      *)
(* module is Context's business.                                           *)
(***************************************************************************)
EXTENDS Naturals

CONSTANTS
  Caller,       \* goroutines
  Ctx,          \* contexts of one process
  Nobody,       \* nobody holds the context's mutex
  MaxMishaps    \* bound: crashes of the process and corruptions of the file

ASSUME NobodyAssumption == Nobody \notin Caller
ASSUME MaxMishapsAssumption == MaxMishaps \in Nat

VARIABLES
  accepted,     \* the images this driver takes
  named,        \* the images with an entry of the kernel's name
  toolkit,      \* NVRTC can be loaded
  disk,         \* the file of this source, architecture and NVRTC version
  artifactOf,   \* what remember recorded, by cache key
  cache,        \* Context.cache: the image each cached module was loaded from
  loads,        \* modules the driver loaded, by context and cache key
  mu,           \* who holds each context's mutex
  call,         \* where each goroutine is in Load, and with what
  mishaps

machine == <<accepted, named, toolkit>>
vars == <<machine, disk, artifactOf, cache, loads, mu, call, mishaps>>

None == "none"
\* What a file may become: an image that the driver refuses, one that it
\* takes and that ends before the entry, and one that still has the entry.
Damaged == {"garbled", "cutOff", "altered"}
PTX == {"prebuilt", "compiled"} \cup Damaged
Key == {"nvrtc", "nvrtc-nodisk", "prebuilt"}
Request == [ptx : BOOLEAN, noDisk : BOOLEAN]
NoArtifact == [ptx |-> None, log |-> FALSE, prebuilt |-> FALSE]
Idle == [at |-> "idle"]

(* Faulty variant: the option is no part of the key.                       *)
KeyOfOrigin(req) == IF req.ptx THEN "prebuilt" ELSE "nvrtc"

CacheKey(req) ==
  IF req.ptx THEN "prebuilt" ELSE IF req.noDisk THEN "nvrtc-nodisk" ELSE "nvrtc"

Empty == [c \in Ctx |-> [k \in Key |-> None]]

Init ==
  /\ accepted \in {taken \cup {"cutOff", "altered"} : taken \in SUBSET {"prebuilt", "compiled"}}
  /\ named \in {{"compiled", "altered"}, {"compiled", "altered", "prebuilt"}}
  /\ toolkit \in BOOLEAN
  /\ disk \in {None, "compiled"}
  /\ artifactOf = [k \in Key |-> NoArtifact]
  /\ cache = Empty
  /\ loads = [c \in Ctx |-> [k \in Key |-> 0]]
  /\ mu = [c \in Ctx |-> Nobody]
  /\ call = [p \in Caller |-> Idle]
  /\ mishaps = 0

At(p, where) == call[p].at = where
Goto(p, where) == call' = [call EXCEPT ![p].at = where]
Release(p) == mu' = [mu EXCEPT ![call[p].ctx] = Nobody]

(* Load(ctx, req) is called. *)
Load(p) ==
  /\ At(p, "idle")
  /\ \E c \in Ctx, req \in Request :
       call' = [call EXCEPT ![p] =
                  [at |-> "lock", ctx |-> c, req |-> req, first |-> req,
                   key |-> CacheKey(req), retried |-> FALSE, image |-> None]]
  /\ UNCHANGED <<machine, disk, artifactOf, cache, loads, mu, mishaps>>

(* LoadPTXCached: a hit is returned, a miss builds under the mutex. *)
Hit(p) ==
  /\ At(p, "lock")
  /\ mu[call[p].ctx] = Nobody
  /\ cache[call[p].ctx][call[p].key] # None
  /\ Goto(p, "function")
  /\ UNCHANGED <<machine, disk, artifactOf, cache, loads, mu, mishaps>>

(* Faulty variant: the build runs outside the mutex.                       *)
MissUnlocked(p) ==
  /\ At(p, "lock")
  /\ mu[call[p].ctx] = Nobody
  /\ cache[call[p].ctx][call[p].key] = None
  /\ Goto(p, IF call[p].req.ptx THEN "bring" ELSE IF call[p].req.noDisk THEN "compile" ELSE "read")
  /\ UNCHANGED <<machine, disk, artifactOf, cache, loads, mu, mishaps>>

Miss(p) ==
  /\ At(p, "lock")
  /\ mu[call[p].ctx] = Nobody
  /\ cache[call[p].ctx][call[p].key] = None
  /\ mu' = [mu EXCEPT ![call[p].ctx] = p]
  /\ Goto(p, IF call[p].req.ptx THEN "bring" ELSE IF call[p].req.noDisk THEN "compile" ELSE "read")
  /\ UNCHANGED <<machine, disk, artifactOf, cache, loads, mishaps>>

recall(k) == artifactOf[k]
Remember(k, a) == artifactOf' = [artifactOf EXCEPT ![k] = a]
RememberKeepingLog(k, a) == Remember(k, [a EXCEPT !.log = recall(k).log])

Built(p, image, where) ==
  call' = [call EXCEPT ![p].image = image, ![p].at = where]
Fail(p) == call' = [call EXCEPT ![p] = Idle]

(* Faulty variant: nothing is remembered until the module is published.    *)
BringSilently(p) ==
  /\ At(p, "bring")
  /\ Built(p, "prebuilt", "module")
  /\ UNCHANGED <<machine, disk, artifactOf, cache, loads, mu, mishaps>>

(* The build, from the request's PTX. *)
Bring(p) ==
  /\ At(p, "bring")
  /\ Remember(call[p].key, [ptx |-> "prebuilt", log |-> FALSE, prebuilt |-> TRUE])
  /\ Built(p, "prebuilt", "module")
  /\ UNCHANGED <<machine, disk, cache, loads, mu, mishaps>>

(* readDisk: any error is a miss, and without a toolkit the key is one     *)
(* under which nothing was ever stored.                                    *)
ReadDisk(p) ==
  /\ At(p, "read")
  /\ \/ Goto(p, "compile")
     \/ toolkit /\ disk # None /\ Built(p, disk, "remember")
  /\ UNCHANGED <<machine, disk, artifactOf, cache, loads, mu, mishaps>>

(* Faulty variant: a disk hit is recorded as a build without a log.        *)
FoundForgettingLog(p) ==
  /\ At(p, "remember")
  /\ Remember(call[p].key, [ptx |-> call[p].image, log |-> FALSE, prebuilt |-> FALSE])
  /\ Goto(p, "module")
  /\ UNCHANGED <<machine, disk, cache, loads, mu, mishaps>>

Found(p) ==
  /\ At(p, "remember")
  /\ RememberKeepingLog(call[p].key, [ptx |-> call[p].image, log |-> FALSE, prebuilt |-> FALSE])
  /\ Goto(p, "module")
  /\ UNCHANGED <<machine, disk, cache, loads, mu, mishaps>>

(* cuda.Compile needs NVRTC; its failure ends the build. *)
Compile(p) ==
  /\ At(p, "compile")
  /\ toolkit
  /\ Built(p, "compiled", IF call[p].req.noDisk THEN "record" ELSE "write")
  /\ UNCHANGED <<machine, disk, artifactOf, cache, loads, mu, mishaps>>

CompileFails(p) ==
  /\ At(p, "compile")
  /\ ~ toolkit
  /\ Fail(p)
  /\ Release(p)
  /\ UNCHANGED <<machine, disk, artifactOf, cache, loads, mishaps>>

(* writeDisk: written aside and renamed, so the file is whole or untouched *)
(* whatever fails in between.                                              *)
WriteDisk(p) ==
  /\ At(p, "write")
  /\ disk' \in {disk, call[p].image}
  /\ Goto(p, "record")
  /\ UNCHANGED <<machine, artifactOf, cache, loads, mu, mishaps>>

Record(p) ==
  /\ At(p, "record")
  /\ Remember(call[p].key, [ptx |-> call[p].image, log |-> TRUE, prebuilt |-> FALSE])
  /\ Goto(p, "module")
  /\ UNCHANGED <<machine, disk, cache, loads, mu, mishaps>>

(* loadPTXLocked, and the cache entry, still under the mutex: the driver   *)
(* takes the image, ...                                                    *)
LoadModule(p) ==
  /\ At(p, "module")
  /\ call[p].image \in accepted
  /\ LET c == call[p].ctx  k == call[p].key
     IN /\ cache' = [cache EXCEPT ![c][k] = call[p].image]
        /\ loads' = [loads EXCEPT ![c][k] = @ + 1]
  /\ Built(p, None, "function")
  /\ Release(p)
  /\ UNCHANGED <<machine, disk, artifactOf, mishaps>>

(* ... or refuses it with a code that rejectedPTX knows, ...               *)
Rejected(p) ==
  /\ At(p, "module")
  /\ call[p].image \notin accepted
  /\ Goto(p, "rejected")
  /\ Release(p)
  /\ UNCHANGED <<machine, disk, artifactOf, cache, loads, mishaps>>

(* ... or fails for another reason, which nothing is tried against.        *)
LoadFails(p) ==
  /\ At(p, "module")
  /\ Fail(p)
  /\ Release(p)
  /\ UNCHANGED <<machine, disk, artifactOf, cache, loads, mishaps>>

(* mod.Function, without the mutex: whatever it answers, the module stays  *)
(* in the cache and the file on the disk.                                  *)
Function(p) ==
  /\ At(p, "function")
  /\ LET image == cache[call[p].ctx][call[p].key]
     IN \/ image \in named /\ Goto(p, "recall")
        \/ image \notin named /\ Goto(p, "noEntry")
        \/ Fail(p)
  /\ UNCHANGED <<machine, disk, artifactOf, cache, loads, mu, mishaps>>

(* The error of os.Remove is ignored. *)
forgetDisk == disk' \in {None, disk}

Retry(p, req, key) ==
  call' = [call EXCEPT ![p].retried = TRUE, ![p].req = req, ![p].key = key,
                       ![p].image = None, ![p].at = "lock"]

(* Faulty variant: the retry looks at the file again.                      *)
RetryFromDisk(p) ==
  /\ At(p, "rejected")
  /\ ~ call[p].retried /\ ~ call[p].req.ptx /\ ~ call[p].req.noDisk
  /\ Retry(p, call[p].req, call[p].key)
  /\ UNCHANGED <<machine, disk, artifactOf, cache, loads, mu, mishaps>>

(* Load's recovery from an image the driver rejects: what came from the    *)
(* disk is forgotten and compiled under the same key, ...                  *)
RetryWithoutDisk(p) ==
  /\ At(p, "rejected")
  /\ ~ call[p].retried /\ ~ call[p].req.ptx /\ ~ call[p].req.noDisk
  /\ forgetDisk
  /\ Retry(p, [call[p].req EXCEPT !.noDisk = TRUE], call[p].key)
  /\ UNCHANGED <<machine, artifactOf, cache, loads, mu, mishaps>>

(* ... and what was prebuilt is built here, under the key of that build.   *)
RetryWithoutPrebuilt(p) ==
  /\ At(p, "rejected")
  /\ ~ call[p].retried /\ call[p].req.ptx
  /\ LET req == [call[p].req EXCEPT !.ptx = FALSE]
     IN Retry(p, req, CacheKey(req))
  /\ UNCHANGED <<machine, disk, artifactOf, cache, loads, mu, mishaps>>

GiveUp(p) ==
  /\ At(p, "rejected")
  /\ call[p].retried \/ (~ call[p].req.ptx /\ call[p].req.noDisk)
  /\ Built(p, None, "loadError")
  /\ UNCHANGED <<machine, disk, artifactOf, cache, loads, mu, mishaps>>

(* Load returns: a result made of recall(key), or one of the two errors    *)
(* that may be the file's doing.                                           *)
Return(p) ==
  /\ \E where \in {"recall", "loadError", "noEntry"} : At(p, where)
  /\ call' = [call EXCEPT ![p] = Idle]
  /\ UNCHANGED <<machine, disk, artifactOf, cache, loads, mu, mishaps>>

(* The process dies and another one starts: only the file is left. *)
Crash ==
  /\ mishaps < MaxMishaps
  /\ mishaps' = mishaps + 1
  /\ artifactOf' = [k \in Key |-> NoArtifact]
  /\ cache' = Empty
  /\ loads' = [c \in Ctx |-> [k \in Key |-> 0]]
  /\ mu' = [c \in Ctx |-> Nobody]
  /\ call' = [p \in Caller |-> Idle]
  /\ UNCHANGED <<machine, disk>>

(* Some other program damages the file. *)
Corrupt ==
  /\ mishaps < MaxMishaps
  /\ mishaps' = mishaps + 1
  /\ disk # None
  /\ disk' \in Damaged
  /\ UNCHANGED <<machine, artifactOf, cache, loads, mu, call>>

Step(p) ==
  \/ Hit(p) \/ Miss(p) \/ Bring(p) \/ ReadDisk(p) \/ Found(p) \/ Compile(p)
  \/ CompileFails(p) \/ WriteDisk(p) \/ Record(p) \/ LoadModule(p)
  \/ Rejected(p) \/ LoadFails(p) \/ Function(p)
  \/ RetryWithoutDisk(p) \/ RetryWithoutPrebuilt(p) \/ GiveUp(p) \/ Return(p)

Next == Crash \/ Corrupt \/ \E p \in Caller : Load(p) \/ Step(p)

Spec == Init /\ [][Next]_vars

----------------------------------------------------------------------------
Places ==
  {"lock", "bring", "read", "remember", "compile", "write", "record", "module",
   "rejected", "function", "recall", "loadError", "noEntry"}

Building(p) ==
  \E where \in {"bring", "read", "remember", "compile", "write", "record", "module"} :
    At(p, where)

(* What a call in progress carries. *)
Loading ==
  [at : Places, ctx : Ctx, req : Request, first : Request, key : Key,
   retried : BOOLEAN, image : PTX \cup {None}]

TypeOK ==
  /\ accepted \subseteq PTX /\ named \subseteq PTX /\ toolkit \in BOOLEAN
  /\ disk \in {None, "compiled"} \cup Damaged
  /\ artifactOf \in [Key -> [ptx : PTX \cup {None}, log : BOOLEAN, prebuilt : BOOLEAN]]
  /\ cache \in [Ctx -> [Key -> PTX \cup {None}]]
  /\ loads \in [Ctx -> [Key -> Nat]]
  /\ mu \in [Ctx -> Caller \cup {Nobody}]
  /\ call \in [Caller -> {Idle} \cup Loading]
  /\ mishaps \in Nat

(* However many goroutines ask, and whichever way they recover, a context  *)
(* loads one module for a source built one way.                            *)
LoadedOncePerContext == \A c \in Ctx, k \in Key : loads[c][k] <= 1

(* Whoever is about to read the metadata of a module finds it recorded,    *)
(* its origin the origin of the module in that context, although recording *)
(* and reading are not under one lock and contexts share the map.          *)
MetadataIsThere ==
  \A p \in Caller : At(p, "recall") =>
    LET image == cache[call[p].ctx][call[p].key]  a == recall(call[p].key)
    IN image # None /\ a.ptx # None /\ (a.prebuilt <=> image = "prebuilt")

(* cacheKey: a caller that passed NoDiskCache is the one not taking the    *)
(* file on trust.  Neither the module it runs nor the PTX it is told of    *)
(* was read from the disk: not by its own build, not by another caller     *)
(* that loaded the source first, not in another context, and not after a   *)
(* refused prebuilt image.                                                 *)
NoDiskMeansNoFile ==
  \A p \in Caller : At(p, "recall") /\ call[p].first.noDisk =>
    LET image == cache[call[p].ctx][call[p].key]
    IN image \in {"compiled", "prebuilt"} /\ recall(call[p].key).ptx = image

(* A module compiled here keeps the log of its compilation as long as the  *)
(* process lives, whatever other contexts read from the disk.              *)
LogIsKept ==
  [][\A k \in Key : artifactOf[k].log => artifactOf'[k].log \/ mishaps' > mishaps]_vars

(* A file that the driver refuses costs a compile and never the build: a   *)
(* call that brings no prebuilt PTX and ends with an image the driver      *)
(* refused ends so because the driver takes nothing that NVRTC emits here, *)
(* whoever wrote, damaged, read or dropped the file in the meantime.       *)
RefusedFileSinksNothing ==
  \A p \in Caller : At(p, "loadError") /\ ~ call[p].first.ptx => "compiled" \notin accepted

(* diskcache.go: "Nothing here may sink a build."  Nor does the driver find *)
(* no entry in what was loaded for a call that brings no prebuilt PTX.      *)
(* This does not hold of a file that ends before the entry.                *)
NoFileSinksACompile ==
  \A p \in Caller :
    (At(p, "loadError") \/ At(p, "noEntry")) /\ ~ call[p].first.ptx => "compiled" \notin accepted

----------------------------------------------------------------------------
(* Why they hold: the parts of the inductive invariant.                    *)

(* Whoever builds for a context holds its mutex and nobody else does, so   *)
(* what Miss saw of the cache is still so when the module is published.    *)
BuildsAlone ==
  /\ \A p \in Caller : Building(p) =>
       /\ mu[call[p].ctx] = p
       /\ cache[call[p].ctx][call[p].key] = None
  /\ \A c \in Ctx : mu[c] # Nobody => Building(mu[c]) /\ call[mu[c]].ctx = c

LoadsAreCached ==
  \A c \in Ctx, k \in Key : loads[c][k] = IF cache[c][k] = None THEN 0 ELSE 1

(* The key "prebuilt" is for prebuilt images and for nothing else, in the  *)
(* map of artifacts, in the caches, and in every request under way; and    *)
(* the key "nvrtc-nodisk" is for what was compiled in this process.        *)
KeysTellTheOrigin ==
  /\ \A k \in Key : /\ artifactOf[k].ptx # None =>
                         (artifactOf[k].prebuilt <=> k = "prebuilt")
                    /\ artifactOf[k].log => k # "prebuilt"
                    /\ k = "prebuilt" => artifactOf[k].ptx \in {None, "prebuilt"}
                    /\ k = "nvrtc-nodisk" => artifactOf[k].ptx \in {None, "compiled"}
  /\ \A c \in Ctx, k \in Key : cache[c][k] # None =>
       /\ artifactOf[k].ptx # None
       /\ cache[c][k] = "prebuilt" <=> k = "prebuilt"
       /\ k = "nvrtc-nodisk" => cache[c][k] = "compiled"

RequestsFit(p) ==
  LET at == call[p].at  req == call[p].req  image == call[p].image
  IN ~ At(p, "idle") =>
       /\ call[p].key = "prebuilt" <=> req.ptx
       /\ req.ptx => call[p].first.ptx
       /\ call[p].key = "nvrtc-nodisk" => req.noDisk
       /\ call[p].first.noDisk => req.noDisk /\ call[p].key # "nvrtc"
       /\ call[p].retried /\ ~ call[p].first.ptx => req.noDisk
       /\ at = "bring" => req.ptx
       /\ at \in {"read", "remember", "compile", "write", "record"} => ~ req.ptx
       /\ at \in {"read", "remember", "write"} => ~ req.noDisk
       /\ at \in {"remember", "module", "rejected"} =>
            image # None /\ (image = "prebuilt" <=> req.ptx)
       /\ at \in {"write", "record"} => image = "compiled"
       /\ at \in {"module", "rejected"} /\ ~ req.ptx /\ req.noDisk => image = "compiled"
       /\ at = "module" => artifactOf[call[p].key].ptx # None
       /\ at = "rejected" => image \notin accepted
       /\ at = "loadError" /\ ~ call[p].first.ptx => "compiled" \notin accepted
       /\ at \in {"function", "recall"} => cache[call[p].ctx][call[p].key] # None

IInv ==
  /\ TypeOK /\ BuildsAlone /\ LoadsAreCached /\ KeysTellTheOrigin
  /\ \A p \in Caller : RequestsFit(p)
=============================================================================
