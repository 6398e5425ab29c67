--------------------------- MODULE ContextProofs ---------------------------
(***************************************************************************)
(* For any number of goroutines, of Contexts around one device and of      *)
(* modules: modules end with their context, the driver is never asked to   *)
(* unload what is gone, and the cache serves what is loaded.               *)
(***************************************************************************)
EXTENDS Context, SequenceTheorems, FiniteSetTheorems, WellFoundedInduction, TLAPS

(* RemoveFirst keeps the other elements and adds none. *)
LEMMA Removed ==
  ASSUME NEW S, NEW s \in Seq(S), NEW e
  PROVE  /\ RemoveFirst(s, e) \in Seq(S)
         /\ \A at \in DOMAIN s : s[at] # e =>
              \E b \in DOMAIN RemoveFirst(s, e) : RemoveFirst(s, e)[b] = s[at]
         /\ \A b \in DOMAIN RemoveFirst(s, e) :
              \E at \in DOMAIN s : RemoveFirst(s, e)[b] = s[at]
<1>1. CASE ~ \E i \in 1..Len(s): s[i] = e
  BY <1>1 DEF RemoveFirst
<1>2. CASE \E i \in 1..Len(s): s[i] = e
  <2> DEFINE I == {i \in 1..Len(s) : s[i] = e}
             m == Min(I)
  <2>1. m \in I
    <3> DEFINE Below == {p \in Nat \X Nat : p[1] < p[2]}
    <3>1. Below = OpToRel(<, Nat)
      BY Zenon DEF OpToRel
    <3>2. IsWellFoundedOn(Below, Nat)
      BY <3>1, NatLessThanWellFounded, Zenon
    <3>3. I \subseteq Nat /\ I # {}
      BY <1>2
    <3>4. PICK x \in I : \A y \in I : ~ (<<y, x>> \in Below)
      <4>. HIDE DEF Below, I
      <4>. QED
        BY <3>2, <3>3, WFMin, Zenon
    <3>5. \A y \in I : x <= y
      <4>. SUFFICES ASSUME NEW y \in I PROVE x <= y
        OBVIOUS
      <4>1. x \in Nat /\ y \in Nat
        OBVIOUS
      <4>2. ~ y < x
        BY <3>4, <4>1
      <4>. QED
        BY <4>1, <4>2
    <3>. QED
      BY <3>5 DEF Min
  <2>2. RemoveFirst(s, e) = RemoveAt(s, m)
    BY <1>2 DEF RemoveFirst, SelectInSeq
  <2>3. RemoveAt(s, m) = SubSeq(s, 1, m - 1) \o SubSeq(s, m + 1, Len(s))
    BY DEF RemoveAt
  <2>. HIDE DEF m
  <2>4. m \in 1..Len(s) /\ s[m] = e
    BY <2>1
  <2>5. /\ SubSeq(s, 1, m - 1) \in Seq(S) /\ Len(SubSeq(s, 1, m - 1)) = m - 1
        /\ \A i \in 1..(m - 1) : SubSeq(s, 1, m - 1)[i] = s[i]
    BY <2>4, SubSeqProperties
  <2>6. /\ SubSeq(s, m + 1, Len(s)) \in Seq(S) /\
             Len(SubSeq(s, m + 1, Len(s))) = Len(s) - m
        /\ \A i \in 1..(Len(s) - m) : SubSeq(s, m + 1, Len(s))[i] = s[m + i]
    BY <2>4, SubSeqProperties
  <2> DEFINE before == SubSeq(s, 1, m - 1)
             after == SubSeq(s, m + 1, Len(s))
             t == before \o after
  <2>7. /\ t \in Seq(S) /\ Len(t) = Len(s) - 1
        /\ \A i \in 1..Len(t) : t[i] = IF i < m THEN s[i] ELSE s[i + 1]
    <3>. HIDE DEF before, after
    <3>1. /\ before \in Seq(S) /\ Len(before) = m - 1
          /\ \A i \in 1..(m - 1) : before[i] = s[i]
      BY <2>5 DEF before
    <3>2. /\ after \in Seq(S) /\ Len(after) = Len(s) - m
          /\ \A i \in 1..(Len(s) - m) : after[i] = s[m + i]
      BY <2>6 DEF after
    <3>3. /\ t \in Seq(S) /\ Len(t) = Len(s) - 1
          /\ \A i \in 1..Len(t) : t[i] = IF i <= Len(before) THEN before[i]
                                             ELSE after[i - Len(before)]
      <4>. HIDE DEF before, after
      <4>1. /\ t \in Seq(S)
            /\ Len(t) = Len(before) + Len(after)
            /\ \A i \in 1 .. Len(before) + Len(after) :
                 t[i] = IF i <= Len(before) THEN before[i] ELSE after[i - Len(before)]
        BY <3>1, <3>2, ConcatProperties, Zenon
      <4>. HIDE DEF t
      <4>. QED
        BY <4>1, <3>1, <3>2, <2>4
    <3>4. ASSUME NEW i \in 1..Len(t), ~ i < m
          PROVE  after[i - Len(before)] = s[i + 1]
      <4>1. i - Len(before) \in 1..(Len(s) - m) /\ m + (i - Len(before)) = i + 1
        BY <3>1, <3>3, <3>4, <2>4
      <4>. QED
        BY <4>1, <3>2
    <3>5. ASSUME NEW i \in 1..Len(t), i < m PROVE t[i] = s[i]
      <4>1. i <= Len(before) /\ i \in 1..(m - 1)
        BY <3>1, <3>5, <2>4
      <4>. HIDE DEF t
      <4>. QED
        BY <4>1, <3>1, <3>3
    <3>6. ASSUME NEW i \in 1..Len(t), ~ i < m PROVE t[i] = s[i + 1]
      <4>1. ~ i <= Len(before)
        BY <3>1, <3>3, <3>6, <2>4
      <4>. HIDE DEF t
      <4>. QED
        BY <4>1, <3>3, <3>4, <3>6
    <3>. HIDE DEF t
    <3>. QED
      BY <3>3, <3>5, <3>6
  <2>. HIDE DEF t
  <2>8. DOMAIN t = 1..Len(t) /\ DOMAIN s = 1..Len(s)
    BY <2>7
  <2>9. ASSUME NEW at \in DOMAIN s, s[at] # e
        PROVE  \E b \in DOMAIN t : t[b] = s[at]
    <3>1. CASE at < m
      BY <2>4, <2>7, <2>8, <3>1
    <3>2. CASE at > m
      <4>1. at - 1 \in 1..Len(t) /\ ~ at - 1 < m /\ at - 1 + 1 = at
        BY <2>4, <2>7, <2>8, <3>2
      <4>2. t[at - 1] = s[at]
        BY <4>1, <2>7
      <4>. QED
        BY <4>1, <4>2, <2>8
    <3>. QED
      BY <2>4, <2>8, <2>9, <3>1, <3>2
  <2>10. ASSUME NEW b \in DOMAIN t
         PROVE  \E at \in DOMAIN s : t[b] = s[at]
    <3>1. b \in 1..Len(t)
      BY <2>8
    <3>2. CASE b < m
      BY <2>4, <2>7, <2>8, <3>1, <3>2
    <3>3. CASE ~ b < m
      BY <2>4, <2>7, <2>8, <3>1, <3>3
    <3>. QED
      BY <3>2, <3>3
  <2>11. RemoveFirst(s, e) = t
    BY <2>2, <2>3 DEF t
  <2>. QED
    BY <2>7, <2>9, <2>10, <2>11
<1>. QED
  BY <1>1, <1>2

(* Front keeps all but the last element. *)
LEMMA FrontKeeps ==
  ASSUME NEW S, NEW s \in Seq(S), s # <<>>
  PROVE  /\ Front(s) \in Seq(S) /\ Last(s) \in S /\ Len(s) \in DOMAIN s
         /\ Len(Front(s)) = Len(s) - 1
         /\ \A at \in DOMAIN Front(s) : at \in DOMAIN s /\ Front(s)[at] = s[at]
         /\ \A at \in DOMAIN s : s[at] # Last(s) => at \in DOMAIN Front(s)
  <1>1. Len(s) \in Nat \ {0} /\ DOMAIN s = 1..Len(s)
    BY EmptySeq
  <1>2. /\ SubSeq(s, 1, Len(s) - 1) \in Seq(S) /\
             Len(SubSeq(s, 1, Len(s) - 1)) = Len(s) - 1
        /\ \A i \in 1..(Len(s) - 1) : SubSeq(s, 1, Len(s) - 1)[i] = s[i]
    BY <1>1, SubSeqProperties
  <1>3. DOMAIN SubSeq(s, 1, Len(s) - 1) = 1..(Len(s) - 1)
    BY <1>2
  <1>. QED
    BY <1>1, <1>2, <1>3 DEF Front, Last

(* Counting: a subset has no more elements, ... *)
LEMMA SubsetsCountLess ==
  ASSUME NEW S, IsFiniteSet(S), NEW T, T \subseteq S
  PROVE  IsFiniteSet(T) /\ Cardinality(T) \in Nat /\ Cardinality(S) \in Nat
         /\ Cardinality(T) <= Cardinality(S)
  <1>1. T \in SUBSET S
    OBVIOUS
  <1>. QED
    BY <1>1, FS_Subset, FS_CardinalityType, Zenon

(* ... one element adds at most one, ... *)
LEMMA OneMore ==
  ASSUME NEW S, IsFiniteSet(S), NEW x
  PROVE  IsFiniteSet(S \cup {x}) /\ Cardinality(S \cup {x}) <= Cardinality(S) + 1
  <1>1. Cardinality(S) \in Nat
    BY FS_CardinalityType
  <1>2. IsFiniteSet(S \cup {x}) /\ Cardinality(S \cup {x}) = IF x \in S
          THEN Cardinality(S) ELSE Cardinality(S) + 1
    BY FS_AddElement
  <1>. QED
    BY <1>1, <1>2

(* ... a set of at most one element has no other, ... *)
LEMMA OnlyOne ==
  ASSUME NEW S, IsFiniteSet(S), Cardinality(S) <= 1, NEW x \in S
  PROVE  \A y \in S : y = x
  <1>1. SUFFICES ASSUME NEW y \in S, y # x PROVE FALSE
    OBVIOUS
  <1>2. IsFiniteSet(S \ {x}) /\ Cardinality(S \ {x}) = Cardinality(S) - 1
    BY FS_RemoveElement
  <1>3. Cardinality(S) \in Nat /\ Cardinality(S \ {x}) \in Nat
    BY <1>2, FS_CardinalityType
  <1>4. Cardinality(S \ {x}) = 0
    BY <1>2, <1>3
  <1>5. S \ {x} = {}
    BY <1>2, <1>4, FS_EmptySet
  <1>. QED
    BY <1>1, <1>5

(* ... and a set with an element is not empty. *)
LEMMA SomeCount ==
  ASSUME NEW S, IsFiniteSet(S), NEW x \in S
  PROVE  Cardinality(S) \in Nat \ {0}
  <1>1. Cardinality(S) \in Nat
    BY FS_CardinalityType
  <1>2. Cardinality(S) # 0
    BY FS_EmptySet
  <1>. QED
    BY <1>1, <1>2

(* A step that only moves on within a method. *)
Keeps(g) ==
  /\ call'[g].ctx = call[g].ctx /\ call'[g].key = call[g].key
  /\ call'[g].mod = call[g].mod /\ call'[g].rest = call[g].rest

(* Where a step takes the goroutine's own call; ... *)
LEMMA Moves ==
  ASSUME TypeOK, NEW g \in Goroutine
  PROVE  /\ \A where : Goto(g, where) => call'[g].at = where /\ Keeps(g)
         /\ Return(g) => call'[g].at = "idle"
         /\ NewContext(g) => /\ call'[g].at = "retain"
                             /\ call'[g].ctx = CHOOSE u \in Unmade : TRUE
         /\ Call(g) => \/ /\ call'[g].at \in {"close", "bindUse", "load"}
                          /\ call'[g].ctx \in Ctx /\ status[call'[g].ctx] = "live"
                       \/ /\ call'[g].at = "unload" /\ call'[g].mod \in Modules
                          /\ call'[g].ctx = owner[call'[g].mod]
         /\ Close(g) => /\ call'[g].at = "walk" /\ call'[g].ctx = call[g].ctx
                        /\ call'[g].mod = call[g].mod
                        /\ call'[g].rest = modules[call[g].ctx]
         /\ CloseNext(g) =>
              /\ call'[g].at = IF Last(call[g].rest) \in handle THEN "bindWalk"
                   ELSE "walk"
              /\ call'[g].ctx = call[g].ctx
              /\ call'[g].mod = Last(call[g].rest)
              /\ call'[g].rest = Front(call[g].rest)
  <1>1. /\ call \in [Goroutine -> Calls] /\ call[g] \in Calls
     BY DEF TypeOK
  <1>2. ASSUME NEW where, Goto(g, where) PROVE call'[g].at = where /\ Keeps(g)
    <2>1. call'[g] = [call[g] EXCEPT !.at = where]
       BY <1>1, <1>2 DEF Goto
    <2>. QED
      BY <1>1, <2>1 DEF Calls, Keeps
  <1>3. Return(g) => call'[g].at = "idle"
     BY <1>1 DEF Return, Idle
  <1>4. ASSUME NewContext(g)
        PROVE  call'[g].at = "retain" /\ call'[g].ctx = CHOOSE u \in Unmade : TRUE
    <2> DEFINE c == CHOOSE u \in Unmade : TRUE
    <2>1. call' = [call EXCEPT ![g].at = "retain", ![g].ctx = c]
      BY <1>4 DEF NewContext
    <2>. HIDE DEF c
    <2>2. call'[g] = [call[g] EXCEPT !.at = "retain", !.ctx = c]
       BY <1>1, <2>1
    <2>3. call'[g].at = "retain" /\ call'[g].ctx = c
      BY <1>1, <2>2 DEF Calls
    <2>. QED
      BY <2>3 DEF c
  <1>5. ASSUME Call(g)
        PROVE  \/ /\ call'[g].at \in {"close", "bindUse", "load"}
                  /\ call'[g].ctx \in Ctx /\ status[call'[g].ctx] = "live"
               \/ /\ call'[g].at = "unload" /\ call'[g].mod \in Modules
                  /\ call'[g].ctx = owner[call'[g].mod]
    <2>1. CASE \E c \in Ctx, where \in {"close", "bindUse"} :
                 status[c] = "live" /\
                   call' = [call EXCEPT ![g].at = where, ![g].ctx = c]
      <3>1. PICK c \in Ctx, where \in {"close", "bindUse"} :
                 status[c] = "live" /\
                   call' = [call EXCEPT ![g].at = where, ![g].ctx = c]
        BY <2>1
      <3>2. call'[g] = [call[g] EXCEPT !.at = where, !.ctx = c]
        BY <1>1, <3>1
      <3>. QED
        BY <1>1, <3>1, <3>2 DEF Calls
    <2>2. CASE \E c \in Ctx, k \in Key \cup {NoKey} :
                 /\ status[c] = "live"
                 /\ call' = [call EXCEPT ![g].at = "load", ![g].ctx = c, ![g].key = k]
      <3>1. PICK c \in Ctx, k \in Key \cup {NoKey} :
                 /\ status[c] = "live"
                 /\ call' = [call EXCEPT ![g].at = "load", ![g].ctx = c, ![g].key = k]
        BY <2>2
      <3>2. call'[g] = [call[g] EXCEPT !.at = "load", !.ctx = c, !.key = k]
        BY <1>1, <3>1
      <3>. QED
        BY <1>1, <3>1, <3>2 DEF Calls
    <2>3. CASE \E i \in DOMAIN owner :
          call' = [call EXCEPT ![g].at = "unload", ![g].ctx = owner[i], ![g].mod = i]
      <3>1. PICK i \in DOMAIN owner :
          call' = [call EXCEPT ![g].at = "unload", ![g].ctx = owner[i], ![g].mod = i]
        BY <2>3
      <3>2. call'[g] = [call[g] EXCEPT !.at = "unload", !.ctx = owner[i], !.mod = i]
        BY <1>1, <3>1
      <3>3. /\ call'[g].at = "unload" /\ call'[g].mod = i
            /\ call'[g].ctx = owner[i]
        BY <1>1, <3>2 DEF Calls
      <3>. QED
        BY <3>3 DEF Modules
    <2>. QED
      BY <1>5, <2>1, <2>2, <2>3 DEF Call
  <1>6. ASSUME Close(g)
        PROVE  /\ call'[g].at = "walk" /\ call'[g].ctx = call[g].ctx
               /\ call'[g].mod = call[g].mod
               /\ call'[g].rest = modules[call[g].ctx]
    <2>1. call'[g] = [call[g] EXCEPT !.at = "walk", !.rest = modules[call[g].ctx]]
      BY <1>1, <1>6 DEF Close
    <2>. QED
      BY <1>1, <2>1 DEF Calls
  <1>7. ASSUME CloseNext(g)
        PROVE  /\ call'[g].at = IF Last(call[g].rest) \in handle THEN "bindWalk"
                    ELSE "walk"
               /\ call'[g].ctx = call[g].ctx
               /\ call'[g].mod = Last(call[g].rest)
               /\ call'[g].rest = Front(call[g].rest)
    <2> DEFINE where == IF Last(call[g].rest) \in handle THEN "bindWalk" ELSE "walk"
               i == Last(call[g].rest)
    <2>1. call' = [call EXCEPT ![g].rest = Front(@), ![g].mod = i, ![g].at = where]
      BY <1>7 DEF CloseNext
    <2>. HIDE DEF where, i
    <2>2. call'[g] = [call[g] EXCEPT !.rest = Front(@), !.mod = i, !.at = where]
      BY <1>1, <2>1
    <2>3. /\ call'[g].at = where /\ call'[g].ctx = call[g].ctx /\ call'[g].mod = i
          /\ call'[g].rest = Front(call[g].rest)
      BY <1>1, <2>2 DEF Calls
    <2>. QED
      BY <2>3 DEF where, i
  <1>. QED
    BY <1>2, <1>3, <1>4, <1>5, <1>6, <1>7

(* ... the other calls stay where they are. *)
LEMMA OthersStay ==
  ASSUME IInv, NEW g \in Goroutine, NewContext(g) \/ Call(g) \/ Step(g)
  PROVE  \A h \in Goroutine \ {g} : call'[h] = call[h]
  <1>. USE DEF IInv, TypeOK, At, Binds, Goto, Return
  <1>1. CASE NewContext(g)
    BY <1>1 DEF NewContext, Unmade
  <1>2. CASE Call(g)
    BY <1>2 DEF Call
  <1>3. CASE Retain(g)
    BY <1>3 DEF Retain, Refuse
  <1>4. CASE CheckPoison(g)
    BY <1>4 DEF CheckPoison, Refuse
  <1>5. CASE ReadAttributes(g)
    BY <1>5 DEF ReadAttributes, Refuse
  <1>6. CASE TryBind(g)
    BY <1>6 DEF TryBind
  <1>7. CASE Use(g)
    BY <1>7 DEF Use, Bind, Poison
  <1>8. CASE Served(g)
    BY <1>8 DEF Served, Acquire
  <1>9. CASE Build(g)
    BY <1>9 DEF Build, Acquire, Lock
  <1>10. CASE Built(g)
    BY <1>10 DEF Built
  <1>11. CASE BindLoad(g)
    BY <1>11 DEF BindLoad, Bind
  <1>12. CASE LoadFails(g)
    BY <1>12 DEF LoadFails, Poison, Unlock
  <1>13. CASE Loaded(g)
    BY <1>13 DEF Loaded, Unlock
  <1>14. CASE Unload(g)
    BY <1>14 DEF Unload, Acquire, Forget, Lock
  <1>15. CASE BindUnload(g)
    BY <1>15 DEF BindUnload, Bind
  <1>16. CASE Unloaded(g)
    BY <1>16 DEF Unloaded, Dropped, Kept, Poison, Unlock
  <1>17. CASE CloseAgain(g)
    BY <1>17 DEF CloseAgain, Acquire
  <1>18. CASE Close(g)
    BY <1>18 DEF Close, Acquire, Lock
  <1>19. CASE CloseNext(g)
    BY <1>19 DEF CloseNext
  <1>20. CASE CloseBind(g)
    BY <1>20 DEF CloseBind, Bind
  <1>21. CASE CloseUnloaded(g)
    BY <1>21 DEF CloseUnloaded, Dropped, Kept, Poison
  <1>22. CASE CloseRelease(g)
    BY <1>22 DEF CloseRelease, Unlock
  <1>. QED
    BY <1>1, <1>2, <1>3, <1>4, <1>5, <1>6, <1>7, <1>8, <1>9, <1>10, <1>11, <1>12, <1>13,
       <1>14, <1>15, <1>16, <1>17, <1>18, <1>19, <1>20, <1>21, <1>22
    DEF Step

(* The calls keep their types, ... *)
LEMMA CallTypes ==
  ASSUME IInv, NEW g \in Goroutine, NewContext(g) \/ Call(g) \/ Step(g)
  PROVE  call' \in [Goroutine -> Calls]
  <1>. USE DEF At, Binds, Acquire
  <1>a. /\ call \in [Goroutine -> Calls] /\ call[g] \in Calls
        /\ modules \in [Ctx -> Seq(Modules)] /\ owner \in Seq(Ctx)
    BY DEF IInv, TypeOK
  <1>b. ASSUME NEW r \in Calls, call' = [call EXCEPT ![g] = r]
        PROVE  call' \in [Goroutine -> Calls]
    BY <1>a, <1>b
  <1>c. Return(g) => call' \in [Goroutine -> Calls]
    BY <1>a DEF Return, Idle, Calls
  <1>d. ASSUME NEW where \in {"idle"} \cup Making \cup Working, Goto(g, where)
        PROVE  call' \in [Goroutine -> Calls]
    <2>1. [call[g] EXCEPT !.at = where] \in Calls
      BY <1>a DEF Calls
    <2>2. call' = [call EXCEPT ![g] = [call[g] EXCEPT !.at = where]]
      BY <1>a, <1>d DEF Goto
    <2>. QED
      BY <1>a, <2>1, <2>2
  <1>1. CASE NewContext(g)
    <2> DEFINE c == CHOOSE u \in Unmade : TRUE
    <2>1. c \in Ctx /\ call' = [call EXCEPT ![g].at = "retain", ![g].ctx = c]
      BY <1>1 DEF NewContext, Unmade
    <2>. HIDE DEF c
    <2>2. [call[g] EXCEPT !.at = "retain", !.ctx = c] \in Calls
      BY <1>a, <2>1 DEF Calls, Making
    <2>. QED
      BY <1>a, <2>1, <2>2
  <1>2. CASE Call(g)
    <2>1. CASE \E c \in Ctx, where \in {"close", "bindUse"} :
                 call' = [call EXCEPT ![g].at = where, ![g].ctx = c]
      <3>1. PICK c \in Ctx, where \in {"close", "bindUse"} :
                 call' = [call EXCEPT ![g].at = where, ![g].ctx = c]
        BY <2>1
      <3>2. [call[g] EXCEPT !.at = where, !.ctx = c] \in Calls
        BY <1>a DEF Calls, Working
      <3>. QED
        BY <1>a, <3>1, <3>2
    <2>2. CASE \E c \in Ctx, k \in Key \cup {NoKey} :
                 call' = [call EXCEPT ![g].at = "load", ![g].ctx = c, ![g].key = k]
      <3>1. PICK c \in Ctx, k \in Key \cup {NoKey} :
                 call' = [call EXCEPT ![g].at = "load", ![g].ctx = c, ![g].key = k]
        BY <2>2
      <3>2. [call[g] EXCEPT !.at = "load", !.ctx = c, !.key = k] \in Calls
        BY <1>a DEF Calls, Working
      <3>. QED
        BY <1>a, <3>1, <3>2
    <2>3. CASE \E i \in DOMAIN owner :
          call' = [call EXCEPT ![g].at = "unload", ![g].ctx = owner[i], ![g].mod = i]
      <3>1. PICK i \in DOMAIN owner :
          call' = [call EXCEPT ![g].at = "unload", ![g].ctx = owner[i], ![g].mod = i]
        BY <2>3
      <3> DEFINE c == owner[i]
      <3>2. c \in Ctx
        BY <1>a
      <3>. HIDE DEF c
      <3>3. [call[g] EXCEPT !.at = "unload", !.ctx = c, !.mod = i] \in Calls
        BY <1>a, <3>2 DEF Calls, Working, Modules
      <3>4. call' =
              [call EXCEPT ![g] =
                [call[g] EXCEPT !.at = "unload", !.ctx = c, !.mod = i]]
        BY <1>a, <3>1 DEF c
      <3>. QED
        BY <1>b, <3>3, <3>4
    <2>. QED
      BY <1>2, <2>1, <2>2, <2>3 DEF Call
  <1>3. CASE Retain(g) \/ CheckPoison(g) \/ ReadAttributes(g) \/ TryBind(g)
    BY <1>3, <1>c, <1>d DEF Retain, CheckPoison, ReadAttributes, TryBind, Refuse, Making
  <1>4. CASE Use(g)
    BY <1>4, <1>c, <1>d DEF Use, Bind, Working
  <1>5. CASE Served(g) \/ LoadFails(g) \/ Loaded(g) \/ Unloaded(g) \/ CloseAgain(g) \/
               CloseRelease(g)
    BY <1>5, <1>c
    DEF Served, LoadFails, Loaded, Unloaded, Dropped, Kept, CloseAgain, CloseRelease
  <1>6. CASE Build(g) \/ Built(g) \/ BindLoad(g) \/ BindUnload(g) \/ CloseBind(g) \/
               CloseUnloaded(g)
    BY <1>6, <1>d
    DEF Build, Built, BindLoad, BindUnload, CloseBind, CloseUnloaded, Dropped, Kept, Bind,
        Working,
        Holding
  <1>7. CASE Unload(g)
    BY <1>7, <1>c, <1>d DEF Unload, Working, Holding
  <1>8. CASE Close(g)
    <2> DEFINE rest == modules[call[g].ctx]
    <2>1. /\ call[g].at = "close"
          /\ call' = [call EXCEPT ![g].at = "walk", ![g].rest = rest]
      BY <1>8 DEF Close
    <2>2. rest \in Seq(Modules)
      BY <2>1, <1>a DEF IInv, MakersAndUsers, Working
    <2>. HIDE DEF rest
    <2>3. [call[g] EXCEPT !.at = "walk", !.rest = rest] \in Calls
      BY <1>a, <2>2 DEF Calls, Working, Holding
    <2>. QED
      BY <1>a, <2>1, <2>3
  <1>9. CASE CloseNext(g)
    <2> DEFINE rest == Front(call[g].rest)
               i == Last(call[g].rest)
               where == IF i \in handle THEN "bindWalk" ELSE "walk"
    <2>1. /\ call[g].rest # <<>>
          /\ call' = [call EXCEPT ![g].rest = Front(@), ![g].mod = i, ![g].at = where]
      BY <1>9 DEF CloseNext
    <2>2. call[g].rest \in Seq(Modules)
      BY <1>a DEF Calls
    <2>3. rest \in Seq(Modules) /\ i \in Modules /\ where \in Working
      BY <2>1, <2>2, FrontKeeps DEF Working, Holding
    <2>. HIDE DEF rest, i, where
    <2>4. [call[g] EXCEPT !.rest = rest, !.mod = i, !.at = where] \in Calls
      BY <1>a, <2>3 DEF Calls
    <2>5. call' =
            [call EXCEPT ![g] = [call[g] EXCEPT !.rest = rest, !.mod = i, !.at = where]]
      BY <1>a, <2>1 DEF rest
    <2>. QED
      BY <1>b, <2>4, <2>5
  <1>. QED
    BY <1>1, <1>2, <1>3, <1>4, <1>5, <1>6, <1>7, <1>8, <1>9 DEF Step

(* ... only a few steps write the other variables, ... *)
LEMMA Writes ==
  ASSUME NEW g \in Goroutine, NewContext(g) \/ Call(g) \/ Step(g), poisoned => faulted
  PROVE  /\ refs' \in {refs, refs + 1} \/ (CloseRelease(g) /\ refs' = refs - 1)
         /\ faulted' = faulted /\ (poisoned' => faulted)
         /\ \/ owner' = owner /\ resident' \subseteq resident /\ handle' \subseteq handle
            \/ Loaded(g)
         /\ \/ stuck' = stuck
            \/ call[g].at \in Unloading /\ stuck' = stuck \cup {call[g].mod}
         /\ closed' = closed \/ closed' = [closed EXCEPT ![call[g].ctx] = TRUE]
         /\ mu' = mu \/ Lock(g) \/ Unlock(g)
         /\ modules' = modules \/ Loaded(g) \/ Unload(g) \/ CloseRelease(g)
         /\ cache' = cache \/ Loaded(g) \/ Unload(g) \/ CloseRelease(g)
  <1>. USE DEF device, fields
  <1>1. CASE NewContext(g) \/ Call(g)
    <2>. UNCHANGED <<device, poisoned, owner, fields, mu, stuck>>
      BY <1>1, Zenon DEF NewContext, Call
    <2>. QED
      OBVIOUS
  <1>2. CASE Retain(g) \/ CheckPoison(g) \/ ReadAttributes(g) \/ TryBind(g)
    <2>1. CASE Retain(g)
      <3>1. UNCHANGED <<resident, faulted, owner, fields, mu, stuck>>
        BY <2>1 DEF Retain
      <3>2. refs' \in {refs, refs + 1} /\ (poisoned' => faulted)
        BY <2>1 DEF Retain
      <3>. QED
        BY <3>1, <3>2
    <2>2. CASE CheckPoison(g) \/ ReadAttributes(g) \/ TryBind(g)
      <3>1. UNCHANGED <<device, poisoned, owner, fields, mu, stuck>>
        BY <2>2, Zenon DEF CheckPoison, ReadAttributes, TryBind
      <3>. QED
        BY <3>1
    <2>. QED
      BY <1>2, <2>1, <2>2
  <1>3. CASE Use(g) \/ Served(g) \/ Built(g) \/ BindLoad(g) \/ BindUnload(g) \/
               CloseBind(g)
    BY <1>3 DEF Use, Served, Built, BindLoad, BindUnload, CloseBind, Bind, Poison
  <1>4. CASE Build(g) \/ LoadFails(g) \/ Unloaded(g) \/ CloseUnloaded(g)
    BY <1>4
    DEF Build, LoadFails, Unloaded, CloseUnloaded, Dropped, Kept, Poison, At, Binds, Unloading
  <1>5. CASE Loaded(g)
    BY <1>5 DEF Loaded
  <1>6. CASE Unload(g)
    BY <1>6 DEF Unload
  <1>7. CASE CloseAgain(g) \/ Close(g) \/ CloseNext(g)
    BY <1>7 DEF CloseAgain, Close, CloseNext
  <1>8. CASE CloseRelease(g)
    BY <1>8 DEF CloseRelease
  <1>. QED
    BY <1>1, <1>2, <1>3, <1>4, <1>5, <1>6, <1>7, <1>8 DEF Step

(* ... and these keep theirs. *)
LEMMA TypeStep ==
  ASSUME IInv, NEW g \in Goroutine, NewContext(g) \/ Call(g) \/ Step(g)
  PROVE  TypeOK'
  <1>. USE DEF At, Binds, Acquire
  <1> DEFINE c == call[g].ctx
             Statuses == {"none", "making", "refused", "beside an error", "live"}
             new == Len(owner) + 1
  <1>1. /\ refs' \in {refs, refs + 1} \/ (CloseRelease(g) /\ refs' = refs - 1)
        /\ faulted' = faulted /\ (poisoned' => faulted)
        /\ (owner' = owner /\ resident' \subseteq resident /\
             handle' \subseteq handle) \/ Loaded(g)
        /\ stuck' = stuck \/ (call[g].at \in Unloading /\ stuck' = stuck \cup {call[g].mod})
        /\ closed' = closed \/ closed' = [closed EXCEPT ![c] = TRUE]
        /\ mu' = mu \/ Lock(g) \/ Unlock(g)
        /\ modules' = modules \/ Loaded(g) \/ Unload(g) \/ CloseRelease(g)
        /\ cache' = cache \/ Loaded(g) \/ Unload(g) \/ CloseRelease(g)
    BY Writes DEF IInv, TypeOK
  <1>2. owner \in Seq(Ctx)
    BY DEF IInv, TypeOK
  <1>3. call[g].at \in Working \cup Making => c \in Ctx
    BY DEF IInv, MakersAndUsers
  <1>4. /\ owner' \in Seq(Ctx) /\ Modules \subseteq Modules'
        /\ Loaded(g) => new \in Modules'
    <2>1. CASE owner' = owner /\ ~ Loaded(g)
      BY <2>1, <1>2 DEF Modules
    <2>2. CASE Loaded(g)
      <3>1. owner' = Append(owner, c) /\ c \in Ctx
        BY <2>2, <1>3 DEF Loaded, Working, Holding
      <3>. QED
        BY <3>1, <1>2 DEF Modules
    <2>. QED
      BY <1>1, <2>1, <2>2
  <1>5. refs' \in Nat
    <2>1. refs \in Nat
      BY DEF IInv, TypeOK
    <2>2. CASE CloseRelease(g)
      <3>1. call[g].at = "walk" /\ refs' \in {refs, refs - 1}
        BY <2>2 DEF CloseRelease
      <3>2. c \in Ctx /\ mu[c] = g /\ status[c] = "live"
        BY <3>1, <1>3 DEF IInv, Exclusive, MakersAndUsers, Working, Holding
      <3>3. c \in Retained
        BY <3>2, NobodyAssumption DEF Retained
      <3>4. IsFiniteSet(Retained)
        <4>1. Retained \subseteq Ctx
          BY DEF Retained
        <4>. QED
          BY <4>1, CtxAssumption, SubsetsCountLess
      <3>5. Cardinality(Retained) \in Nat \ {0}
        BY <3>3, <3>4, SomeCount
      <3>6. Cardinality(Retained) <= refs
        BY DEF IInv, RetainsCounted
      <3>. QED
        BY <3>1, <3>5, <3>6, <2>1
    <2>3. CASE refs' \in {refs, refs + 1}
      BY <2>1, <2>3
    <2>. QED
      BY <1>1, <2>2, <2>3
  <1>6. faulted' \in BOOLEAN /\ (poisoned' => faulted')
    BY <1>1 DEF IInv, TypeOK
  <1>7. resident' \subseteq Modules' /\ handle' \subseteq Modules'
    <2>1. resident \subseteq Modules /\ handle \subseteq Modules
      BY DEF IInv, TypeOK
    <2>2. CASE Loaded(g)
      <3>1. resident' = resident \cup {new} /\ handle' = handle \cup {new}
        BY <2>2 DEF Loaded
      <3>. QED
        BY <2>1, <2>2, <3>1, <1>4
    <2>3. CASE resident' \subseteq resident /\ handle' \subseteq handle
      BY <2>1, <2>3, <1>4
    <2>. QED
      BY <1>1, <2>2, <2>3
  <1>15. stuck' \subseteq Modules'
    <2>1. stuck \subseteq Modules
      BY DEF IInv, TypeOK
    <2>2. call[g].at \in Unloading => call[g].mod \in Modules
      BY DEF IInv, OwnModules
    <2>. QED
      BY <1>1, <1>4, <2>1, <2>2
  <1>8. status' \in [Ctx -> Statuses]
    <2>1. status \in [Ctx -> Statuses]
      BY DEF IInv, TypeOK
    <2>2. CASE status' = status
      BY <2>1, <2>2
    <2>3. CASE NewContext(g)
      <3>1. status' = [status EXCEPT ![CHOOSE u \in Unmade : TRUE] = "making"]
        BY <2>3 DEF NewContext
      <3>. QED
        BY <2>1, <3>1
    <2>4. CASE Retain(g) \/ CheckPoison(g) \/ ReadAttributes(g) \/ TryBind(g)
      <3>1. \/ status' = status \/ status' = [status EXCEPT ![c] = "refused"]
            \/ \E outcome \in {"beside an error", "live"} :
                 status' = [status EXCEPT ![c] = outcome]
        BY <2>4 DEF Retain, CheckPoison, ReadAttributes, TryBind, Refuse
      <3>. QED
        BY <2>1, <3>1
    <2>5. CASE Call(g)
      BY <2>1, <2>5 DEF Call
    <2>6. CASE Use(g) \/ Served(g) \/ Build(g) \/ Built(g) \/ BindLoad(g) \/
                 LoadFails(g) \/ Loaded(g)
      BY <2>1, <2>6 DEF Use, Served, Build, Built, BindLoad, LoadFails, Loaded, Bind
    <2>7. CASE Unload(g) \/ BindUnload(g) \/ Unloaded(g) \/ CloseAgain(g) \/ Close(g)
      BY <2>1, <2>7 DEF Unload, BindUnload, Unloaded, Dropped, Kept, CloseAgain, Close, Bind
    <2>8. CASE CloseNext(g) \/ CloseBind(g) \/ CloseUnloaded(g) \/ CloseRelease(g)
      BY <2>1, <2>8 
      DEF CloseNext, CloseBind, CloseUnloaded, Dropped, Kept, CloseRelease, Bind
    <2>. QED
      BY <2>2, <2>3, <2>4, <2>5, <2>6, <2>7, <2>8 DEF Step
  <1>9. closed' \in [Ctx -> BOOLEAN]
    <2>1. closed \in [Ctx -> BOOLEAN]
      BY DEF IInv, TypeOK
    <2>. QED
      BY <1>1, <2>1
  <1>10. mu' \in [Ctx -> Goroutine \cup {Nobody}]
    <2>1. mu \in [Ctx -> Goroutine \cup {Nobody}]
      BY DEF IInv, TypeOK
    <2>. QED
      BY <1>1, <2>1 DEF Lock, Unlock
  <1>. HIDE DEF new
  <1>11. Seq(Modules) \subseteq Seq(Modules')
    BY <1>4
  <1>12. modules' \in [Ctx -> Seq(Modules')]
    <2>1. modules \in [Ctx -> Seq(Modules)]
      BY DEF IInv, TypeOK
    <2>2. modules \in [Ctx -> Seq(Modules')]
      BY <1>11, <2>1
    <2>3. CASE Loaded(g)
      <3>1. modules' = [modules EXCEPT ![c] = Append(@, new)]
        BY <2>3 DEF Loaded, new
      <3>2. c \in Ctx /\ Append(modules[c], new) \in Seq(Modules')
        BY <1>3, <1>4, <2>2, <2>3 DEF Loaded, Working, Holding
      <3>. QED
        BY <2>2, <3>1, <3>2
    <2>4. CASE Unload(g)
      <3>1. modules' = [modules EXCEPT ![c] = RemoveFirst(@, call[g].mod)]
        BY <2>4 DEF Unload, Forget
      <3>. QED
        BY <2>2, <3>1, Removed
    <2>5. CASE CloseRelease(g)
      <3>1. modules' = [modules EXCEPT ![c] = <<>>]
        BY <2>5 DEF CloseRelease
      <3>2. <<>> \in Seq(Modules')
        OBVIOUS
      <3>. QED
        BY <2>2, <3>1, <3>2
    <2>. QED
      BY <1>1, <2>2, <2>3, <2>4, <2>5
  <1>13. cache' \in [Ctx -> [Key -> {NoModule} \cup Modules']]
    <2>1. cache \in [Ctx -> [Key -> {NoModule} \cup Modules]]
      BY DEF IInv, TypeOK
    <2>2. cache \in [Ctx -> [Key -> {NoModule} \cup Modules']]
      BY <1>4, <2>1
    <2>3. CASE Loaded(g)
      <3>1. cache' = IF call[g].key = NoKey THEN cache
              ELSE [cache EXCEPT ![c][call[g].key] = new]
        BY <2>3 DEF Loaded, new
      <3> DEFINE row == [cache[c] EXCEPT ![call[g].key] = new]
      <3>2. cache' = cache \/ cache' = [cache EXCEPT ![c] = row]
        BY <3>1
      <3>3. c \in Ctx /\ row \in [Key -> {NoModule} \cup Modules']
        BY <1>3, <1>4, <2>2, <2>3 DEF Loaded, Working, Holding
      <3> DEFINE Rows == [Key -> {NoModule} \cup Modules']
      <3>4. cache \in [Ctx -> Rows] /\ row \in Rows
        BY <2>2, <3>3
      <3>. HIDE DEF row, Rows
      <3>5. cache' \in [Ctx -> Rows]
        BY <3>2, <3>3, <3>4
      <3>. QED
        BY <3>5 DEF Rows
    <2>4. CASE Unload(g)
      <3>1. cache' = [cache EXCEPT ![c] =
                        [k \in Key |-> IF @[k] = call[g].mod THEN NoModule ELSE @[k]]]
        BY <2>4 DEF Unload, Forget
      <3>. QED
        BY <2>2, <3>1
    <2>5. CASE CloseRelease(g)
      <3>1. cache' = [cache EXCEPT ![c] = [k \in Key |-> NoModule]]
        BY <2>5 DEF CloseRelease
      <3>. QED
        BY <2>2, <3>1
    <2>. QED
      BY <1>1, <2>2, <2>3, <2>4, <2>5
  <1>14. call' \in [Goroutine -> Calls']
    <2>1. call' \in [Goroutine -> Calls]
      BY CallTypes
    <2>2. Calls \subseteq Calls'
      BY <1>4, <1>11 DEF Calls
    <2>. QED
      BY <2>1, <2>2
  <1>. QED
    BY <1>4, <1>5, <1>6, <1>7, <1>8, <1>9, <1>10, <1>12, <1>13, <1>14,
       <1>15, Zenon DEF TypeOK

(* A call that stays in a finished context, or returns, ... *)
LEMMA MakersWork ==
  ASSUME IInv, NEW g \in Goroutine, \A h \in Goroutine \ {g} : call'[h] = call[h],
         call[g].at \in Working \cup {"idle"}, call'[g].at \in Working \cup {"idle"},
         call'[g].at \in Working =>
           call'[g].ctx \in Ctx /\ status[call'[g].ctx] = "live",
         UNCHANGED <<owner, status>>
  PROVE  MakersAndUsers'
  <1>1. MakersAndUsers BY DEF IInv
  <1>2. \A g1 \in Goroutine : call'[g1].at \in Making =>
          g1 # g /\ call[g1].at \in Making /\ call'[g1].ctx = call[g1].ctx
    BY DEF Making, Working, Holding
  <1>3. \A g1 \in Goroutine : call'[g1].at \in Working =>
          call'[g1].ctx \in Ctx /\ status[call'[g1].ctx] = "live"
    BY <1>1 DEF MakersAndUsers
  <1>. QED
  BY <1>1, <1>2, <1>3 DEF MakersAndUsers, Modules

(* ... and one that makes a context, has that context for itself. *)
LEMMA MakersStep ==
  ASSUME IInv, NEW g \in Goroutine, NewContext(g) \/ Call(g) \/ Step(g)
  PROVE  MakersAndUsers'
  <1>. USE DEF At, Binds
  <1>a. /\ TypeOK /\ MakersAndUsers
        /\ \A h \in Goroutine \ {g} : call'[h] = call[h]
        /\ \A where : Goto(g, where) => call'[g].at = where /\ Keeps(g)
        /\ Return(g) => call'[g].at = "idle"
    BY Moves, OthersStay DEF IInv
  <1>o. \A i \in Modules : owner[i] \in Ctx
    <2>1. owner \in Seq(Ctx)
      BY <1>a DEF TypeOK
    <2>. QED
      BY <2>1 DEF Modules
  <1>b. call[g].at \in Working /\ call'[g].at \in Working \cup {"idle"} /\ Keeps(g) 
         /\ UNCHANGED <<owner, status>> => MakersAndUsers'
    BY <1>a, MakersWork DEF Keeps, MakersAndUsers
  <1>c. call[g].at \in Working /\ call'[g].at = "idle"
         /\ UNCHANGED <<owner, status>> => MakersAndUsers'
    BY <1>a, MakersWork DEF Working, Holding
  <1>1. CASE NewContext(g)
    <2> DEFINE c == CHOOSE u \in Unmade : TRUE
    <2>1. c \in Ctx /\ status[c] = "none"
      BY <1>1 DEF NewContext, Unmade
    <2>2. /\ call'[g].at = "retain" /\ call'[g].ctx = c
          /\ status' = [status EXCEPT ![c] = "making"]
          /\ owner' = owner
      BY <1>1, <1>a, Moves DEF NewContext
    <2>. HIDE DEF c
    <2>3. \A d \in Ctx : status'[d] = IF d = c THEN "making" ELSE status[d]
      BY <2>1, <2>2, <1>a DEF TypeOK
    <2>4. \A h \in Goroutine : call[h].at \in Making \cup Working => call[h].ctx # c
      BY <2>1, <1>a DEF MakersAndUsers
    <2>. QED
      BY <2>1, <2>2, <2>3, <2>4, <1>o, <1>a
      DEF MakersAndUsers, Making, Working, Holding, Modules
  <1>2. CASE Call(g)
    <2>1. /\ call[g].at = "idle" /\ call'[g].at \in Working /\ call'[g].ctx \in Ctx
          /\ status[call'[g].ctx] = "live"
      <3>1. /\ call[g].at = "idle"
            /\ \/ /\ call'[g].at \in {"close", "bindUse", "load"}
                  /\ call'[g].ctx \in Ctx /\ status[call'[g].ctx] = "live"
               \/ /\ call'[g].at = "unload" /\ call'[g].mod \in Modules
                  /\ call'[g].ctx = owner[call'[g].mod]
        BY <1>2, <1>a, Moves DEF Call
      <3>. QED
        BY <3>1, <1>a, <1>o DEF Working, MakersAndUsers
    <2>. QED
      BY <1>2, <1>a, <2>1, MakersWork DEF Call, fields
  <1>3. CASE Retain(g) \/ CheckPoison(g) \/ ReadAttributes(g) \/ TryBind(g)
    <2>1. /\ call[g].at \in Making /\ owner' = owner
          /\ \/ call'[g].at \in Making /\ Keeps(g) /\ status' = status
             \/ /\ call'[g].at = "idle"
                /\ \E s \in {"refused", "beside an error", "live"} :
                     status' = [status EXCEPT ![call[g].ctx] = s]
      BY <1>a, <1>3 DEF Retain, CheckPoison, ReadAttributes, TryBind, Refuse, Making
    <2>2. CASE call'[g].at \in Making /\ Keeps(g) /\ status' = status
      <3>1. \A h \in Goroutine : /\ call'[h].at \in Making <=> call[h].at \in Making
                                 /\ call'[h].at \in Working <=> call[h].at \in Working
                                 /\ call'[h].ctx = call[h].ctx
        BY <1>a, <2>1, <2>2 DEF Keeps, Making, Working, Holding
      <3>2. MakersAndUsers /\ owner' = owner /\ status' = status
        BY <1>a, <2>1, <2>2
      <3>. QED
        BY ONLY <3>1, <3>2 DEF MakersAndUsers, Modules
    <2>3. CASE /\ call'[g].at = "idle"
               /\ \E s \in {"refused", "beside an error", "live"} :
                     status' = [status EXCEPT ![call[g].ctx] = s]
      <3>1. \A d \in Ctx : d # call[g].ctx => status'[d] = status[d]
        BY <2>3, <1>a DEF TypeOK
      <3>2. /\ status[call[g].ctx] = "making"
            /\ \A h \in Goroutine \ {g} : call[h].at \in Making \cup Working =>
                 call[h].ctx # call[g].ctx
        BY <2>1, <1>a DEF MakersAndUsers
      <3>3. \A i \in Modules : owner[i] # call[g].ctx
        BY <3>2, <1>a DEF MakersAndUsers
      <3>4. \A h \in Goroutine : call'[h].at \in Making \cup Working =>
              h # g /\ call'[h] = call[h]
        BY <1>a, <2>3 DEF Making, Working, Holding
      <3>. QED
        <4>1. \A h \in Goroutine : 
                /\ call'[h].at \in Making =>
                     call'[h].ctx \in Ctx /\ status'[call'[h].ctx] = "making"
                /\ call'[h].at \in Working =>
                     call'[h].ctx \in Ctx /\ status'[call'[h].ctx] = "live"
          BY <1>a, <3>1, <3>2, <3>4 DEF MakersAndUsers
        <4>2. \A h, j \in Goroutine : call'[h].at \in Making /\
                call'[j].at \in Making /\ call'[h].ctx = call'[j].ctx => h = j
          BY <1>a, <3>4 DEF MakersAndUsers
        <4>3. \A i \in Modules' : status'[owner'[i]] = "live"
          BY <1>a, <1>o, <2>1, <3>1, <3>3 DEF MakersAndUsers, Modules
        <4>. QED
          BY <4>1, <4>2, <4>3 DEF MakersAndUsers
    <2>. QED
      BY <2>1, <2>2, <2>3
  <1>5. CASE Loaded(g)
    <2>1. call[g].at = "loading" /\ call'[g].at = "idle" /\ status' = status /\
            owner' = Append(owner, call[g].ctx)
      BY <1>5, <1>a DEF Loaded
    <2>2. call[g].ctx \in Ctx /\ status[call[g].ctx] = "live"
      BY <2>1, <1>a DEF MakersAndUsers, Working, Holding
    <2>3. \A i \in Modules' : (i \in Modules /\ owner'[i] = owner[i]) \/
            owner'[i] = call[g].ctx
      <3>1. owner \in Seq(Ctx)
        BY <1>a DEF TypeOK
      <3>. QED
        BY <2>1, <2>2, <3>1 DEF Modules
    <2>4. \A i \in Modules' : status'[owner'[i]] = "live"
      BY <2>1, <2>2, <2>3, <1>a DEF MakersAndUsers
    <2>5. \A h \in Goroutine : call'[h].at \in Making \cup Working =>
              h # g /\ call'[h] = call[h]
      BY <1>a, <2>1 DEF Making, Working, Holding
    <2>. QED
      <3>1. \A h \in Goroutine : 
                /\ call'[h].at \in Making =>
                     call'[h].ctx \in Ctx /\ status'[call'[h].ctx] = "making"
                /\ call'[h].at \in Working =>
                     call'[h].ctx \in Ctx /\ status'[call'[h].ctx] = "live"
          BY <1>a, <2>1, <2>5 DEF MakersAndUsers
      <3>2. \A h, j \in Goroutine : call'[h].at \in Making /\ call'[j].at \in Making /\
              call'[h].ctx = call'[j].ctx => h = j
          BY <1>a, <2>5 DEF MakersAndUsers
      <3>. QED
          BY <3>1, <3>2, <2>4 DEF MakersAndUsers
  <1>6. CASE Use(g)
    <2>. call[g].at \in Working /\ UNCHANGED <<owner, status>> /\
           (call'[g].at = "idle" \/ (call'[g].at = "using" /\ Keeps(g)))
      <3>1. CASE Bind(g, "bindUse", "using")
        BY <1>a, <3>1 DEF Bind, Working
      <3>2. CASE /\ At(g, "using") \/ At(g, "bindUse")
                 /\ Return(g)
                 /\ UNCHANGED <<owner, status>>
        BY <1>a, <3>2 DEF Working
      <3>3. Bind(g, "bindUse", "using") \/ <3>2!1
        BY <1>6 DEF Use, Poison
      <3>. QED
        BY <3>1, <3>2, <3>3
    <2>. QED
      BY <1>b, <1>c DEF Working
  <1>7. CASE Served(g) \/ CloseAgain(g)
    BY <1>a, <1>c, <1>7 DEF Served, CloseAgain, Acquire, Working
  <1>8. CASE Build(g)
    BY <1>a, <1>b, <1>8 DEF Build, Acquire, Working, Holding
  <1>9. CASE Built(g)
    BY <1>a, <1>b, <1>9 DEF Built, Working, Holding
  <1>10. CASE BindLoad(g) \/ BindUnload(g) \/ CloseBind(g)
    BY <1>a, <1>b, <1>10 DEF BindLoad, BindUnload, CloseBind, Bind, Working, Holding
  <1>11. CASE LoadFails(g) \/ Unloaded(g) \/ CloseRelease(g)
    BY <1>a, <1>c, <1>11
    DEF LoadFails, Unloaded, Dropped, Kept, CloseRelease, Poison, Working, Holding
  <1>12. CASE Unload(g)
    BY <1>a, <1>b, <1>c, <1>12 DEF Unload, Acquire, Working, Holding
  <1>13. CASE Close(g)
    <2>. call[g].at = "close" /\ call'[g].at = "walk" /\ call'[g].ctx = call[g].ctx
         /\ UNCHANGED <<owner, status>>
      BY <1>a, <1>13, Moves DEF Close, Acquire
    <2>. QED
      BY <1>a, MakersWork DEF MakersAndUsers, Working, Holding
  <1>14. CASE CloseNext(g)
    <2>. call[g].at = "walk" /\ call'[g].at \in {"walk", "bindWalk"} /\
           call'[g].ctx = call[g].ctx
         /\ UNCHANGED <<owner, status>>
      BY <1>a, <1>14, Moves DEF CloseNext
    <2>. QED
      BY <1>a, MakersWork DEF MakersAndUsers, Working, Holding
  <1>15. CASE CloseUnloaded(g)
    BY <1>a, <1>b, <1>15 DEF CloseUnloaded, Dropped, Kept, Poison, Working, Holding
  <1>. QED
    BY <1>1, <1>2, <1>3, <1>5, <1>6, <1>7, <1>8, <1>9, <1>10, <1>11, <1>12, <1>13,
       <1>14, <1>15
    DEF Step

(* The mutex is taken when free, kept, or given back by its holder. *)
LEMMA ExclusiveStep ==
  ASSUME IInv, NEW g \in Goroutine, NewContext(g) \/ Call(g) \/ Step(g)
  PROVE  Exclusive'
  <1>. USE DEF At, Binds
  <1> DEFINE c == call[g].ctx
  <1>a. /\ TypeOK /\ MakersAndUsers /\ Exclusive
        /\ \A h \in Goroutine \ {g} : call'[h] = call[h]
        /\ \A where : Goto(g, where) => call'[g].at = where /\ Keeps(g)
        /\ Return(g) => call'[g].at = "idle"
    BY Moves, OthersStay DEF IInv
  <1>b. /\ \A d \in Ctx : mu[d] = Nobody \/ mu[d] \in Goroutine
        /\ \A d \in Ctx : closed[d] \in BOOLEAN
    BY <1>a DEF TypeOK
  <1>c. call[g].at \in Working => call[g].ctx \in Ctx
    BY <1>a DEF MakersAndUsers
  <1>d. Unlock(g) /\ c \in Ctx => mu'[c] = Nobody /\ \A d \in Ctx \ {c} : mu'[d] = mu[d]
    BY <1>a DEF Unlock, TypeOK
  <1>e. Lock(g) /\ c \in Ctx => mu'[c] = g /\ \A d \in Ctx \ {c} : mu'[d] = mu[d]
    BY <1>a DEF Lock, TypeOK
  <1>f. ASSUME call[g].at \notin Holding, call'[g].at \notin Holding, mu' = mu,
                 closed' = closed
        PROVE  Exclusive'
    <2>1. \A d \in Ctx : mu'[d] # Nobody => mu'[d] \in Goroutine \ {g}
      BY <1>f, <1>a, <1>b DEF Exclusive
    <2>2. \A h \in Goroutine : call'[h].at \in Holding => h \in Goroutine \ {g}
      BY <1>f
    <2>. QED
      BY <1>a, <1>f, <2>1, <2>2 DEF Exclusive
  <1>g. ASSUME call[g].at \in Holding, call'[g].at \in Holding, mu' = mu,
                 closed' = closed,
               call'[g].ctx = call[g].ctx, call[g].at \in Walking <=>
                 call'[g].at \in Walking
        PROVE  Exclusive'
    <2>1. \A d \in Ctx : mu'[d] # Nobody => /\ call'[mu'[d]].ctx = d
                                            /\ call'[mu'[d]].at \in Holding
      BY <1>a, <1>b, <1>g DEF Exclusive
    <2>2. \A h \in Goroutine : call'[h].at \in Holding =>
            /\ call[h].at \in Holding /\ call'[h].ctx = call[h].ctx
            /\ call[h].at \in Walking <=> call'[h].at \in Walking
      BY <1>a, <1>g
    <2>. QED
      BY <1>a, <1>g, <2>1, <2>2 DEF Exclusive
  <1>h. ASSUME call[g].at \in Holding, call'[g].at \notin Holding, Unlock(g),
                 closed' = closed
        PROVE  Exclusive'
    <2>1. c \in Ctx /\ mu[c] = g
      BY <1>a, <1>c, <1>h DEF Exclusive, Working
    <2>2. \A d \in Ctx : mu'[d] # Nobody =>
            d # c /\ mu'[d] = mu[d] /\ mu[d] \in Goroutine \ {g}
      BY <2>1, <1>a, <1>b, <1>d, <1>h DEF Exclusive
    <2>3. \A h \in Goroutine : call'[h].at \in Holding =>
            h \in Goroutine \ {g} /\ call[h].ctx # c /\ call[h].ctx \in Ctx
      BY <2>1, <1>a, <1>h DEF Exclusive, MakersAndUsers, Working
    <2>. QED
      BY <1>a, <1>h, <1>d, <2>1, <2>2, <2>3 DEF Exclusive
  <1>i. ASSUME call[g].at \in Working \ Holding, call'[g].at \in Holding, Lock(g),
                 mu[c] = Nobody,
               call'[g].ctx = c,
               \A d \in Ctx \ {c} : closed'[d] = closed[d],
               closed'[c] <=> call'[g].at \in Walking
        PROVE  Exclusive'
    <2>1. c \in Ctx
      BY <1>c, <1>i
    <2>2. \A h \in Goroutine : call'[h].at \in Holding /\ h # g =>
            /\ call'[h] = call[h] /\ call[h].ctx # c /\ call[h].ctx \in Ctx
      BY <2>1, <1>a, <1>i, NobodyAssumption DEF Exclusive, MakersAndUsers, Working
    <2>3. \A d \in Ctx \ {c} : mu[d] # Nobody => mu[d] # g
      BY <1>a, <1>i DEF Exclusive
    <2>4. \A d \in Ctx : mu'[d] # Nobody =>
             call'[mu'[d]].ctx = d /\ call'[mu'[d]].at \in Holding
      BY <2>1, <2>3, <1>a, <1>b, <1>e, <1>i DEF Exclusive
    <2>5. \A h \in Goroutine : call'[h].at \in Holding =>
            /\ mu'[call'[h].ctx] = h
            /\ closed'[call'[h].ctx] <=> call'[h].at \in Walking
      BY <2>1, <2>2, <1>a, <1>e, <1>i DEF Exclusive
    <2>. QED
      BY <2>4, <2>5 DEF Exclusive
  <1>1. CASE NewContext(g) \/ Call(g)
    <2>1. /\ call[g].at = "idle" /\ mu' = mu /\ closed' = closed
          /\ call'[g].at \in {"retain", "close", "bindUse", "load", "unload"}
      BY <1>1, <1>a, Moves DEF NewContext, Call, fields
    <2>. QED
      BY <2>1, <1>f DEF Holding
  <1>2. CASE Retain(g) \/ CheckPoison(g) \/ ReadAttributes(g) \/ TryBind(g)
    <2>1. /\ call[g].at \in {"retain", "check", "attributes", "tryBind"} /\ mu' = mu /\
               closed' = closed
          /\ call'[g].at \in {"check", "attributes", "tryBind", "idle"}
      BY <1>2, <1>a DEF Retain, CheckPoison, ReadAttributes, TryBind, Refuse, fields
    <2>. QED
      BY <2>1, <1>f DEF Holding
  <1>3. CASE Use(g)
    <2>1. UNCHANGED <<mu, closed>> /\ call[g].at \in {"bindUse", "using"} /\
            call'[g].at \in {"using", "idle"}
      BY <1>3, <1>a DEF Use, Bind, Poison, fields
    <2>. QED
      BY <2>1, <1>f DEF Holding
  <1>4. CASE Served(g) \/ CloseAgain(g)
    <2>1. UNCHANGED <<mu, closed>> /\ call[g].at \in {"load", "close"} /\
            call'[g].at = "idle"
      BY <1>4, <1>a DEF Served, CloseAgain, Acquire, fields
    <2>. QED
      BY <2>1, <1>f DEF Holding
  <1>5. CASE Build(g)
    <2>1. closed' = closed /\ call[g].at = "load" /\
            call'[g].at \in {"bindLoad", "building"} /\ Lock(g)
           /\ ~ closed[c] /\ mu[c] = Nobody /\ call'[g].ctx = c
      BY <1>5, <1>a DEF Build, Acquire, fields, Keeps
    <2>. QED
      BY <2>1, <1>i DEF Holding, Working, Walking
  <1>6. CASE Built(g) \/ BindLoad(g) \/ BindUnload(g)
    <2>1. UNCHANGED <<mu, closed>> /\ call[g].at \in {"building", "bindLoad",
            "bindUnload"} /\ call'[g].at \in {"bindLoad", "loading", "unloading"}
          /\ call'[g].ctx = c
      BY <1>6, <1>a DEF Built, BindLoad, BindUnload, Bind, Keeps, fields
    <2>. QED
      BY <2>1, <1>g DEF Holding, Walking
  <1>7. CASE LoadFails(g) \/ Loaded(g) \/ Unloaded(g)
    <2>1. Unlock(g) /\ closed' = closed /\ call[g].at \in {"building", "bindLoad",
            "loading", "bindUnload", "unloading"} /\ call'[g].at = "idle"
      BY <1>7, <1>a DEF LoadFails, Loaded, Unloaded, Dropped, Kept, Poison, fields
    <2>. QED
      BY <2>1, <1>h DEF Holding
  <1>8. CASE Unload(g)
    <2>1. call[g].at = "unload" /\ mu[c] = Nobody /\ closed' = closed
      BY <1>8 DEF Unload, Acquire
    <2>2. CASE call[g].mod \in handle
      <3>1. Lock(g) /\ call'[g].at = "bindUnload" /\ call'[g].ctx = c
        BY <1>8, <2>2, <1>a DEF Unload, Keeps
      <3>2. ~ closed[c]
        BY <2>1, <2>2, <1>b, <1>c
        DEF IInv, HandlesAreListed, OwnModules, Unloading, Working
      <3>. QED
        BY <2>1, <3>1, <3>2, <1>i DEF Holding, Working, Walking
    <2>3. CASE call[g].mod \notin handle
      <3>1. mu' = mu /\ call'[g].at = "idle"
        BY <1>8, <2>3, <1>a DEF Unload
      <3>. QED
        BY <2>1, <3>1, <1>f DEF Holding
    <2>. QED
      BY <2>2, <2>3
  <1>9. CASE Close(g)
    <2>1. /\ call[g].at = "close" /\ mu[c] = Nobody /\ Lock(g)
          /\ call'[g].at = "walk" /\ call'[g].ctx = c
          /\ closed' = [closed EXCEPT ![c] = TRUE]
      BY <1>9, <1>a, Moves DEF Close, Acquire
    <2>2. closed'[c] = TRUE /\ \A d \in Ctx \ {c} : closed'[d] = closed[d]
      BY <2>1, <1>a, <1>c DEF TypeOK, Working
    <2>. QED
      BY <2>1, <2>2, <1>i DEF Holding, Working, Walking
  <1>10. CASE CloseNext(g) \/ CloseBind(g) \/ CloseUnloaded(g)
    <2>1. /\ UNCHANGED <<mu, closed>> /\ call[g].at \in Walking /\
               call'[g].at \in Walking
          /\ call'[g].ctx = c
      BY <1>10, <1>a, Moves
      DEF CloseNext, CloseBind, CloseUnloaded, Dropped, Kept, Bind, Poison, Keeps,
         fields, Walking
    <2>. QED
      BY <2>1, <1>g DEF Holding, Walking
  <1>11. CASE CloseRelease(g)
    <2>1. Unlock(g) /\ closed' = closed /\ call[g].at = "walk" /\ call'[g].at = "idle"
      BY <1>11, <1>a DEF CloseRelease
    <2>. QED
      BY <2>1, <1>h DEF Holding
  <1>. QED
    BY <1>1, <1>2, <1>3, <1>4, <1>5, <1>6, <1>7, <1>8, <1>9, <1>10, <1>11 DEF Step

(* A Close apart, nobody touches the mutex of a closed context, ... *)
LEMMA ClosedStays ==
  ASSUME IInv, NEW g \in Goroutine, NewContext(g) \/ Call(g) \/ Step(g),
         ~ Close(g), ~ CloseRelease(g)
  PROVE  closed' = closed /\ \A d \in Ctx : closed[d] => mu'[d] = mu[d]
  <1>. USE DEF At, Binds, Acquire
  <1>a. TypeOK /\ Exclusive /\ MakersAndUsers /\ OwnModules /\ HandlesAreListed
    BY DEF IInv
  <1>b. call[g].at \in Working => call[g].ctx \in Ctx
    BY <1>a DEF MakersAndUsers
  <1>c. call[g].ctx \in Ctx /\ ~ closed[call[g].ctx] /\ (Lock(g) \/ Unlock(g)) =>
          \A d \in Ctx : closed[d] => mu'[d] = mu[d]
    BY <1>a DEF TypeOK, Lock, Unlock
  <1>1. CASE NewContext(g) \/ Call(g) \/ Retain(g) \/ CheckPoison(g) \/
               ReadAttributes(g) \/ TryBind(g)
    BY <1>1 DEF NewContext, Call, Retain, CheckPoison, ReadAttributes, TryBind, fields
  <1>2. CASE Use(g) \/ Built(g) \/ BindLoad(g) \/ BindUnload(g) \/ CloseBind(g)
    BY <1>2 DEF Use, Built, BindLoad, BindUnload, CloseBind, Bind, fields
  <1>3. CASE Served(g) \/ CloseAgain(g) \/ CloseNext(g) \/ CloseUnloaded(g)
    BY <1>3 DEF Served, CloseAgain, CloseNext, CloseUnloaded, Dropped, Kept, fields
  <1>4. CASE Build(g)
    BY <1>4, <1>b, <1>c DEF Build, fields, Working
  <1>5. CASE LoadFails(g) \/ Loaded(g) \/ Unloaded(g)
    <2>1. Unlock(g) /\ closed' = closed /\ call[g].at \in Holding \ Walking
      BY <1>5
      DEF LoadFails, Loaded, Unloaded, Dropped, Kept, Poison, Holding, Walking, fields
    <2>. QED
      BY <2>1, <1>a, <1>b, <1>c DEF Exclusive, Working
  <1>6. CASE Unload(g)
    <2>1. CASE call[g].mod \in handle
      <3>1. call[g].at = "unload" /\ mu[call[g].ctx] = Nobody /\ closed' = closed /\
              Lock(g)
        BY <1>6, <2>1 DEF Unload
      <3>2. call[g].ctx \in Ctx /\ ~ closed[call[g].ctx]
        BY <3>1, <2>1, <1>a, <1>b DEF HandlesAreListed, OwnModules, Unloading, Working
      <3>. QED
        BY <3>1, <3>2, <1>c
    <2>2. CASE call[g].mod \notin handle
      BY <1>6, <2>2 DEF Unload
    <2>. QED
      BY <2>1, <2>2
  <1>. QED
    BY <1>1, <1>2, <1>3, <1>4, <1>5, <1>6 DEF Step

(* ... nor what is left of its walk. *)
LEMMA RestStays ==
  ASSUME IInv, NEW g \in Goroutine, NewContext(g) \/ Call(g) \/ Step(g),
         ~ Close(g), ~ CloseNext(g), ~ CloseRelease(g)
  PROVE  \A h \in Goroutine : call[h].at \in Walking =>
           /\ call'[h].at \in Walking
           /\ call'[h].ctx = call[h].ctx /\ call'[h].rest = call[h].rest
  <1>. USE DEF At, Binds, Acquire
  <1>a. /\ \A h \in Goroutine \ {g} : call'[h] = call[h]
        /\ \A where : Goto(g, where) => call'[g].at = where /\ Keeps(g)
    BY Moves, OthersStay DEF IInv
  <1>1. SUFFICES ASSUME call[g].at \in Walking
        PROVE  call'[g].at \in Walking /\ Keeps(g)
    BY <1>a DEF Keeps
  <1>2. CloseBind(g) \/ CloseUnloaded(g)
    <2>1. CASE NewContext(g) \/ Call(g)
      BY <2>1, <1>1 DEF NewContext, Call, Walking
    <2>. CASE Step(g)
      BY <1>1
      DEF Step, Retain, CheckPoison, ReadAttributes, TryBind, Use, Bind, Poison, Served,
          Build, Built, BindLoad, LoadFails, Loaded, Unload, BindUnload, Unloaded, Dropped,
          Kept,
          CloseAgain, Walking
    <2>. QED
      BY <2>1
  <1>. QED
    BY <1>a, <1>2 DEF CloseBind, CloseUnloaded, Dropped, Kept, Bind, Walking

(* Contexts keep their modules apart. *)
LEMMA OwnStep ==
  ASSUME IInv, NEW g \in Goroutine, NewContext(g) \/ Call(g) \/ Step(g)
  PROVE  OwnModules'
  <1>. USE DEF At, Binds
  <1> DEFINE c == call[g].ctx
  <1>a. /\ TypeOK /\ MakersAndUsers /\ OwnModules
        /\ \A h \in Goroutine \ {g} : call'[h] = call[h]
        /\ \A where : Goto(g, where) => call'[g].at = where /\ Keeps(g)
        /\ Return(g) => call'[g].at = "idle"
    BY Moves, OthersStay DEF IInv
  <1>b. call[g].at \in Working => call[g].ctx \in Ctx
    BY <1>a DEF MakersAndUsers
  <1>c. /\ \A d \in Ctx : modules[d] \in Seq(Modules)
        /\ \A d \in Ctx, k \in Key : cache[d][k] \in {NoModule} \cup Modules
    <2>1. /\ modules \in [Ctx -> Seq(Modules)]
          /\ cache \in [Ctx -> [Key -> {NoModule} \cup Modules]]
      BY <1>a DEF TypeOK
    <2>2. \A d \in Ctx : cache[d] \in [Key -> {NoModule} \cup Modules]
      BY <2>1
    <2>. QED
      BY <2>1, <2>2
  <1>d. ASSUME UNCHANGED <<owner, modules, cache>>,
               call'[g].at \in Unloading \cup {"unload"} =>
                 call'[g].mod \in Modules /\ owner[call'[g].mod] = call'[g].ctx,
               call'[g].at \in Walking =>
                 \A at \in DOMAIN call'[g].rest :
                   owner[call'[g].rest[at]] = call'[g].ctx
        PROVE  OwnModules'
    BY <1>a, <1>d DEF OwnModules, Modules
  <1>e. ASSUME UNCHANGED <<owner, modules, cache>>,
               call'[g].at \notin Unloading \cup Walking \cup {"unload"}
        PROVE  OwnModules'
    BY <1>d, <1>e
  <1>1. CASE NewContext(g) \/ Call(g)
    BY <1>1, <1>a, <1>d, <1>e, Moves DEF NewContext, Call, fields, Unloading, Walking
  <1>2. CASE Retain(g) \/ CheckPoison(g) \/ ReadAttributes(g) \/ TryBind(g)
    <2>. /\ UNCHANGED <<owner, modules, cache>>
         /\ call'[g].at \in {"check", "attributes", "tryBind", "idle"}
      BY <1>2, <1>a DEF Retain, CheckPoison, ReadAttributes, TryBind, Refuse, fields
    <2>. QED
      BY <1>e DEF Unloading, Walking
  <1>3. CASE Use(g)
    BY <1>3, <1>a, <1>e DEF Use, Bind, Poison, fields, Unloading, Walking
  <1>4. CASE Served(g) \/ CloseAgain(g) \/ Build(g) \/ Built(g) \/ BindLoad(g)
    BY <1>4, <1>a, <1>e
    DEF Served, CloseAgain, Build, Built, BindLoad, Bind, fields, Unloading, Walking
  <1>5. CASE LoadFails(g) \/ Unloaded(g)
    BY <1>5, <1>a, <1>e
    DEF LoadFails, Unloaded, Dropped, Kept, Poison, fields, Unloading, Walking
  <1>6. CASE BindUnload(g)
    <2>. /\ Keeps(g) /\ call[g].at = "bindUnload" /\ call'[g].at = "unloading"
         /\ UNCHANGED <<owner, modules, cache>>
      BY <1>6, <1>a DEF BindUnload, Bind, fields
    <2>. QED
      BY <1>a, <1>d DEF OwnModules, Keeps, Unloading, Walking
  <1>7. CASE CloseBind(g) \/ CloseUnloaded(g)
    <2>. /\ Keeps(g) /\ call[g].at \in {"bindWalk", "walkUnloading"}
         /\ call'[g].at \in {"walkUnloading", "walk"} /\
              UNCHANGED <<owner, modules, cache>>
      BY <1>7, <1>a DEF CloseBind, CloseUnloaded, Dropped, Kept, Bind, Poison, fields
    <2>. QED
      BY <1>a, <1>d DEF OwnModules, Keeps, Unloading, Walking
  <1>8. CASE Close(g)
    <2>. /\ call[g].at = "close" /\ call'[g].ctx = c /\ call'[g].rest = modules[c]
         /\ call'[g].at = "walk" /\ UNCHANGED <<owner, modules, cache>>
      BY <1>8, <1>a, Moves DEF Close, Acquire, fields
    <2>. QED
      BY <1>a, <1>b, <1>d DEF OwnModules, Unloading, Walking, Working
  <1>9. CASE CloseNext(g)
    <2>1. /\ call[g].at = "walk" /\ call[g].rest # <<>> /\ call'[g].ctx = c
          /\ call'[g].rest = Front(call[g].rest) /\ call'[g].mod = Last(call[g].rest)
          /\ call'[g].at \in {"walk", "bindWalk"}
          /\ UNCHANGED <<owner, modules, cache>>
      BY <1>9, <1>a, Moves DEF CloseNext
    <2>2. call[g].rest \in Seq(Modules)
      BY <1>a DEF TypeOK, Calls
    <2>3. Last(call[g].rest) \in Modules /\ owner[Last(call[g].rest)] = c
      BY <2>1, <2>2, <1>a, FrontKeeps DEF OwnModules, Walking, Last
    <2>4. \A at \in DOMAIN Front(call[g].rest) : owner[Front(call[g].rest)[at]] = c
      BY <2>1, <2>2, <1>a, FrontKeeps DEF OwnModules, Walking
    <2>. QED
      BY <2>1, <2>3, <2>4, <1>d
  <1>10. CASE Loaded(g)
    <2> DEFINE i == Len(owner) + 1
    <2>1. /\ call[g].at = "loading" /\ call'[g].at = "idle" /\ owner' = Append(owner, c)
          /\ modules' = [modules EXCEPT ![c] = Append(@, i)]
          /\ cache' = IF call[g].key = NoKey THEN cache
               ELSE [cache EXCEPT ![c][call[g].key] = i]
      BY <1>10, <1>a DEF Loaded
    <2>2. c \in Ctx
      BY <2>1, <1>b DEF Working, Holding
    <2>3. owner \in Seq(Ctx)
      BY <1>a DEF TypeOK
    <2>4. owner'[i] = c /\ Modules' = Modules \cup {i} /\
            \A j \in Modules : owner'[j] = owner[j]
      BY <2>1, <2>2, <2>3 DEF Modules
    <2>5. \A d \in Ctx : \A at \in DOMAIN modules'[d] : owner'[modules'[d][at]] = d
      <3>. SUFFICES ASSUME NEW d \in Ctx, NEW at \in DOMAIN modules'[d]
                    PROVE  owner'[modules'[d][at]] = d
        OBVIOUS
      <3>1. modules \in [Ctx -> Seq(Modules)] /\ modules[d] \in Seq(Modules)
        BY <1>a DEF TypeOK
      <3>2. CASE d # c
        <4>1. modules'[d] = modules[d]
          BY <2>1, <3>1, <3>2
        <4>2. modules[d][at] \in Modules
          BY <3>1, <4>1
        <4>. QED
          BY <4>1, <4>2, <2>4, <1>a DEF OwnModules
      <3>3. CASE d = c
        <4>1. modules'[d] = Append(modules[d], i)
          BY <2>1, <2>2, <3>1, <3>3
        <4>2. CASE at \in DOMAIN modules[d]
          <5>1. modules'[d][at] = modules[d][at] /\ modules[d][at] \in Modules
            BY <3>1, <4>1, <4>2, AppendProperties
          <5>. QED
            BY <5>1, <2>4, <4>2, <1>a DEF OwnModules
        <4>3. CASE at \notin DOMAIN modules[d]
          <5>1. modules'[d][at] = i
            BY <3>1, <4>1, <4>3, AppendProperties
          <5>. QED
            BY <5>1, <2>4, <3>3
        <4>. QED
          BY <4>2, <4>3
      <3>. QED
        BY <3>2, <3>3
    <2>6. \A d \in Ctx, k \in Key : cache'[d][k] # NoModule => owner'[cache'[d][k]] = d
      <3>. SUFFICES ASSUME NEW d \in Ctx, NEW k \in Key, cache'[d][k] # NoModule
                    PROVE  owner'[cache'[d][k]] = d
        OBVIOUS
      <3>1. cache \in [Ctx -> [Key -> {NoModule} \cup Modules]]
        BY <1>a DEF TypeOK
      <3>2. cache'[d][k] = cache[d][k] \/ (d = c /\ cache'[d][k] = i)
        BY <2>1, <3>1
      <3>. QED
        BY <3>2, <2>4, <1>a, <1>c DEF OwnModules
    <2>7. \A h \in Goroutine :
            call'[h].at \in Unloading \cup Walking \cup {"unload"} =>
              h # g /\ call'[h] = call[h] /\ call[h].rest \in Seq(Modules)
      BY <2>1, <1>a DEF Unloading, Walking, TypeOK, Calls
    <2>8. \A h \in Goroutine : call'[h].at \in Walking =>
            \A at \in DOMAIN call'[h].rest : owner'[call'[h].rest[at]] = call'[h].ctx
      <3>. SUFFICES ASSUME NEW h \in Goroutine, call'[h].at \in Walking,
                           NEW at \in DOMAIN call[h].rest
                    PROVE  owner'[call[h].rest[at]] = call[h].ctx
        BY <2>7
      <3>1. call[h].rest \in Seq(Modules)
        BY <2>7
      <3>2. call[h].rest[at] \in Modules
        BY <3>1
      <3>. QED
        BY <3>2, <2>4, <2>7, <1>a DEF OwnModules
    <2>9. \A h \in Goroutine : call'[h].at \in Unloading \cup {"unload"} =>
            call'[h].mod \in Modules' /\ owner'[call'[h].mod] = call'[h].ctx
      BY <2>7, <2>4, <1>a DEF OwnModules
    <2>. QED
      BY <2>5, <2>6, <2>8, <2>9 DEF OwnModules
  <1>11. CASE Unload(g)
    <2> DEFINE i == call[g].mod
    <2>1. /\ call[g].at = "unload" /\ owner' = owner
          /\ modules' = [modules EXCEPT ![c] = RemoveFirst(@, i)]
          /\ cache' =
               [cache EXCEPT ![c] = [k \in Key |-> IF @[k] = i THEN NoModule ELSE @[k]]]
      BY <1>11 DEF Unload, Forget, Acquire
    <2>2. c \in Ctx
      BY <2>1, <1>b DEF Working
    <2>3. \A d \in Ctx : \A at \in DOMAIN modules'[d] : owner'[modules'[d][at]] = d
      <3>. SUFFICES ASSUME NEW d \in Ctx, NEW at \in DOMAIN modules'[d]
                    PROVE  owner[modules'[d][at]] = d
        BY <2>1
      <3>1. modules \in [Ctx -> Seq(Modules)]
        BY <1>a DEF TypeOK
      <3>2. modules'[d] = IF d = c THEN RemoveFirst(modules[d], i) ELSE modules[d]
        BY <2>1, <3>1
      <3>3. \E b \in DOMAIN modules[d] : modules'[d][at] = modules[d][b]
        BY <3>2, <1>c, Removed
      <3>. QED
        BY <3>3, <1>a DEF OwnModules
    <2>4. \A d \in Ctx, k \in Key : cache'[d][k] # NoModule =>
            cache'[d][k] = cache[d][k]
      BY <2>1, <1>a DEF TypeOK
    <2>5. call'[g].at = "idle" \/ (call'[g].at = "bindUnload" /\ Keeps(g))
      BY <1>11, <1>a DEF Unload
    <2>. QED
      BY <2>1, <2>3, <2>4, <2>5, <1>a DEF OwnModules, Keeps, Unloading, Walking, Modules
  <1>12. CASE CloseRelease(g)
    <2>1. /\ call[g].at = "walk" /\ owner' = owner /\ call'[g].at = "idle"
          /\ modules' = [modules EXCEPT ![c] = <<>>]
          /\ cache' = [cache EXCEPT ![c] = [k \in Key |-> NoModule]]
      BY <1>12, <1>a DEF CloseRelease
    <2>2. \A d \in Ctx : modules'[d] = modules[d] \/ modules'[d] = <<>>
      BY <2>1, <1>a DEF TypeOK
    <2>3. \A d \in Ctx, k \in Key : cache'[d][k] # NoModule =>
            cache'[d][k] = cache[d][k]
      BY <2>1, <1>a DEF TypeOK
    <2>. QED
      BY <2>1, <2>2, <2>3, <1>a DEF OwnModules, Unloading, Walking, Modules
  <1>. QED
    BY <1>1, <1>2, <1>3, <1>4, <1>5, <1>6, <1>7, <1>8, <1>9, <1>10, <1>11, <1>12
    DEF Step

(* No handle is lost from the list or the walk that will clear it. *)
LEMMA ListedStep ==
  ASSUME IInv, NEW g \in Goroutine, NewContext(g) \/ Call(g) \/ Step(g)
  PROVE  HandlesAreListed'
  <1>. USE DEF At, Binds
  <1> DEFINE c == call[g].ctx
  <1>a. /\ TypeOK /\ MakersAndUsers /\ Exclusive /\ OwnModules /\ HandlesAreListed
        /\ \A h \in Goroutine \ {g} : call'[h] = call[h]
        /\ \A where : Goto(g, where) => call'[g].at = where /\ Keeps(g)
        /\ Return(g) => call'[g].at = "idle"
    BY Moves, OthersStay DEF IInv
  <1>b. call[g].at \in Working => call[g].ctx \in Ctx
    BY <1>a DEF MakersAndUsers
  <1>c. /\ owner \in Seq(Ctx) /\ handle \subseteq Modules
        /\ modules \in [Ctx -> Seq(Modules)] /\ closed \in [Ctx -> BOOLEAN]
        /\ mu \in [Ctx -> Goroutine \cup {Nobody}]
    BY <1>a DEF TypeOK
  <1>d. \A i \in Modules : owner[i] \in Ctx
    BY <1>c DEF Modules
  <1>e. \A d \in Ctx : closed[d] /\ mu[d] # Nobody =>
          mu[d] \in Goroutine /\ call[mu[d]].at \in Walking /\ call[mu[d]].ctx = d
    BY <1>a, <1>c DEF Exclusive
  <1>f. ASSUME UNCHANGED <<handle, owner, modules>>,
               ~ Close(g), ~ CloseNext(g), ~ CloseRelease(g)
        PROVE  HandlesAreListed'
    <2>1. closed' = closed /\ \A d \in Ctx : closed[d] => mu'[d] = mu[d]
      BY <1>f, ClosedStays
    <2>2. \A h \in Goroutine : call[h].at \in Walking => call'[h].rest = call[h].rest
      BY <1>f, RestStays
    <2>. SUFFICES ASSUME NEW i \in handle
         PROVE  IF closed[owner[i]]
                THEN /\ mu'[owner[i]] # Nobody
                     /\ \E at \in DOMAIN call'[mu'[owner[i]]].rest :
                          call'[mu'[owner[i]]].rest[at] = i
                ELSE \E at \in DOMAIN modules[owner[i]] : modules[owner[i]][at] = i
      BY <1>f, <2>1 DEF HandlesAreListed
    <2>3. owner[i] \in Ctx
      BY <1>c, <1>d
    <2>4. CASE closed[owner[i]]
      <3>1. /\ mu'[owner[i]] = mu[owner[i]] /\ mu[owner[i]] # Nobody
            /\ call'[mu[owner[i]]].rest = call[mu[owner[i]]].rest
        BY <2>1, <2>2, <2>3, <2>4, <1>a, <1>e DEF HandlesAreListed
      <3>. QED
        BY <3>1, <2>4, <1>a DEF HandlesAreListed
    <2>5. CASE ~ closed[owner[i]]
      BY <2>5, <1>a DEF HandlesAreListed
    <2>. QED
      BY <2>4, <2>5
  <1>1. CASE Close(g)
    <2>1. /\ call[g].at = "close" /\ ~ closed[c] /\ mu[c] = Nobody
          /\ UNCHANGED <<handle, owner, modules>>
          /\ closed' = [closed EXCEPT ![c] = TRUE] /\ mu' = [mu EXCEPT ![c] = g]
          /\ call'[g].rest = modules[c]
      BY <1>1, Moves, <1>a DEF Close, Acquire, Lock
    <2>2. c \in Ctx
      BY <2>1, <1>b DEF Working
    <2>3. /\ closed'[c] /\ mu'[c] = g /\ g # Nobody
          /\ \A d \in Ctx \ {c} : closed'[d] = closed[d] /\ mu'[d] = mu[d]
      BY <2>1, <2>2, <1>c, NobodyAssumption
    <2>. SUFFICES ASSUME NEW i \in handle
         PROVE  IF closed'[owner[i]]
                THEN /\ mu'[owner[i]] # Nobody
                     /\ \E at \in DOMAIN call'[mu'[owner[i]]].rest :
                          call'[mu'[owner[i]]].rest[at] = i
                ELSE \E at \in DOMAIN modules[owner[i]] : modules[owner[i]][at] = i
      BY <2>1 DEF HandlesAreListed
    <2>4. owner[i] \in Ctx
      BY <1>c, <1>d
    <2>5. CASE owner[i] = c
      BY <2>1, <2>3, <2>5, <1>a DEF HandlesAreListed
    <2>6. CASE owner[i] # c
      <3>1. closed[owner[i]] => mu[owner[i]] \in Goroutine \ {g}
        BY <1>a, <1>e, <2>1, <2>4, <2>6 DEF HandlesAreListed, Walking
      <3>. QED
        BY <2>3, <2>4, <2>6, <3>1, <1>a DEF HandlesAreListed
    <2>. QED
      BY <2>5, <2>6
  <1>2. CASE CloseNext(g)
    <2> DEFINE last == Last(call[g].rest)
    <2>1. /\ call[g].at = "walk" /\ call[g].rest # <<>> /\ handle' = handle \ {last}
          /\ UNCHANGED <<owner, modules, closed, mu>>
          /\ call'[g].rest = Front(call[g].rest)
      BY <1>2, Moves, <1>a DEF CloseNext
    <2>2. call[g].rest \in Seq(Modules)
      BY <1>a DEF TypeOK, Calls
    <2>. SUFFICES ASSUME NEW i \in handle, i # last
         PROVE  IF closed[owner[i]]
                THEN /\ mu[owner[i]] # Nobody
                     /\ \E at \in DOMAIN call'[mu[owner[i]]].rest :
                          call'[mu[owner[i]]].rest[at] = i
                ELSE \E at \in DOMAIN modules[owner[i]] : modules[owner[i]][at] = i
      BY <2>1 DEF HandlesAreListed
    <2>4. owner[i] \in Ctx
      BY <1>c, <1>d
    <2>5. CASE closed[owner[i]] /\ mu[owner[i]] = g
      <3>1. PICK at \in DOMAIN call[g].rest : call[g].rest[at] = i
        BY <2>5, <1>a DEF HandlesAreListed
      <3>2. at \in DOMAIN Front(call[g].rest) /\ Front(call[g].rest)[at] = i
        BY <3>1, <2>1, <2>2, FrontKeeps
      <3>. QED
        BY <3>2, <2>1, <2>5, <1>a DEF HandlesAreListed
    <2>6. CASE closed[owner[i]] /\ mu[owner[i]] # g
      BY <2>4, <2>6, <1>a, <1>e DEF HandlesAreListed
    <2>7. CASE ~ closed[owner[i]]
      BY <2>7, <1>a DEF HandlesAreListed
    <2>. QED
      BY <2>5, <2>6, <2>7
  <1>3. CASE CloseRelease(g)
    <2>1. /\ call[g].at = "walk" /\ call[g].rest = <<>>
          /\ UNCHANGED <<owner, closed, handle>> /\ mu' = [mu EXCEPT ![c] = Nobody]
          /\ modules' = [modules EXCEPT ![c] = <<>>]
      BY <1>3 DEF CloseRelease, Unlock
    <2>2. c \in Ctx /\ mu[c] = g /\ closed[c]
      BY <2>1, <1>a, <1>b DEF Exclusive, Walking, Working, Holding
    <2>. SUFFICES ASSUME NEW i \in handle
         PROVE  IF closed[owner[i]]
                THEN /\ mu'[owner[i]] # Nobody
                     /\ \E at \in DOMAIN call'[mu'[owner[i]]].rest :
                          call'[mu'[owner[i]]].rest[at] = i
                ELSE \E at \in DOMAIN modules'[owner[i]] : modules'[owner[i]][at] = i
      BY <2>1 DEF HandlesAreListed
    <2>3. owner[i] \in Ctx
      BY <1>c, <1>d
    <2>4. owner[i] # c
      BY <2>1, <2>2, <1>a DEF HandlesAreListed
    <2>5. mu'[owner[i]] = mu[owner[i]] /\ modules'[owner[i]] = modules[owner[i]]
      BY <2>1, <2>3, <2>4, <1>c
    <2>6. closed[owner[i]] => mu[owner[i]] \in Goroutine \ {g}
      BY <1>a, <1>e, <2>3, <2>4 DEF HandlesAreListed
    <2>. QED
      BY <2>5, <2>6, <1>a DEF HandlesAreListed
  <1>4. CASE Loaded(g)
    <2> DEFINE new == Len(owner) + 1
    <2>1. /\ call[g].at = "loading" /\ owner' = Append(owner, c) /\
               handle' = handle \cup {new}
          /\ closed' = closed /\ modules' = [modules EXCEPT ![c] = Append(@, new)]
      BY <1>4 DEF Loaded
    <2>2. c \in Ctx /\ ~ closed[c]
      BY <2>1, <1>a, <1>b DEF Exclusive, Walking, Working, Holding
    <2>3. /\ owner'[new] = c /\ new \notin Modules
          /\ \A j \in Modules : owner'[j] = owner[j]
      BY <2>1, <2>2, <1>c DEF Modules
    <2>4. /\ \A d \in Ctx \ {c} : modules'[d] = modules[d]
          /\ modules'[c] = Append(modules[c], new) /\ modules[c] \in Seq(Modules)
      BY <2>1, <2>2, <1>c
    <2>5. \A d \in Ctx : closed[d] => mu'[d] = mu[d]
      BY <1>4, <2>1, ClosedStays DEF Close, CloseRelease, Acquire
    <2>6. \A h \in Goroutine : call[h].at \in Walking => call'[h].rest = call[h].rest
      BY <1>4, <2>1, RestStays DEF Close, CloseNext, CloseRelease, Acquire
    <2>7. /\ \E at \in DOMAIN modules'[c] : modules'[c][at] = new
          /\ \A i \in Modules, at \in DOMAIN modules[c] : modules[c][at] = i =>
               at \in DOMAIN modules'[c] /\ modules'[c][at] = i
      <3>. DEFINE old == modules[c]
      <3>1. /\ old \in Seq(Modules) /\ modules'[c] = Append(old, new)
        BY <2>4
      <3>. HIDE DEF old, new
      <3>2. /\ Len(Append(old, new)) = Len(old) + 1 /\
                 DOMAIN Append(old, new) = 1..(Len(old) + 1)
            /\ Append(old, new)[Len(old) + 1] = new
            /\ \A at \in 1..Len(old) : Append(old, new)[at] = old[at]
            /\ DOMAIN old = 1..Len(old) /\ Len(old) \in Nat
        BY <3>1
      <3>3. Len(old) + 1 \in DOMAIN modules'[c] /\ modules'[c][Len(old) + 1] = new
        BY <3>1, <3>2
      <3>4. \A i \in Modules, at \in DOMAIN old : old[at] = i =>
               at \in DOMAIN modules'[c] /\ modules'[c][at] = i
        BY <3>1, <3>2
      <3>. QED
        BY <3>3, <3>4 DEF old, new
    <2>. SUFFICES ASSUME NEW i \in handle \cup {new}
         PROVE  IF closed[owner'[i]]
                THEN /\ mu'[owner'[i]] # Nobody
                     /\ \E at \in DOMAIN call'[mu'[owner'[i]]].rest :
                          call'[mu'[owner'[i]]].rest[at] = i
                ELSE \E at \in DOMAIN modules'[owner'[i]] : modules'[owner'[i]][at] = i
      BY <2>1 DEF HandlesAreListed
    <2>. HIDE DEF new
    <2>8. CASE i = new
      BY <2>2, <2>3, <2>7, <2>8
    <2>9. CASE i \in handle
      <3>1. i \in Modules /\ owner'[i] = owner[i] /\ owner[i] \in Ctx
        BY <2>3, <2>9, <1>c, <1>d
      <3>2. CASE closed[owner[i]]
        <4>1. /\ mu'[owner[i]] = mu[owner[i]] /\ mu[owner[i]] # Nobody
              /\ call'[mu[owner[i]]].rest = call[mu[owner[i]]].rest
          BY <2>5, <2>6, <2>9, <3>1, <3>2, <1>a, <1>e DEF HandlesAreListed
        <4>. QED
          BY <4>1, <2>9, <3>1, <3>2, <1>a DEF HandlesAreListed
      <3>3. CASE ~ closed[owner[i]]
        <4>1. PICK at \in DOMAIN modules[owner[i]] : modules[owner[i]][at] = i
          BY <2>9, <3>3, <1>a DEF HandlesAreListed
        <4>2. \E b \in DOMAIN modules'[owner[i]] : modules'[owner[i]][b] = i
          <5>1. CASE owner[i] = c
            BY <4>1, <3>1, <2>7, <5>1
          <5>2. CASE owner[i] # c
            BY <4>1, <3>1, <2>4, <5>2
          <5>. QED
            BY <5>1, <5>2
        <4>. QED
          BY <4>2, <3>1, <3>3
      <3>. QED
        BY <3>2, <3>3
    <2>. QED
      BY <2>8, <2>9
  <1>5. CASE Unload(g)
    <2> DEFINE gone == call[g].mod
    <2>1. /\ call[g].at = "unload" /\ owner' = owner /\ handle' = handle \ {gone}
          /\ modules' = [modules EXCEPT ![c] = RemoveFirst(@, gone)]
      BY <1>5 DEF Unload, Forget, Acquire
    <2>2. closed' = closed /\ \A d \in Ctx : closed[d] => mu'[d] = mu[d]
      BY <1>5, <2>1, ClosedStays DEF Close, CloseRelease, Acquire
    <2>3. \A h \in Goroutine : call[h].at \in Walking => call'[h].rest = call[h].rest
      BY <1>5, <2>1, RestStays DEF Close, CloseNext, CloseRelease, Acquire
    <2>. SUFFICES ASSUME NEW i \in handle, i # gone
         PROVE  IF closed[owner[i]]
                THEN /\ mu'[owner[i]] # Nobody
                     /\ \E at \in DOMAIN call'[mu'[owner[i]]].rest :
                          call'[mu'[owner[i]]].rest[at] = i
                ELSE \E at \in DOMAIN modules'[owner[i]] : modules'[owner[i]][at] = i
      BY <2>1, <2>2 DEF HandlesAreListed
    <2>4. owner[i] \in Ctx
      BY <1>c, <1>d
    <2>5. CASE closed[owner[i]]
      <3>1. /\ mu'[owner[i]] = mu[owner[i]] /\ mu[owner[i]] # Nobody
            /\ call'[mu[owner[i]]].rest = call[mu[owner[i]]].rest
        BY <2>2, <2>3, <2>4, <2>5, <1>a, <1>e DEF HandlesAreListed
      <3>. QED
        BY <3>1, <2>5, <1>a DEF HandlesAreListed
    <2>6. CASE ~ closed[owner[i]]
      <3>1. PICK at \in DOMAIN modules[owner[i]] : modules[owner[i]][at] = i
        BY <2>6, <1>a DEF HandlesAreListed
      <3>2. modules'[owner[i]] = modules[owner[i]]
              \/ modules'[owner[i]] = RemoveFirst(modules[owner[i]], gone)
        BY <2>1, <2>4, <1>c
      <3>3. modules[owner[i]] \in Seq(Modules)
        BY <2>4, <1>c
      <3>4. \E at2 \in DOMAIN modules'[owner[i]] : modules'[owner[i]][at2] = i
        BY <3>1, <3>2, <3>3, Removed
      <3>. QED
        BY <2>6, <3>4
    <2>. QED
      BY <2>5, <2>6
  <1>6. CASE NewContext(g) \/ Call(g) \/ Retain(g) \/ CheckPoison(g) \/
               ReadAttributes(g) \/ TryBind(g)
    <2>. UNCHANGED <<handle, owner, modules>> /\ call[g].at \notin {"close", "walk"}
      BY <1>6 DEF NewContext, Call, Retain, CheckPoison, ReadAttributes, TryBind, fields
    <2>. QED
      BY <1>f DEF Close, CloseNext, CloseRelease, Acquire
  <1>7. CASE Use(g) \/ Served(g) \/ Build(g) \/ Built(g) \/ BindLoad(g) \/ LoadFails(g)
    <2>. UNCHANGED <<handle, owner, modules>> /\ call[g].at \notin {"close", "walk"}
      BY <1>7
      DEF Use, Served, Build, Built, BindLoad, LoadFails, Bind, Poison, Acquire, fields
    <2>. QED
      BY <1>f DEF Close, CloseNext, CloseRelease, Acquire
  <1>8. CASE BindUnload(g) \/ Unloaded(g) \/ CloseBind(g) \/ CloseUnloaded(g)
    <2>. UNCHANGED <<handle, owner, modules>> /\ call[g].at \notin {"close", "walk"}
      BY <1>8
      DEF BindUnload, Unloaded, CloseBind, CloseUnloaded, Dropped, Kept, Bind, Poison,
          fields
    <2>. QED
      BY <1>f DEF Close, CloseNext, CloseRelease, Acquire
  <1>9. CASE CloseAgain(g)
    <2>. UNCHANGED <<handle, owner, modules>> /\ closed[c] /\ call[g].at = "close"
      BY <1>9 DEF CloseAgain, Acquire, fields
    <2>. QED
      BY <1>f DEF Close, CloseNext, CloseRelease, Acquire
  <1>. QED
    BY <1>1, <1>2, <1>3, <1>4, <1>5, <1>6, <1>7, <1>8, <1>9 DEF Step

(* The cache forgets a module before its handle goes. *)
LEMMA CacheStep ==
  ASSUME IInv, NEW g \in Goroutine, NewContext(g) \/ Call(g) \/ Step(g)
  PROVE  CacheHasHandles'
  <1>. USE DEF At, Binds
  <1> DEFINE c == call[g].ctx
  <1>a. /\ TypeOK /\ MakersAndUsers /\ Exclusive /\ OwnModules /\ CacheHasHandles
    BY DEF IInv
  <1>b. call[g].at \in Working => call[g].ctx \in Ctx
    BY <1>a DEF MakersAndUsers
  <1>c. /\ owner \in Seq(Ctx) /\ handle \subseteq Modules
        /\ cache \in [Ctx -> [Key -> {NoModule} \cup Modules]] /\
             closed \in [Ctx -> BOOLEAN]
        /\ mu \in [Ctx -> Goroutine \cup {Nobody}]
    BY <1>a DEF TypeOK
  <1>f. ASSUME UNCHANGED <<handle, cache>>, ~ Close(g), ~ CloseRelease(g)
        PROVE  CacheHasHandles'
    BY <1>a, <1>f, ClosedStays DEF CacheHasHandles
  <1>1. CASE Close(g)
    <2>1. /\ call[g].at = "close" /\ UNCHANGED <<handle, cache>>
          /\ closed' = [closed EXCEPT ![c] = TRUE] /\ mu' = [mu EXCEPT ![c] = g]
      BY <1>1 DEF Close, Acquire, Lock
    <2>2. c \in Ctx
      BY <2>1, <1>b DEF Working
    <2>3. /\ closed'[c] /\ mu'[c] = g /\ g # Nobody
          /\ \A d \in Ctx \ {c} : closed'[d] = closed[d] /\ mu'[d] = mu[d]
      BY <2>1, <2>2, <1>c, NobodyAssumption
    <2>. QED
      BY <2>1, <2>3, <1>a DEF CacheHasHandles
  <1>2. CASE CloseNext(g)
    <2> DEFINE last == Last(call[g].rest)
    <2>1. /\ call[g].at = "walk" /\ call[g].rest # <<>> /\ handle' = handle \ {last}
          /\ UNCHANGED <<cache, closed, mu>>
      BY <1>2 DEF CloseNext
    <2>2. call[g].rest \in Seq(Modules)
      BY <1>a DEF TypeOK, Calls
    <2>3. owner[last] = c /\ closed[c]
      BY <2>1, <2>2, <1>a, FrontKeeps DEF OwnModules, Exclusive, Walking, Holding, Last
    <2>4. \A d \in Ctx, k \in Key : cache[d][k] # NoModule /\ ~ closed[d] =>
            cache[d][k] # last
      BY <2>3, <1>a DEF OwnModules
    <2>. QED
      BY <2>1, <2>4, <1>a DEF CacheHasHandles
  <1>3. CASE CloseRelease(g)
    <2>1. /\ call[g].at = "walk"
          /\ UNCHANGED <<closed, handle>> /\ mu' = [mu EXCEPT ![c] = Nobody]
          /\ cache' = [cache EXCEPT ![c] = [k \in Key |-> NoModule]]
      BY <1>3 DEF CloseRelease, Unlock
    <2>2. \A d \in Ctx, k \in Key : cache'[d][k] # NoModule =>
            d # c /\ cache'[d][k] = cache[d][k]
      BY <2>1, <1>c
    <2>3. \A d \in Ctx \ {c} : mu'[d] = mu[d]
      BY <2>1, <1>c
    <2>. QED
      BY <2>1, <2>2, <2>3, <1>a DEF CacheHasHandles
  <1>4. CASE Loaded(g)
    <2> DEFINE new == Len(owner) + 1
    <2>1. /\ call[g].at = "loading" /\ handle' = handle \cup {new} /\ closed' = closed
          /\ cache' = IF call[g].key = NoKey THEN cache
               ELSE [cache EXCEPT ![c][call[g].key] = new]
      BY <1>4 DEF Loaded
    <2>2. c \in Ctx /\ ~ closed[c]
      BY <2>1, <1>a, <1>b DEF Exclusive, Walking, Working, Holding
    <2>5. \A d \in Ctx : closed[d] => mu'[d] = mu[d]
      BY <1>4, <2>1, ClosedStays DEF Close, CloseRelease, Acquire
    <2>. HIDE DEF new
    <2>6. \A d \in Ctx, k \in Key : cache'[d][k] = cache[d][k] \/
            (d = c /\ cache'[d][k] = new)
      BY <2>1, <1>c
    <2>. QED
      BY <2>1, <2>2, <2>5, <2>6, <1>a DEF CacheHasHandles
  <1>5. CASE Unload(g)
    <2> DEFINE gone == call[g].mod
    <2>1. /\ call[g].at = "unload" /\ handle' = handle \ {gone}
          /\ cache' = [cache EXCEPT ![c] =
               [k \in Key |-> IF @[k] = gone THEN NoModule ELSE @[k]]]
      BY <1>5 DEF Unload, Forget, Acquire
    <2>2. closed' = closed /\ \A d \in Ctx : closed[d] => mu'[d] = mu[d]
      BY <1>5, <2>1, ClosedStays DEF Close, CloseRelease, Acquire
    <2>3. c \in Ctx /\ owner[gone] = c
      BY <2>1, <1>a, <1>b DEF OwnModules, Unloading, Working
    <2>4. \A d \in Ctx, k \in Key : cache'[d][k] # NoModule =>
            cache'[d][k] = cache[d][k] /\ (d = c => cache[d][k] # gone)
      BY <2>1, <1>c
    <2>5. \A d \in Ctx, k \in Key : cache'[d][k] # NoModule => cache[d][k] # gone
      BY <2>3, <2>4, <1>a DEF OwnModules
    <2>. QED
      BY <2>1, <2>2, <2>4, <2>5, <1>a DEF CacheHasHandles
  <1>6. CASE NewContext(g) \/ Call(g) \/ Retain(g) \/ CheckPoison(g) \/
               ReadAttributes(g) \/ TryBind(g)
    <2>. UNCHANGED <<handle, cache>> /\ call[g].at \notin {"close", "walk"}
      BY <1>6 DEF NewContext, Call, Retain, CheckPoison, ReadAttributes, TryBind, fields
    <2>. QED
      BY <1>f DEF Close, CloseRelease, Acquire
  <1>7. CASE Use(g) \/ Served(g) \/ Build(g) \/ Built(g) \/ BindLoad(g) \/ LoadFails(g)
    <2>. UNCHANGED <<handle, cache>> /\ call[g].at \notin {"close", "walk"}
      BY <1>7
      DEF Use, Served, Build, Built, BindLoad, LoadFails, Bind, Poison, Acquire, fields
    <2>. QED
      BY <1>f DEF Close, CloseRelease, Acquire
  <1>8. CASE BindUnload(g) \/ Unloaded(g) \/ CloseBind(g) \/ CloseUnloaded(g)
    <2>. UNCHANGED <<handle, cache>> /\ call[g].at \notin {"close", "walk"}
      BY <1>8
      DEF BindUnload, Unloaded, CloseBind, CloseUnloaded, Dropped, Kept, Bind, Poison,
          fields
    <2>. QED
      BY <1>f DEF Close, CloseRelease, Acquire
  <1>9. CASE CloseAgain(g)
    <2>. UNCHANGED <<handle, cache>> /\ closed[c] /\ call[g].at = "close"
      BY <1>9 DEF CloseAgain, Acquire, fields
    <2>. QED
      BY <1>f DEF Close, CloseRelease, Acquire
  <1>. QED
    BY <1>1, <1>2, <1>3, <1>4, <1>5, <1>6, <1>7, <1>8, <1>9 DEF Step

(* What is unloaded was loaded, and somebody unloads it; a last release ends nobody
   else's. *)
LEMMA UnloadsStep ==
  ASSUME IInv, NEW g \in Goroutine, NewContext(g) \/ Call(g) \/ Step(g)
  PROVE  Unloads'
  <1>. USE DEF At, Binds
  <1> DEFINE c == call[g].ctx
  <1>a. /\ TypeOK /\ MakersAndUsers /\ Exclusive /\ OwnModules /\ HandlesAreListed /\
             Unloads
        /\ \A h \in Goroutine \ {g} : call'[h] = call[h]
        /\ \A where : Goto(g, where) => call'[g].at = where /\ Keeps(g)
        /\ Return(g) => call'[g].at = "idle"
    BY Moves, OthersStay DEF IInv
  <1>b. call[g].at \in Working => call[g].ctx \in Ctx
    BY <1>a DEF MakersAndUsers
  <1>c. /\ owner \in Seq(Ctx) /\ handle \subseteq Modules /\ resident \subseteq Modules
        /\ mu \in [Ctx -> Goroutine \cup {Nobody}] /\ stuck \subseteq Modules
    BY <1>a DEF TypeOK
  (* Two goroutines do not unload the same module. *)
  <1>d. \A h, j \in Goroutine : call[h].at \in Unloading /\ call[j].at \in Unloading
          /\ call[h].mod = call[j].mod => h = j
    <2>1. \A h \in Goroutine : call[h].at \in Unloading =>
            mu[owner[call[h].mod]] = h
      BY <1>a DEF OwnModules, Exclusive, Holding, Unloading
    <2>. QED
      BY <2>1
  <1>f. ASSUME UNCHANGED <<handle, resident, stuck>>,
               call'[g].at \in Unloading <=> call[g].at \in Unloading,
               call'[g].at \in Unloading => call'[g].mod = call[g].mod
        PROVE  Unloads'
    <2>1. \A h \in Goroutine : /\ call'[h].at \in Unloading <=> call[h].at \in Unloading
                               /\ call'[h].at \in Unloading =>
                                    call'[h].mod = call[h].mod
      BY <1>a, <1>f
    <2>. QED
      BY <1>a, <1>f, <2>1 DEF Unloads
  <1>g. ASSUME call[g].at \notin Unloading, call[g].at \in Working,
                 call'[g].at \in Unloading,
               call'[g].mod \in handle, handle' = handle \ {call'[g].mod},
               UNCHANGED <<resident, stuck>>
        PROVE  Unloads'
    <2> DEFINE i == call'[g].mod
    <2>. HIDE DEF i
    <2>1. \A h \in Goroutine \ {g} : call'[h].at \in Unloading =>
            call'[h].mod \in resident \ handle'
      BY <1>a, <1>g DEF Unloads
    <2>2. \A j \in resident \ (handle' \cup stuck) :
            \E h \in Goroutine : call'[h].at \in Unloading /\ call'[h].mod = j
      <3>. SUFFICES ASSUME NEW j \in resident, j \notin handle', j \notin stuck
                    PROVE  \E h \in Goroutine : call'[h].at \in Unloading /\
                             call'[h].mod = j
        OBVIOUS
      <3>1. CASE j = call'[g].mod
        BY <3>1, <1>g
      <3>2. CASE j # call'[g].mod
        <4>1. PICK h \in Goroutine : call[h].at \in Unloading /\ call[h].mod = j
          BY <3>2, <1>a, <1>g DEF Unloads
        <4>. QED
          BY <4>1, <1>a, <1>g
      <3>. QED
        BY <3>1, <3>2
    <2>3. call'[g].mod \in resident \ handle'
      BY <1>a, <1>g DEF Unloads
    <2>. QED
      BY <1>a, <1>g, <2>1, <2>2, <2>3 DEF Unloads
  <1>h. ASSUME call[g].at \in Unloading, call'[g].at \notin Unloading,
               UNCHANGED handle,
               \/ resident' = resident \ {call[g].mod} /\ stuck' = stuck
               \/ resident' = resident /\ stuck' = stuck \cup {call[g].mod}
        PROVE  Unloads'
    <2>1. \A h \in Goroutine : call'[h].at \in Unloading => h # g /\ call'[h] = call[h]
             /\ call[h].mod # call[g].mod
      BY <1>a, <1>d, <1>h
    <2>2. call[g].mod \notin handle /\ handle \subseteq resident
      BY <1>a, <1>h DEF Unloads
    <2>3. \A j \in resident' \ (handle \cup stuck') :
            \E h \in Goroutine : call'[h].at \in Unloading /\ call'[h].mod = j
      <3>. SUFFICES ASSUME NEW j \in resident, j # call[g].mod,
                           j \notin handle, j \notin stuck
                    PROVE  \E h \in Goroutine : call'[h].at \in Unloading /\
                             call'[h].mod = j
        BY <1>h
      <3>1. PICK h \in Goroutine : call[h].at \in Unloading /\ call[h].mod = j
        BY <1>a DEF Unloads
      <3>. QED
        BY <3>1, <1>a
    <2>4. \A h \in Goroutine : call'[h].at \in Unloading =>
            call'[h].mod \in resident' \ handle
      BY <2>1, <1>a, <1>h DEF Unloads
    <2>. QED
      BY <2>2, <2>3, <2>4, <1>h DEF Unloads
  <1>1. CASE CloseNext(g)
    <2> DEFINE last == Last(call[g].rest)
    <2>1. /\ call[g].at = "walk" /\ handle' = handle \ {last}
          /\ UNCHANGED <<resident, stuck>>
          /\ call'[g].at = IF last \in handle THEN "bindWalk" ELSE "walk"
          /\ call'[g].mod = last
      BY <1>1, Moves, <1>a DEF CloseNext, device
    <2>. HIDE DEF last
    <2>2. CASE last \in handle
      BY <2>1, <2>2, <1>g DEF Unloading, Working, Holding
    <2>3. CASE last \notin handle
      BY <2>1, <2>3, <1>f DEF Unloading
    <2>. QED
      BY <2>2, <2>3
  <1>2. CASE CloseRelease(g)
    <2>1. /\ call[g].at = "walk" /\ call[g].rest = <<>> /\ call'[g].at = "idle"
          /\ resident' = resident \/ (refs = 1 /\ resident' = {})
          /\ UNCHANGED <<stuck, handle>>
      BY <1>2, <1>a DEF CloseRelease
    <2>2. CASE resident' = resident
      BY <2>1, <2>2, <1>f DEF Unloading
    <2>3. CASE refs = 1 /\ resident' = {}
      <3>1. c \in Ctx /\ mu[c] = g /\ closed[c] /\ status[c] = "live"
        BY <2>1, <1>a, <1>b DEF Exclusive, MakersAndUsers, Walking, Working, Holding
      <3>2. c \in Retained
        BY <3>1, NobodyAssumption DEF Retained
      <3>3. \A d \in Retained : d = c
        <4>1. Retained \subseteq Ctx
          BY DEF Retained
        <4>2. IsFiniteSet(Retained)
          BY <4>1, CtxAssumption, SubsetsCountLess
        <4>3. Cardinality(Retained) <= 1
          BY <2>3 DEF IInv, RetainsCounted
        <4>. QED
          BY <3>2, <4>2, <4>3, OnlyOne
      <3>4. \A d \in Ctx : status[d] = "live" /\ ~ (closed[d] /\ mu[d] = Nobody) =>
              d = c
        BY <3>3 DEF Retained
      <3>5. handle = {}
        <4>. SUFFICES ASSUME NEW i \in handle PROVE FALSE
          OBVIOUS
        <4>1. owner[i] \in Ctx /\ status[owner[i]] = "live"
          BY <1>a, <1>c DEF MakersAndUsers, Modules
        <4>2. ~ (closed[owner[i]] /\ mu[owner[i]] = Nobody)
          BY <1>a DEF HandlesAreListed
        <4>3. owner[i] = c
          BY <4>1, <4>2, <3>4
        <4>. QED
          BY <4>3, <3>1, <2>1, <1>a DEF HandlesAreListed
      <3>6. \A h \in Goroutine : call[h].at \notin Unloading
        <4>. SUFFICES ASSUME NEW h \in Goroutine, call[h].at \in Unloading PROVE FALSE
          OBVIOUS
        <4>1. /\ call[h].ctx \in Ctx /\ status[call[h].ctx] = "live" /\
                   mu[call[h].ctx] = h
          BY <1>a DEF MakersAndUsers, Exclusive, Unloading, Working, Holding
        <4>2. call[h].ctx = c
          BY <4>1, <3>4, NobodyAssumption
        <4>. QED
          BY <4>1, <4>2, <3>1, <2>1 DEF Unloading
      <3>7. \A h \in Goroutine : call'[h].at \notin Unloading
        BY <3>6, <2>1, <1>a DEF Unloading
      <3>. QED
        BY <2>1, <2>3, <3>5, <3>7 DEF Unloads
    <2>. QED
      BY <2>1, <2>2, <2>3
  <1>3. CASE Loaded(g)
    <2> DEFINE new == Len(owner) + 1
    <2>1. /\ call[g].at = "loading" /\ call'[g].at = "idle"
          /\ handle' = handle \cup {new} /\ resident' = resident \cup {new} /\
               stuck' = stuck
      BY <1>3, <1>a DEF Loaded
    <2>2. new \notin Modules
      BY <1>c DEF Modules
    <2>. HIDE DEF new
    <2>3. \A h \in Goroutine : call'[h].at \in Unloading => h # g /\ call'[h] = call[h]
      BY <2>1, <1>a DEF Unloading
    <2>4. \A h \in Goroutine : call[h].at \in Unloading => call'[h] = call[h]
      BY <2>1, <1>a DEF Unloading
    <2>. QED
      BY <2>1, <2>2, <2>3, <2>4, <1>a, <1>c DEF Unloads
  <1>4. CASE Unload(g)
    <2>1. /\ call[g].at = "unload" /\ handle' = handle \ {call[g].mod}
          /\ UNCHANGED <<resident, stuck>>
      BY <1>4 DEF Unload, Acquire, device
    <2>2. CASE call[g].mod \in handle
      <3>1. call'[g].at = "bindUnload" /\ call'[g].mod = call[g].mod
        BY <1>4, <2>2, <1>a DEF Unload, Keeps
      <3>. QED
        BY <2>1, <2>2, <3>1, <1>g DEF Unloading, Working
    <2>3. CASE call[g].mod \notin handle
      <3>1. call'[g].at = "idle"
        BY <1>4, <2>3, <1>a DEF Unload
      <3>. QED
        BY <2>1, <2>3, <3>1, <1>f DEF Unloading
    <2>. QED
      BY <2>2, <2>3
  <1>5. CASE Unloaded(g) \/ CloseUnloaded(g)
    <2>1. /\ call[g].at \in Unloading /\ call'[g].at \in {"idle", "walk"}
          /\ UNCHANGED handle
          /\ \/ resident' = resident \ {call[g].mod} /\ stuck' = stuck
             \/ resident' = resident /\ stuck' = stuck \cup {call[g].mod}
      BY <1>5, <1>a, <1>c
      DEF Unloaded, CloseUnloaded, Dropped, Kept, Poison, fields, Unloading
    <2>. QED
      BY <2>1, <1>h DEF Unloading
  <1>6. CASE BindUnload(g) \/ CloseBind(g)
    <2>1. /\ call[g].at \in Unloading /\ call'[g].at \in Unloading /\
               call'[g].mod = call[g].mod
          /\ UNCHANGED <<handle, resident, stuck>>
      BY <1>6, <1>a DEF BindUnload, CloseBind, Bind, Keeps, device, fields, Unloading
    <2>. QED
      BY <2>1, <1>f
  <1>7. CASE NewContext(g) \/ Call(g) \/ Retain(g) \/ CheckPoison(g) \/
               ReadAttributes(g) \/ TryBind(g)
    <2>1. /\ UNCHANGED <<handle, resident, stuck>> /\
               call[g].at \in {"idle", "retain", "check", "attributes", "tryBind"}
          /\ call'[g].at \in {"retain", "close", "bindUse", "load", "unload", "check",
               "attributes", "tryBind", "idle"}
      BY <1>7, Moves, <1>a
      DEF NewContext, Call, Retain, CheckPoison, ReadAttributes, TryBind, Refuse,
          device, fields
    <2>. QED
      BY <2>1, <1>f DEF Unloading
  <1>8. CASE Use(g) \/ Served(g) \/ Build(g) \/ Built(g) \/ BindLoad(g) \/
               LoadFails(g) \/ CloseAgain(g) \/ Close(g)
    <2>1. /\ UNCHANGED <<handle, resident, stuck>>
          /\ call[g].at \in {"bindUse", "using", "load", "building", "bindLoad",
               "loading", "close"}
          /\ call'[g].at \in {"using", "idle", "bindLoad", "building", "loading",
               "walk"}
      BY <1>8, Moves, <1>a
      DEF Use, Served, Build, Built, BindLoad, LoadFails, CloseAgain, Close, Bind,
          Poison, Acquire, device, fields
    <2>. QED
      BY <2>1, <1>f DEF Unloading
  <1>. QED
    BY <1>1, <1>2, <1>3, <1>4, <1>5, <1>6, <1>7, <1>8 DEF Step

(* Each context that is not closed has its retain. *)
LEMMA RetainsStep ==
  ASSUME IInv, NEW g \in Goroutine, NewContext(g) \/ Call(g) \/ Step(g)
  PROVE  RetainsCounted'
  <1>. USE DEF At, Binds
  <1> DEFINE c == call[g].ctx
             past == {"check", "attributes", "tryBind"}
  <1>a. /\ TypeOK /\ MakersAndUsers /\ Exclusive /\ RetainsCounted
        /\ \A h \in Goroutine \ {g} : call'[h] = call[h]
        /\ \A where : Goto(g, where) => call'[g].at = where /\ Keeps(g)
        /\ Return(g) => call'[g].at = "idle"
    BY Moves, OthersStay DEF IInv
  <1>b. call[g].at \in Working \cup Making => call[g].ctx \in Ctx
    BY <1>a DEF MakersAndUsers
  <1>c. /\ status \in [Ctx -> {"none", "making", "refused", "beside an error", "live"}]
        /\ closed \in [Ctx -> BOOLEAN] /\ mu \in [Ctx -> Goroutine \cup {Nobody}] /\
             refs \in Nat
    BY <1>a DEF TypeOK
  <1>d. Retained = {d \in Ctx : \/ status[d] = "live" /\ ~ (closed[d] /\ mu[d] = Nobody)
                                \/ \E h \in Goroutine : call[h].ctx = d /\
                                     call[h].at \in past}
    BY DEF Retained, Making
  <1>e. IsFiniteSet(Retained) /\ Cardinality(Retained) \in Nat /\
          Cardinality(Retained) <= refs
    BY <1>a, CtxAssumption, FS_Subset, FS_CardinalityType DEF Retained, RetainsCounted
  <1>r. refs \in Nat /\ Cardinality(Retained) \in Nat /\ Cardinality(Retained) <= refs
    BY <1>c, <1>e
  <1>f. ASSUME Retained' \subseteq Retained, refs' = refs
        PROVE  RetainsCounted'
    <2>1. Cardinality(Retained') <= Cardinality(Retained) /\
            Cardinality(Retained') \in Nat
      <3>1. IsFiniteSet(Retained) /\ Retained' \subseteq Retained
        BY <1>e, <1>f
      <3>. QED
        BY <3>1, SubsetsCountLess
    <2>2. Cardinality(Retained') <= refs'
      BY <2>1, <1>r, <1>f
    <2>. QED
      BY <2>2 DEF RetainsCounted
  <1>g. ASSUME status' = status, refs' = refs, ~ Close(g), ~ CloseRelease(g),
               call'[g].at \in past => call[g].at \in past /\ Keeps(g)
        PROVE  RetainsCounted'
    <2>1. closed' = closed /\ \A d \in Ctx : closed[d] => mu'[d] = mu[d]
      BY <1>g, ClosedStays
    <2>2. \A h \in Goroutine : call'[h].at \in past =>
            call[h].at \in past /\ call'[h].ctx = call[h].ctx
      BY <1>a, <1>g DEF Keeps
    <2>3. Retained' \subseteq Retained
      BY <2>1, <2>2, <1>g DEF Retained, Making
    <2>. QED
      BY <2>3, <1>f, <1>g
  <1>1. CASE NewContext(g)
    <2>1. c = c
      OBVIOUS
    <2> DEFINE new == CHOOSE u \in Unmade : TRUE
    <2>2. /\ call[g].at = "idle" /\ status' = [status EXCEPT ![new] = "making"] /\
               call'[g].at = "retain"
          /\ UNCHANGED <<refs, closed, mu>>
      BY <1>1, Moves, <1>a DEF NewContext, device, fields
    <2>. HIDE DEF new
    <2>3. Retained' \subseteq Retained
      <3>1. \A d \in Ctx : status'[d] = "live" => status[d] = "live"
        BY <2>2, <1>c
      <3>. QED
        BY <2>2, <3>1, <1>a DEF Retained, Making
    <2>. QED
      BY <2>2, <2>3, <1>f
  <1>2. CASE Retain(g)
    <2>1. CASE Refuse(g) /\ UNCHANGED refs
      <3>1. /\ call[g].at = "retain" /\ call'[g].at = "idle" /\
                 UNCHANGED <<refs, closed, mu>>
            /\ status' = [status EXCEPT ![c] = "refused"]
        BY <1>2, <2>1, <1>a DEF Retain, Refuse, fields
      <3>2. \A d \in Ctx : status'[d] = "live" => status[d] = "live"
        BY <3>1, <1>c
      <3>3. Retained' \subseteq Retained
        BY <3>1, <3>2, <1>a DEF Retained, Making
      <3>. QED
        BY <3>1, <3>3, <1>f
    <2>2. CASE refs' = refs + 1 /\ Goto(g, "check") /\ UNCHANGED status
      <3>1. /\ call[g].at = "retain" /\ call'[g].at = "check" /\ Keeps(g) /\
                 refs' = refs + 1
            /\ UNCHANGED <<closed, mu, status>>
        BY <1>2, <2>2, <1>a DEF Retain, fields
      <3>2. Retained' \subseteq Retained \cup {c}
        BY <3>1, <1>a DEF Retained, Making, Keeps
      <3>3. /\ IsFiniteSet(Retained \cup {c})
            /\ Cardinality(Retained \cup {c}) <= Cardinality(Retained) + 1
        BY <1>e, OneMore
      <3>4. Cardinality(Retained') <= Cardinality(Retained \cup {c})
              /\ Cardinality(Retained') \in Nat /\
                   Cardinality(Retained \cup {c}) \in Nat
        <4>1. IsFiniteSet(Retained \cup {c}) /\ Retained' \subseteq Retained \cup {c}
          BY <3>2, <3>3
        <4>. QED
          BY <4>1, SubsetsCountLess
      <3>5. Cardinality(Retained') <= refs'
        BY <3>1, <3>3, <3>4, <1>r
      <3>. QED
        BY <3>5 DEF RetainsCounted
    <2>. QED
      BY <1>2, <2>1, <2>2 DEF Retain
  <1>3. CASE CheckPoison(g) \/ ReadAttributes(g) \/ TryBind(g)
    <2>1. /\ call[g].at \in past /\ UNCHANGED <<refs, closed, mu>>
          /\ \/ call'[g].at \in past /\ Keeps(g) /\ status' = status
             \/ call'[g].at = "idle" /\ \E s : status' = [status EXCEPT ![c] = s]
      BY <1>3, <1>a DEF CheckPoison, ReadAttributes, TryBind, Refuse, device, fields
    <2>2. c \in Retained
      BY <2>1, <1>b DEF Retained, Making
    <2>3. \A d \in Ctx : status'[d] = status[d] \/ d = c
      BY <2>1, <1>c
    <2>4. \A h \in Goroutine : call'[h].at \in past =>
            call[h].at \in past /\ call'[h].ctx = call[h].ctx
      BY <1>a, <2>1 DEF Keeps
    <2>5. Retained' \subseteq Retained
      BY <2>1, <2>2, <2>3, <2>4 DEF Retained, Making
    <2>. QED
      BY <2>1, <2>5, <1>f
  <1>4. CASE Close(g)
    <2>1. /\ call[g].at = "close" /\ ~ closed[c] /\ UNCHANGED <<refs, status>>
          /\ closed' = [closed EXCEPT ![c] = TRUE] /\ mu' = [mu EXCEPT ![c] = g]
          /\ call'[g].at = "walk"
      BY <1>4, Moves, <1>a DEF Close, Acquire, Lock, device
    <2>2. \A d \in Ctx \ {c} : closed'[d] = closed[d] /\ mu'[d] = mu[d]
      BY <2>1, <1>c
    <2>3. Retained' \subseteq Retained
      BY <2>1, <2>2, <1>a DEF Retained, Making
    <2>. QED
      BY <2>1, <2>3, <1>f
  <1>5. CASE CloseRelease(g)
    <2>1. /\ call[g].at = "walk" /\ refs' \in {refs, refs - 1} /\ status' = status /\
               closed' = closed
          /\ mu' = [mu EXCEPT ![c] = Nobody] /\ call'[g].at = "idle"
      BY <1>5, <1>a DEF CloseRelease, Unlock
    <2>2. c \in Ctx /\ mu[c] = g /\ closed[c] /\ status[c] = "live"
      BY <2>1, <1>a, <1>b DEF Exclusive, MakersAndUsers, Walking, Working, Holding
    <2>3. c \in Retained
      BY <2>2, NobodyAssumption DEF Retained
    <2>4. mu'[c] = Nobody /\ \A d \in Ctx \ {c} : mu'[d] = mu[d]
      BY <2>1, <2>2, <1>c
    <2>5. \A h \in Goroutine : call'[h].at \in past =>
            call[h].ctx # c /\ call[h].at \in past /\ call'[h].ctx = call[h].ctx
      BY <2>1, <2>2, <1>a DEF MakersAndUsers, Making
    <2>6. Retained' \subseteq Retained \ {c}
      BY <2>1, <2>2, <2>4, <2>5 DEF Retained, Making
    <2>7. /\ IsFiniteSet(Retained \ {c})
          /\ Cardinality(Retained \ {c}) = Cardinality(Retained) - 1
      BY <1>e, <2>3, FS_RemoveElement
    <2>8. Cardinality(Retained') <= Cardinality(Retained \ {c}) /\
            Cardinality(Retained') \in Nat
      <3>1. IsFiniteSet(Retained \ {c}) /\ Retained' \subseteq Retained \ {c}
        BY <2>6, <2>7
      <3>. HIDE DEF c
      <3>. QED
        BY <3>1, SubsetsCountLess
    <2>9. Cardinality(Retained') <= refs'
      BY <2>1, <2>7, <2>8, <1>r
    <2>. QED
      BY <2>9 DEF RetainsCounted
  <1>6. CASE Call(g)
    <2>. /\ UNCHANGED <<status, refs>> /\ call[g].at = "idle" /\
              call'[g].at \in {"close", "bindUse", "load", "unload"}
      BY <1>6, Moves, <1>a DEF Call, device
    <2>. QED
      BY <1>g DEF Close, CloseRelease, Acquire
  <1>7. CASE Use(g) \/ Served(g) \/ Build(g) \/ Built(g) \/ BindLoad(g) \/ LoadFails(g)
    <2>. /\ UNCHANGED <<status, refs>> /\ call[g].at \notin {"close", "walk"}
         /\ call'[g].at \in {"using", "idle", "bindLoad", "building", "loading"}
      BY <1>7, <1>a
      DEF Use, Served, Build, Built, BindLoad, LoadFails, Bind, Poison, Acquire, device
    <2>. QED
      BY <1>g DEF Close, CloseRelease, Acquire
  <1>8. CASE Loaded(g) \/ Unload(g) \/ BindUnload(g) \/ Unloaded(g) \/ CloseBind(g)
    <2>. /\ UNCHANGED <<status, refs>> /\ call[g].at \notin {"close", "walk"}
         /\ call'[g].at \in {"idle", "bindUnload", "unloading", "walkUnloading"}
      BY <1>8, <1>a
      DEF Loaded, Unload, BindUnload, Unloaded, Dropped, Kept, CloseBind, Bind, Poison,
          Acquire, device
    <2>. QED
      BY <1>g DEF Close, CloseRelease, Acquire
  <1>9. CASE CloseAgain(g)
    <2>. /\ UNCHANGED <<status, refs>> /\ closed[c] /\ call[g].at = "close" /\
              call'[g].at = "idle"
      BY <1>9, <1>a DEF CloseAgain, Acquire, device
    <2>. QED
      BY <1>g DEF Close, CloseRelease, Acquire
  <1>10. CASE CloseNext(g) \/ CloseUnloaded(g)
    <2>. /\ UNCHANGED <<status, refs>> /\ call[g].at \notin {"close"} /\
              call'[g].at \in Walking
         /\ (call[g].at = "walk" => call[g].rest # <<>>)
      BY <1>10, Moves, <1>a
      DEF CloseNext, CloseUnloaded, Dropped, Kept, Poison, device, Walking
    <2>. QED
      BY <1>g DEF Close, CloseRelease, Acquire, Walking
  <1>. QED
    BY <1>1, <1>2, <1>3, <1>4, <1>5, <1>6, <1>7, <1>8, <1>9, <1>10 DEF Step

(* A device fault only excuses more. *)
LEMMA FaultStep ==
  ASSUME IInv, Fault
  PROVE  IInv'
  <1>. USE DEF IInv, Fault, fields
  <1>1. TypeOK'
    <2>1. UNCHANGED <<Modules, Calls>>
      BY DEF Modules, Calls
    <2>. QED
      BY <2>1, Zenon DEF TypeOK
  <1>2. MakersAndUsers' /\ Exclusive'
    BY DEF MakersAndUsers, Exclusive, Modules
  <1>3. OwnModules' /\ HandlesAreListed' /\ CacheHasHandles'
    BY DEF OwnModules, HandlesAreListed, CacheHasHandles, Modules
  <1>4. Unloads'
    BY DEF Unloads
  <1>5. RetainsCounted'
    <2>1. UNCHANGED Retained
      BY DEF Retained
    <2>. QED
      BY <2>1 DEF RetainsCounted
  <1>. QED
    BY <1>1, <1>2, <1>3, <1>4, <1>5

(* No Context was made, no method called. *)
LEMMA InitIInv == Init => IInv
  <1>. SUFFICES ASSUME Init PROVE IInv
    OBVIOUS
  <1>1. owner \in Seq(Ctx) /\ Modules = {}
    BY DEF Init, Modules
  <1>2. call \in [Goroutine -> Calls]
    <2>1. Idle \in Calls
      BY DEF Idle, Calls
    <2>. QED
      BY <2>1 DEF Init
  <1>3. modules \in [Ctx -> Seq(Modules)]
    BY DEF Init
  <1>4. cache \in [Ctx -> [Key -> {NoModule} \cup Modules]]
    BY DEF Init
  <1>5. TypeOK
    <2>1. /\ refs \in Nat /\ faulted \in BOOLEAN /\ (poisoned => faulted)
          /\ resident \subseteq Modules /\ handle \subseteq Modules /\ stuck \subseteq Modules
      BY DEF Init
    <2>2. /\ status \in [Ctx -> {"none", "making", "refused", "beside an error",
               "live"}]
          /\ closed \in [Ctx -> BOOLEAN] /\ mu \in [Ctx -> Goroutine \cup {Nobody}]
      BY DEF Init
    <2>. QED
      BY <1>1, <1>2, <1>3, <1>4, <2>1, <2>2, Zenon DEF TypeOK
  <1>6. \A g \in Goroutine : call[g].at = "idle"
    BY DEF Init, Idle
  <1>7. MakersAndUsers /\ Exclusive
    BY <1>1, <1>6 DEF Init, MakersAndUsers, Exclusive, Making, Working, Holding
  <1>8. OwnModules /\ HandlesAreListed /\ CacheHasHandles
    BY <1>6 DEF Init, OwnModules, HandlesAreListed, CacheHasHandles, Unloading, Walking
  <1>9. Unloads
    BY <1>6 DEF Init, Unloads, Unloading
  <1>10. RetainsCounted
    <2>1. Retained = {}
      BY <1>6 DEF Init, Retained, Making
    <2>. QED
      BY <2>1, FS_EmptySet DEF Init, RetainsCounted
  <1>. QED
    BY <1>5, <1>7, <1>8, <1>9, <1>10 DEF IInv

(* The strengthening is inductive: whatever the goroutines do, and however *)
(* their methods interleave, a step keeps it (Init to CloseRelease).       *)
THEOREM Invariance == Spec => []IInv
  <1>1. Init => IInv
    BY InitIInv
  <1>2. IInv /\ [Next]_vars => IInv'
    <2>. SUFFICES ASSUME IInv, [Next]_vars PROVE IInv'
      OBVIOUS
    <2>1. CASE Fault
      BY <2>1, FaultStep
    <2>2. ASSUME NEW g \in Goroutine, NewContext(g) \/ Call(g) \/ Step(g)
          PROVE  IInv'
      BY <2>2, TypeStep, MakersStep, ExclusiveStep, OwnStep, ListedStep, CacheStep,
         UnloadsStep, RetainsStep, Zenon DEF IInv
    <2>3. CASE UNCHANGED vars
      <3>1. UNCHANGED <<Modules, Calls, Retained>>
        BY <2>3 DEF vars, device, fields, Modules, Calls, Retained
      <3>2. TypeOK'
        BY <2>3, <3>1, Zenon DEF IInv, TypeOK, vars, device, fields
      <3>3. MakersAndUsers' /\ Exclusive' /\ OwnModules'
        BY <2>3, <3>1
        DEF IInv, MakersAndUsers, Exclusive, OwnModules, vars, device, fields
      <3>4. HandlesAreListed' /\ CacheHasHandles' /\ Unloads'
        BY <2>3
        DEF IInv, HandlesAreListed, CacheHasHandles, Unloads, vars, device, fields
      <3>5. RetainsCounted'
        BY <2>3, <3>1 DEF IInv, RetainsCounted, vars, device
      <3>. QED
        BY <3>2, <3>3, <3>4, <3>5 DEF IInv
    <2>. QED
      BY <2>1, <2>2, <2>3 DEF Next
  <1>. QED
    BY <1>1, <1>2, PTL DEF Spec

(* The variables stay of their kinds: every field of every Context, the    *)
(* driver's counts, and where each call is.                                *)
THEOREM TypeCorrect == Spec => []TypeOK
  <1>1. IInv => TypeOK
    BY DEF IInv
  <1>. QED
    BY <1>1, Invariance, PTL

(* Context.Close unloads what is left, whatever Unload, LoadPTX or another *)
(* Close did meanwhile, and whatever fails: a module survives its context  *)
(* only where its own unload failed.                                       *)
THEOREM ModulesEndWithTheirContext == Spec => []NothingOutlivesItsContext
  <1>1. IInv => NothingOutlivesItsContext
    <2>. SUFFICES ASSUME IInv, NEW c \in Ctx, closed[c], mu[c] = Nobody,
                         NEW i \in resident, owner[i] = c, i \notin stuck
                  PROVE  FALSE
      BY DEF NothingOutlivesItsContext
    <2>1. CASE i \in handle
      BY <2>1 DEF IInv, HandlesAreListed
    <2>2. CASE i \notin handle
      <3>1. PICK g \in Goroutine : call[g].at \in Unloading /\ call[g].mod = i
        BY <2>2 DEF IInv, Unloads
      <3>2. mu[c] = g
        BY <3>1 DEF IInv, OwnModules, Exclusive, Unloading, Holding
      <3>. QED
        BY <3>2, NobodyAssumption
    <2>. QED
      BY <2>1, <2>2
  <1>. QED
    BY <1>1, Invariance, PTL

(* Module.Unload and Context.Close between them never have the driver      *)
(* unload a module twice, or after the last Context of the device is       *)
(* closed.                                                                 *)
THEOREM NoModuleUnloadedTwice == Spec => []NoStaleHandle
  <1>1. IInv => NoStaleHandle
    BY DEF IInv, Unloads, NoStaleHandle, Unloading
  <1>. QED
    BY <1>1, Invariance, PTL

(* LoadPTXCached serves a module that is loaded and that Close will still  *)
(* unload.                                                                 *)
THEOREM CacheIsLive == Spec => []CacheServesLoadedModules
  <1>1. IInv => CacheServesLoadedModules
    <2>. SUFFICES ASSUME IInv, NEW c \in Ctx, NEW k \in Key, mu[c] = Nobody,
                         cache[c][k] # NoModule
                  PROVE  /\ cache[c][k] \in handle
                         /\ \E at \in DOMAIN modules[c] : modules[c][at] = cache[c][k]
      BY DEF CacheServesLoadedModules
    <2>1. ~ closed[c] /\ cache[c][k] \in handle /\ owner[cache[c][k]] = c
      BY DEF IInv, CacheHasHandles, OwnModules
    <2>. QED
      BY <2>1 DEF IInv, HandlesAreListed
  <1>. QED
    BY <1>1, Invariance, PTL
=============================================================================
