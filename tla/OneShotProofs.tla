--------------------------- MODULE OneShotProofs ---------------------------
(***************************************************************************)
(* What every step of the shared skeleton preserves: its type invariant    *)
(* and SkeletonInv.  The proofs about the controllers that extend the      *)
(* skeleton cite these lemmas, one per kind of step.                       *)
(***************************************************************************)
EXTENDS OneShotReconciler, TLAPS

\* The vocabulary is typed.
LEMMA BlankTyped ==
  /\ NoConditions \in [Conditions -> CondValue]
  /\ Blank \in Object
  /\ NoStrategy \in Strategy
BY DEF NoConditions, CondValue, Blank, Object, NoStrategy, Strategy, Location

\* SetCondition yields an object of the same version that carries a mark.
LEMMA SetConditionMarks ==
  ASSUME NEW m \in Object, NEW t \in Conditions, NEW v \in {"True", "False"}
  PROVE  /\ SetCondition(m, t, v) \in Object
         /\ SetCondition(m, t, v).conds # NoConditions
         /\ SetCondition(m, t, v).uid = m.uid
         /\ SetCondition(m, t, v).rv = m.rv
         /\ SetCondition(m, t, v).live = m.live
         /\ SetCondition(m, t, v).conds[t] = v
         /\ \A u \in Conditions \ {t} :
              SetCondition(m, t, v).conds[u] = m.conds[u]
<1> DEFINE c == [m.conds EXCEPT ![t] = v]
<1>1. c \in [Conditions -> CondValue] /\ c[t] = v
      /\ \A u \in Conditions \ {t} : c[u] = m.conds[u]
  BY DEF Object, CondValue
<1>2. SetCondition(m, t, v) = [m EXCEPT !.conds = c]
  BY DEF SetCondition
<1>3. c # NoConditions
  BY <1>1 DEF NoConditions
<1> HIDE DEF c
<1>4. QED
  BY <1>1, <1>2, <1>3 DEF Object

\* What the API server stores of an update it takes.
LEMMA StoredTyped ==
  ASSUME api \in [Objects -> Object], NEW b \in Objects, NEW m \in Object,
         Accepts(b, m)
  PROVE  /\ Stored(b, m) \in Object
         /\ Stored(b, m).conds = m.conds
         /\ Stored(b, m).live
         /\ Stored(b, m).uid = api[b].uid
         /\ Stored(b, m).rv >= api[b].rv
         /\ Stored(b, m).rv = api[b].rv => Stored(b, m) = api[b]
<1>1. api[b] \in Object /\ api[b].rv \in Nat /\ api[b].live
  BY DEF Accepts, Object
<1>2. CASE m.conds = api[b].conds
  BY <1>1, <1>2 DEF Stored
<1>3. CASE m.conds # api[b].conds
  BY <1>1, <1>3 DEF Stored, Revision, Object
<1>4. QED
  BY <1>2, <1>3

\* The variables of a worker keep their types when it returns or goes on.
LEMMA ReturnTyped ==
  ASSUME SkeletonTypeOK, NEW o \in Operators, Return(o)
  PROVE  /\ pc'    \in [Operators -> Stage]
         /\ key'   \in [Operators -> Objects \cup {None}]
         /\ obj'   \in [Operators -> Object]
         /\ strat' \in [Operators -> Strategy]
         /\ todo'  \in [Operators -> SUBSET Location]
<1>1. Blank \in Object /\ NoStrategy \in Strategy /\ "idle" \in Stage
  BY BlankTyped DEF Stage, Early
<1>2. pc' \in [Operators -> Stage]
  BY <1>1 DEF SkeletonTypeOK, Return
<1>3. key' \in [Operators -> Objects \cup {None}]
  BY DEF SkeletonTypeOK, Return
<1>4. obj' \in [Operators -> Object]
  BY <1>1 DEF SkeletonTypeOK, Return
<1>5. strat' \in [Operators -> Strategy]
  BY <1>1 DEF SkeletonTypeOK, Return
<1>6. todo' \in [Operators -> SUBSET Location]
  BY DEF SkeletonTypeOK, Return
<1>7. QED
  BY <1>2, <1>3, <1>4, <1>5, <1>6

---------------------------------------------------------------------------
(* Steps of one worker that write nothing at the API server.               *)

\* A worker may return, take a fresh object from its cache, go on before its
\* first write, or go on after it with the version it holds.
Moves(o, p, k, m) ==
  \/ p = "idle"
  \/ /\ pc[o] = "idle" /\ p = "refs" /\ k \in Objects /\ m = cache[o][k]
     /\ m.live /\ m.conds = NoConditions
  \/ /\ pc[o] \in Early \ {"idle"} /\ p \in Early \ {"idle"}
     /\ k = key[o] /\ m = obj[o]
  \/ /\ Claimed(o) /\ p \notin Early /\ k = key[o]
     /\ m.uid = obj[o].uid /\ m.rv = obj[o].rv /\ m.conds # NoConditions

LEMMA MoveKeepsInv ==
  ASSUME SkeletonTypeOK, SkeletonInv, UNCHANGED <<api, cache, claims>>,
         NEW o \in Operators, NEW p \in Stage,
         NEW k \in Objects \cup {None}, NEW m \in Object,
         pc' = [pc EXCEPT ![o] = p], key' = [key EXCEPT ![o] = k],
         obj' = [obj EXCEPT ![o] = m],
         Moves(o, p, k, m)
  PROVE  SkeletonInv'
<1> USE DEF SkeletonTypeOK, Object
<1>1. CacheBehind' /\ ClaimsMarked'
  BY DEF SkeletonInv, CacheBehind, ClaimsMarked
<1>2. HeldBehind'
  <2> SUFFICES ASSUME NEW q \in Operators, pc'[q] # "idle"
               PROVE  /\ key'[q] \in Objects
                      /\ obj'[q].uid <= api[key'[q]].uid
                      /\ obj'[q].rv <= api[key'[q]].rv
                      /\ obj'[q].rv = api[key'[q]].rv =>
                           /\ api[key'[q]].live
                           /\ api[key'[q]].uid = obj'[q].uid
                           /\ pc'[q] \in Early => api[key'[q]].conds = NoConditions
                      /\ pc'[q] \notin Early => obj'[q].conds # NoConditions
    BY DEF HeldBehind, Current, Claimed
  <2>1. CASE q # o
    BY <2>1 DEF SkeletonInv, HeldBehind, Current, Claimed
  <2>2. CASE q = o
    BY <2>2 DEF SkeletonInv, HeldBehind, CacheBehind, Moves, Current, Claimed, Early
  <2>3. QED
    BY <2>1, <2>2
<1>3. OneClaimant'
  <2>1. ASSUME NEW q \in Operators, Claimed(q)', Current(q)'
        PROVE  Claimed(q) /\ Current(q) /\ key'[q] = key[q]
    BY <2>1 DEF Moves, Claimed, Current, Early
  <2>2. QED
    BY <2>1 DEF SkeletonInv, OneClaimant
<1>4. QED
  BY <1>1, <1>2, <1>3 DEF SkeletonInv

---------------------------------------------------------------------------
(* A status write that the API server takes.                               *)

\* Worker o writes m to object b and goes to stage p with the version n of k.
Writes(o, b, m, p, k, n) ==
  /\ b = key[o] /\ m.rv = obj[o].rv /\ m.conds # NoConditions
  /\ Accepts(b, m) /\ api' = [api EXCEPT ![b] = Stored(b, m)]
  /\ cache' = cache
  /\ pc' = [pc EXCEPT ![o] = p] /\ key' = [key EXCEPT ![o] = k]
  /\ obj' = [obj EXCEPT ![o] = n]
  /\ p = "idle" \/ (p \notin Early /\ k = b /\ n = Stored(b, m))
  /\ \/ claims' = claims
     \/ ~ Claimed(o) /\ claims' = [claims EXCEPT ![b] = @ + 1]

LEMMA WriteKeepsInv ==
  ASSUME SkeletonTypeOK, SkeletonInv, NEW o \in Operators, pc[o] # "idle",
         NEW b \in Objects, NEW m \in Object, NEW p \in Stage,
         NEW k \in Objects \cup {None}, NEW n \in Object,
         Writes(o, b, m, p, k, n)
  PROVE  SkeletonInv'
<1> USE DEF SkeletonTypeOK, Writes
<1> DEFINE s == Stored(b, m)
<1>1. /\ s \in Object /\ s.conds = m.conds /\ s.live /\ s.uid = api[b].uid
      /\ s.rv >= api[b].rv /\ (s.rv = api[b].rv => s = api[b])
  BY StoredTyped
<1>0. s.rv \in Nat /\ s.uid \in Nat /\ api[b].rv \in Nat /\ api[b].uid \in Nat
  BY <1>1 DEF Object
<1>2. api' = [api EXCEPT ![b] = s]
  OBVIOUS
<1>3. n = s \/ p = "idle"
  OBVIOUS
<1>4. /\ obj[o].rv = api[b].rv /\ Current(o) /\ obj[o].uid = api[b].uid
      /\ ~ Claimed(o) => api[b].conds = NoConditions
  BY DEF SkeletonInv, HeldBehind, Accepts, Current
<1> HIDE DEF s
<1>5. CacheBehind'
  <2> SUFFICES ASSUME NEW q \in Operators, NEW c \in Objects
               PROVE  /\ cache[q][c].uid <= api'[c].uid
                      /\ cache[q][c].rv <= api'[c].rv
                      /\ cache[q][c].rv = api'[c].rv => cache[q][c] = api'[c]
    BY DEF CacheBehind
  <2>1. CASE c # b
    BY <1>2, <2>1 DEF SkeletonInv, CacheBehind
  <2>2. CASE c = b
    <3>1. cache[q][b].rv \in Nat /\ cache[q][b].uid \in Nat /\ api'[b] = s
      BY <1>2 DEF Object
    <3>2. /\ cache[q][b].uid <= api[b].uid /\ cache[q][b].rv <= api[b].rv
          /\ cache[q][b].rv = api[b].rv => cache[q][b] = api[b]
      BY DEF SkeletonInv, CacheBehind
    <3> HIDE DEF SkeletonTypeOK
    <3>3. cache[q][b].rv <= s.rv /\ (cache[q][b].rv = s.rv => cache[q][b] = s)
      BY <1>0, <1>1, <3>1, <3>2
    <3>4. QED
      BY <1>1, <2>2, <3>1, <3>2, <3>3
  <2>3. QED
    BY <2>1, <2>2
<1>6. HeldBehind'
  <2> SUFFICES ASSUME NEW q \in Operators, pc'[q] # "idle"
               PROVE  /\ key'[q] \in Objects
                      /\ obj'[q].uid <= api'[key'[q]].uid
                      /\ obj'[q].rv <= api'[key'[q]].rv
                      /\ obj'[q].rv = api'[key'[q]].rv =>
                           /\ api'[key'[q]].live
                           /\ api'[key'[q]].uid = obj'[q].uid
                           /\ pc'[q] \in Early => api'[key'[q]].conds = NoConditions
                      /\ pc'[q] \notin Early => obj'[q].conds # NoConditions
    BY DEF HeldBehind, Current, Claimed
  <2>1. CASE q = o
    BY <1>0, <1>1, <1>2, <1>3, <2>1
  <2>2. CASE q # o /\ key[q] # b
    BY <1>2, <2>2 DEF SkeletonInv, HeldBehind, Current, Claimed
  <2>3. CASE q # o /\ key[q] = b
    <3>1. /\ api'[b] = s /\ pc'[q] = pc[q] /\ key'[q] = b /\ obj'[q] = obj[q]
          /\ obj[q].rv \in Nat /\ obj[q].uid \in Nat
      BY <1>2, <2>3 DEF Object
    <3>2. /\ obj[q].uid <= api[b].uid /\ obj[q].rv <= api[b].rv
          /\ obj[q].rv = api[b].rv =>
               /\ api[b].live /\ api[b].uid = obj[q].uid
               /\ pc[q] \in Early => api[b].conds = NoConditions
          /\ pc[q] \notin Early => obj[q].conds # NoConditions
      BY <2>3, <3>1 DEF SkeletonInv, HeldBehind, Current, Claimed
    <3> HIDE DEF SkeletonTypeOK
    <3>3. obj[q].rv <= s.rv /\ (obj[q].rv = s.rv => obj[q].rv = api[b].rv)
      BY <1>0, <1>1, <3>1, <3>2
    <3>4. QED
      BY <1>1, <3>1, <3>2, <3>3
  <2>4. QED
    BY <2>1, <2>2, <2>3
<1>7. ClaimsMarked'
  BY <1>1, <1>2, <1>4, m.conds # NoConditions
  DEF SkeletonInv, ClaimsMarked, Accepts
<1>8. OneClaimant'
  <2>1. ASSUME NEW q \in Operators, q # o, Claimed(q)', Current(q)'
        PROVE  Claimed(q) /\ Current(q) /\ key'[q] = key[q] /\ key[q] \in Objects
    BY <1>1, <1>2, <2>1 DEF SkeletonInv, HeldBehind, Claimed, Current, Accepts, Early
  <2>2. ASSUME Claimed(o)', NEW q \in Operators, q # o, Claimed(q)', Current(q)'
        PROVE  key'[q] # b
    BY <1>4, <2>1, <2>2 DEF SkeletonInv, OneClaimant
  <2>3. Claimed(o)' => key'[o] = b
    BY DEF Claimed, Early
  <2>4. ASSUME NEW q \in Operators, Claimed(q)', Current(q)'
        PROVE  api'[key'[q]].conds # NoConditions
    BY <1>1, <1>2, <2>1, <2>3, <2>4 DEF SkeletonInv, OneClaimant
  <2>5. QED
    BY <2>1, <2>2, <2>3, <2>4 DEF SkeletonInv, OneClaimant
<1>9. QED
  BY <1>5, <1>6, <1>7, <1>8 DEF SkeletonInv

---------------------------------------------------------------------------
(* Restarts, watches and users.                                            *)

LEMMA RestartKeeps ==
  ASSUME SkeletonTypeOK, SkeletonInv, NEW o \in Operators, Restart(o),
         faults' \in Nat
  PROVE  SkeletonTypeOK' /\ SkeletonInv'
<1> USE DEF SkeletonTypeOK
<1>1. PICK lag \in SUBSET Objects :
        cache' = [cache EXCEPT ![o] =
                   [b \in Objects |-> IF b \in lag THEN cache[o][b] ELSE api[b]]]
  BY DEF Restart
<1>2. SkeletonTypeOK'
  <2>1. cache' \in [Operators -> [Objects -> Object]]
    BY <1>1
  <2>2. queue' \in [Operators -> SUBSET Objects]
    BY DEF Restart
  <2>3. abandoned' \in [Objects -> BOOLEAN]
    <3> DEFINE B(b) == abandoned[b] \/ (b = key[o] /\ Current(o) /\ Claimed(o))
    <3>1. abandoned' = [b \in Objects |-> B(b)]
      BY DEF Restart
    <3>2. \A b \in Objects : B(b) \in BOOLEAN
      OBVIOUS
    <3> HIDE DEF B, SkeletonTypeOK
    <3>3. QED
      BY <3>1, <3>2
  <2>4. Return(o) /\ UNCHANGED <<api, claims>>
    BY DEF Restart
  <2>5. QED
    BY <2>1, <2>2, <2>3, <2>4, ReturnTyped
<1>3. /\ UNCHANGED <<api, claims>>
      /\ \A q \in Operators : pc'[q] # "idle" =>
           q # o /\ pc'[q] = pc[q] /\ key'[q] = key[q] /\ obj'[q] = obj[q]
  BY DEF Restart, Return
<1>4. CacheBehind'
  <2>1. \A b \in Objects : api[b].uid \in Nat /\ api[b].rv \in Nat
    BY DEF Object
  <2>2. \A q \in Operators, b \in Objects :
          cache'[q][b] = cache[q][b] \/ cache'[q][b] = api[b]
    BY <1>1
  <2>3. QED
    BY <1>3, <2>1, <2>2 DEF SkeletonInv, CacheBehind
<1>5. HeldBehind'
  BY <1>3 DEF SkeletonInv, HeldBehind, Current, Claimed
<1>6. ClaimsMarked' /\ OneClaimant'
  <2>1. \A q \in Operators : Claimed(q)' => pc'[q] # "idle"
    BY DEF Claimed, Early
  <2>2. QED
    BY <1>3, <2>1 DEF SkeletonInv, ClaimsMarked, OneClaimant, Current, Claimed
<1>7. QED
  BY <1>2, <1>4, <1>5, <1>6 DEF SkeletonInv

LEMMA DeliverKeeps ==
  ASSUME SkeletonTypeOK, SkeletonInv, NEW o \in Operators, NEW b \in Objects,
         Deliver(o, b)
  PROVE  SkeletonTypeOK' /\ SkeletonInv'
<1> USE DEF SkeletonTypeOK
<1>1. SkeletonTypeOK'
  BY DEF Deliver, localVars
<1>2. UNCHANGED <<api, pc, key, obj, claims>>
  BY DEF Deliver, localVars
<1>3. CacheBehind'
  <2>1. \A c \in Objects : api[c].uid \in Nat /\ api[c].rv \in Nat
    BY DEF Object
  <2>2. \A q \in Operators, c \in Objects :
          cache'[q][c] = cache[q][c] \/ cache'[q][c] = api[c]
    BY DEF Deliver
  <2>3. QED
    BY <1>2, <2>1, <2>2 DEF SkeletonInv, CacheBehind
<1>4. HeldBehind' /\ ClaimsMarked' /\ OneClaimant'
  BY <1>2 DEF SkeletonInv, HeldBehind, ClaimsMarked, OneClaimant, Current, Claimed
<1>5. QED
  BY <1>1, <1>3, <1>4 DEF SkeletonInv

\* A step of users only replaces the object of one name by a later version:
\* a fresh one, none, or the same with the conditions it had.
LEMMA UserStepKeepsInv ==
  ASSUME SkeletonTypeOK, SkeletonInv, UNCHANGED <<cache, pc, key, obj>>,
         NEW b \in Objects, NEW n \in Object,
         api' = [api EXCEPT ![b] = n], n.rv = api[b].rv + 1,
         claims' \in [Objects -> Nat],
         \A c \in Objects \ {b} : claims'[c] = claims[c],
         \/ n.live /\ n.uid = api[b].uid + 1 /\ claims'[b] = 0
         \/ ~ n.live /\ n.uid = api[b].uid /\ claims' = claims
         \/ /\ api[b].live /\ n.live /\ n.uid = api[b].uid
            /\ n.conds = api[b].conds /\ claims' = claims
  PROVE  SkeletonInv'
<1> USE DEF SkeletonTypeOK
<1>1. /\ api[b].rv \in Nat /\ api[b].uid \in Nat /\ api'[b] = n
      /\ \A c \in Objects \ {b} : api'[c] = api[c]
  BY DEF Object
<1>2. \A q \in Operators, c \in Objects :
        cache[q][c].rv \in Nat /\ cache[q][c].uid \in Nat
  BY DEF Object
<1>3. \A q \in Operators : obj[q].rv \in Nat /\ obj[q].uid \in Nat
  BY DEF Object
<1>4. CacheBehind'
  BY <1>1, <1>2 DEF SkeletonInv, CacheBehind
<1>5. HeldBehind'
  <2> SUFFICES ASSUME NEW q \in Operators, pc[q] # "idle"
               PROVE  /\ key[q] \in Objects
                      /\ obj[q].uid <= api'[key[q]].uid
                      /\ obj[q].rv <= api'[key[q]].rv
                      /\ obj[q].rv = api'[key[q]].rv =>
                           /\ api'[key[q]].live
                           /\ api'[key[q]].uid = obj[q].uid
                           /\ pc[q] \in Early => api'[key[q]].conds = NoConditions
                      /\ pc[q] \notin Early => obj[q].conds # NoConditions
    BY DEF HeldBehind, Current, Claimed
  <2>1. CASE key[q] # b
    BY <1>1, <2>1 DEF SkeletonInv, HeldBehind, Current, Claimed
  <2>2. CASE key[q] = b
    BY <1>1, <1>3, <2>2 DEF SkeletonInv, HeldBehind, Current, Claimed
  <2>3. QED
    BY <2>1, <2>2
<1>6. ClaimsMarked'
  <2> SUFFICES ASSUME NEW c \in Objects
               PROVE  /\ claims'[c] <= 1
                      /\ api'[c].live /\ api'[c].conds = NoConditions => claims'[c] = 0
    BY DEF ClaimsMarked
  <2>1. claims[c] <= 1 /\ (api[c].live /\ api[c].conds = NoConditions => claims[c] = 0)
    BY DEF SkeletonInv, ClaimsMarked
  <2>2. CASE c # b
    BY <1>1, <2>1, <2>2
  <2>3. CASE c = b
    <3>1. CASE n.live /\ claims'[b] = 0
      BY <1>1, <2>3, <3>1
    <3>2. CASE ~ n.live /\ claims' = claims
      BY <1>1, <2>1, <2>3, <3>2
    <3>3. CASE api[b].live /\ n.conds = api[b].conds /\ claims' = claims
      BY <1>1, <2>1, <2>3, <3>3
    <3>4. QED
      BY <3>1, <3>2, <3>3
  <2>4. QED
    BY <2>2, <2>3
<1>7. OneClaimant'
  <2>1. ASSUME NEW q \in Operators, Claimed(q)', Current(q)'
        PROVE  /\ Claimed(q) /\ Current(q) /\ key[q] \in Objects
               /\ api'[key[q]].conds = api[key[q]].conds
    BY <1>1, <1>3, <2>1 DEF SkeletonInv, HeldBehind, Current, Claimed, Early
  <2>2. QED
    BY <2>1 DEF SkeletonInv, OneClaimant
<1>8. QED
  BY <1>4, <1>5, <1>6, <1>7 DEF SkeletonInv

LEMMA UserStepKeeps ==
  ASSUME SkeletonTypeOK, SkeletonInv, NEW b \in Objects,
         Create(b) \/ Delete(b) \/ Touch(b)
  PROVE  SkeletonTypeOK' /\ SkeletonInv'
<1> USE DEF SkeletonTypeOK, localVars, Revision
<1>1. api[b].rv \in Nat /\ api[b].uid \in Nat /\ api[b] \in Object
  BY DEF Object
<1>2. CASE Create(b)
  <2> DEFINE n == Revision(b, TRUE, api[b].uid + 1, NoConditions)
  <2>1. n \in Object
    BY <1>1, BlankTyped DEF Object
  <2>2. SkeletonTypeOK'
    BY <1>2, <2>1 DEF Create
  <2>3. SkeletonInv'
    BY <1>2, <2>1, UserStepKeepsInv DEF Create
  <2>4. QED
    BY <2>2, <2>3
<1>3. CASE Delete(b)
  <2> DEFINE n == Revision(b, FALSE, api[b].uid, NoConditions)
  <2>1. n \in Object
    BY <1>1, BlankTyped DEF Object
  <2>2. SkeletonTypeOK'
    BY <1>3, <2>1 DEF Delete
  <2>3. SkeletonInv'
    BY <1>3, <2>1, UserStepKeepsInv DEF Delete
  <2>4. QED
    BY <2>2, <2>3
<1>4. CASE Touch(b)
  <2> DEFINE n == Revision(b, TRUE, api[b].uid, api[b].conds)
  <2>1. n \in Object /\ n.conds = api[b].conds
    BY <1>1 DEF Object
  <2>2. SkeletonTypeOK'
    BY <1>4, <2>1 DEF Touch
  <2>3. SkeletonInv'
    BY <1>4, <2>1, UserStepKeepsInv DEF Touch
  <2>4. QED
    BY <2>2, <2>3
<1>5. QED
  BY <1>2, <1>3, <1>4

LEMMA ResyncKeeps ==
  ASSUME SkeletonTypeOK, SkeletonInv, NEW o \in Operators, Resync(o)
  PROVE  SkeletonTypeOK' /\ SkeletonInv'
BY DEF Resync, localVars, SkeletonTypeOK, SkeletonInv, CacheBehind, HeldBehind,
       ClaimsMarked, OneClaimant, Current, Claimed

---------------------------------------------------------------------------
(* The worker's steps of the skeleton.                                     *)

LEMMA DequeueKeeps ==
  ASSUME SkeletonTypeOK, SkeletonInv, NEW o \in Operators, NEW b \in Objects,
         Dequeue(o, b)
  PROVE  SkeletonTypeOK' /\ SkeletonInv'
<1>1. UNCHANGED <<api, cache, strat, todo, faults, claims, abandoned>>
      /\ queue' \in [Operators -> SUBSET Objects]
  BY DEF Dequeue, Unmarked, SkeletonTypeOK
<1>2. CASE UNCHANGED <<pc, key, obj>>
  BY <1>1, <1>2 DEF SkeletonTypeOK, SkeletonInv, CacheBehind, HeldBehind,
     ClaimsMarked, OneClaimant, Current, Claimed
<1>3. CASE /\ cache[o][b].live /\ cache[o][b].conds = NoConditions
           /\ pc'  = [pc EXCEPT ![o] = "refs"]
           /\ key' = [key EXCEPT ![o] = b]
           /\ obj' = [obj EXCEPT ![o] = cache[o][b]]
  <2>1. cache[o][b] \in Object /\ "refs" \in Stage
    BY DEF SkeletonTypeOK, Stage, Early
  <2>2. Moves(o, "refs", b, cache[o][b])
    BY <1>3 DEF Moves, Dequeue
  <2>3. SkeletonInv'
    BY <1>1, <1>3, <2>1, <2>2, MoveKeepsInv
  <2>4. SkeletonTypeOK'
    BY <1>1, <1>3, <2>1 DEF SkeletonTypeOK
  <2>5. QED
    BY <2>3, <2>4
<1>4. QED
  BY <1>2, <1>3 DEF Dequeue, Unmarked

\* A return and a retry write nothing.
LEMMA ReturnKeeps ==
  ASSUME SkeletonTypeOK, SkeletonInv, NEW o \in Operators, Return(o),
         UNCHANGED <<api, cache, claims>>, faults' \in Nat,
         queue' \in [Operators -> SUBSET Objects],
         abandoned' \in [Objects -> BOOLEAN]
  PROVE  SkeletonTypeOK' /\ SkeletonInv'
<1>1. SkeletonTypeOK'
  BY ReturnTyped DEF SkeletonTypeOK
<1>2. "idle" \in Stage /\ Blank \in Object /\ Moves(o, "idle", None, Blank)
  BY BlankTyped DEF Stage, Early, Moves
<1>3. SkeletonInv'
  BY <1>2, MoveKeepsInv DEF Return
<1>4. QED
  BY <1>1, <1>3

LEMMA GiveUpTyped ==
  ASSUME SkeletonTypeOK, NEW o \in Operators, key[o] \in Objects,
         NEW r \in BOOLEAN, GiveUp(o, r)
  PROVE  /\ queue' \in [Operators -> SUBSET Objects]
         /\ abandoned' \in [Objects -> BOOLEAN]
         /\ Return(o)
<1> DEFINE a == abandoned[key[o]] \/ (Current(o) /\ (Claimed(o) \/ r))
<1>1. a \in BOOLEAN
  OBVIOUS
<1>2. abandoned' = [abandoned EXCEPT ![key[o]] = a]
  BY DEF GiveUp
<1> HIDE DEF a
<1>3. abandoned' \in [Objects -> BOOLEAN]
  BY <1>1, <1>2 DEF SkeletonTypeOK
<1>4. queue' \in [Operators -> SUBSET Objects]
  BY DEF GiveUp, SkeletonTypeOK
<1>5. QED
  BY <1>3, <1>4 DEF GiveUp

\* What a status update may do: write the object and go on or return, or
\* return with an error with or without having written it.
LEMMA UpdateOutcomes ==
  ASSUME SkeletonTypeOK, NEW o \in Operators, key[o] \in Objects,
         NEW m \in Object, NEW next \in Stage, Update(o, m, next)
  PROVE  /\ cache' = cache
         /\ faults' \in Nat
         /\ queue' \in [Operators -> SUBSET Objects]
         /\ abandoned' \in [Objects -> BOOLEAN]
         /\ \/ /\ next # "idle" /\ Accepts(key[o], m)
               /\ api' = [api EXCEPT ![key[o]] = Stored(key[o], m)]
               /\ Go(o, next, Stored(key[o], m)) /\ UNCHANGED <<strat, todo>>
            \/ /\ Return(o) /\ Accepts(key[o], m)
               /\ api' = [api EXCEPT ![key[o]] = Stored(key[o], m)]
            \/ Return(o) /\ api' = api
<1>1. CASE UpdateTaken(o, m, next)
  BY <1>1 DEF UpdateTaken, Update, SkeletonTypeOK
<1>2. CASE UpdateRefused(o, m)
  BY <1>2, GiveUpTyped DEF UpdateRefused, Update, SkeletonTypeOK
<1>3. CASE UpdateLost(o, m)
  <2>1. faults' \in Nat /\ cache' = cache
    BY <1>3 DEF UpdateLost, Update, SkeletonTypeOK
  <2>2. CASE api' = api /\ GiveUp(o, FALSE)
    BY <2>1, <2>2, GiveUpTyped
  <2>3. CASE /\ Accepts(key[o], m)
             /\ api' = [api EXCEPT ![key[o]] = Stored(key[o], m)]
             /\ GiveUp(o, TRUE)
    BY <2>1, <2>3, GiveUpTyped
  <2>4. QED
    BY <1>3, <2>2, <2>3 DEF UpdateLost
<1>4. QED
  BY <1>1, <1>2, <1>3 DEF Update

LEMMA UpdateKeeps ==
  ASSUME SkeletonTypeOK, SkeletonInv, NEW o \in Operators, pc[o] # "idle",
         NEW m \in Object, m.rv = obj[o].rv, m.conds # NoConditions,
         NEW next \in Stage, next = "idle" \/ next \notin Early,
         Update(o, m, next), claims' \in [Objects -> Nat],
         \/ claims' = claims
         \/ /\ ~ Claimed(o) /\ pc'[o] # "idle"
            /\ claims' = [claims EXCEPT ![key[o]] = @ + 1]
  PROVE  SkeletonTypeOK' /\ SkeletonInv'
<1>1. key[o] \in Objects
  BY DEF SkeletonInv, HeldBehind
<1>2. /\ cache' = cache /\ faults' \in Nat
      /\ queue' \in [Operators -> SUBSET Objects]
      /\ abandoned' \in [Objects -> BOOLEAN]
  BY <1>1, UpdateOutcomes
<1>3. CASE /\ next # "idle" /\ Accepts(key[o], m)
           /\ api' = [api EXCEPT ![key[o]] = Stored(key[o], m)]
           /\ Go(o, next, Stored(key[o], m)) /\ UNCHANGED <<strat, todo>>
  <2>1. Stored(key[o], m) \in Object /\ key' = key
    BY <1>1, <1>3, StoredTyped DEF SkeletonTypeOK, Go
  <2>2. SkeletonTypeOK'
    BY <1>1, <1>2, <1>3, <2>1 DEF SkeletonTypeOK, Go
  <2>3. key' = [key EXCEPT ![o] = key[o]]
    BY <2>1 DEF SkeletonTypeOK
  <2>4. Writes(o, key[o], m, next, key[o], Stored(key[o], m))
    BY <1>2, <1>3, <2>3 DEF Writes, Go
  <2>5. SkeletonInv'
    BY <1>1, <2>1, <2>4, WriteKeepsInv
  <2>6. QED
    BY <2>2, <2>5
<1>4. CASE /\ Return(o) /\ Accepts(key[o], m)
           /\ api' = [api EXCEPT ![key[o]] = Stored(key[o], m)]
  <2>1. Stored(key[o], m) \in Object
    BY <1>1, <1>4, StoredTyped DEF SkeletonTypeOK
  <2>2. api' \in [Objects -> Object]
    BY <1>1, <1>4, <2>1 DEF SkeletonTypeOK
  <2>3. SkeletonTypeOK'
    BY <1>2, <1>4, <2>2, ReturnTyped DEF SkeletonTypeOK
  <2>4. "idle" \in Stage /\ Blank \in Object
    BY BlankTyped DEF Stage, Early
  <2>5. Writes(o, key[o], m, "idle", None, Blank)
    BY <1>2, <1>4 DEF Writes, Return
  <2>6. SkeletonInv'
    BY <1>1, <2>4, <2>5, WriteKeepsInv
  <2>7. QED
    BY <2>3, <2>6
<1>5. CASE Return(o) /\ api' = api
  <2>1. claims' = claims
    BY <1>5 DEF Return, SkeletonTypeOK
  <2>2. QED
    BY <1>2, <1>5, <2>1, ReturnKeeps
<1>6. QED
  BY <1>1, <1>3, <1>4, <1>5, UpdateOutcomes

LEMMA InitializeKeeps ==
  ASSUME SkeletonTypeOK, SkeletonInv, NEW o \in Operators,
         NEW t \in Conditions, NEW next \in Stage \ Early,
         Initialize(o, t, next)
  PROVE  SkeletonTypeOK' /\ SkeletonInv'
<1>1. pc[o] = "init" /\ pc[o] # "idle" /\ ~ Claimed(o) /\ key[o] \in Objects
  BY DEF Initialize, Claimed, Early, SkeletonInv, HeldBehind
<1>2. obj[o] \in Object
  BY DEF SkeletonTypeOK
<1>3. CASE /\ Update(o, SetCondition(obj[o], t, "True"), next)
           /\ claims' = [claims EXCEPT ![key[o]] =
                           IF Current(o) /\ pc'[o] = next THEN @ + 1 ELSE @]
  <2> DEFINE m == SetCondition(obj[o], t, "True")
  <2>1. m \in Object /\ m.rv = obj[o].rv /\ m.conds # NoConditions
    BY <1>2, SetConditionMarks
  <2>2. claims' \in [Objects -> Nat]
    BY <1>1, <1>3 DEF SkeletonTypeOK
  <2>3. next # "idle"
    BY DEF Early
  <2>4. \/ claims' = claims
        \/ pc'[o] # "idle" /\ claims' = [claims EXCEPT ![key[o]] = @ + 1]
    BY <1>1, <1>3, <2>3 DEF SkeletonTypeOK
  <2> HIDE DEF m
  <2>5. QED
    BY <1>1, <1>3, <2>1, <2>2, <2>4, UpdateKeeps DEF m
<1>4. CASE /\ Update(o, SetCondition(obj[o], t, "False"), "idle")
           /\ UNCHANGED claims
  <2> DEFINE m == SetCondition(obj[o], t, "False")
  <2>1. m \in Object /\ m.rv = obj[o].rv /\ m.conds # NoConditions
    BY <1>2, SetConditionMarks
  <2>2. "idle" \in Stage /\ claims' \in [Objects -> Nat]
    BY <1>4 DEF Stage, Early, SkeletonTypeOK
  <2>3. QED
    BY <1>1, <1>4, <2>1, <2>2, UpdateKeeps
<1>5. QED
  BY <1>3, <1>4 DEF Initialize

\* Fetching the objects of the spec writes nothing either.
LEMMA FetchKeeps ==
  ASSUME SkeletonTypeOK, SkeletonInv, NEW o \in Operators, NEW found,
         Fetch(o, found)
  PROVE  /\ SkeletonTypeOK' /\ SkeletonInv' /\ api' = api /\ pc'[o] \in Early
         /\ \A q \in Operators \ {o} :
              /\ pc'[q] = pc[q] /\ key'[q] = key[q] /\ obj'[q] = obj[q]
              /\ todo'[q] = todo[q]
<1>1. pc[o] = "refs" /\ key[o] \in Objects /\ faults \in Nat
  BY DEF Fetch, SkeletonInv, HeldBehind, SkeletonTypeOK
<1>2. \/ Return(o) /\ UNCHANGED <<serverVars, faults>>
      \/ Restart(o) /\ UNCHANGED faults
      \/ GiveUp(o, FALSE) /\ UNCHANGED <<api, cache, faults, claims>>
      \/ /\ Go(o, "init", obj[o])
         /\ \E t \in Strategies :
              /\ strat' = [strat EXCEPT ![o] = t]
              /\ todo'  = [todo EXCEPT ![o] = t.opts]
         /\ UNCHANGED <<serverVars, faults>>
  BY DEF Fetch
<1>3. CASE Return(o) /\ UNCHANGED <<serverVars, faults>>
  <2>1. SkeletonTypeOK' /\ SkeletonInv'
    BY <1>1, <1>3, ReturnKeeps DEF serverVars, SkeletonTypeOK
  <2>2. QED
    BY <1>3, <2>1 DEF Return, serverVars, SkeletonTypeOK, Early
<1>4. CASE Restart(o) /\ UNCHANGED faults
  <2>1. SkeletonTypeOK' /\ SkeletonInv'
    BY <1>1, <1>4, RestartKeeps
  <2>2. QED
    BY <1>4, <2>1 DEF Restart, Return, SkeletonTypeOK, Early
<1>5. CASE GiveUp(o, FALSE) /\ UNCHANGED <<api, cache, faults, claims>>
  <2>1. SkeletonTypeOK' /\ SkeletonInv'
    BY <1>1, <1>5, GiveUpTyped, ReturnKeeps
  <2>2. QED
    BY <1>5, <2>1 DEF GiveUp, Return, SkeletonTypeOK, Early
<1>6. ASSUME Go(o, "init", obj[o]), UNCHANGED <<serverVars, faults>>,
             NEW t \in Strategies, strat' = [strat EXCEPT ![o] = t],
             todo' = [todo EXCEPT ![o] = t.opts]
      PROVE  /\ SkeletonTypeOK' /\ SkeletonInv' /\ api' = api /\ pc'[o] \in Early
             /\ \A q \in Operators \ {o} :
                  /\ pc'[q] = pc[q] /\ key'[q] = key[q] /\ obj'[q] = obj[q]
                  /\ todo'[q] = todo[q]
  <2>1. "init" \in Stage /\ obj[o] \in Object
    BY DEF Stage, Early, SkeletonTypeOK
  <2>2. Moves(o, "init", key[o], obj[o])
    BY <1>1 DEF Moves, Early
  <2>3. key' = [key EXCEPT ![o] = key[o]]
    BY <1>6 DEF Go, SkeletonTypeOK
  <2>4. SkeletonInv'
    BY <1>1, <1>6, <2>1, <2>2, <2>3, MoveKeepsInv DEF Go, serverVars
  <2>5. t \in Strategy /\ t.opts \in SUBSET Location
    BY StrategiesAssumption DEF Strategy
  <2>6. SkeletonTypeOK'
    BY <1>6, <2>1, <2>5 DEF Go, serverVars, SkeletonTypeOK
  <2>7. QED
    BY <1>6, <2>4, <2>6 DEF Go, serverVars, SkeletonTypeOK, Early
<1>7. QED
  BY <1>2, <1>3, <1>4, <1>5, <1>6

============================================================================
