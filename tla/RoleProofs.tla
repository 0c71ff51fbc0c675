----------------------------- MODULE RoleProofs -----------------------------
(***************************************************************************)
(* Theorems about RoleBindings: a reconcile prunes nothing its spec asks   *)
(* for, and what goes missing all the same is noticed by its owner.        *)
(***************************************************************************)
EXTENDS RoleBindings, SequenceTheorems, TLAPS

USE RoleAssumption

LEMMA NamesAre ==
  ASSUME NEW j \in Jenkinses
  PROVE  /\ MainName(j) \in Names
         /\ MainRole(j) \in Bindable
         /\ \A r \in Roles : /\ ExtraName(j, r) \in Names
                             /\ ExtraName(j, r) \in ExtraNames(j, Roles)
                             /\ r \in Bindable
  BY DEF Names, Bindable, ExtraNames

LEMMA InitInv == Init => IInv
<1> SUFFICES ASSUME Init PROVE IInv
  OBVIOUS
<1>1. (CHOOSE j \in Jenkinses : TRUE) \in Jenkinses
  OBVIOUS
<1>2. (CHOOSE r \in Bindable : TRUE) \in Bindable
  BY NamesAre
<1> DEFINE b == Binding(0, FALSE, Nobody, CHOOSE r \in Bindable : TRUE)
<1>3. b \in BindingType /\ ~ Exists(b)
  BY <1>2 DEF Binding, BindingType, Exists
<1>4. bindings = [n \in Names |-> b]
  BY DEF Init
<1> HIDE DEF b
<1>5. bindings \in [Names -> BindingType] /\ cachedBindings = bindings
  <2>1. cachedBindings = bindings
    BY Zenon DEF Init
  <2>2. bindings \in [Names -> BindingType]
    BY <1>3, <1>4, Zenon
  <2> QED
    BY <2>1, <2>2
<1>7. present \subseteq Jenkinses /\ queue = present
  BY DEF Init
<1>8. cur \in Jenkinses
  BY <1>1 DEF Init
<1>6. /\ roles \in [Jenkinses -> SUBSET Roles] /\ cachedRoles = roles
      /\ pc = "idle"
      /\ asked = {} /\ left = {} /\ doomed = {} /\ changes = 0 /\ faults = 0
  BY Zenon DEF Init
<1>9. TypeOK
  BY <1>5, <1>6, <1>7, <1>8 DEF TypeOK, Places
<1>10. RoleInv
  BY <1>3, <1>4, <1>6 DEF RoleInv
<1> QED
  BY <1>9, <1>10 DEF IInv

\* Creating or updating a binding of the Jenkins at work.
LEMMA UpsertKeeps ==
  ASSUME IInv, NEW n \in Names, NEW role \in Bindable, Upsert(n, role),
         OwnName(n, cur)
  PROVE  /\ bindings' \in [Names -> BindingType]
         /\ \A m \in Names : Exists(bindings'[m]) => OwnName(m, bindings'[m].owner)
<1> DEFINE uid == IF Exists(bindings[n]) THEN bindings[n].uid
                                         ELSE bindings[n].uid + 1
           b == Binding(uid, TRUE, cur, role)
<1>1. bindings \in [Names -> BindingType] /\ cur \in Jenkinses
  BY DEF IInv, TypeOK
<1>2. bindings[n].uid \in Nat
  BY <1>1 DEF BindingType
<1>3. b \in BindingType /\ b.owner = cur
  BY <1>1, <1>2 DEF BindingType, Binding
<1>4. bindings' = [bindings EXCEPT ![n] = b]
  BY DEF Upsert
<1> HIDE DEF b
<1>5. bindings' \in [Names -> BindingType]
  BY <1>1, <1>3, <1>4
<1>6. \A m \in Names : bindings'[m] = IF m = n THEN b ELSE bindings[m]
  BY <1>1, <1>4
<1> QED
  BY <1>3, <1>5, <1>6 DEF IInv, RoleInv

\* Deleting a binding.
LEMMA GoneKeeps ==
  ASSUME IInv, NEW n \in Names, bindings' = [bindings EXCEPT ![n] = Gone(@)]
  PROVE  /\ bindings' \in [Names -> BindingType]
         /\ \A m \in Names : Exists(bindings'[m]) =>
              Exists(bindings[m]) /\ bindings'[m] = bindings[m]
<1> DEFINE b == Gone(bindings[n])
<1>1. bindings \in [Names -> BindingType]
  BY DEF IInv, TypeOK
<1>2. b \in BindingType /\ ~ Exists(b)
  BY <1>1 DEF BindingType, Gone, Binding, Exists
<1>3. bindings' = [bindings EXCEPT ![n] = b]
  OBVIOUS
<1> HIDE DEF b
<1> QED
  BY <1>1, <1>2, <1>3

---------------------------------------------------------------------------

LEMMA WorkInv == IInv /\ Work => IInv'
<1> SUFFICES ASSUME IInv, Work PROVE IInv'
  OBVIOUS
<1> USE DEF IInv
<1>1. CASE CreateMain
  <2>1. CASE Upsert(MainName(cur), MainRole(cur)) /\ pc' = "extra"
             /\ left' = asked /\ UNCHANGED <<cur, asked, doomed>>
    <3>1. /\ bindings' \in [Names -> BindingType]
          /\ \A m \in Names : Exists(bindings'[m]) => OwnName(m, bindings'[m].owner)
      BY <2>1, NamesAre, UpsertKeeps DEF TypeOK, OwnName, OwnNames
    <3> QED
      BY <1>1, <2>1, <3>1 DEF CreateMain, TypeOK, RoleInv, cache, server, Places
  <2>2. CASE End /\ UNCHANGED bindings
    BY <1>1, <2>2 DEF CreateMain, End, TypeOK, RoleInv, cache, server, Places
  <2> QED
    BY <1>1, <2>1, <2>2 DEF CreateMain
<1>2. ASSUME NEW r \in Roles, CreateExtra(r)
      PROVE  IInv'
  <2>1. CASE Upsert(ExtraName(cur, r), r) /\ left' = left \ {r}
             /\ UNCHANGED <<pc, cur, asked, doomed>>
    <3>1. /\ bindings' \in [Names -> BindingType]
          /\ \A m \in Names : Exists(bindings'[m]) => OwnName(m, bindings'[m].owner)
      BY <2>1, NamesAre, UpsertKeeps DEF TypeOK, OwnName, OwnNames
    <3> QED
      BY <1>2, <2>1, <3>1 DEF CreateExtra, TypeOK, RoleInv, cache, server, Places
  <2>2. CASE End /\ UNCHANGED bindings
    BY <1>2, <2>2 DEF CreateExtra, End, TypeOK, RoleInv, cache, server, Places
  <2> QED
    BY <1>2, <2>1, <2>2 DEF CreateExtra
<1>3. CASE ListBindings
  BY <1>3 DEF ListBindings, Unasked, TypeOK, RoleInv, cache, server, Places
<1>4. ASSUME NEW n \in Names, Prune(n)
      PROVE  IInv'
  <2>1. /\ bindings' \in [Names -> BindingType]
        /\ \A m \in Names : Exists(bindings'[m]) =>
             Exists(bindings[m]) /\ bindings'[m] = bindings[m]
    BY <1>4, GoneKeeps DEF Prune
  <2>2. /\ pc' \in Places /\ pc = "prune"
        /\ pc' # "prune" => doomed' = {}
        /\ pc' = "idle" => left' = {}
        /\ cur' = cur /\ asked' \subseteq Roles
        /\ left' \subseteq asked' /\ doomed' \subseteq doomed
        /\ doomed' \subseteq Names \ ExtraNames(cur', asked')
    BY <1>4 DEF Prune, End, TypeOK, Places
  <2>3. UNCHANGED <<present, roles, cachedRoles, cachedBindings, queue, changes, faults>>
    BY <1>4 DEF Prune, cache, server
  <2>4. TypeOK'
    BY <2>1, <2>2, <2>3 DEF TypeOK
  <2>5. RoleInv'
    BY <2>1, <2>2 DEF RoleInv
  <2> QED
    BY <2>4, <2>5
<1>5. CASE Finish
  BY <1>5 DEF Finish, End, TypeOK, RoleInv, cache, server, Places
<1> QED
  BY <1>1, <1>2, <1>3, <1>4, <1>5 DEF Work

LEMMA OtherInv ==
  ASSUME IInv,
         \/ CallFails \/ Crash
         \/ \E j \in Jenkinses : Dequeue(j) \/ DeliverRoles(j) \/ EditRoles(j)
         \/ \E n \in Names : DeliverBinding(n) \/ DeleteBinding(n)
  PROVE  IInv'
<1> USE DEF IInv
<1>1. CASE CallFails
  BY <1>1 DEF CallFails, End, TypeOK, RoleInv, cache, server, Places
<1>2. CASE Crash
  BY <1>2 DEF Crash, End, TypeOK, RoleInv, server, Places
<1>3. ASSUME NEW j \in Jenkinses, Dequeue(j)
      PROVE  IInv'
  BY <1>3 DEF Dequeue, TypeOK, RoleInv, cache, server, Places
<1>4. ASSUME NEW j \in Jenkinses, DeliverRoles(j)
      PROVE  IInv'
  BY <1>4 DEF DeliverRoles, TypeOK, RoleInv, worker, server, Places
<1>5. ASSUME NEW j \in Jenkinses, EditRoles(j)
      PROVE  IInv'
  BY <1>5 DEF EditRoles, Change, TypeOK, RoleInv, worker, cache, server, Places
<1>6. ASSUME NEW n \in Names, DeliverBinding(n)
      PROVE  IInv'
  <2>1. bindings[n].owner \in Jenkinses \cup {Nobody}
        /\ cachedBindings[n].owner \in Jenkinses \cup {Nobody}
    BY DEF TypeOK, BindingType
  <2>2. Notified(cachedBindings[n], bindings[n]) \subseteq Jenkinses
    BY <2>1 DEF Notified
  <2> QED
    BY <1>6, <2>2 DEF DeliverBinding, TypeOK, RoleInv, worker, server, Places
<1>7. ASSUME NEW n \in Names, DeleteBinding(n)
      PROVE  IInv'
  <2>1. /\ bindings' \in [Names -> BindingType]
        /\ \A m \in Names : Exists(bindings'[m]) =>
             Exists(bindings[m]) /\ bindings'[m] = bindings[m]
    BY <1>7, GoneKeeps DEF DeleteBinding
  <2>2. TypeOK'
    BY <1>7, <2>1 DEF DeleteBinding, Change, TypeOK, worker, cache, server, Places
  <2>3. RoleInv'
    BY <1>7, <2>1 DEF DeleteBinding, RoleInv, worker
  <2> QED
    BY <2>2, <2>3
<1> QED
  BY <1>1, <1>2, <1>3, <1>4, <1>5, <1>6, <1>7

LEMMA NextInv == IInv /\ [Next]_vars => IInv'
<1> SUFFICES ASSUME IInv, [Next]_vars PROVE IInv'
  OBVIOUS
<1>1. CASE UNCHANGED vars
  BY <1>1 DEF IInv, TypeOK, RoleInv, vars, cache, server, worker, Places
<1> QED
  BY <1>1, WorkInv, OtherInv DEF Next

THEOREM RolesInductive == Spec => []IInv
  BY InitInv, NextInv, PTL DEF Spec

\* The worker only handles names and roles there are, and never dooms a
\* binding its spec asks for.
THEOREM RolesTypes == Spec => []TypeOK
  BY RolesInductive, PTL DEF IInv

---------------------------------------------------------------------------
(* What goes missing is noticed.                                           *)

\* What a name of two parts is made of.
LEMMA LongerNames ==
  ASSUME NEW W, NEW m \in Seq(W), NEW k \in W, NEW n \in Seq(W)
  PROVE  /\ Len(m \o <<k>> \o n) = Len(m) + 1 + Len(n)
         /\ (m \o <<k>> \o n)[Len(m) + 1] = k
         /\ \A i \in 1..Len(n) : (m \o <<k>> \o n)[Len(m) + 1 + i] = n[i]
<1> HIDE RoleAssumption
<1> DEFINE p == m \o <<k>>
<1>1. p \in Seq(W) /\ Len(p) = Len(m) + 1 /\ p[Len(m) + 1] = k
  OBVIOUS
<1>2. Len(m) \in Nat /\ Len(n) \in Nat
  OBVIOUS
<1> HIDE DEF p
<1>3. /\ Len(p \o n) = Len(p) + Len(n)
      /\ \A i \in 1..Len(p) + Len(n) :
           (p \o n)[i] = IF i <= Len(p) THEN p[i] ELSE n[i - Len(p)]
  BY <1>1, ConcatProperties, Zenon
<1>4. /\ Len(p \o n) = Len(m) + 1 + Len(n)
      /\ (p \o n)[Len(m) + 1] = k
      /\ \A i \in 1..Len(n) : (p \o n)[Len(m) + 1 + i] = n[i]
  BY <1>1, <1>2, <1>3
<1> QED
  BY <1>4, Zenon DEF p

\* A name of a Jenkins is for one role.
LEMMA NameTells ==
  ASSUME NEW j \in Jenkinses
  PROVE  \A r \in Roles : /\ MainName(j) # ExtraName(j, r)
                         /\ \A s \in Roles : ExtraName(j, r) = ExtraName(j, s) => r = s
<1> DEFINE m == MainName(j)
<1>1. m \in Seq(Words)
  <2>1. Label[j] \in Seq(Words) /\ <<"jenkins">> \in Seq(Words)
    OBVIOUS
  <2> QED
    BY <2>1 DEF MainName
<1>2. ASSUME NEW r \in Roles
      PROVE  /\ r.name \in Seq(Words) /\ r.kind \in Words
             /\ r = [kind |-> r.kind, name |-> r.name]
  OBVIOUS
<1> HIDE RoleAssumption
<1>3. ASSUME NEW r \in Roles
      PROVE  /\ Len(ExtraName(j, r)) = Len(m) + 1 + Len(r.name)
             /\ ExtraName(j, r)[Len(m) + 1] = r.kind
             /\ \A i \in 1..Len(r.name) : ExtraName(j, r)[Len(m) + 1 + i] = r.name[i]
  <2>1. ExtraName(j, r) = m \o <<r.kind>> \o r.name
    BY DEF ExtraName
  <2> HIDE DEF m
  <2>2. /\ Len(m \o <<r.kind>> \o r.name) = Len(m) + 1 + Len(r.name)
        /\ (m \o <<r.kind>> \o r.name)[Len(m) + 1] = r.kind
        /\ \A i \in 1..Len(r.name) :
             (m \o <<r.kind>> \o r.name)[Len(m) + 1 + i] = r.name[i]
    <3>1. PICK W : W = Words
      OBVIOUS
    <3>2. m \in Seq(W) /\ r.kind \in W /\ r.name \in Seq(W)
      BY <1>1, <1>2, <3>1, Zenon
    <3> QED
      BY <3>2, LongerNames
  <2> QED
    BY <2>1, <2>2, Zenon
<1> HIDE DEF m
<1>4. ASSUME NEW r \in Roles, NEW s \in Roles, ExtraName(j, r) = ExtraName(j, s)
      PROVE  r = s
  <2>1. PICK w, x, y \in Nat : w = Len(m) /\ x = Len(r.name) /\ y = Len(s.name)
    BY <1>1, <1>2
  <2>2. Len(ExtraName(j, r)) = w + 1 + x /\ Len(ExtraName(j, s)) = w + 1 + y
    BY <1>3, <2>1
  <2>3. x = y
    <3>1. w + 1 + x = w + 1 + y
      BY <1>4, <2>2, Zenon
    <3> QED
      BY <3>1
  <2>4. r.kind = s.kind /\ \A i \in 1..Len(r.name) : r.name[i] = s.name[i]
    BY <1>3, <1>4, <2>1, <2>3
  <2>5. r.name = s.name
    BY <1>2, <2>1, <2>3, <2>4, SeqEqual
  <2> QED
    BY <1>2, <2>4, <2>5
<1>5. ASSUME NEW r \in Roles PROVE m # ExtraName(j, r)
  <2>1. PICK w, x \in Nat : w = Len(m) /\ x = Len(r.name)
    BY <1>1, <1>2
  <2>2. Len(ExtraName(j, r)) = w + 1 + x
    BY <1>3, <2>1
  <2>3. Len(ExtraName(j, r)) # Len(m)
    <3>1. w + 1 + x # w
      OBVIOUS
    <3> QED
      BY <2>1, <2>2, <3>1, Zenon
  <2> QED
    BY <2>3, Zenon
<1> QED
  BY <1>4, <1>5 DEF m

\* A Jenkins whose names nobody shares is not refused a binding.
LEMMA NotRefused ==
  ASSUME IInv, NoticeInv, Sole(cur)
  PROVE  /\ ~ Refused(MainName(cur), MainRole(cur))
         /\ \A r \in Roles : ~ Refused(ExtraName(cur, r), r)
<1>1. cur \in Jenkinses
  BY DEF IInv, TypeOK
<1>2. ASSUME NEW n \in OwnNames(cur), n \in Names, Exists(bindings[n])
      PROVE  \/ n = MainName(cur) /\ bindings[n].role = MainRole(cur)
             \/ bindings[n].role \in Roles /\ n = ExtraName(cur, bindings[n].role)
  <2>1. bindings[n].owner = cur
    BY <1>1, <1>2 DEF IInv, RoleInv, OwnName, Sole
  <2> QED
    BY <1>2, <2>1 DEF NoticeInv, CopiesBehind
<1>3. MainName(cur) \in OwnNames(cur) /\ MainName(cur) \in Names
  BY <1>1, NamesAre DEF OwnNames
<1>4. ASSUME NEW r \in Roles
      PROVE  ExtraName(cur, r) \in OwnNames(cur) /\ ExtraName(cur, r) \in Names
  BY <1>1, NamesAre DEF OwnNames
<1> QED
  BY <1>1, <1>2, <1>3, <1>4, NameTells DEF Refused

LEMMA AskedSteps ==
  ASSUME IInv, AskedKnown, [Next]_vars
  PROVE  AskedKnown'
<1>1. CASE Work
  BY <1>1 DEF Work, CreateMain, CreateExtra, ListBindings, Prune, Finish, End,
              AskedKnown, cache, server
<1>2. CASE CallFails \/ Crash
  BY <1>2 DEF CallFails, Crash, End, AskedKnown
<1>3. ASSUME NEW j \in Jenkinses, Dequeue(j) \/ DeliverRoles(j) \/ EditRoles(j)
      PROVE  AskedKnown'
  BY <1>3 DEF Dequeue, DeliverRoles, EditRoles, AskedKnown, cache, worker, server,
              IInv, TypeOK
<1>4. ASSUME NEW n \in Names, DeliverBinding(n) \/ DeleteBinding(n)
      PROVE  AskedKnown'
  BY <1>4 DEF DeliverBinding, DeleteBinding, AskedKnown, cache, worker, server
<1>5. CASE UNCHANGED vars
  BY <1>5 DEF vars, cache, worker, server, AskedKnown
<1> QED
  BY <1>1, <1>2, <1>3, <1>4, <1>5 DEF Next

\* What a step makes of a binding.
LEMMA BindingSteps ==
  ASSUME IInv, [Next]_vars, NEW n \in Names
  PROVE  /\ \/ bindings'[n] = bindings[n]
            \/ bindings'[n] = Gone(bindings[n]) /\ cachedBindings' = cachedBindings
            \/ \E role \in Bindable :
                 /\ cachedBindings' = cachedBindings
                 /\ bindings'[n] = Binding(IF Exists(bindings[n]) THEN bindings[n].uid
                                           ELSE bindings[n].uid + 1, TRUE, cur, role)
                 /\ \/ n = MainName(cur) /\ role = MainRole(cur)
                    \/ role \in Roles /\ n = ExtraName(cur, role)
         /\ \/ cachedBindings'[n] = cachedBindings[n]
            \/ cachedBindings'[n] = bindings[n] /\ bindings'[n] = bindings[n]
<1>0. bindings \in [Names -> BindingType] /\ cachedBindings \in [Names -> BindingType]
      /\ cur \in Jenkinses
  BY DEF IInv, TypeOK
<1>1. CASE CreateMain
  BY <1>0, <1>1, NamesAre DEF CreateMain, Upsert, cache
<1>2. ASSUME NEW r \in Roles, CreateExtra(r)
      PROVE  \/ bindings' = bindings /\ cachedBindings' = cachedBindings
             \/ /\ cachedBindings' = cachedBindings
                /\ bindings' = [bindings EXCEPT ![ExtraName(cur, r)] =
                     Binding(IF Exists(@) THEN @.uid ELSE @.uid + 1, TRUE, cur, r)]
  BY <1>2 DEF CreateExtra, Upsert, cache
<1>3. ASSUME NEW m \in Names, Prune(m) \/ DeleteBinding(m)
      PROVE  cachedBindings' = cachedBindings
             /\ bindings' = [bindings EXCEPT ![m] = Gone(@)]
  BY <1>3 DEF Prune, DeleteBinding, cache
<1>4. ASSUME NEW m \in Names, DeliverBinding(m)
      PROVE  bindings' = bindings
             /\ cachedBindings' = [cachedBindings EXCEPT ![m] = bindings[m]]
  BY <1>4 DEF DeliverBinding, server
<1>5. CASE Crash
  BY <1>0, <1>5 DEF Crash, server
<1>6. CASE \/ ListBindings \/ Finish \/ CallFails \/ UNCHANGED vars
           \/ \E j \in Jenkinses : Dequeue(j) \/ DeliverRoles(j) \/ EditRoles(j)
  BY <1>6 DEF ListBindings, Finish, CallFails, Dequeue, DeliverRoles, EditRoles,
              vars, cache, server
<1>7. ASSUME NEW r \in Roles, CreateExtra(r)
      PROVE  /\ \/ bindings'[n] = bindings[n]
                \/ /\ cachedBindings' = cachedBindings
                   /\ bindings'[n] = Binding(IF Exists(bindings[n]) THEN bindings[n].uid
                                             ELSE bindings[n].uid + 1, TRUE, cur, r)
                   /\ n = ExtraName(cur, r)
             /\ cachedBindings'[n] = cachedBindings[n] /\ r \in Bindable
  <2>1. r \in Bindable
    BY DEF Bindable
  <2>2. CASE bindings' = bindings /\ cachedBindings' = cachedBindings
    BY <2>1, <2>2
  <2>3. CASE /\ cachedBindings' = cachedBindings
             /\ bindings' = [bindings EXCEPT ![ExtraName(cur, r)] =
                  Binding(IF Exists(@) THEN @.uid ELSE @.uid + 1, TRUE, cur, r)]
    <3>1. PICK b : b = Binding(IF Exists(bindings[n]) THEN bindings[n].uid
                               ELSE bindings[n].uid + 1, TRUE, cur, r)
      OBVIOUS
    <3>2. n = ExtraName(cur, r) => bindings' = [bindings EXCEPT ![n] = b]
      BY <2>3, <3>1
    <3>3. n # ExtraName(cur, r) => bindings'[n] = bindings[n]
      BY <1>0, <2>3
    <3>4. n = ExtraName(cur, r) => bindings'[n] = b
      BY <1>0, <3>2
    <3> QED
      BY <2>1, <2>3, <3>1, <3>3, <3>4
  <2> QED
    BY <1>2, <1>7, <2>2, <2>3
<1>8. ASSUME NEW m \in Names, Prune(m) \/ DeleteBinding(m)
      PROVE  /\ cachedBindings' = cachedBindings
             /\ bindings'[n] \in {bindings[n], Gone(bindings[n])}
  BY <1>0, <1>3, <1>8
<1>9. ASSUME NEW m \in Names, DeliverBinding(m)
      PROVE  bindings' = bindings
             /\ cachedBindings'[n] \in {cachedBindings[n], bindings[n]}
  BY <1>0, <1>4, <1>9
<1> QED
  BY <1>1, <1>5, <1>6, <1>7, <1>8, <1>9 DEF Next, Work

LEMMA CopySteps ==
  ASSUME IInv, CopiesBehind, [Next]_vars
  PROVE  CopiesBehind'
<1> SUFFICES ASSUME NEW n \in Names
             PROVE  (/\ cachedBindings[n].uid <= bindings[n].uid
                     /\ Exists(bindings[n]) =>
                          /\ cachedBindings[n].uid = bindings[n].uid => Exists(cachedBindings[n])
                          /\ \/ /\ n = MainName(bindings[n].owner)
                                /\ bindings[n].role = MainRole(bindings[n].owner)
                             \/ /\ bindings[n].role \in Roles
                                /\ n = ExtraName(bindings[n].owner, bindings[n].role))'
  BY DEF CopiesBehind
<1>1. /\ bindings[n] \in BindingType /\ cachedBindings[n] \in BindingType
      /\ bindings[n].uid \in Nat /\ cachedBindings[n].uid \in Nat
  BY DEF IInv, TypeOK, BindingType
<1>2. CASE bindings'[n] = bindings[n]
  <2>1. cachedBindings'[n] = cachedBindings[n] \/ cachedBindings'[n] = bindings[n]
    BY BindingSteps
  <2>2. CASE cachedBindings'[n] = cachedBindings[n]
    BY <1>2, <2>2 DEF CopiesBehind
  <2>3. CASE cachedBindings'[n] = bindings[n]
    BY <1>1, <1>2, <2>3 DEF CopiesBehind
  <2> QED
    BY <2>1, <2>2, <2>3
<1>3. CASE bindings'[n] = Gone(bindings[n]) /\ cachedBindings' = cachedBindings
  BY <1>1, <1>3 DEF CopiesBehind, Gone, Binding, Exists
<1>4. ASSUME NEW role \in Bindable, cachedBindings' = cachedBindings,
             NEW uid, uid = IF Exists(bindings[n]) THEN bindings[n].uid
                                                 ELSE bindings[n].uid + 1,
             bindings'[n] = Binding(uid, TRUE, cur, role),
             \/ n = MainName(cur) /\ role = MainRole(cur)
             \/ role \in Roles /\ n = ExtraName(cur, role)
      PROVE  (/\ cachedBindings[n].uid <= bindings[n].uid
              /\ Exists(bindings[n]) =>
                   /\ cachedBindings[n].uid = bindings[n].uid => Exists(cachedBindings[n])
                   /\ \/ /\ n = MainName(bindings[n].owner)
                         /\ bindings[n].role = MainRole(bindings[n].owner)
                      \/ /\ bindings[n].role \in Roles
                         /\ n = ExtraName(bindings[n].owner, bindings[n].role))'
  <2>1. /\ bindings'[n].uid = uid /\ bindings'[n].owner = cur /\ bindings'[n].role = role
    BY <1>4 DEF Binding
  <2>2. /\ cachedBindings[n].uid <= uid
        /\ cachedBindings[n].uid = uid => Exists(cachedBindings[n])
    BY <1>1, <1>4 DEF CopiesBehind
  <2> QED
    BY <1>4, <2>1, <2>2
<1> QED
  BY <1>2, <1>3, <1>4, BindingSteps

\* Nothing of a binding changes, or it goes and the owner hears of it.
LEMMA NoticedStays ==
  ASSUME NEW j, NEW n, Noticed(j, n),
         bindings'[n] = bindings[n], cachedBindings'[n] = cachedBindings[n],
         j \in queue => j \in queue', Creates(j, n) => Creates(j, n)'
  PROVE  Noticed(j, n)'
BY DEF Noticed, Announced

LEMMA GoneNoticed ==
  ASSUME IInv, CopiesBehind, NEW j \in Jenkinses, Sole(j),
         NEW n \in OwnNames(j), n \in Names, Noticed(j, n),
         bindings'[n] = Gone(bindings[n]), cachedBindings'[n] = cachedBindings[n],
         j \in queue => j \in queue', Creates(j, n) => Creates(j, n)'
  PROVE  Noticed(j, n)'
<1>1. bindings[n] \in BindingType
  BY DEF IInv, TypeOK
<1>2. CASE ~ Exists(bindings[n])
  <2>1. bindings'[n] = bindings[n]
    BY <1>1, <1>2 DEF Gone, Binding, Exists, BindingType
  <2> QED
    BY <2>1, NoticedStays
<1>3. CASE Exists(bindings[n])
  <2>1. bindings[n].owner = j
    BY <1>3 DEF IInv, RoleInv, OwnName, Sole
  <2>2. /\ ~ Exists(bindings'[n]) /\ bindings'[n].owner = j
        /\ bindings'[n].uid = bindings[n].uid
    BY <2>1 DEF Gone, Binding, Exists
  <2>3. Exists(cachedBindings[n]) \/ cachedBindings[n].uid # bindings'[n].uid
    BY <1>3, <2>2 DEF CopiesBehind
  <2>4. j \in Notified(cachedBindings'[n], bindings'[n])
    BY <2>2, <2>3 DEF Notified, Exists
  <2> QED
    BY <2>2, <2>3, <2>4 DEF Noticed, Announced
<1> QED
  BY <1>2, <1>3

\* The worker's steps, for a binding that some Jenkins asks for.
LEMMA WorkNotices ==
  ASSUME IInv, NoticeInv, Work, NEW j \in Jenkinses, Sole(j),
         NEW n \in OwnNames(j), n \in Names, Noticed(j, n), n \in Due(j, cachedRoles[j])
  PROVE  Noticed(j, n)'
<1>0. bindings \in [Names -> BindingType] /\ cur \in Jenkinses
  BY DEF IInv, TypeOK
<1>1. CASE CreateMain
  <2>1. CASE cur # j
    <3>1. MainName(cur) # n
      BY <1>0, <2>1 DEF Sole, OwnNames
    <3>2. bindings'[n] = bindings[n] /\ UNCHANGED <<cachedBindings, queue>>
      BY <1>0, <1>1, <3>1 DEF CreateMain, Upsert, cache
    <3> QED
      BY <2>1, <3>2, NoticedStays DEF Creates
  <2>2. CASE cur = j
    <3>1. Upsert(MainName(j), MainRole(j)) /\ pc' = "extra" /\ left' = asked /\ cur' = j
          /\ queue' = queue
      BY <1>1, <2>2, NotRefused DEF CreateMain
    <3>2. Exists(bindings'[MainName(j)])
      BY <1>0, <3>1, NamesAre DEF Upsert, Exists, Binding
    <3>3. asked = cachedRoles[j] \/ j \in queue
      BY <1>1, <2>2 DEF NoticeInv, AskedKnown, CreateMain
    <3> QED
      BY <3>1, <3>2, <3>3 DEF Noticed, Creates, Due
  <2> QED
    BY <2>1, <2>2
<1>2. ASSUME NEW r \in Roles, CreateExtra(r)
      PROVE  Noticed(j, n)'
  <2>1. CASE cur # j
    <3>1. ExtraName(cur, r) # n
      <4>1. ExtraName(cur, r) \in OwnNames(cur)
        BY <1>0, NamesAre DEF OwnNames
      <4> QED
        BY <1>0, <2>1, <4>1 DEF Sole
    <3>2. bindings'[n] = bindings[n] /\ UNCHANGED <<cachedBindings, queue>>
      BY <1>0, <1>2, <3>1 DEF CreateExtra, Upsert, cache
    <3> QED
      BY <2>1, <3>2, NoticedStays DEF Creates
  <2>2. CASE cur = j
    <3>1. Upsert(ExtraName(j, r), r) /\ left' = left \ {r}
          /\ UNCHANGED <<pc, cur, queue, cachedBindings>> /\ pc = "extra"
      BY <1>2, <2>2, NotRefused DEF CreateExtra, cache
    <3>2. CASE n = ExtraName(j, r)
      BY <1>0, <3>1, <3>2 DEF Upsert, Exists, Binding, Noticed
    <3>3. CASE n # ExtraName(j, r)
      <4>1. bindings'[n] = bindings[n]
        BY <1>0, <3>1, <3>3 DEF Upsert
      <4>2. Creates(j, n) => Creates(j, n)'
        BY <3>1, <3>3 DEF Creates, ExtraNames
      <4> QED
        BY <3>1, <4>1, <4>2, NoticedStays
    <3> QED
      BY <3>2, <3>3
  <2> QED
    BY <2>1, <2>2
<1>3. CASE ListBindings \/ Finish
  BY <1>3, NoticedStays
     DEF ListBindings, Finish, Creates, ExtraNames, cache, server
<1>4. ASSUME NEW m \in Names, Prune(m)
      PROVE  Noticed(j, n)'
  <2>1. /\ ~ Creates(j, n) /\ UNCHANGED <<cachedBindings, queue>>
        /\ bindings' = [bindings EXCEPT ![m] = Gone(@)]
    BY <1>4 DEF Prune, Creates, cache
  <2>2. CASE m # n
    BY <1>0, <2>1, <2>2, NoticedStays
  <2>3. CASE m = n
    BY <1>0, <2>1, <2>3, GoneNoticed DEF NoticeInv
  <2> QED
    BY <2>2, <2>3
<1> QED
  BY <1>1, <1>2, <1>3, <1>4 DEF Work

\* The others'.
LEMMA OthersNotice ==
  ASSUME IInv, NoticeInv, NEW j \in Jenkinses, Sole(j), NEW n \in OwnNames(j),
         n \in Names, n \in Due(j, cachedRoles[j]) => Noticed(j, n),
         n \in Due(j, cachedRoles'[j]),
         \/ \E k \in Jenkinses : Dequeue(k) \/ DeliverRoles(k) \/ EditRoles(k)
         \/ \E m \in Names : DeliverBinding(m) \/ DeleteBinding(m)
         \/ UNCHANGED vars
  PROVE  Noticed(j, n)'
<1>0. bindings \in [Names -> BindingType] /\ cachedBindings \in [Names -> BindingType]
      /\ cachedRoles \in [Jenkinses -> SUBSET Roles]
  BY DEF IInv, TypeOK
<1>1. ASSUME NEW k \in Jenkinses, Dequeue(k)
      PROVE  Noticed(j, n)'
  <2>1. CASE k = j
    BY <1>1, <2>1 DEF Dequeue, Noticed, Creates
  <2>2. CASE k # j
    BY <1>1, <2>2, NoticedStays DEF Dequeue, Creates, cache, server
  <2> QED
    BY <2>1, <2>2
<1>2. ASSUME NEW k \in Jenkinses, DeliverRoles(k)
      PROVE  Noticed(j, n)'
  <2>1. CASE k = j
    BY <1>2, <2>1 DEF DeliverRoles, Noticed
  <2>2. CASE k # j
    <3>1. cachedRoles'[j] = cachedRoles[j]
      BY <1>0, <1>2, <2>2 DEF DeliverRoles
    <3> QED
      BY <1>2, <3>1, NoticedStays DEF DeliverRoles, Creates, worker, server
  <2> QED
    BY <2>1, <2>2
<1>3. ASSUME NEW k \in Jenkinses, EditRoles(k)
      PROVE  Noticed(j, n)'
  BY <1>3, NoticedStays DEF EditRoles, Creates, cache, worker
<1>4. ASSUME NEW m \in Names, DeliverBinding(m)
      PROVE  Noticed(j, n)'
  <2>1. /\ queue' = queue \cup Notified(cachedBindings[m], bindings[m])
        /\ cachedBindings' = [cachedBindings EXCEPT ![m] = bindings[m]]
        /\ UNCHANGED <<bindings, cachedRoles>> /\ Creates(j, n)' = Creates(j, n)
    BY <1>4 DEF DeliverBinding, Creates, worker, server
  <2>2. CASE m # n
    BY <1>0, <2>1, <2>2, NoticedStays
  <2>3. CASE m = n
    BY <2>1, <2>3 DEF Noticed, Announced
  <2> QED
    BY <2>2, <2>3
<1>5. ASSUME NEW m \in Names, DeleteBinding(m)
      PROVE  Noticed(j, n)'
  <2>1. /\ UNCHANGED <<queue, cachedRoles, cachedBindings>> /\ Creates(j, n)' = Creates(j, n)
        /\ bindings' = [bindings EXCEPT ![m] = Gone(@)]
    BY <1>5 DEF DeleteBinding, Creates, cache, worker
  <2>2. CASE m # n
    BY <1>0, <2>1, <2>2, NoticedStays
  <2>3. CASE m = n
    BY <1>0, <2>1, <2>3, GoneNoticed DEF NoticeInv
  <2> QED
    BY <2>2, <2>3
<1>6. CASE UNCHANGED vars
  BY <1>6, NoticedStays DEF vars, cache, worker, server, Creates
<1> QED
  BY <1>1, <1>2, <1>3, <1>4, <1>5, <1>6

LEMMA NoticeSteps ==
  ASSUME IInv, NoticeInv, [Next]_vars
  PROVE  NoticeInv'
<1>1. AllNoticed'
  <2>1. CASE CallFails \/ Crash
    <3>1. faults' = faults + 1 /\ faults \in Nat
      BY <2>1 DEF CallFails, Crash, IInv, TypeOK
    <3> QED
      BY <3>1 DEF AllNoticed
  <2>2. CASE ~ (CallFails \/ Crash)
    <3> SUFFICES ASSUME faults' = 0, NEW j \in present', Sole(j),
                        NEW n \in Due(j, cachedRoles'[j])
                 PROVE  Noticed(j, n)'
      BY DEF AllNoticed, Sole, Due
    <3>1. faults = 0 /\ present' = present
      BY <2>2 DEF Next, Work, CreateMain, CreateExtra, ListBindings, Prune, Finish,
         Dequeue, DeliverRoles, EditRoles, DeliverBinding, DeleteBinding, vars, server
    <3>2. j \in Jenkinses /\ cachedRoles'[j] \subseteq Roles
      BY <3>1, NextInv DEF IInv, TypeOK
    <3>3. n \in OwnNames(j) /\ n \in Names
      BY <3>2, NamesAre DEF Due, OwnNames, ExtraNames
    <3>4. n \in Due(j, cachedRoles[j]) => Noticed(j, n)
      BY <3>1 DEF NoticeInv, AllNoticed
    <3>5. Work => cachedRoles' = cachedRoles
      BY DEF Work, CreateMain, CreateExtra, ListBindings, Prune, Finish, cache
    <3> QED
      BY <2>2, <3>2, <3>3, <3>4, <3>5, WorkNotices, OthersNotice DEF Next
  <2> QED
    BY <2>1, <2>2
<1> QED
  BY <1>1, AskedSteps, CopySteps DEF NoticeInv

LEMMA InitNotice == Init => NoticeInv
<1> SUFFICES ASSUME Init PROVE NoticeInv
  OBVIOUS
<1> DEFINE b == Binding(0, FALSE, Nobody, CHOOSE r \in Bindable : TRUE)
<1>1. b.uid = 0 /\ ~ Exists(b)
  BY DEF Binding, Exists
<1>2. bindings = [n \in Names |-> b] /\ cachedBindings = bindings
  BY DEF Init
<1> HIDE DEF b
<1>3. CopiesBehind
  BY <1>1, <1>2 DEF CopiesBehind
<1>4. AskedKnown /\ AllNoticed
  BY DEF Init, AskedKnown, AllNoticed, Noticed
<1> QED
  BY <1>3, <1>4 DEF NoticeInv

\* A Jenkins whose names nobody shares never loses a binding it asks for without
\* being queued, at work on it, or about to hear of it: not to users, and not to
\* another Jenkins that takes it for one of its own and prunes it (rbac.go:71-92).
THEOREM MissingNoticed == Spec => []MissingIsNoticed
<1>1. Init => IInv /\ NoticeInv
  BY InitInv, InitNotice
<1>2. IInv /\ NoticeInv /\ [Next]_vars => (IInv /\ NoticeInv)'
  BY NextInv, NoticeSteps
<1>3. NoticeInv => MissingIsNoticed
  BY DEF NoticeInv, AllNoticed, MissingIsNoticed
<1> QED
  BY <1>1, <1>2, <1>3, PTL DEF Spec

===========================================================================
