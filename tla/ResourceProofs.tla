--------------------------- MODULE ResourceProofs ---------------------------
(***************************************************************************)
(* Theorems about EnsureResource and about JenkinsImage, for every value   *)
(* of their constants.  Both are about what is written from a copy that    *)
(* may be older than the API server's.                                     *)
(***************************************************************************)
EXTENDS EnsureResource, JenkinsImage, TLAPS

---------------------------------------------------------------------------
(* EnsureResource: the three properties of its steps, from one inductive   *)
(* invariant.                                                              *)

USE EnsureAssumption

LEMMA ObjectType ==
  ASSUME NEW own \in Contents, NEW stray \in BOOLEAN, NEW foreign \in Nat
  PROVE  Object(own, stray, foreign) \in Versions
  BY DEF Object, Versions

\* A write leaves all earlier versions, and what it writes is the last one.
LEMMA WriteGrows ==
  ASSUME TypeOK, NEW o \in Versions, Write(o)
  PROVE  /\ log' \in Seq(Versions) /\ Len(log') \in Len(log)..Len(log) + 1
         /\ log'[Len(log')] = o
         /\ \A v \in 1..Len(log) : log'[v] = log[v]
         /\ \A v \in 1..Len(log') : v \in 1..Len(log) \/ log'[v] = o
<1>1. CASE o = Stored
  BY <1>1 DEF Write, TypeOK, Stored
<1>2. CASE o # Stored
  BY <1>2 DEF Write, TypeOK, Stored
<1> QED
  BY <1>1, <1>2

LEMMA StoredType ==
  ASSUME TypeOK
  PROVE  Stored \in Versions /\ Cached \in Versions /\ log[held] \in Versions
  BY DEF TypeOK, Stored, Cached

LEMMA NewType ==
  ASSUME TypeOK
  PROVE  New \in Versions /\ Updated \in Versions
         /\ Object(Content, FALSE, 0) \in Versions
<1>1. Content \in Contents
  BY DEF TypeOK, Content, Contents
<1>2. Mixed \in BOOLEAN
  BY DEF TypeOK, Mixed
<1>3. log[held].own \in Contents /\ log[held].foreign \in Nat
  BY StoredType DEF Versions
<1>4. desired \in Contents /\ mixed \in BOOLEAN
  BY DEF TypeOK, Contents
<1>5. New \in Versions
  BY <1>1, <1>2, ObjectType DEF New
<1>6. ASSUME NEW own \in Contents
      PROVE  Object(own, mixed, log[held].foreign) \in Versions
  BY <1>3, <1>4, ObjectType
<1>7. Updated \in Versions
  <2> DEFINE own == IF Covers(log[held].own, desired)
                      THEN log[held].own ELSE desired
  <2>1. own \in Contents
    BY <1>3, <1>4
  <2> HIDE DEF own
  <2>2. Object(own, mixed, log[held].foreign) \in Versions
    BY <2>1, <1>6
  <2> QED
    BY <2>2 DEF own, Updated
<1>8. Object(Content, FALSE, 0) \in Versions
  BY <1>1, ObjectType
<1> QED
  BY <1>5, <1>7, <1>8

LEMMA InitInv == Init => EnsureInv
<1> SUFFICES ASSUME Init PROVE EnsureInv
  OBVIOUS
<1>1. Gone \in Versions
  BY DEF Gone, Versions, Contents
<1>2. log \in Seq(Versions) /\ Len(log) = 1 /\ log[1] = Gone
  BY <1>1 DEF Init
<1>3. style \in AllStyles /\ 0 \in Nat
  BY DEF Init
<1>4. /\ wanted \in Wanted /\ desired = wanted /\ seen = 1 /\ held = 1
      /\ edits = 0 /\ mishaps = 0
  BY DEF Init
<1>m. mixed \in BOOLEAN
  BY Zenon DEF Init
<1>5. TypeOK
  BY <1>2, <1>3, <1>4, <1>m DEF TypeOK
<1> QED
  BY <1>2, <1>5 DEF Init, EnsureInv, Placed, Gone

\* A step that writes o, and all of the invariant it may disturb.
LEMMA WriteKeepsInv ==
  ASSUME EnsureInv, NEW o \in Versions, Write(o),
         style' = style, seen' = seen, held' \in {held, Len(log) + 1},
         held' = held \/ o # Stored,
         wanted' \in Wanted, desired' \in Wanted, mixed' \in BOOLEAN,
         edits' \in Nat, mishaps' \in Nat, edits' = 0 => edits = 0,
         style = "credentials" /\ edits' = 0 /\ o.there => Complete(o),
         style = "credentials" /\ edits' = 0 => pc' # "overwrite",
         Placed'
  PROVE  EnsureInv'
<1>1. /\ log' \in Seq(Versions) /\ Len(log') \in Len(log)..Len(log) + 1
      /\ \A v \in 1..Len(log) : log'[v] = log[v]
      /\ \A v \in 1..Len(log') : v \in 1..Len(log) \/ log'[v] = o
  BY WriteGrows DEF EnsureInv
<1>2. o # Stored => Len(log') = Len(log) + 1
  BY DEF Write, EnsureInv, TypeOK
<1>3. TypeOK'
  BY <1>1, <1>2 DEF EnsureInv, TypeOK
<1>4. ASSUME style = "credentials", edits' = 0, NEW v \in 1..Len(log'), log'[v].there
      PROVE  Complete(log'[v])
  BY <1>1, <1>4 DEF EnsureInv
<1> QED
  BY <1>3, <1>4 DEF EnsureInv, Complete

\* The same of a step that writes nothing.
LEMMA StayKeepsInv ==
  ASSUME EnsureInv, log' = log,
         style' = style, seen' \in 1..Len(log), held' \in 1..Len(log),
         wanted' \in Wanted, desired' \in Wanted, mixed' \in BOOLEAN,
         edits' = edits, mishaps' \in Nat,
         style = "credentials" /\ edits = 0 => pc' # "overwrite",
         Placed'
  PROVE  EnsureInv'
<1>1. TypeOK'
  BY DEF EnsureInv, TypeOK
<1> QED
  BY <1>1 DEF EnsureInv, Complete

\* What the operator writes besides updates is complete.
LEMMA NewIsComplete ==
  ASSUME TypeOK, style = "credentials"
  PROVE  Complete(New) /\ Complete(Object(Content, FALSE, 0))
  BY DEF TypeOK, Complete, New, Object, Content

LEMMA EditType ==
  ASSUME TypeOK
  PROVE  /\ \A own \in {Tampered, Bare} : [Stored EXCEPT !.own = own] \in Versions
         /\ [Stored EXCEPT !.foreign = @ + 1] \in Versions
         /\ Gone \in Versions
<1>1. Stored \in Versions
  BY StoredType
<1>2. \A own \in {Tampered, Bare} : own \in Contents
  BY DEF Contents
<1>3. \A own \in {Tampered, Bare} : [Stored EXCEPT !.own = own] \in Versions
  BY <1>1, <1>2 DEF Versions
<1>4. [Stored EXCEPT !.foreign = @ + 1] \in Versions
  BY <1>1 DEF Versions
<1>5. Gone \in Versions
  BY DEF Gone, Versions, Contents
<1> QED
  BY <1>3, <1>4, <1>5

LEMMA StepKeepsInv ==
  ASSUME EnsureInv, Next
  PROVE  EnsureInv'
<1> USE DEF world, server, worker, vars, local, Goto, Return, UpdateOf
<1>t. TypeOK /\ Placed
  BY DEF EnsureInv
<1>n. mishaps \in Nat /\ (Mishap => mishaps' \in Nat)
  BY <1>t DEF TypeOK, Mishap
<1>1. CASE Begin
  BY <1>1, <1>t, <1>n, StayKeepsInv DEF Begin, TypeOK, Placed, CreatesFirst
<1>2. CASE Get
  <2>1. style = "credentials" /\ edits = 0 => pc' # "overwrite"
    BY <1>2 DEF Get, Cached, EnsureInv, TypeOK, Placed
  <2>2. /\ pc' = "overwrite" => style \in {"credentials", "configmap"}
        /\ pc' = "update" => style \in {"account", "service", "monitor", "route"}
        /\ pc' # "reread" /\ pc' # "get"
    BY <1>2, <1>t DEF Get, AllStyles, TypeOK, EnsureInv, Placed
  <2>3. held' \in {held, seen} /\ UNCHANGED <<world, server, local, mishaps>>
    BY <1>2 DEF Get
  <2> QED
    BY <2>1, <2>2, <2>3, <1>t, <1>n, StayKeepsInv DEF TypeOK, Placed, AllStyles
<1>3. CASE Create
  <2>1. CASE Stored.there
    BY <1>3, <2>1, <1>t, StayKeepsInv DEF Create, TypeOK, Placed
  <2>2. CASE ~ Stored.there
    <3>1. Write(New) /\ mixed' \in BOOLEAN /\ New # Stored
      <4>1. Write(New) /\ mixed' = Mixed
        BY <1>3, <2>2 DEF Create
      <4>2. Mixed \in BOOLEAN
        BY <1>t DEF Mixed, TypeOK
      <4>3. New.there
        BY DEF New, Object
      <4> QED
        BY <4>1, <4>2, <4>3, <2>2
    <3>2. /\ held' \in {held, Len(log) + 1}
          /\ pc' # "overwrite" /\ pc' # "get" /\ (pc' = "update" => style = "service")
          /\ pc' = "reread" => style = "deployment"
      BY <1>3, <2>2 DEF Create
    <3>3. UNCHANGED <<world, seen, desired, tries, mishaps>>
      BY <1>3 DEF Create
    <3> QED
      BY <3>1, <3>2, <3>3, <1>t, NewType, NewIsComplete, WriteKeepsInv DEF TypeOK, Placed
  <2> QED
    BY <2>1, <2>2
<1>4. CASE Reread
  BY <1>4, <1>t, StayKeepsInv DEF Reread, TypeOK, Placed
<1>5. CASE Overwrite
  <2>1. CASE Stored.there
    <3>1. /\ Write(Object(Content, FALSE, 0)) /\ pc' = "idle" /\ held' = held
          /\ UNCHANGED <<world, seen, local, mishaps>>
      BY <1>5, <2>1 DEF Overwrite
    <3> QED
      BY <3>1, <1>t, NewType, NewIsComplete, WriteKeepsInv DEF TypeOK, Placed
  <2>2. CASE ~ Stored.there
    BY <1>5, <2>2, <1>t, StayKeepsInv DEF Overwrite, TypeOK, Placed
  <2> QED
    BY <2>1, <2>2
<1>6. CASE Update
  <2>1. style # "credentials" /\ (style = "monitor" => style # "deployment")
    BY <1>6 DEF Update, EnsureInv, Placed
  <2>2. CASE Accepts(held) /\ Write(Updated) /\ Return("nil") /\ UNCHANGED tries
    BY <1>6, <2>1, <2>2, <1>t, NewType, WriteKeepsInv DEF Update, TypeOK, Placed
  <2>3. CASE UNCHANGED log /\ (Conflict \/ (Return("error") /\ UNCHANGED tries))
    BY <1>6, <2>1, <2>3, <1>t, StayKeepsInv DEF Update, Conflict, TypeOK, Placed
  <2> QED
    BY <1>6, <2>2, <2>3 DEF Update
<1>7. CASE Panic
  BY <1>7, <1>t, StayKeepsInv DEF Panic, Restart, TypeOK, Placed
<1>8. CASE Deliver
  BY <1>8, <1>t, StayKeepsInv DEF Deliver, TypeOK, Placed, EnsureInv
<1>9. CASE Fail
  BY <1>9, <1>t, <1>n, StayKeepsInv DEF Fail, TypeOK, Placed
<1>10. CASE Lose
  <2>1. /\ pc' = "idle" /\ held' = held /\ mishaps' \in Nat
        /\ UNCHANGED <<world, seen, local>>
    BY <1>10, <1>n DEF Lose
  <2>2. ASSUME NEW o \in Versions, Write(o), style = "credentials" => Complete(o)
        PROVE  EnsureInv'
    BY <2>1, <2>2, <1>t, WriteKeepsInv DEF TypeOK, Placed
  <2>3. CASE Write(New)
    BY <2>3, <2>2, <1>t, NewType, NewIsComplete
  <2>4. CASE Write(Object(Content, FALSE, 0))
    BY <2>4, <2>2, <1>t, NewType, NewIsComplete
  <2>5. CASE pc = "update" /\ Write(Updated)
    BY <2>5, <2>2, <1>t, NewType DEF EnsureInv, Placed
  <2> QED
    BY <1>10, <2>3, <2>4, <2>5 DEF Lose
<1>11. CASE Crash
  BY <1>11, <1>t, <1>n, StayKeepsInv DEF Crash, Restart, TypeOK, Placed
<1>12. CASE Edit
  <2>1. /\ edits' = edits + 1 /\ mishaps' \in Nat
        /\ UNCHANGED <<style, wanted, seen, worker>>
    BY <1>12, <1>n DEF Edit
  <2>2. PICK o \in Versions : Write(o)
    BY <1>12, <1>t, EditType DEF Edit
  <2>3. edits' \in Nat /\ edits' # 0
    BY <2>1, <1>t DEF TypeOK, Placed
  <2> QED
    BY <2>1, <2>2, <2>3, <1>t, WriteKeepsInv DEF TypeOK, Placed, EnsureInv
<1>13. CASE Delete
  <2>1. Gone \in Versions /\ ~ Gone.there
    BY <1>t, EditType DEF Gone
  <2>2. Write(Gone) /\ mishaps' \in Nat /\ UNCHANGED <<world, seen, worker>>
    BY <1>13, <1>n DEF Delete
  <2> QED
    BY <2>1, <2>2, <1>t, WriteKeepsInv DEF TypeOK, Placed, EnsureInv
<1>14. CASE Want
  BY <1>14, <1>t, <1>n, StayKeepsInv DEF Want, TypeOK, Placed, EnsureInv
<1> QED
  BY <1>1, <1>2, <1>3, <1>4, <1>5, <1>6, <1>7, <1>8, <1>9, <1>10, <1>11, <1>12,
     <1>13, <1>14 DEF Next, Step

LEMMA StutterKeepsInv ==
  ASSUME EnsureInv, UNCHANGED vars
  PROVE  EnsureInv'
  BY StayKeepsInv DEF EnsureInv, TypeOK, Placed, vars, world, server, worker, local

\* EnsureInv: what is at each place of a reconcile, and the complete passwords,
\* hold in every reachable state (reconcile.go:90-171).
THEOREM EnsureInductive == Spec => []EnsureInv
<1>1. EnsureInv /\ [Next]_vars => EnsureInv'
  BY StepKeepsInv, StutterKeepsInv
<1> QED
  BY InitInv, <1>1, PTL DEF Spec

---------------------------------------------------------------------------
(* The properties of steps.                                                *)

LEMMA WriteStored ==
  ASSUME TypeOK, NEW o \in Versions, Write(o)
  PROVE  Stored' = o
  BY WriteGrows DEF Stored

\* Who writes to a resource that is there, other than a user, and how.
LEMMA WhoWrites ==
  ASSUME EnsureInv, Next, Stored.there, Stored.there', edits' = edits
  PROVE  \/ log' = log
         \/ pc = "overwrite"
         \/ pc = "update" /\ held = Len(log) /\ Stored' = Updated
<1> USE DEF world, server, Panic, Restart
<1>t. TypeOK
  BY DEF EnsureInv
<1>1. CASE Create
  BY <1>1 DEF Create
<1>2. ASSUME pc = "update", Accepts(held), Write(Updated)
      PROVE  pc = "update" /\ held = Len(log) /\ Stored' = Updated
  BY <1>2, <1>t, NewType, WriteStored DEF Accepts
<1>3. CASE Update
  BY <1>3, <1>2 DEF Update
<1>4. CASE Lose
  BY <1>4, <1>2 DEF Lose
<1>5. CASE Edit
  BY <1>5, <1>t DEF Edit, TypeOK
<1>6. CASE Delete
  <2>1. ~ Stored.there'
    BY <1>6, <1>t, EditType, WriteStored DEF Delete, Gone
  <2> QED
    BY <2>1
<1>7. CASE Overwrite
  BY <1>7 DEF Overwrite
<1>8. CASE Begin \/ Get \/ Reread \/ Panic \/ Deliver \/ Fail \/ Crash \/ Want
  BY <1>8 DEF Begin, Get, Reread, Deliver, Fail, Crash, Want
<1> QED
  BY <1>1, <1>3, <1>4, <1>5, <1>6, <1>7, <1>8 DEF Next, Step

\* No update that starts from a stale copy of a resource undoes what a user did
\* to it since (configuration.go:85-96).
THEOREM ForeignSafe == Spec => ForeignKept
<1> DEFINE Kept == Stored.there /\ Stored.there' /\ style \in Copying
                     /\ UNCHANGED edits => Stored.foreign' = Stored.foreign
<1>1. ASSUME EnsureInv, Next
      PROVE  Kept
  <2> SUFFICES ASSUME Stored.there, Stored.there', style \in Copying, edits' = edits
               PROVE  Stored.foreign' = Stored.foreign
    OBVIOUS
  <2>1. pc # "overwrite"
    BY <1>1 DEF EnsureInv, Placed, Copying
  <2>2. CASE log' = log
    BY <2>2 DEF Stored
  <2>3. CASE held = Len(log) /\ Stored' = Updated
    BY <2>3 DEF Stored, Updated, Object
  <2> QED
    BY <1>1, <2>1, <2>2, <2>3, WhoWrites
<1>2. EnsureInv /\ [Next]_vars => [Kept]_vars
  BY <1>1
<1> QED
  BY EnsureInductive, <1>2, PTL DEF Spec, ForeignKept

\* The operator's password stays the one Jenkins was set up with, however far
\* behind the caches are (reconcile.go:156-171).
THEOREM CredentialsSafe == Spec => CredentialsStay
<1> DEFINE Stays == style = "credentials" /\ edits' = 0 /\ Stored.there
                      /\ Stored.there' => Stored.own' = Stored.own
<1>1. ASSUME EnsureInv, Next
      PROVE  Stays
  <2> SUFFICES ASSUME style = "credentials", edits' = 0, Stored.there, Stored.there'
               PROVE  Stored.own' = Stored.own
    OBVIOUS
  <2>1. edits' = edits
    <3>1. CASE Edit
      BY <1>1, <3>1 DEF Edit, EnsureInv, TypeOK
    <3>2. CASE ~ Edit
      BY <1>1, <3>2 DEF Next, Step, Begin, Get, Create, Reread, Overwrite, Update,
         Panic, Crash, Restart, Deliver, Fail, Lose, Delete, Want, world
    <3> QED
      BY <3>1, <3>2
  <2>2. pc # "overwrite" /\ pc # "update"
    BY <1>1, <2>1 DEF EnsureInv, Placed
  <2>3. log' = log
    BY <1>1, <2>1, <2>2, WhoWrites
  <2> QED
    BY <2>3 DEF Stored
<1>2. EnsureInv /\ [Next]_vars => [Stays]_vars
  BY <1>1
<1> QED
  BY EnsureInductive, <1>2, PTL DEF Spec, CredentialsStay

LEMMA WrittenMeets ==
  ASSUME TypeOK, NEW o \in Versions, Write(o), Meets(o)
  PROVE  \E v \in seen..Len(log') : Meets(log'[v])
<1>1. Len(log') \in seen..Len(log') /\ log'[Len(log')] = o
  BY WriteGrows DEF TypeOK
<1> QED
  BY <1>1

LEMMA CachedMeets ==
  ASSUME TypeOK, log' = log, Meets(Cached)
  PROVE  \E v \in seen..Len(log') : Meets(log'[v])
<1>1. seen \in seen..Len(log')
  BY DEF TypeOK
<1> QED
  BY <1>1 DEF Cached

\* A reconcile that goes on to the next resource has this one: no refused or
\* failed call passes for a success (reconcile.go:90-154).
THEOREM SuccessSafe == Spec => SuccessIsReal
<1> DEFINE Good == \E v \in seen..Len(log') : Meets(log'[v])
           Real == Returns("nil") /\ style \notin {"claim", "route", "monitor"} => Good
<1>1. ASSUME EnsureInv, Next, Returns("nil"), style \notin {"claim", "route", "monitor"}
      PROVE  Good
  <2> USE DEF world, server, worker, Goto, Return, UpdateOf
  <2> HIDE DEF Good
  <2>t. TypeOK
    BY <1>1 DEF EnsureInv
  <2>c. log' = log /\ Meets(Cached) => Good
    BY <2>t, CachedMeets DEF Good
  <2>w. \A o \in Versions : Write(o) /\ Meets(o) => Good
    BY <2>t, WrittenMeets DEF Good
  <2>1. CASE Get
    <3>1. Cached.there /\ log' = log /\ style # "configmap"
      BY <1>1, <2>1 DEF Get, Returns, EnsureInv, Placed
    <3>2. /\ style = "credentials" => Complete(Cached)
          /\ style = "account" => Same(Cached)
          /\ style # "service"
      BY <1>1, <2>1, <3>1 DEF Get, Returns
    <3> QED
      BY <3>1, <3>2, <2>c DEF Meets, Same
  <2>2. CASE Create
    <3>1. Write(New)
      BY <1>1, <2>2 DEF Create, Returns
    <3>2. New.there /\ (style # "credentials" => New.own = desired)
      BY DEF New, Object, Content
    <3>3. Meets(New)
      BY <3>2, <2>t, NewIsComplete DEF Meets, Covers
    <3> QED
      BY <3>1, <3>3, <2>w, <2>t, NewType
  <2>3. CASE Reread
    BY <1>1, <2>3, <2>c DEF Reread, Returns, Meets, EnsureInv, Placed
  <2>4. CASE Overwrite
    <3> DEFINE o == Object(Content, FALSE, 0)
    <3>1. Write(o)
      BY <1>1, <2>4 DEF Overwrite, Returns
    <3>2. o.there /\ (style # "credentials" => o.own = desired)
      BY DEF Object, Content
    <3>3. Meets(o)
      BY <3>2, <2>t, NewIsComplete DEF Meets, Covers
    <3> QED
      BY <3>1, <3>3, <2>w, <2>t, NewType
  <2>5. CASE Update
    <3>1. Write(Updated) /\ style # "credentials"
      BY <1>1, <2>5 DEF Update, Conflict, Returns, EnsureInv, Placed
    <3>2. Updated.there /\ Covers(Updated.own, desired)
      BY DEF Updated, Object, Covers
    <3>3. Meets(Updated)
      BY <3>1, <3>2 DEF Meets
    <3> QED
      BY <3>1, <3>3, <2>w, <2>t, NewType
  <2>6. CASE Begin \/ Deliver \/ Edit \/ Delete \/ Want
    BY <1>1, <2>6 DEF Begin, Deliver, Edit, Delete, Want, Returns
  <2>7. CASE Panic \/ Crash \/ Fail \/ Lose
    BY <1>1, <2>7 DEF Panic, Crash, Restart, Fail, Lose, Returns
  <2> QED
    BY <1>1, <2>1, <2>2, <2>3, <2>4, <2>5, <2>6, <2>7 DEF Next, Step
<1>2. EnsureInv /\ [Next]_vars => [Real]_vars
  BY <1>1
<1> QED
  BY EnsureInductive, <1>2, PTL DEF Spec, SuccessIsReal

---------------------------------------------------------------------------
(* JenkinsImage: each build is recorded once, none is taken back, and only *)
(* genuine ones are, for any number of goroutines, builder pods and        *)
(* faults.  The invariant says of every copy a goroutine or the cache      *)
(* holds how far it may be behind the API server.                          *)

HIDE EnsureAssumption
USE ImageAssumption

Copies == [pod |-> cached.pod, image |-> cached.image]

LEMMA NobodyFits ==
  ASSUME ImageInv
  PROVE  /\ Nobody \in [pod : PodType, image : ImageType]
         /\ Behind(Nobody.image) /\ Outcome(Nobody.pod)
         /\ Nobody.pod.id <= cached.pod.id /\ ~ Ended(Nobody.pod)
<1>1. Nobody \in [pod : PodType, image : ImageType]
  BY DEF Nobody, NoPod, PodType, ImageType, Phase
<1>2. pod \in PodType /\ cached.pod \in PodType /\ image \in ImageType
  BY DEF ImageInv, ImageTypeOK
<1>3. /\ Nobody.image.rv = 0 /\ Nobody.pod.id = 0 /\ Nobody.pod.phase = "none"
      /\ ~ Ended(Nobody.pod)
  BY DEF Nobody, NoPod, Ended, Terminated
<1> QED
  BY <1>1, <1>2, <1>3 DEF ImageInv, Behind, Outcome, SameEnd, PodType, ImageType

\* Steps after which every copy is an old one, none, or one of what is stored.
LEMMA CopiesKeep ==
  ASSUME ImageInv, ImageTypeOK', RecordedOnce', BuildsGenuine', UNCHANGED <<pod, built>>,
         image' = image \/ image'.rv = image.rv + 1,
         cached'.image \in {cached.image, image'}, cached'.pod \in {cached.pod, pod},
         \A s \in Slots : waiters'[s] \in {waiters[s], Nobody, Copies}
  PROVE  ImageInv'
<1>1. /\ image \in ImageType /\ image' \in ImageType /\ image.rv > 0 /\ image'.rv > 0
      /\ pod \in PodType /\ cached.pod \in PodType /\ cached.image \in ImageType
      /\ cached'.pod \in PodType /\ cached'.image \in ImageType
      /\ waiters \in [Slots -> [pod : PodType, image : ImageType]]
  BY DEF ImageInv, ImageTypeOK, ImageType
<1>2. ASSUME NEW c \in ImageType, Behind(c) PROVE Behind(c)'
  BY <1>1, <1>2 DEF Behind, ImageType
<1>3. Behind(image)' /\ Behind(cached.image)'
  <2>1. ASSUME NEW c \in ImageType, c = image' PROVE Behind(c)'
    BY <1>1, <2>1 DEF Behind, ImageType
  <2>2. Behind(image)'
    BY <1>1, <2>1 DEF Behind, ImageType
  <2>3. ASSUME NEW c \in ImageType, c = cached'.image PROVE Behind(c)'
    BY <1>2, <2>1, <2>3 DEF ImageInv
  <2> QED
    BY <1>1, <2>2, <2>3 DEF Behind
<1>4. /\ Outcome(pod) /\ Outcome(cached.pod) /\ cached.pod.id <= pod.id
      /\ cached.pod.id <= cached'.pod.id
  BY <1>1 DEF ImageInv, Outcome, PodType
<1>5. ASSUME NEW p \in PodType, Outcome(p) PROVE Outcome(p)'
  BY <1>5 DEF Outcome, SameEnd, Ended
<1>6. Outcome(pod)' /\ Outcome(cached.pod)'
  <2>1. ASSUME NEW p \in PodType, p \in {pod, cached'.pod} PROVE Outcome(p)'
    BY <1>4, <1>5, <2>1
  <2> QED
    BY <1>1, <2>1 DEF Outcome, SameEnd, Ended
<1>7. ASSUME NEW s \in Slots
      PROVE  Behind(waiters[s].image)' /\ Outcome(waiters[s].pod)'
             /\ waiters'[s].pod.id <= cached'.pod.id
  <2>1. ASSUME NEW w \in [pod : PodType, image : ImageType],
               w \in {waiters[s], Nobody, Copies}
        PROVE  Behind(w.image)' /\ Outcome(w.pod)' /\ w.pod.id <= cached'.pod.id
    <3>1. /\ w.pod \in PodType /\ w.image \in ImageType
          /\ Behind(w.image) /\ Outcome(w.pod) /\ w.pod.id <= cached.pod.id
      BY <1>1, <1>4, <2>1, NobodyFits DEF ImageInv, Copies, PodType
    <3> QED
      BY <1>1, <1>2, <1>4, <1>5, <3>1 DEF PodType
  <2>2. waiters'[s] \in [pod : PodType, image : ImageType]
    BY DEF ImageTypeOK
  <2> QED
    BY <2>1, <2>2 DEF Behind, Outcome, SameEnd, Ended
<1> QED
  BY <1>1, <1>3, <1>6, <1>7 DEF ImageInv

\* Steps of the builder pod: it goes on, it is deleted, or there is another.
LEMMA PodKeeps ==
  ASSUME ImageInv, ImageTypeOK', UNCHANGED <<image, cached, waiters, outlived>>,
         built \subseteq built',
         \/ pod' = pod
         \/ pod'.id = pod.id /\ pod'.phase = "none"
         \/ pod'.id = pod.id /\ pod.phase # "none" /\ ~ Ended(pod)
         \/ pod'.id = pod.id + 1 /\ ~ Ended(pod)',
         pod'.phase = "succeeded" => pod'.message \in built'
  PROVE  ImageInv'
<1>1. /\ pod \in PodType /\ pod' \in PodType /\ cached.pod \in PodType
      /\ waiters \in [Slots -> [pod : PodType, image : ImageType]]
  BY DEF ImageInv, ImageTypeOK
<1>2. ASSUME NEW p \in PodType, Outcome(p) PROVE Outcome(p)'
  <2>1. /\ p.id <= pod.id /\ SameEnd(p, cached.pod) /\ SameEnd(p, pod)
        /\ Ended(p) /\ p.id = pod.id => pod.phase = "none" \/ Ended(pod)
        /\ p.phase = "succeeded" => p.message \in built
    BY <1>2 DEF Outcome
  <2>2. p.id <= pod'.id
    BY <1>1, <2>1 DEF PodType
  <2>3. SameEnd(p, cached.pod)'
    BY <2>1 DEF SameEnd, Ended
  <2>4. /\ SameEnd(p, pod)'
        /\ Ended(p) /\ p.id = pod'.id => pod'.phase = "none" \/ Ended(pod)'
    <3>1. CASE pod' = pod
      BY <2>1, <3>1 DEF SameEnd, Ended
    <3>2. CASE pod'.phase = "none"
      BY <3>2 DEF SameEnd, Ended, Terminated
    <3>3. CASE pod'.id = pod.id /\ pod.phase # "none" /\ ~ Ended(pod)
      BY <2>1, <3>3 DEF SameEnd, Ended
    <3>4. CASE pod'.id = pod.id + 1
      <4>1. p.id # pod'.id
        BY <1>1, <2>1, <3>4 DEF PodType
      <4> QED
        BY <4>1 DEF SameEnd, Ended
    <3> QED
      BY <3>1, <3>2, <3>3, <3>4
  <2> QED
    BY <2>1, <2>2, <2>3, <2>4 DEF Outcome, Ended
<1>3. Outcome(cached.pod)'
  BY <1>1, <1>2 DEF ImageInv, Outcome, SameEnd, Ended
<1>4. Outcome(pod)'
  BY <1>1, <1>3 DEF Outcome, SameEnd, Ended, PodType
<1>5. ASSUME NEW s \in Slots PROVE Outcome(waiters[s].pod)'
  BY <1>1, <1>2 DEF ImageInv, Outcome, SameEnd, Ended
<1>6. RecordedOnce' /\ BuildsGenuine'
  BY DEF ImageInv, RecordedOnce, BuildsGenuine
<1> QED
  BY <1>3, <1>4, <1>5, <1>6 DEF ImageInv, Behind

---------------------------------------------------------------------------
(* The goroutines.                                                         *)

\* What one writes if the API server accepts it.
LEMMA WriteFits ==
  ASSUME ImageInv, NEW s \in Slots, cached.pod.phase = "succeeded",
         waiters[s].pod.phase \in Terminated, ImageAccepts(waiters[s]),
         ~ Contains(waiters[s].image.builds, waiters[s].pod.message),
         image' = Recorded(waiters[s]), built' = built,
         outlived' = (outlived \/ waiters[s].pod.id # pod.id)
  PROVE  /\ image' \in ImageType /\ image'.rv = image.rv + 1
         /\ image'.builds = Append(image.builds, waiters[s].pod.message)
         /\ waiters[s].pod.message \in Images \cup {None}
         /\ RecordedOnce' /\ BuildsGenuine'
<1> DEFINE w == waiters[s]  i == w.pod.message  B == image.builds
<1>1. /\ image \in ImageType /\ w \in [pod : PodType, image : ImageType]
      /\ pod \in PodType /\ cached.pod \in PodType
  BY DEF ImageInv, ImageTypeOK
<1>2. w.image.builds = B
  BY DEF ImageInv, Behind, ImageAccepts
<1>3. /\ i \in Images \cup {None} /\ B \in Seq(Images \cup {None})
      /\ image'.rv = image.rv + 1 /\ image'.builds = Append(B, i)
      /\ image' \in ImageType
  BY <1>1, <1>2 DEF Recorded, ImageType, PodType
<1>4. \A n \in DOMAIN B : B[n] # i
  BY <1>2 DEF Contains
<1>5. RecordedOnce'
  BY <1>3, <1>4 DEF ImageInv, RecordedOnce
<1>6. outlived' \/ i \in built
  <2>1. CASE w.pod.id = pod.id
    <3>1. w.pod.id <= cached.pod.id /\ Outcome(w.pod) /\ Outcome(cached.pod)
      BY DEF ImageInv
    <3>2. cached.pod.id = w.pod.id
      BY <1>1, <2>1, <3>1 DEF Outcome, PodType
    <3>3. w.pod.phase = "succeeded"
      BY <3>1, <3>2 DEF Outcome, SameEnd, Ended, Terminated
    <3> QED
      BY <3>1, <3>3 DEF Outcome
  <2> QED
    BY <2>1
<1>7. BuildsGenuine'
  <2>1. CASE outlived'
    BY <2>1 DEF BuildsGenuine
  <2>2. CASE ~ outlived'
    <3>1. i \in built /\ \A n \in DOMAIN B : B[n] \in built
      BY <1>6, <2>2 DEF ImageInv, BuildsGenuine
    <3>2. \A n \in DOMAIN image'.builds : image'.builds[n] \in built
      BY <1>3, <3>1
    <3> QED
      BY <3>2 DEF BuildsGenuine
  <2> QED
    BY <2>1, <2>2
<1> QED
  BY <1>3, <1>5, <1>7

LEMMA NobodyTyped ==
  ASSUME ImageInv, NEW s \in Slots
  PROVE  /\ [waiters EXCEPT ![s] = Nobody] \in [Slots -> [pod : PodType, image : ImageType]]
         /\ [t \in Slots |-> Nobody] \in [Slots -> [pod : PodType, image : ImageType]]
BY NobodyFits DEF ImageInv, ImageTypeOK

LEMMA SucceededKeeps ==
  ASSUME ImageInv, NEW s \in Slots, Succeeded(s)
  PROVE  /\ ImageInv'
         /\ \/ image'.builds = image.builds
            \/ \E i \in Images \cup {None} : image'.builds = Append(image.builds, i)
<1> DEFINE w == waiters[s]
           Written == /\ w.pod.phase \in Terminated /\ ImageAccepts(w)
                      /\ ~ Contains(w.image.builds, w.pod.message)
                      /\ image' = Recorded(w)
                      /\ outlived' = (outlived \/ w.pod.id # pod.id)
<1>1. /\ UNCHANGED <<file, pod, built>> /\ cached.pod.phase = "succeeded"
      /\ UNCHANGED <<image, outlived>> \/ Written
      /\ ImageRestart \/ Ends(s)
      /\ faults' = faults \/ (faults < MaxFaults /\ faults' = faults + 1)
  BY DEF Succeeded
<1> HIDE DEF Written
<1>2. /\ image' \in ImageType
      /\ image' = image \/ image'.rv = image.rv + 1
      /\ RecordedOnce' /\ BuildsGenuine' /\ outlived' \in BOOLEAN
      /\ \/ image'.builds = image.builds
         \/ \E i \in Images \cup {None} : image'.builds = Append(image.builds, i)
  <2>1. CASE UNCHANGED <<image, outlived>>
    BY <1>1, <2>1 DEF ImageInv, ImageTypeOK, RecordedOnce, BuildsGenuine
  <2>2. CASE Written
    BY <1>1, <2>2, WriteFits DEF Written, ImageInv, ImageTypeOK
  <2> QED
    BY <1>1, <2>1, <2>2
<1>3. /\ cached' \in [image : ImageType, file : BOOLEAN, pod : PodType]
      /\ queued' \in BOOLEAN
      /\ waiters' \in [Slots -> [pod : PodType, image : ImageType]]
      /\ cached'.image \in {cached.image, image'} /\ cached'.pod \in {cached.pod, pod}
      /\ \A t \in Slots : waiters'[t] \in {waiters[t], Nobody, Copies}
  <2>1. CASE ImageRestart
    <3>1. /\ cached' = [image |-> image', file |-> file', pod |-> pod'] /\ queued' = TRUE
          /\ waiters' = [t \in Slots |-> Nobody]
      BY <2>1 DEF ImageRestart
    <3>2. file' \in BOOLEAN /\ pod' \in PodType /\ image' \in ImageType
      <4>1. file' = file /\ pod' = pod
        BY <1>1
      <4>2. file \in BOOLEAN /\ pod \in PodType
        BY DEF ImageInv, ImageTypeOK
      <4>3. image' \in ImageType
        BY <1>2
      <4> QED
        BY <4>1, <4>2, <4>3
    <3>3. /\ cached' \in [image : ImageType, file : BOOLEAN, pod : PodType]
          /\ cached'.image = image' /\ cached'.pod = pod
      <4> HIDE DEF Written
      <4>1. ASSUME NEW i \in ImageType, NEW f \in BOOLEAN, NEW q \in PodType
            PROVE  [image |-> i, file |-> f, pod |-> q]
                     \in [image : ImageType, file : BOOLEAN, pod : PodType]
        OBVIOUS
      <4>2. cached' \in [image : ImageType, file : BOOLEAN, pod : PodType]
        BY <3>1, <3>2, <4>1, Zenon
      <4>3. cached'.image = image' /\ cached'.pod = pod'
        BY <3>1
      <4> QED
        BY <1>1, <4>2, <4>3
    <3>4. /\ waiters' \in [Slots -> [pod : PodType, image : ImageType]]
          /\ \A t \in Slots : waiters'[t] = Nobody
      BY <3>1, NobodyTyped
    <3> QED
      BY <3>1, <3>3, <3>4
  <2>2. CASE Ends(s)
    BY <2>2, NobodyTyped DEF Ends, ImageInv, ImageTypeOK
  <2> QED
    BY <1>1, <2>1, <2>2
<1>4. ImageTypeOK'
  <2>1. faults' \in 0..MaxFaults
    <3>1. faults \in 0..MaxFaults
      BY DEF ImageInv, ImageTypeOK
    <3> QED
      BY <1>1, <3>1
  <2>2. file' \in BOOLEAN /\ pod' \in PodType /\ built' \subseteq Images
    <3>1. file' = file /\ pod' = pod /\ built' = built
      BY <1>1
    <3>2. file \in BOOLEAN /\ pod \in PodType /\ built \subseteq Images
      BY DEF ImageInv, ImageTypeOK
    <3> QED
      BY <3>1, <3>2, Zenon
  <2>3. image' \in ImageType /\ outlived' \in BOOLEAN
    BY <1>2, Zenon
  <2>4. /\ cached' \in [image : ImageType, file : BOOLEAN, pod : PodType]
        /\ queued' \in BOOLEAN
        /\ waiters' \in [Slots -> [pod : PodType, image : ImageType]]
    BY <1>3, Zenon
  <2> QED
    BY <2>1, <2>2, <2>3, <2>4, Zenon DEF ImageTypeOK
<1> QED
  BY <1>1, <1>2, <1>3, <1>4, CopiesKeep

---------------------------------------------------------------------------
(* Steps that leave the JenkinsImage alone.                                *)

\* A step that touches nothing but copies, and what a property is not about.
LEMMA CalmKeeps ==
  ASSUME ImageInv, ImageTypeOK', UNCHANGED <<image, pod, built, outlived>>,
         cached'.image \in {cached.image, image}, cached'.pod \in {cached.pod, pod},
         \A s \in Slots : waiters'[s] \in {waiters[s], Nobody, Copies}
  PROVE  ImageInv'
<1>1. RecordedOnce' /\ BuildsGenuine'
  BY DEF ImageInv, RecordedOnce, BuildsGenuine
<1> QED
  BY <1>1, CopiesKeep

LEMMA ReconcileKeeps ==
  ASSUME ImageInv, Reconcile
  PROVE  ImageInv' /\ image' = image
<1>0. ImageTypeOK /\ UNCHANGED <<image, cached, faults, built, outlived>>
  BY DEF ImageInv, Reconcile
<1>1. CASE UNCHANGED <<pod, waiters>> /\ file' = TRUE /\ queued' = file
  <2>1. ImageTypeOK'
    BY <1>0, <1>1 DEF ImageTypeOK
  <2> QED
    BY <1>0, <1>1, <2>1, CalmKeeps
<1>2. CASE UNCHANGED <<file, waiters>> /\ queued' = (pod.phase # "none")
           /\ pod' = IF pod.phase = "none"
                     THEN [id |-> pod.id + 1, phase |-> "pending", message |-> None]
                     ELSE pod
  <2>1. pod' \in PodType
    BY <1>0, <1>2 DEF ImageTypeOK, PodType, Phase
  <2>2. ImageTypeOK'
    BY <1>0, <1>2, <2>1 DEF ImageTypeOK
  <2>3. pod' = pod \/ (pod'.id = pod.id + 1 /\ ~ Ended(pod)' /\ pod'.phase = "pending")
    BY <1>2 DEF Ended, Terminated
  <2>4. pod'.phase = "succeeded" => pod'.message \in built'
    BY <1>0, <2>3 DEF ImageInv, Outcome
  <2> QED
    BY <1>0, <1>2, <2>2, <2>3, <2>4, PodKeeps
<1>3. CASE UNCHANGED <<file, pod>> /\ Spawn /\ queued' = FALSE
  <2>1. \/ waiters' = waiters
        \/ \E s \in Slots : waiters' = [waiters EXCEPT ![s] = Copies]
    BY <1>3 DEF Spawn, Copies
  <2>2. Copies \in [pod : PodType, image : ImageType]
    BY <1>0 DEF Copies, ImageTypeOK
  <2>3. /\ waiters' \in [Slots -> [pod : PodType, image : ImageType]]
        /\ \A s \in Slots : waiters'[s] \in {waiters[s], Nobody, Copies}
    BY <1>0, <2>1, <2>2 DEF ImageTypeOK
  <2>4. ImageTypeOK'
    BY <1>0, <1>3, <2>3 DEF ImageTypeOK
  <2> QED
    BY <1>0, <1>3, <2>3, <2>4, CalmKeeps
<1> QED
  BY <1>0, <1>1, <1>2, <1>3 DEF Reconcile

LEMMA GoroutineEndKeeps ==
  ASSUME ImageInv, NEW s \in Slots, PodNotFound(s)
  PROVE  ImageInv' /\ image' = image
<1>1. /\ UNCHANGED <<image, file, pod, faults, built, outlived, cached, queued>>
      /\ waiters' = [waiters EXCEPT ![s] = Nobody]
  BY DEF PodNotFound, Ends
<1>2. ImageTypeOK' /\ \A t \in Slots : waiters'[t] \in {waiters[t], Nobody, Copies}
  BY <1>1, NobodyTyped DEF ImageInv, ImageTypeOK
<1> QED
  BY <1>1, <1>2, CalmKeeps

LEMMA PodStepKeeps ==
  ASSUME ImageInv, PodSteps \/ DeletePod
  PROVE  ImageInv' /\ image' = image
<1>0. ImageTypeOK /\ UNCHANGED <<image, file, cached, queued, waiters, faults, outlived>>
      /\ pod \in PodType
  BY DEF ImageInv, PodSteps, DeletePod, ImageTypeOK
<1>1. CASE PodSteps
  <2>1. /\ pod' \in PodType /\ pod'.id = pod.id
        /\ pod.phase \in {"pending", "waiting", "running"}
        /\ pod'.phase = "succeeded" => pod'.message \in Images
    BY <1>0, <1>1 DEF PodSteps, PodType, Phase
  <2>2. /\ built \subseteq built' /\ built' \subseteq Images
        /\ pod'.phase = "succeeded" => pod'.message \in built'
    BY <1>0, <1>1, <2>1 DEF PodSteps, ImageTypeOK
  <2>3. ImageTypeOK'
    BY <1>0, <2>1, <2>2 DEF ImageTypeOK
  <2>4. pod.phase # "none" /\ ~ Ended(pod)
    BY <2>1 DEF Ended, Terminated
  <2> QED
    BY <1>0, <2>1, <2>2, <2>3, <2>4, PodKeeps
<1>2. CASE DeletePod
  <2>1. pod' \in PodType /\ pod'.id = pod.id /\ pod'.phase = "none" /\ built' = built
    BY <1>0, <1>2 DEF DeletePod, PodType, Phase
  <2>2. ImageTypeOK'
    BY <1>0, <2>1 DEF ImageTypeOK
  <2> QED
    BY <1>0, <2>1, <2>2, PodKeeps
<1> QED
  BY <1>1, <1>2

LEMMA OutsideKeeps ==
  ASSUME ImageInv, DeleteFile \/ Touch \/ DeliverImage \/ Resync \/ ImageCrash
  PROVE  ImageInv' /\ image'.builds = image.builds
<1>0. ImageTypeOK /\ UNCHANGED <<pod, built, outlived>>
  BY DEF ImageInv, DeleteFile, Touch, DeliverImage, Resync, ImageCrash
<1>1. /\ image' \in ImageType /\ image'.builds = image.builds
      /\ image' = image \/ image'.rv = image.rv + 1
  BY <1>0 DEF DeleteFile, Touch, DeliverImage, Resync, ImageCrash, ImageTypeOK, ImageType
<1>2. RecordedOnce' /\ BuildsGenuine'
  BY <1>0, <1>1 DEF ImageInv, RecordedOnce, BuildsGenuine
<1>3. /\ cached' \in [image : ImageType, file : BOOLEAN, pod : PodType]
      /\ waiters' \in [Slots -> [pod : PodType, image : ImageType]]
      /\ cached'.image \in {cached.image, image'} /\ cached'.pod \in {cached.pod, pod}
      /\ \A s \in Slots : waiters'[s] \in {waiters[s], Nobody, Copies}
      /\ file' \in BOOLEAN /\ queued' \in BOOLEAN /\ faults' \in 0..MaxFaults
  <2>1. CASE DeliverImage
    BY <1>0, <2>1 DEF DeliverImage, ImageTypeOK
  <2>2. CASE DeleteFile \/ Touch \/ Resync
    <3>1. /\ cached' = cached /\ waiters' = waiters
          /\ file' = file \/ file' = FALSE
          /\ queued' = queued \/ queued' = TRUE
      BY <2>2 DEF DeleteFile, Touch, Resync
    <3>2. faults' = faults \/ (faults < MaxFaults /\ faults' = faults + 1)
      BY <2>2 DEF DeleteFile, Touch, Resync
    <3>3. /\ file \in BOOLEAN /\ queued \in BOOLEAN
          /\ cached \in [image : ImageType, file : BOOLEAN, pod : PodType]
          /\ waiters \in [Slots -> [pod : PodType, image : ImageType]]
      BY <1>0 DEF ImageTypeOK
    <3>4. faults \in 0..MaxFaults
      BY <1>0 DEF ImageTypeOK
    <3>5. faults' \in 0..MaxFaults
      BY <3>2, <3>4
    <3>6. file' \in BOOLEAN
      BY <3>1, <3>3, Zenon
    <3>7. queued' \in BOOLEAN
      BY <3>1, <3>3, Zenon
    <3>8. /\ cached' \in [image : ImageType, file : BOOLEAN, pod : PodType]
          /\ waiters' \in [Slots -> [pod : PodType, image : ImageType]]
          /\ cached'.image \in {cached.image, image'} /\ cached'.pod \in {cached.pod, pod}
          /\ \A s \in Slots : waiters'[s] \in {waiters[s], Nobody, Copies}
      <4>1. cached' = cached /\ waiters' = waiters
        BY <3>1
      <4> QED
        BY <3>3, <4>1, Zenon
    <3> QED
      BY <3>5, <3>6, <3>7, <3>8
  <2>3. CASE ImageCrash
    <3>1. Nobody \in [pod : PodType, image : ImageType]
      BY NobodyFits
    <3> QED
      BY <1>0, <1>1, <2>3, <3>1 DEF ImageCrash, ImageRestart, ImageTypeOK
  <2> QED
    BY <2>1, <2>2, <2>3
<1>4. ImageTypeOK'
  BY <1>0, <1>1, <1>3 DEF ImageTypeOK
<1> QED
  BY <1>0, <1>1, <1>2, <1>3, <1>4, CopiesKeep

---------------------------------------------------------------------------

LEMMA InitImage == ImageInit => ImageInv
<1> SUFFICES ASSUME ImageInit PROVE ImageInv
  OBVIOUS
<1>1. ImageTypeOK
  <2>1. /\ NoPod \in PodType /\ Nobody.pod \in PodType
        /\ [rv |-> 1, builds |-> <<>>] \in ImageType
        /\ Nobody \in [pod : PodType, image : ImageType]
    BY DEF Nobody, NoPod, PodType, ImageType, Phase
  <2>2. /\ image \in ImageType /\ file \in BOOLEAN /\ pod \in PodType
        /\ queued \in BOOLEAN /\ outlived \in BOOLEAN /\ built \subseteq Images
    BY <2>1 DEF ImageInit
  <2>3. cached \in [image : ImageType, file : BOOLEAN, pod : PodType]
    BY <2>1, <2>2 DEF ImageInit
  <2>4. faults \in 0..MaxFaults
    BY DEF ImageInit
  <2> QED
    BY <2>1, <2>2, <2>3, <2>4 DEF ImageInit, ImageTypeOK
<1> QED
  BY <1>1 DEF ImageInit, ImageInv, RecordedOnce, BuildsGenuine, Behind, Outcome, SameEnd,
     Ended, Terminated, Nobody, NoPod

LEMMA NextImage ==
  ASSUME ImageInv, [ImageNext]_imageVars
  PROVE  /\ ImageInv'
         /\ \/ image'.builds = image.builds
            \/ \E i \in Images \cup {None} : image'.builds = Append(image.builds, i)
<1>1. CASE UNCHANGED imageVars
  BY <1>1 DEF imageVars, ImageInv, ImageTypeOK, RecordedOnce, BuildsGenuine, Behind, Outcome,
     SameEnd, Ended
<1>2. CASE ImageNext
  BY <1>2, ReconcileKeeps, SucceededKeeps, GoroutineEndKeeps, PodStepKeeps,
     OutsideKeeps DEF ImageNext
<1> QED
  BY <1>1, <1>2

\* The goroutines of many reconciles append to copies of the list of builds, and
\* contains and the version of the write keep them apart
\* (jenkinsimage_controller.go:131-161): no build is recorded twice.
THEOREM BuildsOnce == ImageSpec => []RecordedOnce
<1>1. ImageInv => RecordedOnce
  BY DEF ImageInv
<1> QED
  BY <1>1, InitImage, NextImage, PTL DEF ImageSpec

\* Nor is one taken back (:145-149).
THEOREM BuildsKept == ImageSpec => BuildsOnlyGrow
<1>1. ImageInv /\ [ImageNext]_imageVars =>
        [\/ image'.builds = image.builds
         \/ \E i \in Images \cup {None} : image'.builds = Append(image.builds, i)]_imageVars
  BY NextImage
<1> QED
  BY <1>1, InitImage, NextImage, PTL DEF ImageSpec, BuildsOnlyGrow

\* A recorded build is one that a builder pod reported with success (:132,
\* resources/pod.go:573), until a goroutine outlives its pod.
THEOREM BuildsReal == ImageSpec => []BuildsGenuine
<1>1. ImageInv => BuildsGenuine
  BY DEF ImageInv
<1> QED
  BY <1>1, InitImage, NextImage, PTL DEF ImageSpec

=============================================================================
