---------------------------- MODULE VolumeProofs ----------------------------
(***************************************************************************)
(* Theorems about BackupVolume, for every value of its constants.          *)
(***************************************************************************)
EXTENDS BackupVolume, TLAPS

LEMMA InitInv == Init => IInv
  BY VolumeAssumption
  DEF Init, IInv, TypeOK, VolumeInv, Behind, Object, Verdicts, NoVolume

\* What a claim is named is a claim.
LEMMA NameIsClaim ==
  ASSUME NEW v \in Volumes, NEW o \in Object
  PROVE  ClaimName(v, o) \in Claims
  BY VolumeAssumption DEF ClaimName, Object

\* A volume written with a new version keeps every older copy behind it.
LEMMA WriteKeepsBehind ==
  ASSUME TypeOK, VolumeInv,
         NEW v \in Volumes, NEW o \in Object,
         o.ver = version + 1, version' = version + 1,
         volumes' = [volumes EXCEPT ![v] = o]
  PROVE  /\ volumes' \in [Volumes -> Object] /\ version' \in Nat
         /\ \A u \in Volumes : Behind(volumes[u], u)'
         /\ \A u \in Volumes, copy \in Object :
              Behind(copy, u) => Behind(copy, u)'
<1>1. volumes' \in [Volumes -> Object] /\ version' \in Nat
  BY DEF TypeOK
<1>2. \A u \in Volumes : volumes'[u] = IF u = v THEN o ELSE volumes[u]
  BY DEF TypeOK
<1>3. \A c \in Object : c.ver \in Nat
  BY DEF Object
<1>4. \A u \in Volumes : volumes[u] \in Object /\ Behind(volumes[u], u)
  BY DEF TypeOK, VolumeInv
<1>5. version \in Nat
  BY DEF TypeOK
<1>6. \A u \in Volumes : Behind(volumes[u], u)'
  BY <1>2, <1>3, <1>4, <1>5 DEF Behind
<1>7. ASSUME NEW u \in Volumes, NEW copy \in Object, Behind(copy, u)
      PROVE  Behind(copy, u)'
  <2>1. copy.ver \in Nat /\ copy.ver <= version
    BY <1>3, <1>7 DEF Behind
  <2>2. copy.ver < version'
    BY <1>5, <2>1
  <2>3. CASE u = v
    BY <1>2, <1>5, <1>7, <2>1, <2>2, <2>3 DEF Behind
  <2>4. CASE u # v
    BY <1>2, <1>5, <1>7, <2>1, <2>2, <2>4 DEF Behind
  <2> QED
    BY <2>3, <2>4
<1> QED
  BY <1>1, <1>6, <1>7

---------------------------------------------------------------------------
(* The steps of the worker.                                                *)

USE VolumeAssumption

LEMMA DequeueInv ==
  ASSUME IInv, NEW v \in Volumes, Dequeue(v)
  PROVE  IInv'
  BY DEF IInv, TypeOK, VolumeInv, Behind, Dequeue, store, cache, bounds,
         NoVolume, Object, Held, ClaimName

\* A step that ends a reconcile and leaves the volumes alone.
LEMMA EndInv ==
  ASSUME IInv, NEW failed \in BOOLEAN, End(failed), pc # "idle",
         UNCHANGED <<volumes, version, cache, changes>>,
         claims' \subseteq Claims, everClaims' \subseteq Claims,
         claims' \cup everClaims \subseteq everClaims',
         faults' \in 0..MaxFaults
  PROVE  IInv'
  BY DEF IInv, TypeOK, VolumeInv, Behind, End, cache, NoVolume, Object,
         Held, ClaimName, Verdicts

LEMMA FaultBound ==
  ASSUME TypeOK, Fault
  PROVE  faults' \in 0..MaxFaults
  BY DEF TypeOK, Fault

LEMMA ListFailsInv ==
  ASSUME IInv, ListFails
  PROVE  IInv'
<1>1. faults' \in 0..MaxFaults
  BY FaultBound DEF IInv, ListFails
<1> QED
  BY <1>1, EndInv DEF ListFails, IInv, TypeOK, VolumeInv, store, cache

LEMMA GetClaimInv ==
  ASSUME IInv, GetClaim
  PROVE  IInv'
  BY DEF IInv, TypeOK, VolumeInv, Behind, GetClaim, Found, Held, store,
         cache, bounds

LEMMA CreateClaimInv ==
  ASSUME IInv, CreateClaim
  PROVE  IInv'
<1>1. Held \in Claims
  BY NameIsClaim DEF IInv, TypeOK, Held
<1> QED
  BY <1>1, EndInv DEF CreateClaim, Put, IInv, TypeOK, VolumeInv, cache, bounds

LEMMA CreateFailsInv ==
  ASSUME IInv, CreateFails
  PROVE  IInv'
<1>1. Held \in Claims
  BY NameIsClaim DEF IInv, TypeOK, Held
<1>2. faults' \in 0..MaxFaults
  BY FaultBound DEF IInv, TypeOK, CreateFails
<1>3. /\ claims' \subseteq Claims /\ everClaims' \subseteq Claims
      /\ claims' \cup everClaims \subseteq everClaims'
  BY <1>1 DEF IInv, TypeOK, VolumeInv, CreateFails, Put
<1> QED
  BY <1>2, <1>3
  DEF IInv, TypeOK, VolumeInv, Behind, CreateFails, cache, Held, ClaimName

\* The status update writes what is stored, with a new version.
LEMMA SetPresentKeeps ==
  ASSUME IInv, SetPresent, pc \in {"True", "False"}
  PROVE  /\ volumes' \in [Volumes -> Object] /\ version' \in Nat
         /\ \A u \in Volumes : Behind(volumes[u], u)'
         /\ \A u \in Volumes, copy \in Object :
              Behind(copy, u) => Behind(copy, u)'
<1>1. CASE volumes[key].present = pc
  BY <1>1 DEF SetPresent, IInv, TypeOK, VolumeInv, Behind
<1>2. CASE volumes[key].present # pc
  <2> DEFINE o == Updated(volumes[key])
  <2>1. o \in Object /\ o.ver = version + 1
    BY DEF Updated, IInv, TypeOK, Object, Verdicts
  <2>2. /\ version' = version + 1
        /\ volumes' = [volumes EXCEPT ![key] = o]
    BY <1>2 DEF SetPresent
  <2>3. key \in Volumes
    BY DEF IInv, TypeOK
  <2> HIDE DEF o
  <2>4. /\ volumes' \in [Volumes -> Object] /\ version' \in Nat
        /\ \A u \in Volumes : Behind(volumes[u], u)'
        /\ \A u \in Volumes, copy \in Object :
              Behind(copy, u) => Behind(copy, u)'
    BY <2>1, <2>2, <2>3, WriteKeepsBehind DEF IInv
  <2> QED
    BY <2>4
<1> QED
  BY <1>1, <1>2

LEMMA UpdateStatusInv ==
  ASSUME IInv, UpdateStatus
  PROVE  IInv'
<1>1. /\ volumes' \in [Volumes -> Object] /\ version' \in Nat
      /\ \A u \in Volumes : Behind(volumes[u], u)'
      /\ \A u \in Volumes : Behind(cachedVolumes[u], u)'
  BY SetPresentKeeps DEF UpdateStatus, IInv, TypeOK, VolumeInv, cache, Behind
<1>2. faults' \in 0..MaxFaults
  BY FaultBound DEF IInv, TypeOK, UpdateStatus
<1>3. /\ pc' = "idle" /\ obj' = NoVolume /\ key' = key
      /\ queue' \subseteq Volumes
  BY DEF UpdateStatus, End, IInv, TypeOK
<1>4. UNCHANGED <<cachedVolumes, cachedClaims, claims, everClaims, changes>>
  BY DEF UpdateStatus, cache
<1>5. Behind(obj, key)'
  BY <1>1, <1>3 DEF Behind, NoVolume, IInv, TypeOK
<1>6. TypeOK'
  BY <1>1, <1>2, <1>3, <1>4 DEF IInv, TypeOK, Object, NoVolume, Verdicts
<1>7. VolumeInv'
  BY <1>1, <1>3, <1>4, <1>5 DEF IInv, VolumeInv
<1> QED
  BY <1>6, <1>7 DEF IInv

LEMMA UpdateFailsInv ==
  ASSUME IInv, UpdateFails
  PROVE  IInv'
<1>1. faults' \in 0..MaxFaults
  BY FaultBound DEF IInv, TypeOK, UpdateFails
<1> QED
  BY <1>1, EndInv DEF UpdateFails, IInv, TypeOK, VolumeInv, store, cache

---------------------------------------------------------------------------
(* The steps of the process and of users.                                  *)

LEMMA RestartInv ==
  ASSUME IInv, Restart, faults' \in 0..MaxFaults
  PROVE  IInv'
<1>1. /\ cachedVolumes' = volumes /\ cachedClaims' = claims
      /\ queue' \subseteq Volumes
      /\ pc' = "idle" /\ obj' = NoVolume
      /\ UNCHANGED <<volumes, claims, version, everClaims, changes, key>>
  BY DEF Restart, store
<1>2. NoVolume \in Object /\ NoVolume.ver = 0
  BY DEF NoVolume, Object, Verdicts
<1>3. TypeOK'
  BY <1>1, <1>2 DEF IInv, TypeOK
<1>4. \A u \in Volumes :
        Behind(volumes[u], u) /\ Behind(volumes[u], u)' /\ volumes[u] \in Object
  BY <1>1 DEF IInv, TypeOK, VolumeInv, Behind
<1>5. Behind(obj, key)'
  BY <1>1, <1>2, <1>4 DEF Behind, IInv, TypeOK, Object
<1>6. VolumeInv'
  BY <1>1, <1>4, <1>5 DEF IInv, TypeOK, VolumeInv, Behind
<1> QED
  BY <1>3, <1>6 DEF IInv

LEMMA DeliverInv ==
  ASSUME IInv,
         \/ \E v \in Volumes : DeliverVolume(v)
         \/ \E c \in Claims : DeliverClaim(c)
         \/ Resync
  PROVE  IInv'
<1>1. CASE \E v \in Volumes : DeliverVolume(v)
  <2>1. PICK v \in Volumes : DeliverVolume(v)
    BY <1>1
  <2>2. \A u \in Volumes :
          cachedVolumes'[u] = IF u = v THEN volumes[v] ELSE cachedVolumes[u]
    BY <2>1 DEF DeliverVolume, IInv, TypeOK
  <2>3. TypeOK'
    BY <2>1 DEF DeliverVolume, IInv, TypeOK, store, worker, bounds
  <2>4. VolumeInv'
    BY <2>1, <2>2
    DEF DeliverVolume, IInv, VolumeInv, Behind, store, worker, Held, ClaimName
  <2> QED
    BY <2>3, <2>4 DEF IInv
<1>2. CASE \E c \in Claims : DeliverClaim(c)
  BY <1>2
  DEF DeliverClaim, Owners, IInv, TypeOK, VolumeInv, Behind, store, worker,
      bounds, Held, ClaimName
<1>3. CASE Resync
  BY <1>3
  DEF Resync, Replayed, IInv, TypeOK, VolumeInv, Behind, store, cache, worker,
      bounds, Held, ClaimName
<1> QED
  BY <1>1, <1>2, <1>3

\* A change by a user leaves everything of the process alone.
LEMMA ChangeInv ==
  ASSUME IInv, Change,
         volumes' \in [Volumes -> Object], version' \in Nat,
         \A u \in Volumes : Behind(volumes[u], u)',
         \A u \in Volumes : Behind(cachedVolumes[u], u)',
         Behind(obj, key)',
         claims' \subseteq Claims, everClaims' \subseteq Claims,
         claims' \cup everClaims \subseteq everClaims'
  PROVE  IInv'
<1>1. UNCHANGED <<cachedVolumes, cachedClaims, pc, key, obj, queue, faults>>
      /\ changes' \in 0..MaxChanges
  BY DEF Change, cache, worker, IInv, TypeOK
<1>2. TypeOK'
  BY <1>1 DEF IInv, TypeOK
<1>3. VolumeInv'
  BY <1>1 DEF IInv, VolumeInv, Held, ClaimName
<1> QED
  BY <1>2, <1>3 DEF IInv

LEMMA ApplyInv ==
  ASSUME IInv, NEW v \in Volumes, Apply(v)
  PROVE  IInv'
<1>1. PICK pvc \in PvcNames, size \in Sizes :
        volumes' = [volumes EXCEPT ![v] =
          [ver |-> version + 1, pvc |-> pvc, size |-> size,
           present |-> volumes[v].present]]
  BY DEF Apply
<1> DEFINE o == [ver |-> version + 1, pvc |-> pvc, size |-> size,
                 present |-> volumes[v].present]
<1>2. o \in Object /\ o.ver = version + 1
  BY DEF IInv, TypeOK, Object, Verdicts
<1>3. /\ volumes' = [volumes EXCEPT ![v] = o]
      /\ version' = version + 1
      /\ Change /\ UNCHANGED <<claims, everClaims>>
  BY <1>1 DEF Apply
<1> HIDE DEF o
<1>4. /\ volumes' \in [Volumes -> Object] /\ version' \in Nat
      /\ \A u \in Volumes : Behind(volumes[u], u)'
      /\ \A u \in Volumes, copy \in Object :
           Behind(copy, u) => Behind(copy, u)'
  BY <1>2, <1>3, WriteKeepsBehind DEF IInv
<1>5. /\ \A u \in Volumes : Behind(cachedVolumes[u], u)'
      /\ Behind(obj, key)'
  BY <1>3, <1>4 DEF IInv, TypeOK, VolumeInv, Change, cache, worker, Behind
<1> QED
  BY <1>3, <1>4, <1>5, ChangeInv DEF IInv, TypeOK, VolumeInv

LEMMA DeleteInv ==
  ASSUME IInv, NEW v \in Volumes, DeleteVolume(v)
  PROVE  IInv'
<1>1. \A u \in Volumes : volumes'[u] = IF u = v THEN NoVolume ELSE volumes[u]
  BY DEF DeleteVolume, IInv, TypeOK
<1>2. volumes' \in [Volumes -> Object] /\ version' \in Nat
  BY DEF DeleteVolume, IInv, TypeOK, Object, NoVolume, Verdicts
<1>3. /\ Change /\ version' = version /\ UNCHANGED <<claims, everClaims>>
      /\ UNCHANGED <<cachedVolumes, obj, key>>
  BY DEF DeleteVolume, Change, cache, worker
<1>4. NoVolume.ver = 0 /\ version \in Nat
  BY DEF NoVolume, IInv, TypeOK
<1>5. /\ \A u \in Volumes : Behind(volumes[u], u)'
      /\ \A u \in Volumes : Behind(cachedVolumes[u], u)'
      /\ Behind(obj, key)'
  BY <1>1, <1>3, <1>4 DEF IInv, TypeOK, VolumeInv, Behind
<1> QED
  BY <1>2, <1>3, <1>5, ChangeInv DEF IInv, TypeOK, VolumeInv

LEMMA ClaimChangeInv ==
  ASSUME IInv, NEW c \in Claims, UserClaim(c) \/ LoseClaim(c)
  PROVE  IInv'
<1>1. /\ Change /\ UNCHANGED <<volumes, version, cachedVolumes, obj, key>>
      /\ claims' \subseteq Claims /\ everClaims' \subseteq Claims
      /\ claims' \cup everClaims \subseteq everClaims'
  BY DEF UserClaim, LoseClaim, Put, Change, cache, worker, IInv, TypeOK, VolumeInv
<1> QED
  BY <1>1, ChangeInv DEF IInv, TypeOK, VolumeInv, Behind

---------------------------------------------------------------------------
(* The theorems.                                                           *)

LEMMA NextInv == IInv /\ [Next]_vars => IInv'
<1> SUFFICES ASSUME IInv, [Next]_vars PROVE IInv'
  OBVIOUS
<1>1. CASE Work
  <2>1. CASE Panic
    BY <2>1, RestartInv DEF Panic, IInv, TypeOK
  <2> QED
    BY <1>1, <2>1, GetClaimInv, CreateClaimInv, CreateFailsInv,
       UpdateStatusInv, UpdateFailsInv, ListFailsInv DEF Work
<1>2. CASE Crash
  BY <1>2, RestartInv, FaultBound DEF Crash, IInv
<1>3. CASE Resync
  BY <1>3, DeliverInv
<1>4. CASE \E v \in Volumes : \/ Dequeue(v) \/ DeliverVolume(v)
                              \/ Apply(v) \/ DeleteVolume(v)
  BY <1>4, DequeueInv, DeliverInv, ApplyInv, DeleteInv
<1>5. CASE \E c \in Claims : DeliverClaim(c) \/ UserClaim(c) \/ LoseClaim(c)
  BY <1>5, DeliverInv, ClaimChangeInv
<1>6. CASE UNCHANGED vars
  BY <1>6
  DEF vars, store, cache, worker, bounds, IInv, TypeOK, VolumeInv, Behind,
      Held, ClaimName
<1> QED
  BY <1>1, <1>2, <1>3, <1>4, <1>5, <1>6 DEF Next

THEOREM VolumeInductive == Spec => []IInv
  BY InitInv, NextInv, PTL DEF Spec

\* The worker only ever holds well-formed objects and names of claims.
THEOREM VolumeTypes == Spec => []TypeOK
  BY VolumeInductive, PTL DEF IInv

\* Copies of a volume are never newer than it and equal it at its version.
THEOREM VolumeBehind == Spec => []VolumeInv
  BY VolumeInductive, PTL DEF IInv

\* Only the status update changes a condition, and it is accepted only with
\* the version of the spec in the worker's hands.
LEMMA ReportHolds == IInv /\ [Next]_vars => [ReportStep]_vars
<1> SUFFICES ASSUME IInv, [Next]_vars, NEW v \in Volumes,
                    Exists(v), volumes'[v].ver # 0,
                    volumes'[v].present # volumes[v].present
             PROVE  /\ volumes'[v].pvc = volumes[v].pvc
                    /\ Held = ClaimName(v, volumes[v])
                    /\ volumes'[v].present = "True"
                         => ClaimName(v, volumes[v]) \in everClaims
  BY DEF ReportStep
<1>1. UpdateStatus
  <2>1. ~ UNCHANGED volumes
    OBVIOUS
  <2>2. ASSUME NEW u \in Volumes, Apply(u) \/ DeleteVolume(u)
        PROVE  FALSE
    BY <2>2 DEF Apply, DeleteVolume, IInv, TypeOK, NoVolume
  <2> QED
    BY <2>1, <2>2
    DEF Next, Work, Panic, Crash, Restart, GetClaim, CreateClaim, CreateFails,
        UpdateFails, ListFails, Dequeue, DeliverVolume, DeliverClaim, Resync,
        UserClaim, LoseClaim, store, vars
<1>2. /\ pc \in {"True", "False"} /\ Exists(key)
      /\ volumes[key].ver = obj.ver
      /\ volumes' = [volumes EXCEPT ![key] = Updated(volumes[key])]
  BY <1>1 DEF UpdateStatus, Accepts, SetPresent
<1>3. obj = volumes[key]
  BY <1>2 DEF IInv, VolumeInv, Behind
<1>4. v = key
  BY <1>2 DEF IInv, TypeOK
<1>5. /\ volumes'[v].pvc = volumes[v].pvc
      /\ volumes'[v].present = pc
  BY <1>2, <1>4 DEF Updated, IInv, TypeOK
<1>6. Held = ClaimName(v, volumes[v])
  BY <1>3, <1>4 DEF Held
<1> QED
  BY <1>5, <1>6 DEF IInv, VolumeInv

\* A condition is about the claim that the stored spec names.
THEOREM VolumeReports == Spec => ReportIsForSpec
  BY VolumeInductive, ReportHolds, PTL DEF Spec, ReportIsForSpec

=============================================================================
