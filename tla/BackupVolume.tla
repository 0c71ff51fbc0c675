---------------------------- MODULE BackupVolume ----------------------------
(***************************************************************************)
(* controllers/backupvolume_controller.go: the claim behind a BackupVolume *)
(* and its condition BackupVolumePresent, with a stale cache, refused and  *)
(* lost writes, edits and restarts.  A claim is created without an owner   *)
(* reference: no event of it ever leads back to its volume.                *)
(*                                                                         *)
(* Size and storage class of a claim and the reason of the condition are   *)
(* left out; whether the size parses is kept: resource.MustParse panics    *)
(* when it does not.                                                       *)
(***************************************************************************)
EXTENDS Naturals, FiniteSets

CONSTANTS
  Volumes,    \* names of BackupVolumes
  Claims,     \* names of claims
  DefaultClaim, \* of each volume, "<volume>-jenkins-backup"
  Unnamed,    \* the spec has no pvcName
  PvcNames,   \* the pvcNames users give
  Sizes,      \* the sizes users give, by whether they parse
  MaxChanges, \* bound: changes by users
  MaxFaults   \* bound: faults and crashes

ASSUME VolumeAssumption ==
  /\ DefaultClaim \in [Volumes -> Claims]
  /\ Unnamed \notin Claims /\ PvcNames \subseteq Claims \cup {Unnamed}
  /\ Sizes \subseteq BOOLEAN
  /\ MaxChanges \in Nat /\ MaxFaults \in Nat

NoVolume == [ver |-> 0, pvc |-> Unnamed, size |-> TRUE, present |-> "unset"]

VARIABLES
  volumes, claims,              \* the API server
  cachedVolumes, cachedClaims,  \* the client's cache
  queue, pc, key, obj,          \* the worker: queue, place, locals
  version,                      \* resource versions given out
  changes, faults,              \* bounds
  everClaims                    \* history: claims that have existed

store  == <<volumes, claims, version, everClaims>>
cache  == <<cachedVolumes, cachedClaims>>
worker == <<pc, key, obj>>
bounds == <<changes, faults>>
vars   == <<store, cache, worker, bounds, queue>>

Verdicts == {"unset", "True", "False"}
Object   == [ver : Nat, pvc : PvcNames \cup {Unnamed}, size : BOOLEAN,
             present : Verdicts]
Exists(v) == volumes[v] # NoVolume

ClaimName(v, o) == IF o.pvc = Unnamed THEN DefaultClaim[v] ELSE o.pvc

\* The name of the claim in the worker's hands.
Held == ClaimName(key, obj)

---------------------------------------------------------------------------
(* The worker.                                                             *)

Fault == faults < MaxFaults /\ faults' = faults + 1

Dequeue(v) ==
  /\ pc = "idle" /\ v \in queue
  /\ queue' = queue \ {v}
  /\ key' = v
  /\ obj' = cachedVolumes[v]
  /\ pc' = IF cachedVolumes[v] = NoVolume THEN "idle" ELSE "get"
  /\ UNCHANGED <<store, cache, bounds>>

\* Reconcile ends: with an error its request is queued again.
End(failed) ==
  /\ pc' = "idle" /\ obj' = NoVolume /\ UNCHANGED key
  /\ queue' = IF failed THEN queue \cup {key} ELSE queue

\* The storage classes cannot be listed.
ListFails ==
  /\ pc = "get" /\ Fault /\ End(TRUE)
  /\ UNCHANGED <<store, cache, changes>>

Found == Held \in cachedClaims

GetClaim ==
  /\ pc = "get"
  /\ pc' = IF Found THEN "True" ELSE "create"
  /\ UNCHANGED <<store, cache, bounds, queue, key, obj>>

Put(c) == /\ claims' = claims \cup {c}
          /\ everClaims' = everClaims \cup {c}

\* Created: Reconcile returns without a word in the status.
CreateClaim ==
  /\ pc = "create" /\ obj.size /\ Held \notin claims
  /\ Put(Held) /\ End(FALSE)
  /\ UNCHANGED <<cache, bounds, volumes, version>>

\* Refused, since the cache was stale or for another reason, or applied with
\* its answer lost.
CreateFails ==
  /\ pc = "create" /\ obj.size
  /\ \/ Held \in claims /\ UNCHANGED <<claims, everClaims, faults>>
     \/ Held \notin claims /\ Fault /\ UNCHANGED <<claims, everClaims>>
     \/ Held \notin claims /\ Fault /\ Put(Held)
  /\ pc' = "False"
  /\ UNCHANGED <<cache, changes, volumes, version, queue, key, obj>>

Accepts_AnyVersion == Exists(key)                                \* mutant
Accepts == Exists(key) /\ volumes[key].ver = obj.ver

\* The volume with the status update.
Updated_SameVersion(o) ==                                        \* mutant
  [ver |-> o.ver, pvc |-> o.pvc, size |-> o.size, present |-> pc]
Updated(o) ==
  [ver |-> version + 1, pvc |-> o.pvc, size |-> o.size, present |-> pc]

\* Without a change the server keeps the version.
SetPresent ==
  IF volumes[key].present = pc
    THEN UNCHANGED <<volumes, version>>
    ELSE /\ version' = version + 1
         /\ volumes' = [volumes EXCEPT ![key] = Updated(volumes[key])]

UpdateStatus ==
  /\ pc \in {"True", "False"} /\ Accepts
  /\ \/ SetPresent /\ End(FALSE) /\ UNCHANGED faults
     \/ SetPresent /\ End(TRUE) /\ Fault
  /\ UNCHANGED <<cache, changes, claims, everClaims>>

UpdateFails ==
  /\ pc \in {"True", "False"}
  /\ \/ ~Accepts /\ UNCHANGED faults
     \/ Accepts /\ Fault
  /\ End(TRUE)
  /\ UNCHANGED <<store, cache, changes>>

---------------------------------------------------------------------------
(* The process and its client.                                             *)

\* A new process lists everything and queues every volume.
Restart ==
  /\ cachedVolumes' = volumes /\ cachedClaims' = claims
  /\ queue' = {v \in Volumes : Exists(v)}
  /\ pc' = "idle" /\ obj' = NoVolume
  /\ UNCHANGED <<store, changes, key>>

Crash == Fault /\ Restart

\* resource.MustParse of a size that does not parse.
Panic == pc = "create" /\ ~obj.size /\ Restart /\ UNCHANGED faults

DeliverVolume(v) ==
  /\ cachedVolumes[v] # volumes[v]
  /\ cachedVolumes' = [cachedVolumes EXCEPT ![v] = volumes[v]]
  /\ queue' = queue \cup {v}
  /\ UNCHANGED <<store, worker, bounds, cachedClaims>>

\* The volumes an event of a claim is mapped to: it names no owner.
Owners(c) == {}

DeliverClaim(c) ==
  /\ c \in (claims \ cachedClaims) \cup (cachedClaims \ claims)
  /\ cachedClaims' = IF c \in claims THEN cachedClaims \cup {c}
                                     ELSE cachedClaims \ {c}
  /\ queue' = queue \cup Owners(c)
  /\ UNCHANGED <<store, worker, bounds, cachedVolumes>>

Replayed_Changed == {}                                                \* mutant
Replayed == {v \in Volumes : cachedVolumes[v] # NoVolume}

Resync ==
  /\ ~ (Replayed \subseteq queue)
  /\ queue' = queue \cup Replayed
  /\ UNCHANGED <<store, cache, worker, bounds>>

---------------------------------------------------------------------------
(* Users.                                                                  *)

Change == /\ changes < MaxChanges /\ changes' = changes + 1
          /\ UNCHANGED <<cache, worker, queue, faults>>

\* A user creates a volume or edits its spec.
Apply(v) ==
  /\ \E pvc \in PvcNames, size \in Sizes :
       volumes' = [volumes EXCEPT ![v] =
         [ver |-> version + 1, pvc |-> pvc, size |-> size,
          present |-> volumes[v].present]]
  /\ version' = version + 1
  /\ Change /\ UNCHANGED <<claims, everClaims>>

DeleteVolume(v) ==
  /\ Exists(v)
  /\ volumes' = [volumes EXCEPT ![v] = NoVolume]
  /\ Change /\ UNCHANGED <<claims, everClaims, version>>

\* A claim that exists before, and one that goes.
UserClaim(c) ==
  /\ c \notin claims /\ Put(c)
  /\ Change /\ UNCHANGED <<volumes, version>>

LoseClaim(c) ==
  /\ c \in claims /\ claims' = claims \ {c}
  /\ Change /\ UNCHANGED <<volumes, version, everClaims>>

---------------------------------------------------------------------------
Init ==
  /\ volumes = [v \in Volumes |-> NoVolume] /\ cachedVolumes = volumes
  /\ claims = {} /\ cachedClaims = {}
  /\ queue = {} /\ pc = "idle"
  /\ key \in Volumes /\ obj = NoVolume
  /\ version = 0 /\ changes = 0 /\ faults = 0
  /\ everClaims = {}

Work == \/ GetClaim \/ CreateClaim \/ CreateFails \/ UpdateStatus
        \/ UpdateFails \/ ListFails \/ Panic

Next ==
  \/ Work \/ Crash \/ Resync
  \/ \E v \in Volumes : \/ Dequeue(v) \/ DeliverVolume(v)
                        \/ Apply(v) \/ DeleteVolume(v)
  \/ \E c \in Claims : DeliverClaim(c) \/ UserClaim(c) \/ LoseClaim(c)

Spec == Init /\ [][Next]_vars

\* The worker runs, hands out what is queued, watches deliver, and the
\* resync period passes.
Fairness ==
  /\ WF_vars(Work) /\ WF_vars(Resync)
  /\ \A v \in Volumes : SF_vars(Dequeue(v)) /\ WF_vars(DeliverVolume(v))
  /\ \A c \in Claims : WF_vars(DeliverClaim(c))

FairSpec == Spec /\ Fairness
---------------------------------------------------------------------------
(* Properties.                                                             *)

TypeOK ==
  /\ volumes \in [Volumes -> Object] /\ cachedVolumes \in [Volumes -> Object]
  /\ claims \subseteq Claims /\ cachedClaims \subseteq Claims
  /\ everClaims \subseteq Claims
  /\ queue \subseteq Volumes
  /\ pc \in {"idle", "get", "create", "True", "False"}
  /\ key \in Volumes /\ obj \in Object
  /\ version \in Nat /\ changes \in 0..MaxChanges /\ faults \in 0..MaxFaults

\* Why: a copy in the cache or in the worker's hands is never newer than its
\* volume and equals it when the versions agree, and what the cache shows of
\* the claims has existed.
Behind(copy, v) ==
  /\ copy.ver <= version
  /\ copy.ver = 0 => copy = NoVolume
  /\ copy.ver = volumes[v].ver => copy = volumes[v]

VolumeInv ==
  /\ \A v \in Volumes :
       /\ Behind(volumes[v], v)
       /\ Behind(cachedVolumes[v], v)
  /\ Behind(obj, key)
  /\ pc # "idle" => obj.ver # 0
  /\ claims \cup cachedClaims \subseteq everClaims
  /\ pc = "True" => Held \in everClaims

\* Both together are inductive.
IInv == TypeOK /\ VolumeInv

\* A condition BackupVolumePresent is about the claim that the stored spec
\* names when it is written, although the worker decided on a cached spec
\* (backupvolume_controller.go:64, 154), and True only of a claim that has
\* existed.
ReportStep ==
  \A v \in Volumes :
    (Exists(v) /\ volumes'[v].ver # 0
       /\ volumes'[v].present # volumes[v].present)
    => LET c == ClaimName(v, volumes[v])
       IN  /\ volumes'[v].pvc = volumes[v].pvc
           /\ Held = c
           /\ volumes'[v].present = "True" => c \in everClaims
ReportIsForSpec == [][ReportStep]_vars

\* Once users leave them alone and no size is left that does not parse, every
\* volume gets the claim its spec names, and its condition says so
\* (backupvolume_controller.go:106-156): whatever was refused, lost or deleted,
\* and although nothing but the resync brings a volume back after its claim has
\* been created, refused or deleted.
ClaimSettles ==
  <>[](\A v \in Volumes : volumes[v].size)
  => <>[](\A v \in Volumes :
         Exists(v) => /\ ClaimName(v, volumes[v]) \in claims
                      /\ volumes[v].present = "True")

\* The claim a Jenkins mounts for a volume (pod.go:173, deployment.go:56).
Mounted(v) == DefaultClaim[v]

\* A volume reported as present can be used by a Jenkins that references it
\* (docs/backupandrestore.adoc:24-29): the claim it mounts has existed.
MountedClaimExists ==
  \A v \in Volumes : volumes[v].present = "True" => Mounted(v) \in everClaims

=============================================================================
