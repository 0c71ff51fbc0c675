------------------------ MODULE OneShotReconciler ------------------------
(***************************************************************************)
(* What the Backup and the Restore controllers share: a custom resource    *)
(* whose status conditions double as a "has already run" marker            *)
(* (backup_controller.go:88, restore_controller.go:87), reconciled by      *)
(* operator processes that read it from an informer cache, take it from a  *)
(* work queue and write its status with the optimistic concurrency of the  *)
(* API server.  The two controllers extend this module with their stages.  *)
(*                                                                         *)
(* Several operator processes may be active at once: main.go:86 hands the  *)
(* leader election flag to parseFlags by value, so it is never switched    *)
(* on, and a rolling update of the operator runs two pods for a while.     *)
(***************************************************************************)
EXTENDS Naturals

CONSTANTS
  Operators,   \* operator processes, each with one worker per controller
  Objects,     \* names of custom resources
  Conditions,  \* condition types the controller writes
  Strategies,  \* the BackupStrategy specs users write
  None,        \* no object
  MaxUid,      \* bound: how often an object of one name is created
  MaxFaults    \* bound: API faults, crashes and foreign writes in a run

ASSUME NoneAssumption == None \notin Objects
ASSUME BoundsAssumption == MaxUid \in Nat /\ MaxFaults \in Nat

\* .spec of a BackupStrategy: quietDownDuringBackup, backupOptions and
\* restartAfterRestore.  The copy loops go through the options in this order.
Location == {"config", "jobs", "plugins"}
Before   == [config |-> 1, jobs |-> 2, plugins |-> 3]
Strategy == [quiet : BOOLEAN, opts : SUBSET Location,
             restart : {"no", "plain", "safe"}]
NoStrategy == [quiet |-> FALSE, opts |-> {}, restart |-> "no"]

ASSUME StrategiesAssumption == Strategies \subseteq Strategy

VARIABLES
  api,       \* the objects at the API server
  cache,     \* the informer cache of each operator
  queue,     \* the work queue of each operator
  pc, key, obj, \* each worker: its stage, the name and the in-memory object
  strat,     \* each worker: the BackupStrategy it fetched
  todo,      \* each worker: locations its copy loop still has to do
  faults,    \* faults so far
  claims,    \* history: workers that went past the first status write
  abandoned  \* history: a worker gave up after the first status write

localVars    == <<pc, key, obj, strat, todo>>
skeletonVars == <<api, cache, queue, localVars, faults, claims, abandoned>>

---------------------------------------------------------------------------
(* Objects and their conditions.                                           *)

CondValue == {"unset", "True", "False"}

NoConditions == [t \in Conditions |-> "unset"]

Object == [live : BOOLEAN, uid : Nat, rv : Nat,
           conds : [Conditions -> CondValue]]

Blank == [live |-> FALSE, uid |-> 0, rv |-> 0, conds |-> NoConditions]

\* status.Conditions.SetCondition: replace by type, append when new.
SetCondition(m, t, v) == [m EXCEPT !.conds = [m.conds EXCEPT ![t] = v]]

\* The guard of Reconcile: the object is there and has no condition yet.
Unmarked_NoGuard(m)  == m.live                            \* mutant
Unmarked_Inverted(m) == m.live /\ m.conds # NoConditions  \* mutant
Unmarked(m) == m.live /\ m.conds = NoConditions

Accepts_AnyVersion(b, m) == api[b].live   \* mutant: a write without version

\* The API server takes a status update that carries the current version.
Accepts(b, m) == api[b].live /\ api[b].rv = m.rv

\* Every write of an object gives it the next resource version.
Revision(b, live, uid, conds) ==
  [live |-> live, uid |-> uid, rv |-> api[b].rv + 1, conds |-> conds]

\* A write that changes nothing leaves the resource version alone.
Stored(b, m) ==
  IF m.conds = api[b].conds
  THEN api[b]
  ELSE Revision(b, TRUE, api[b].uid, m.conds)

\* The object the worker holds is still the one of that name.
Current(o) == api[key[o]].live /\ api[key[o]].uid = obj[o].uid

\* Stages before the first status write.
Early == {"idle", "refs", "init"}

\* Those of the two controllers after it.
BackupStages  == {"quietDown", "saveQuietDown", "mkdir", "saveMkdir", "copy",
                  "saveCopy", "cancel", "saveCancel", "complete"}
RestoreStages == {"restore", "saveFailure", "saveSuccess", "restart",
                  "saveRestart", "finish"}
Stage == Early \cup BackupStages \cup RestoreStages

Claimed(o) == pc[o] \notin Early

---------------------------------------------------------------------------
(* The worker.                                                             *)

\* Go on at stage next with the object m in memory.
Go(o, next, m) ==
  /\ pc'  = [pc EXCEPT ![o] = next]
  /\ obj' = [obj EXCEPT ![o] = m]
  /\ UNCHANGED key

\* Reconcile returns and its variables are gone.
Return(o) ==
  /\ pc'    = [pc EXCEPT ![o] = "idle"]
  /\ key'   = [key EXCEPT ![o] = None]
  /\ obj'   = [obj EXCEPT ![o] = Blank]
  /\ strat' = [strat EXCEPT ![o] = NoStrategy]
  /\ todo'  = [todo EXCEPT ![o] = {}]

\* Return an error: the work queue retries the object later.
GiveUp(o, recorded) ==
  /\ Return(o)
  /\ queue' = [queue EXCEPT ![o] = @ \cup {key[o]}]
  /\ abandoned' = [abandoned EXCEPT
       ![key[o]] = @ \/ (Current(o) /\ (Claimed(o) \/ recorded))]

\* What a step that only works in the pod leaves alone.
serverVars == <<api, cache, queue, claims, abandoned>>

\* Status().Update of m: taken, refused for its version, or lost to a fault
\* of the connection before or after the server applied it.
UpdateTaken(o, m, next) ==
  /\ Accepts(key[o], m)
  /\ api' = [api EXCEPT ![key[o]] = Stored(key[o], m)]
  /\ IF next = "idle"
     THEN Return(o)
     ELSE Go(o, next, Stored(key[o], m)) /\ UNCHANGED <<strat, todo>>
  /\ UNCHANGED <<queue, faults, abandoned>>

UpdateRefused(o, m) ==
  /\ ~ Accepts(key[o], m)
  /\ GiveUp(o, FALSE)
  /\ UNCHANGED <<api, faults>>

UpdateLost(o, m) ==
  /\ faults < MaxFaults
  /\ faults' = faults + 1
  /\ \/ api' = api /\ GiveUp(o, FALSE)
     \/ /\ Accepts(key[o], m)
        /\ api' = [api EXCEPT ![key[o]] = Stored(key[o], m)]
        /\ GiveUp(o, TRUE)

Update(o, m, next) ==
  /\ \/ UpdateTaken(o, m, next)
     \/ UpdateRefused(o, m)
     \/ UpdateLost(o, m)
  /\ UNCHANGED cache

\* Take a name from the queue, read the object from the cache and return at
\* once when it is gone or any condition is recorded.
Dequeue(o, b) ==
  /\ pc[o] = "idle"
  /\ b \in queue[o]
  /\ queue' = [queue EXCEPT ![o] = @ \ {b}]
  /\ IF Unmarked(cache[o][b])
     THEN /\ pc'  = [pc EXCEPT ![o] = "refs"]
          /\ key' = [key EXCEPT ![o] = b]
          /\ obj' = [obj EXCEPT ![o] = cache[o][b]]
     ELSE UNCHANGED <<pc, key, obj>>
  /\ UNCHANGED <<api, cache, strat, todo, faults, claims, abandoned>>

\* The process ends in stage-independent ways: a panic, an eviction, an
\* update of the operator.  The queue and the worker are lost; the new
\* process lists the objects, perhaps from a lagging server, and enqueues them.
Restart(o) ==
  /\ Return(o)
  /\ abandoned' = [b \in Objects |->
       abandoned[b] \/ (b = key[o] /\ Current(o) /\ Claimed(o))]
  /\ \E lag \in SUBSET Objects :
       cache' = [cache EXCEPT ![o] =
                   [b \in Objects |-> IF b \in lag THEN @[b] ELSE api[b]]]
  /\ queue' = [queue EXCEPT ![o] = {b \in Objects : cache'[o][b].live}]
  /\ UNCHANGED <<api, claims>>

\* Fetch the objects the spec refers to, up to the pod of the Deployment:
\* found is the first one missing, or "ready".  The locations to copy follow
\* from the strategy.
Fetch(o, found) ==
  /\ pc[o] = "refs"
  /\ \/ /\ found \in {"noBackup", "noStrategy", "noJenkins"}
        /\ Return(o)
        /\ UNCHANGED <<serverVars, faults>>
     \/ /\ found = "noDeployment"      \* nil deployment dereferenced
        /\ Restart(o)
        /\ UNCHANGED faults
     \/ /\ found = "noPod"
        /\ GiveUp(o, FALSE)
        /\ UNCHANGED <<api, cache, faults, claims>>
     \/ /\ found = "ready"
        /\ Go(o, "init", obj[o])
        /\ \E s \in Strategies :
             /\ strat' = [strat EXCEPT ![o] = s]
             /\ todo'  = [todo EXCEPT ![o] = s.opts]
        /\ UNCHANGED <<serverVars, faults>>

\* InitKubeGoClient and the status write of its outcome in condition t; only
\* a success that the API server has recorded goes on to stage next.
Initialize(o, t, next) ==
  /\ pc[o] = "init"
  /\ \/ /\ Update(o, SetCondition(obj[o], t, "True"), next)
        /\ claims' = [claims EXCEPT ![key[o]] =
                        IF Current(o) /\ pc'[o] = next THEN @ + 1 ELSE @]
     \/ /\ Update(o, SetCondition(obj[o], t, "False"), "idle")
        /\ UNCHANGED claims

\* Write the in-memory status, then go on at stage next.
Save(o, at, next) ==
  /\ pc[o] = at
  /\ Update(o, obj[o], next)
  /\ UNCHANGED claims

\* exec.MakeRequest of a command: it ran and reports success, or it did not
\* and reports an error, or the report of one that ran is lost (a fault).
Exec_IgnoresError(ran, ok) == ok /\ UNCHANGED faults   \* mutant
Exec(ran, ok) ==
  /\ ok => ran
  /\ faults' = IF ran /\ ~ ok THEN faults + 1 ELSE faults
  /\ faults' <= MaxFaults

Crash(o) ==
  /\ faults < MaxFaults
  /\ faults' = faults + 1
  /\ Restart(o)

---------------------------------------------------------------------------
(* Watches and users.                                                      *)

\* A watch event brings the cache up to date and enqueues the object; events
\* of several versions may arrive as one.
Deliver(o, b) ==
  /\ cache[o][b] # api[b]
  /\ cache' = [cache EXCEPT ![o] = [@ EXCEPT ![b] = api[b]]]
  /\ queue' = [queue EXCEPT ![o] = @ \cup {b}]
  /\ UNCHANGED <<api, localVars, faults, claims, abandoned>>

\* The informers replay every cached object at each resync period.
Resync(o) ==
  /\ queue' = [queue EXCEPT ![o] = @ \cup {b \in Objects : cache[o][b].live}]
  /\ UNCHANGED <<api, cache, localVars, faults, claims, abandoned>>

Create(b) ==
  /\ ~ api[b].live
  /\ api[b].uid < MaxUid
  /\ api' = [api EXCEPT ![b] = Revision(b, TRUE, api[b].uid + 1, NoConditions)]
  /\ claims' = [claims EXCEPT ![b] = 0]
  /\ abandoned' = [abandoned EXCEPT ![b] = FALSE]
  /\ UNCHANGED <<cache, queue, localVars, faults>>

\* Deleting is a step of the object's version too: a cached or held copy of
\* it never matches again.
Delete(b) ==
  /\ api[b].live
  /\ api' = [api EXCEPT ![b] = Revision(b, FALSE, api[b].uid, NoConditions)]
  /\ UNCHANGED <<cache, queue, localVars, faults, claims, abandoned>>

\* Someone else writes the object (a label, an annotation, the spec).
Touch(b) ==
  /\ api[b].live
  /\ faults < MaxFaults
  /\ faults' = faults + 1
  /\ api' = [api EXCEPT ![b] = Revision(b, TRUE, api[b].uid, api[b].conds)]
  /\ UNCHANGED <<cache, queue, localVars, claims, abandoned>>

SkeletonInit ==
  /\ api       = [b \in Objects |-> Blank]
  /\ cache     = [o \in Operators |-> [b \in Objects |-> Blank]]
  /\ queue     = [o \in Operators |-> {}]
  /\ pc        = [o \in Operators |-> "idle"]
  /\ key       = [o \in Operators |-> None]
  /\ obj       = [o \in Operators |-> Blank]
  /\ strat     = [o \in Operators |-> NoStrategy]
  /\ todo      = [o \in Operators |-> {}]
  /\ faults    = 0
  /\ claims    = [b \in Objects |-> 0]
  /\ abandoned = [b \in Objects |-> FALSE]

SkeletonTypeOK ==
  /\ api       \in [Objects -> Object]
  /\ cache     \in [Operators -> [Objects -> Object]]
  /\ queue     \in [Operators -> SUBSET Objects]
  /\ pc        \in [Operators -> Stage]
  /\ key       \in [Operators -> Objects \cup {None}]
  /\ obj       \in [Operators -> Object]
  /\ strat     \in [Operators -> Strategy]
  /\ todo      \in [Operators -> SUBSET Location]
  /\ faults    \in Nat
  /\ claims    \in [Objects -> Nat]
  /\ abandoned \in [Objects -> BOOLEAN]

---------------------------------------------------------------------------
(* Why an object has one run.  Each conjunct is inductive with the others. *)

\* A cached object is the stored one or of an older version.
CacheBehind ==
  \A o \in Operators, b \in Objects :
    /\ cache[o][b].uid <= api[b].uid
    /\ cache[o][b].rv <= api[b].rv
    /\ cache[o][b].rv = api[b].rv => cache[o][b] = api[b]

\* So is the object a worker holds; before its first write it carries no
\* condition, after it some.
HeldBehind ==
  \A o \in Operators :
    pc[o] # "idle" =>
      /\ key[o] \in Objects
      /\ obj[o].uid <= api[key[o]].uid
      /\ obj[o].rv <= api[key[o]].rv
      /\ obj[o].rv = api[key[o]].rv =>
           /\ Current(o)
           /\ ~ Claimed(o) => api[key[o]].conds = NoConditions
      /\ Claimed(o) => obj[o].conds # NoConditions

\* An unmarked object has not been claimed, and none is claimed twice.
ClaimsMarked ==
  \A b \in Objects :
    /\ claims[b] <= 1
    /\ api[b].live /\ api[b].conds = NoConditions => claims[b] = 0

\* A worker past its first write owns the object it holds, if that is still
\* the one at the API server.
OneClaimant ==
  \A o \in Operators :
    Claimed(o) /\ Current(o) =>
      /\ api[key[o]].conds # NoConditions
      /\ \A p \in Operators :
           Claimed(p) /\ Current(p) /\ key[p] = key[o] => p = o

SkeletonInv == CacheBehind /\ HeldBehind /\ ClaimsMarked /\ OneClaimant

===========================================================================
