------------------------- MODULE BackupController -------------------------
(***************************************************************************)
(* controllers/backup_controller.go: one Backup is one run of scripts in   *)
(* the Jenkins pod - quiet down, make the directory, copy each location,   *)
(* cancel the quiet-down - with a status write between the steps.          *)
(***************************************************************************)
EXTENDS OneShotReconciler

CONSTANT JenkinsMayRefuse  \* Jenkins answers some requests with an error

ASSUME RefuseAssumption == JenkinsMayRefuse \in BOOLEAN

VARIABLES
  quieted,    \* Backups whose quiet-down of Jenkins is in force
  volume,     \* what the directory of each Backup holds on the volume
  execs,      \* history: commands run in the pod for the current object
  plan        \* history: the strategy the current object was run with

podVars == <<quieted, volume>>
vars == <<skeletonVars, podVars, execs, plan>>

Command  == Location \cup {"quietDown", "mkdir", "cancelQuietDown"}

ASSUME ConditionsAssumption ==
  Conditions = {"BackupInitialized", "QuietDownStarted",
                "BackupCompleted", "QuietDownCancelled"}

\* The first object a reconcile does not find, or that it found all.
Lookup == {"noStrategy", "noJenkins", "noDeployment", "noPod", "ready"}

---------------------------------------------------------------------------

\* History: which commands the run of the current object has executed.
Record(o, c, ran) ==
  execs' = IF ran /\ Current(o)
           THEN [execs EXCEPT ![key[o]][c] = @ + 1]
           ELSE execs

\* Jenkins did what the script asked for.
Answered(ran, done) ==
  /\ done => ran
  /\ ran /\ ~ done => JenkinsMayRefuse

AfterBackup_NeverCancels(o) == "complete"   \* mutant
AfterBackup(o) == IF strat[o].quiet THEN "cancel" ELSE "complete"

\* Fetch the strategy, the Jenkins, the Deployment and its pod.
FetchRefs(o, found) ==
  /\ Fetch(o, found)
  /\ UNCHANGED <<podVars, execs, plan>>

InitializeBackup(o) ==
  /\ Initialize(o, "BackupInitialized",
                IF strat[o].quiet THEN "quietDown" ELSE "mkdir")
  /\ plan' = [plan EXCEPT ![key[o]] =
                IF claims'[key[o]] # claims[key[o]] THEN strat[o] ELSE @]
  /\ UNCHANGED <<podVars, execs>>

SaveStatus(o, at, next) ==
  /\ Save(o, at, next)
  /\ UNCHANGED <<podVars, execs, plan>>

\* The quiet-down scripts end with curl, which succeeds whatever the status
\* of the answer: a script that ran may still have changed nothing.
QuietDown(o) ==
  /\ pc[o] = "quietDown"
  /\ \E ran, ok, done \in BOOLEAN :
       /\ Exec(ran, ok)
       /\ Answered(ran, done)
       /\ quieted' = IF done THEN quieted \cup {key[o]} ELSE quieted
       /\ Record(o, "quietDown", ran)
       /\ Go(o, "saveQuietDown",
                SetCondition(obj[o], "QuietDownStarted",
                             IF ok THEN "True" ELSE "False"))
  /\ UNCHANGED <<serverVars, strat, todo, volume, plan>>

SaveQuietDown(o) == SaveStatus(o, "saveQuietDown", "mkdir")

\* mkdir without -p: it fails when an earlier object of that name made it.
MakeDirectory(o) ==
  /\ pc[o] = "mkdir"
  /\ \E ran, ok \in BOOLEAN :
       /\ Exec(ran, ok)
       /\ ran => ~ volume[key[o]].made
       /\ volume' = IF ran THEN [volume EXCEPT ![key[o]].made = TRUE] ELSE volume
       /\ Record(o, "mkdir", ran)
       /\ IF ok
          THEN Go(o, IF todo[o] = {} THEN AfterBackup(o) ELSE "copy", obj[o])
          ELSE Go(o, "saveMkdir",
                     SetCondition(obj[o], "BackupCompleted", "False"))
  /\ UNCHANGED <<serverVars, strat, todo, quieted, plan>>

SaveMakeDirectory_CopiesOn(o) == SaveStatus(o, "saveMkdir", "copy")   \* mutant
SaveMakeDirectory(o) == SaveStatus(o, "saveMkdir", AfterBackup(o))

\* cp -r of the next location; a failure is noted and the loop goes on.
CopyLocation(o) ==
  /\ pc[o] = "copy"
  /\ \E l \in todo[o] :
       /\ \A m \in todo[o] : Before[l] <= Before[m]
       /\ todo' = [todo EXCEPT ![o] = @ \ {l}]
       /\ \E ran, ok \in BOOLEAN :
            /\ Exec(ran, ok)
            /\ volume' = IF ran THEN [volume EXCEPT ![key[o]].holds = @ \cup {l}]
                         ELSE volume
            /\ Record(o, l, ran)
            /\ IF ok THEN Go(o, "copy", obj[o])
               ELSE Go(o, "saveCopy",
                          SetCondition(obj[o], "BackupCompleted", "False"))
  /\ UNCHANGED <<serverVars, strat, quieted, plan>>

SaveCopyFailure(o) == SaveStatus(o, "saveCopy", "copy")

SaveCopies(o) == todo[o] = {} /\ SaveStatus(o, "copy", AfterBackup(o))

\* Cancelling ends the quiet-down of Jenkins, whoever asked for it.
CancelQuietDown(o) ==
  /\ pc[o] = "cancel"
  /\ \E ran, ok, done \in BOOLEAN :
       /\ Exec(ran, ok)
       /\ Answered(ran, done)
       /\ quieted' = IF done THEN {} ELSE quieted
       /\ Record(o, "cancelQuietDown", ran)
       /\ Go(o, "saveCancel",
                SetCondition(obj[o], "QuietDownCancelled",
                             IF ok THEN "True" ELSE "False"))
  /\ UNCHANGED <<serverVars, strat, todo, volume, plan>>

SaveCancel_Returns(o) == SaveStatus(o, "saveCancel", "idle")   \* mutant
SaveCancel(o) == SaveStatus(o, "saveCancel", "complete")

\* The last write sets BackupCompleted whatever the steps before recorded.
Complete(o) ==
  /\ pc[o] = "complete"
  /\ Update(o, SetCondition(obj[o], "BackupCompleted", "True"), "idle")
  /\ UNCHANGED <<claims, podVars, execs, plan>>

---------------------------------------------------------------------------

Work(o) ==
  \/ \E found \in Lookup : FetchRefs(o, found)
  \/ InitializeBackup(o)
  \/ QuietDown(o)         \/ SaveQuietDown(o)
  \/ MakeDirectory(o)     \/ SaveMakeDirectory(o)
  \/ CopyLocation(o)      \/ SaveCopyFailure(o)    \/ SaveCopies(o)
  \/ CancelQuietDown(o)   \/ SaveCancel(o)         \/ Complete(o)

TakeBackup(o, b) ==
  /\ Dequeue(o, b)
  /\ UNCHANGED <<podVars, execs, plan>>

\* A new object of the name starts with an empty history; the directory of
\* its predecessor stays on the volume.
CreateBackup(b) ==
  /\ Create(b)
  /\ execs' = [execs EXCEPT ![b] = [c \in Command |-> 0]]
  /\ plan'  = [plan EXCEPT ![b] = NoStrategy]
  /\ UNCHANGED <<podVars>>

World ==
  /\ \/ \E o \in Operators, b \in Objects : Deliver(o, b)
     \/ \E o \in Operators : Resync(o) \/ Crash(o)
     \/ \E b \in Objects : Delete(b) \/ Touch(b)
  /\ UNCHANGED <<podVars, execs, plan>>

Init ==
  /\ SkeletonInit
  /\ quieted = {}
  /\ volume  = [b \in Objects |-> [made |-> FALSE, holds |-> {}]]
  /\ execs   = [b \in Objects |-> [c \in Command |-> 0]]
  /\ plan    = [b \in Objects |-> NoStrategy]

Next ==
  \/ \E o \in Operators : Work(o)
  \/ \E o \in Operators, b \in Objects : TakeBackup(o, b)
  \/ \E b \in Objects : CreateBackup(b)
  \/ World

Spec == Init /\ [][Next]_vars

\* The worker goroutine runs whenever there is work, watches deliver, the
\* resync period passes, and the strategy, the Jenkins and its pod are there
\* from some time on; users, faults and crashes owe nothing.
Fairness ==
  /\ \A o \in Operators :
       /\ WF_vars(Work(o)) /\ WF_vars(Resync(o) /\ World)
       /\ SF_vars(FetchRefs(o, "ready"))
  /\ \A o \in Operators, b \in Objects :
       WF_vars(TakeBackup(o, b)) /\ WF_vars(Deliver(o, b) /\ World)

FairSpec == Spec /\ Fairness

---------------------------------------------------------------------------
(* Properties.                                                             *)

TypeOK ==
  /\ SkeletonTypeOK
  /\ pc      \in [Operators -> Early \cup BackupStages]
  /\ quieted \in SUBSET Objects
  /\ volume  \in [Objects -> [made : BOOLEAN, holds : SUBSET Location]]
  /\ execs   \in [Objects -> [Command -> Nat]]
  /\ plan    \in [Objects -> Strategy]

\* The run-once guard of Reconcile (backup_controller.go:88) together with
\* the versioned write of BackupInitialized (:149-156): one Backup object is
\* run by one worker, and each of its commands at most once, with stale
\* caches, retries, restarts and a second operator.
RunsOnce ==
  \A b \in Objects :
    /\ claims[b] <= 1
    /\ \A c \in Command : execs[b][c] <= 1

\* Commands a worker's run still has ahead of it.
Ahead(o) ==
  CASE pc[o] = "quietDown"                  -> Command
    [] pc[o] \in {"saveQuietDown", "mkdir"} -> Command \ {"quietDown"}
    [] pc[o] \in {"copy", "saveCopy"}       -> todo[o] \cup {"cancelQuietDown"}
    [] pc[o] \in {"saveMkdir", "cancel"}    -> {"cancelQuietDown"}
    [] OTHER                                -> {}

\* Why: nothing of an object without conditions has been executed, nor what
\* lies ahead of the one worker at an object.
FreshUnrun ==
  \A b \in Objects : api[b].live /\ api[b].conds = NoConditions =>
    \A c \in Command : execs[b][c] = 0

AheadUnrun ==
  \A o \in Operators : Claimed(o) /\ Current(o) =>
    \A c \in Ahead(o) : execs[key[o]][c] = 0

RunsOnceInv == SkeletonInv /\ RunsOnce /\ FreshUnrun /\ AheadUnrun

\* The order of the steps of Reconcile (backup_controller.go:158-181): for
\* one object nothing is copied before mkdir made its directory, the locations
\* are those of its strategy and in the order of performJenkinsBackup (:221-273), no
\* quiet-down starts once another command ran, and nothing runs after the
\* quiet-down was cancelled, which only a strategy with a quiet-down asks for.
ScriptInOrder ==
  [][\A b \in Objects, c \in Command :
       execs'[b][c] > execs[b][c] =>
         /\ execs[b]["cancelQuietDown"] = 0
         /\ c = "quietDown" =>
              \A d \in Command \ {c} : execs[b][d] = 0
         /\ c = "mkdir" => \A l \in Location : execs[b][l] = 0
         /\ c \in Location =>
              /\ c \in plan[b].opts
              /\ execs[b]["mkdir"] = 1
              /\ \A l \in Location : Before[l] >= Before[c] => execs[b][l] = 0
         /\ c = "cancelQuietDown" => plan[b].quiet]_vars

\* What the status of a Backup says ran, ran (SetCondition calls of
\* backup_controller.go:200-297): a step is True only after its script was
\* executed, and a completed Backup with a quiet-down has tried to end it.
Reports(b, conds) ==
  /\ conds["QuietDownStarted"] = "True" => execs[b]["quietDown"] = 1
  /\ conds["QuietDownCancelled"] = "True" => execs[b]["cancelQuietDown"] = 1
  /\ conds["BackupCompleted"] = "True" /\ plan[b].quiet =>
       conds["QuietDownCancelled"] # "unset"

StatusReportsRun == \A b \in Objects : Reports(b, api[b].conds)

\* Why: a worker in its copy loop has made the directory, and the locations
\* left to copy come after those copied.
CopiesInOrder(o) ==
  pc[o] \in {"copy", "saveCopy"} =>
    /\ execs[key[o]]["mkdir"] = 1
    /\ \A l \in Location, m \in todo[o] :
         execs[key[o]][l] # 0 => Before[l] < Before[m]

\* Why: a worker at its object follows the strategy that object is run with,
\* in its order, and the status it is about to write reports what ran.
Follows(o) ==
  /\ todo[o] \subseteq strat[o].opts
  /\ pc[o] \in {"cancel", "saveCancel"} => strat[o].quiet
  /\ IF Claimed(o) THEN obj[o].conds["BackupCompleted"] # "True"
                   ELSE obj[o].conds = NoConditions
  /\ pc[o] = "saveCancel" \/ (pc[o] = "complete" /\ strat[o].quiet) =>
       obj[o].conds["QuietDownCancelled"] # "unset"
  /\ Claimed(o) /\ Current(o) =>
       /\ plan[key[o]] = strat[o]
       /\ Reports(key[o], obj[o].conds)
       /\ CopiesInOrder(o)

ScriptInv == StatusReportsRun /\ \A o \in Operators : Follows(o)

\* With one operator and a Jenkins that does as it is told, Jenkins is left in
\* quiet-down by a Backup nobody works on only when its reconcile gave up half
\* way, its object went away under it, or cancelling failed and the status
\* says so (backup_controller.go:158-181, 195-219).
QuietDownAccounted ==
  \A b \in quieted :
    \/ \E o \in Operators : key[o] = b
    \/ abandoned[b]
    \/ ~ api[b].live
    \/ execs[b]["quietDown"] = 0
    \/ api[b].conds["QuietDownCancelled"] = "False"

\* Why: of a Backup that is not accounted for, a worker is still at work.  That
\* worker will cancel the quiet-down or has noted that it failed to; and one
\* whose object was replaced quiets Jenkins down for an object untouched yet.
OneOperator == \A p, q \in Operators : p = q

Excused(b) ==
  \/ abandoned[b]
  \/ ~ api[b].live
  \/ execs[b]["quietDown"] = 0
  \/ api[b].conds["QuietDownCancelled"] = "False"

Cancels(o) ==
  /\ strat[o].quiet
  /\ pc[o] \in {"saveCancel", "complete"} =>
       obj[o].conds["QuietDownCancelled"] = "False"

Owns(o, b) == key[o] = b /\ Claimed(o) /\ Current(o)

QuietInv ==
  /\ \A b \in quieted : Excused(b) \/ \E o \in Operators : Owns(o, b)
  /\ \A o \in Operators :
       /\ pc[o] = "quietDown" => strat[o].quiet
       /\ \A b \in quieted :
            Owns(o, b) /\ execs[b]["quietDown"] # 0 => Cancels(o)
       /\ Claimed(o) /\ api[key[o]].live /\ ~ Current(o) =>
            api[key[o]].conds = NoConditions

\* With one operator, a copy is taken while Jenkins is in quiet-down when
\* the quiet-down was reported to have started (backupstrategy_types.go:28).
QuietWhileCopying ==
  \A o \in Operators :
    pc[o] = "copy" /\ obj[o].conds["QuietDownStarted"] = "True"
      => quieted # {}

\* docs/backupandrestore.adoc:137 of a completed backup: it is in its
\* directory.
CompletedIsOnVolume ==
  \A b \in Objects :
    api[b].conds["BackupCompleted"] = "True" =>
      volume[b].made /\ plan[b].opts \subseteq volume[b].holds

\* Every Backup is taken up in the end, also when its reconcile once returned
\* without error because the strategy was missing (Reconcile, from the queue
\* to backup_controller.go:156).
EventuallyTakenUp ==
  \A b \in Objects :
    api[b].live ~> (~ api[b].live \/ api[b].conds # NoConditions)

\* A Backup that was taken up gets its verdict unless its worker gave up or
\* the object went away (backup_controller.go:158-190).
TakenUpGetsVerdict ==
  \A b \in Objects :
    (api[b].conds["BackupInitialized"] = "True") ~>
      \/ api[b].conds["BackupCompleted"] # "unset"
      \/ abandoned[b] \/ ~ api[b].live

\* A Backup implements the one-shot task.
Phase(b) ==
  IF ~ api[b].live THEN "absent"
  ELSE CASE api[b].conds["BackupInitialized"] = "unset" -> "pending"
         [] api[b].conds["BackupInitialized"] = "True"  -> "accepted"
         [] OTHER -> "refused"

Task == INSTANCE OneShotTask
          WITH Tasks <- Objects, Commands <- Command,
               phase <- [b \in Objects |-> Phase(b)], runs <- execs

ImplementsTask == Task!TaskSpec

===========================================================================
