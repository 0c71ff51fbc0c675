--------------------------- MODULE SharedJenkins ---------------------------
(***************************************************************************)
(* The Backup and the Restore controllers of one operator at work on the   *)
(* same Jenkins.  Each has a worker of its own, nothing orders them, and   *)
(* they meet in two places: a restart of Jenkins ends the quiet-down of a  *)
(* backup, and a panic of one ends the process of both.  Faults of the API *)
(* and of the connection are left to the modules of the two.               *)
(***************************************************************************)
EXTENDS Naturals

CONSTANTS Operators, Backups, Restores, BackupConditions, RestoreConditions,
          Strategies, None, MaxUid, JenkinsMayRefuse

VARIABLES
  bApi, bCache, bQueue, bPc, bKey, bObj, bStrat, bTodo, bClaims, bAbandoned,
  bExecs, bPlan, quieted, volume,
  rApi, rCache, rQueue, rPc, rKey, rObj, rStrat, rTodo, rClaims, rAbandoned,
  rExecs, rPlan,
  spoiled   \* history: Backups whose quiet-down a restart of Jenkins ended

B == INSTANCE BackupController
       WITH Objects <- Backups, faults <- 0, MaxFaults <- 0,
            Conditions <- BackupConditions,
            api <- bApi, cache <- bCache, queue <- bQueue, pc <- bPc,
            key <- bKey, obj <- bObj, strat <- bStrat, todo <- bTodo,
            claims <- bClaims, abandoned <- bAbandoned,
            execs <- bExecs, plan <- bPlan

R == INSTANCE RestoreController
       WITH Objects <- Restores, faults <- 0, MaxFaults <- 0,
            Conditions <- RestoreConditions,
            api <- rApi, cache <- rCache, queue <- rQueue, pc <- rPc,
            key <- rKey, obj <- rObj, strat <- rStrat, todo <- rTodo,
            claims <- rClaims, abandoned <- rAbandoned,
            execs <- rExecs, plan <- rPlan

ASSUME SharedAssumption ==
  /\ BackupConditions = {"BackupInitialized", "QuietDownStarted",
                         "BackupCompleted", "QuietDownCancelled"}
  /\ RestoreConditions = {"RestoreInitialized", "RestoreCompleted",
                          "RestartStarted", "SafeRestartStarted"}

\* The variables of each controller that no step of the other changes.
backupVars  == <<bApi, bCache, bQueue, bPc, bKey, bObj, bStrat, bTodo, bClaims,
                 bAbandoned, bExecs, bPlan, volume>>
restoreVars == <<rApi, rCache, rQueue, rPc, rKey, rObj, rStrat, rTodo, rClaims,
                 rAbandoned, rExecs, rPlan>>
sharedVars == <<backupVars, restoreVars, quieted, spoiled>>

---------------------------------------------------------------------------

\* A reconcile that finds no Deployment panics, and so does the process.
BackupPanics(o) ==
  /\ B!FetchRefs(o, "noDeployment")
  /\ R!Restart(o)
  /\ UNCHANGED <<rExecs, rPlan, spoiled>>

RestorePanics(o) ==
  /\ R!FetchRefs(o, "noDeployment")
  /\ B!Restart(o)
  /\ UNCHANGED <<bExecs, bPlan, quieted, volume, spoiled>>

BackupSteps ==
  /\ \/ \E o \in Operators :
          \/ \E found \in B!Lookup \ {"noDeployment"} : B!FetchRefs(o, found)
          \/ B!InitializeBackup(o)
          \/ B!QuietDown(o)       \/ B!SaveQuietDown(o)
          \/ B!MakeDirectory(o)   \/ B!SaveMakeDirectory(o)
          \/ B!CopyLocation(o)    \/ B!SaveCopyFailure(o)  \/ B!SaveCopies(o)
          \/ B!CancelQuietDown(o) \/ B!SaveCancel(o)       \/ B!Complete(o)
          \/ \E b \in Backups : B!TakeBackup(o, b) \/ (B!Deliver(o, b) /\ B!World)
          \/ B!Resync(o) /\ B!World
     \/ \E b \in Backups : B!CreateBackup(b) \/ (B!Delete(b) /\ B!World)
  /\ spoiled' = spoiled \ quieted'
  /\ UNCHANGED restoreVars

RestoreSteps ==
  /\ \/ \E o \in Operators :
          \/ \E found \in R!Lookup \ {"noDeployment"} : R!FetchRefs(o, found)
          \/ R!InitializeRestore(o)
          \/ R!RestoreLocation(o)
          \/ R!SaveFailure(o)     \/ R!SaveSuccess(o)
          \/ R!SaveRestart(o)     \/ R!Finish(o)
          \/ \E r \in Restores : R!TakeRestore(o, r) \/ (R!Deliver(o, r) /\ R!World)
          \/ R!Resync(o) /\ R!World
     \/ \E r \in Restores : R!CreateRestore(r) \/ (R!Delete(r) /\ R!World)
  /\ UNCHANGED <<backupVars, quieted, spoiled>>

\* A Jenkins that restarts, safely or not, comes up without its quiet-down.
JenkinsRestarts ==
  /\ \E o \in Operators, ran, ok, done \in BOOLEAN :
       /\ R!RestartJenkins(o, ran, ok)
       /\ B!Answered(ran, done)
       /\ quieted' = IF done THEN {} ELSE quieted
       /\ spoiled' = IF done THEN spoiled \cup quieted ELSE spoiled
  /\ UNCHANGED backupVars

SharedInit == B!Init /\ R!Init /\ spoiled = {}

SharedNext ==
  \/ BackupSteps \/ RestoreSteps \/ JenkinsRestarts
  \/ \E o \in Operators : BackupPanics(o) \/ RestorePanics(o)

SharedSpec == SharedInit /\ [][SharedNext]_sharedVars

---------------------------------------------------------------------------
(* Properties.                                                             *)

\* backupstrategy_types.go:28, "will put the Jenkins instance in a QuietDown
\* mode which prevents any new builds": while a backup that reported its
\* quiet-down copies, Jenkins is in quiet-down.
QuietWhileCopying == B!QuietWhileCopying

\* Restarts of Jenkins by a Restore (restore_controller.go:188-200) are the
\* only reason why it may not be: with one operator and a Jenkins that does
\* as it is told, cancels, panics and retries of either controller never end
\* a quiet-down under a copy.
QuietUnlessRestarted ==
  \A o \in Operators :
    bPc[o] = "copy" /\ bObj[o].conds["QuietDownStarted"] = "True"
      => quieted # {} \/ bKey[o] \in spoiled

\* Why: a worker that holds a report of its quiet-down quieted Jenkins down,
\* and what ended that since is a restart.
SharedTypeOK ==
  /\ bApi   \in [Backups -> B!Object]
  /\ bCache \in [Operators -> [Backups -> B!Object]]
  /\ bPc    \in [Operators -> B!Early \cup B!BackupStages]
  /\ bKey   \in [Operators -> Backups \cup {None}]
  /\ bObj   \in [Operators -> B!Object]

Reported(o) == bObj[o].conds["QuietDownStarted"] = "True"

QuietedOrSpoiled(o) ==
  /\ bPc[o] # "idle" => bKey[o] \in Backups
  /\ bPc[o] \in {"refs", "init"} => bObj[o].conds = B!NoConditions
  /\ bPc[o] = "quietDown" => ~ Reported(o)
  /\ bPc[o] \in {"saveQuietDown", "mkdir", "copy", "saveCopy"} /\ Reported(o)
       => bKey[o] \in quieted \cup spoiled

SharedInv == SharedTypeOK /\ \A o \in Operators : QuietedOrSpoiled(o)

OneOperator == \A p, q \in Operators : p = q

===========================================================================
