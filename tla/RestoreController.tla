------------------------- MODULE RestoreController -------------------------
(***************************************************************************)
(* controllers/restore_controller.go: one Restore copies the locations of  *)
(* a Backup's strategy back into the Jenkins home, up to the first copy    *)
(* that fails, and then restarts Jenkins if the strategy says so.          *)
(***************************************************************************)
EXTENDS OneShotReconciler

VARIABLES
  execs,  \* history: commands run in the pod for the current object
  plan    \* history: the strategy the current object was run with

vars == <<skeletonVars, execs, plan>>

RestartOf(kind) == IF kind = "safe" THEN "safeRestart" ELSE "restart"

Command == Location \cup {"restart", "safeRestart"}

ASSUME ConditionsAssumption ==
  Conditions = {"RestoreInitialized", "RestoreCompleted",
                "RestartStarted", "SafeRestartStarted"}

\* The first object a reconcile does not find, or that it found all.
Lookup == {"noBackup", "noStrategy", "noJenkins", "noDeployment", "noPod", "ready"}

---------------------------------------------------------------------------

\* History: which commands the run of the current object has executed.
Record(o, c, ran) ==
  execs' = IF ran /\ Current(o)
           THEN [execs EXCEPT ![key[o]][c] = @ + 1]
           ELSE execs

AfterRestore_AlwaysRestarts(o) == "restart"   \* mutant
AfterRestore(o) == IF strat[o].restart = "no" THEN "finish" ELSE "restart"

\* Fetch the Backup, its strategy ("default" when it names none), its
\* Jenkins, the Deployment and its pod.  How the Backup ended is not asked.
FetchRefs(o, found) ==
  /\ Fetch(o, found)
  /\ UNCHANGED <<execs, plan>>

InitializeRestore(o) ==
  /\ Initialize(o, "RestoreInitialized",
                IF todo[o] = {} THEN AfterRestore(o) ELSE "restore")
  /\ plan' = [plan EXCEPT ![key[o]] =
                IF claims'[key[o]] # claims[key[o]] THEN strat[o] ELSE @]
  /\ UNCHANGED execs

SaveStatus(o, at, next) ==
  /\ Save(o, at, next)
  /\ UNCHANGED <<execs, plan>>

\* cp -r of the next location out of the directory of the Backup; the first
\* failure ends the loop, the last success completes it.
RestoreLocation(o) ==
  /\ pc[o] = "restore"
  /\ \E l \in todo[o], ran, ok \in BOOLEAN :
       /\ \A m \in todo[o] : Before[l] <= Before[m]
       /\ Exec(ran, ok)
       /\ Record(o, l, ran)
       /\ todo' = [todo EXCEPT ![o] = @ \ {l}]
       /\ IF ~ ok
          THEN Go(o, "saveFailure",
                     SetCondition(obj[o], "RestoreCompleted", "False"))
          ELSE IF todo'[o] = {}
          THEN Go(o, "saveSuccess",
                     SetCondition(obj[o], "RestoreCompleted", "True"))
          ELSE Go(o, "restore", obj[o])
  /\ UNCHANGED <<serverVars, strat, plan>>

SaveFailure(o) == SaveStatus(o, "saveFailure", AfterRestore(o))

SaveSuccess_Returns(o) == SaveStatus(o, "saveSuccess", "idle")   \* mutant
SaveSuccess(o) == SaveStatus(o, "saveSuccess", AfterRestore(o))

\* Plain or safe, and whether or not the copies succeeded.  Only a failure
\* is written at once.
RestartJenkins(o, ran, ok) ==
  /\ pc[o] = "restart"
  /\ Exec(ran, ok)
  /\ Record(o, RestartOf(strat[o].restart), ran)
  /\ LET t == IF strat[o].restart = "safe"
              THEN "SafeRestartStarted" ELSE "RestartStarted"
     IN  IF ok THEN Go(o, "finish", SetCondition(obj[o], t, "True"))
         ELSE Go(o, "saveRestart", SetCondition(obj[o], t, "False"))
  /\ UNCHANGED <<serverVars, strat, todo, plan>>

SaveRestart(o) == SaveStatus(o, "saveRestart", "finish")

\* The last write brings a successful restart to the API server.
Finish(o) == SaveStatus(o, "finish", "idle")

---------------------------------------------------------------------------

\* All steps of the worker but the restart of Jenkins.
Work(o) ==
  \/ \E found \in Lookup : FetchRefs(o, found)
  \/ InitializeRestore(o)
  \/ RestoreLocation(o)
  \/ SaveFailure(o)   \/ SaveSuccess(o)
  \/ SaveRestart(o)   \/ Finish(o)

TakeRestore(o, r) ==
  /\ Dequeue(o, r)
  /\ UNCHANGED <<execs, plan>>

CreateRestore(r) ==
  /\ Create(r)
  /\ execs' = [execs EXCEPT ![r] = [c \in Command |-> 0]]
  /\ plan'  = [plan EXCEPT ![r] = NoStrategy]

World ==
  /\ \/ \E o \in Operators, r \in Objects : Deliver(o, r)
     \/ \E o \in Operators : Resync(o) \/ Crash(o)
     \/ \E r \in Objects : Delete(r) \/ Touch(r)
  /\ UNCHANGED <<execs, plan>>

Init ==
  /\ SkeletonInit
  /\ execs = [r \in Objects |-> [c \in Command |-> 0]]
  /\ plan  = [r \in Objects |-> NoStrategy]

Next ==
  \/ \E o \in Operators : Work(o)
  \/ \E o \in Operators, ran, ok \in BOOLEAN : RestartJenkins(o, ran, ok)
  \/ \E o \in Operators, r \in Objects : TakeRestore(o, r)
  \/ \E r \in Objects : CreateRestore(r)
  \/ World

Spec == Init /\ [][Next]_vars

\* As in BackupController: the worker runs, watches deliver, the resync
\* period passes, and the referenced objects are there from some time on.
Fairness ==
  /\ \A o \in Operators :
       /\ WF_vars(Work(o) \/ \E ran, ok \in BOOLEAN : RestartJenkins(o, ran, ok))
       /\ WF_vars(Resync(o) /\ World)
       /\ SF_vars(FetchRefs(o, "ready"))
  /\ \A o \in Operators, r \in Objects :
       WF_vars(TakeRestore(o, r)) /\ WF_vars(Deliver(o, r) /\ World)

FairSpec == Spec /\ Fairness

---------------------------------------------------------------------------
(* Properties.                                                             *)

TypeOK ==
  /\ SkeletonTypeOK
  /\ pc    \in [Operators -> Early \cup RestoreStages]
  /\ execs \in [Objects -> [Command -> Nat]]
  /\ plan  \in [Objects -> Strategy]

\* Commands a worker's run still has ahead of it.
Ahead(o) ==
  CASE pc[o] = "restore" -> todo[o] \cup {"restart", "safeRestart"}
    [] pc[o] \in {"saveFailure", "saveSuccess", "restart"}
                         -> {"restart", "safeRestart"}
    [] OTHER             -> {}

RunsOnce == \A r \in Objects, c \in Command : execs[r][c] <= 1

\* Nothing of an object without conditions has been executed, nor what lies
\* ahead of the one worker at an object.
FreshUnrun ==
  \A r \in Objects : api[r].live /\ api[r].conds = NoConditions =>
    \A c \in Command : execs[r][c] = 0

AheadUnrun ==
  \A o \in Operators : Claimed(o) /\ Current(o) =>
    \A c \in Ahead(o) : execs[key[o]][c] = 0

\* The run-once guard of Reconcile (restore_controller.go:87) with the
\* versioned write of RestoreInitialized (:175): one worker runs a Restore,
\* copies a location and restarts Jenkins at most once.
RestoresOnceInv == TypeOK /\ SkeletonInv /\ RunsOnce /\ FreshUnrun /\ AheadUnrun

\* The loop of performJenkinsRestore (restore_controller.go:267-302) and the
\* restart behind it (:188-200): a location is copied only when every earlier
\* one of the strategy was, none after Jenkins was restarted, and a restart
\* is the one the strategy names.
RestoredInOrder ==
  [][\A r \in Objects, c \in Command :
       execs'[r][c] > execs[r][c] =>
         IF c \in Location
         THEN /\ c \in plan[r].opts
              /\ \A d \in plan[r].opts : Before[d] < Before[c] => execs[r][d] = 1
              /\ execs[r]["restart"] = 0 /\ execs[r]["safeRestart"] = 0
         ELSE /\ plan[r].restart # "no" /\ c = RestartOf(plan[r].restart)
              /\ \/ \A d \in plan[r].opts : execs[r][d] = 1
                 \/ api[r].conds["RestoreCompleted"] = "False"]_vars

\* What the status of a Restore says ran, ran (the SetCondition calls of
\* restore_controller.go:210-302).
Reports(r, conds) ==
  /\ conds["RestoreCompleted"] = "True" =>
       \A l \in plan[r].opts : execs[r][l] = 1
  /\ conds["RestartStarted"] = "True" => execs[r]["restart"] = 1
  /\ conds["SafeRestartStarted"] = "True" => execs[r]["safeRestart"] = 1
  /\ conds["RestartStarted"] # "unset" \/ conds["SafeRestartStarted"] # "unset" =>
       plan[r].opts = {} \/ conds["RestoreCompleted"] # "unset"

StatusReportsRun == \A r \in Objects : Reports(r, api[r].conds)

\* Why: a worker at its object follows the strategy that object is run with,
\* what is not left to copy was copied, and the status it is about to write
\* reports what ran.
Copied(r, locations) == \A l \in locations : execs[r][l] = 1

Follows(o) ==
  /\ todo[o] \subseteq strat[o].opts
  /\ pc[o] = "init" => todo[o] = strat[o].opts
  /\ pc[o] = "restart" => strat[o].restart # "no"
  /\ pc[o] = "saveFailure" => obj[o].conds["RestoreCompleted"] = "False"
  /\ pc[o] = "saveSuccess" => obj[o].conds["RestoreCompleted"] = "True"
  /\ pc[o] = "restart" =>
       strat[o].opts = {} \/ obj[o].conds["RestoreCompleted"] # "unset"
  /\ ~ Claimed(o) => obj[o].conds = NoConditions
  /\ Claimed(o) /\ Current(o) =>
       /\ plan[key[o]] = strat[o]
       /\ Reports(key[o], obj[o].conds)
       /\ pc[o] = "restore" => Copied(key[o], strat[o].opts \ todo[o])
       /\ pc[o] = "restart" =>
            \/ Copied(key[o], strat[o].opts)
            \/ api[key[o]].conds["RestoreCompleted"] = "False"

LoopInv == StatusReportsRun /\ \A o \in Operators : Follows(o)

\* A Restore that was taken up is copied and, if its strategy asks for it,
\* followed by a recorded attempt at a restart, unless its worker gave up or
\* the object went away (restore_controller.go:180-207).
TakenUpIsFinished ==
  \A r \in Objects :
    (api[r].conds["RestoreInitialized"] = "True") ~>
      \/ /\ plan[r].opts = {} \/ api[r].conds["RestoreCompleted"] # "unset"
         /\ plan[r].restart = "plain" => api[r].conds["RestartStarted"] # "unset"
         /\ plan[r].restart = "safe" => api[r].conds["SafeRestartStarted"] # "unset"
      \/ abandoned[r] \/ ~ api[r].live

\* docs/backupandrestore.adoc:183: of the strategy only the restart is used
\* for a Restore, so completed Restores put back the same locations.
OptionsUnused ==
  \A r, s \in Objects :
    /\ api[r].conds["RestoreCompleted"] = "True"
    /\ api[s].conds["RestoreCompleted"] = "True"
    => \A l \in Location : execs[r][l] = execs[s][l]

\* A Restore implements the one-shot task.
Phase(r) ==
  IF ~ api[r].live THEN "absent"
  ELSE CASE api[r].conds["RestoreInitialized"] = "unset" -> "pending"
         [] api[r].conds["RestoreInitialized"] = "True"  -> "accepted"
         [] OTHER -> "refused"

Task == INSTANCE OneShotTask
          WITH Tasks <- Objects, Commands <- Command,
               phase <- [r \in Objects |-> Phase(r)], runs <- execs

ImplementsTask == Task!TaskSpec

===========================================================================
