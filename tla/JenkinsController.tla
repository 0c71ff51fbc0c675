------------------------- MODULE JenkinsController -------------------------
(***************************************************************************)
(* controllers/jenkins_controller.go and pkg/configuration/base: Reconcile *)
(* of one Jenkins, from its work queue over the calculated spec, the       *)
(* validation and the ordered creation of the resources of the Jenkins to  *)
(* the status it writes.  reconcile's own result is not looked at when its *)
(* error is nil, so every failure of the base configuration ends in the    *)
(* status of a success; and the event filter of SetupWithManager keeps all *)
(* updates away that do not change a generation.                           *)
(***************************************************************************)
EXTENDS Naturals, Sequences, SequencesExt

CONSTANTS
  Plan,       \* the resources in the order reconcile.go ensures them
  Upserted,   \* those created or else overwritten: ConfigMaps, Role, bindings
  Copied,     \* those updated from the cached copy: the Services
  Watched,    \* those whose events SetupWithManager asks for
  Specs,      \* what is wrong with the spec of each generation
  MaxMishaps  \* bound: foreign edits and deletions, failing calls, crashes

Resources  == ToSet(Plan)
Deployment == Last(Plan)
Generations == 1..Len(Specs)

\* The Deployment is created last, and only when it is not there.
ASSUME JenkinsAssumption ==
  /\ Plan \in Seq(Resources) /\ Plan # <<>> /\ Specs # <<>>
  /\ IsInjective(Plan)
  /\ Upserted \cup Copied \cup Watched \subseteq Resources
  /\ Upserted \cap Copied = {}
  /\ Deployment \in Watched \ (Upserted \cup Copied)
  /\ Specs \in Seq({"valid", "invalid", "broken"})
  /\ MaxMishaps \in Nat

VARIABLES
  jenkins,   \* the Jenkins at the API server
  store,     \* its resources at the API server
  cache,     \* the informer caches of both
  queued,    \* the Jenkins is in the work queue
  pc, obj, at, after,  \* the worker: its position and local variables
  edits, deletes, faults, crashes,
  configured  \* history: the generation base.Reconcile last went through with

worker == <<pc, obj, at, after>>
others == <<edits, deletes, crashes>>
MishapsLeft == edits + deletes + faults + crashes < MaxMishaps
vars == <<jenkins, store, cache, queued, worker, others, faults, configured>>

\* content: 0 when absent, the generation it was built from, or Foreign.
Foreign == Len(Specs) + 1
Absent  == [uid |-> 0, rv |-> 0, content |-> 0]
Exists(r) == r.content # 0

\* complete stands for ReconciliationComplete and Available, which are
\* written together; spec is the generation of status.spec.
NoConditions      == [complete |-> "absent",  degraded |-> FALSE]
InitialConditions == [complete |-> "Unknown", degraded |-> FALSE]
StatusConditions_Degraded ==                             \* mutant
  [complete |-> "True", degraded |-> TRUE]
StatusConditions  == [complete |-> "True",    degraded |-> FALSE]
ReconcileFailed(c) == [c EXCEPT !.degraded = TRUE]

---------------------------------------------------------------------------
(* The API server and the caches.                                          *)

Passes_CreatesOnly(old, new, r) == ~ Exists(old)      \* mutant

\* GenerationChangedPredicate: creations, deletions, and updates of what has
\* a generation; of the resources, only the Deployment has one.
Passes(old, new, r) ==
  \/ old.uid # new.uid \/ ~ Exists(old) \/ ~ Exists(new)
  \/ r = Deployment

Overwrite(r, content) ==
  IF store[r].content = content THEN store
  ELSE [store EXCEPT ![r] = [uid |-> @.uid + (IF Exists(@) THEN 0 ELSE 1),
                             rv |-> @.rv + 1, content |-> content]]

DeliverResource(r) ==
  /\ cache.store[r] # store[r]
  /\ cache' = [cache EXCEPT !.store[r] = store[r]]
  /\ queued' = (queued \/ (r \in Watched /\ Passes(cache.store[r], store[r], r)))
  /\ UNCHANGED <<jenkins, store, worker, others, faults, configured>>

DeliverJenkins ==
  /\ cache.jenkins # jenkins
  /\ cache' = [cache EXCEPT !.jenkins = jenkins]
  /\ queued' = (queued \/ cache.jenkins.gen # jenkins.gen)
  /\ UNCHANGED <<jenkins, store, worker, others, faults, configured>>

---------------------------------------------------------------------------
(* The worker.                                                             *)

Goto(p) == pc' = p /\ UNCHANGED <<at, after>>

\* Reconcile returns; its error, or its absence, decides on the queue.
ReturnError == Goto("idle") /\ queued' = TRUE
Return      == Goto("idle") /\ UNCHANGED queued

\* The process ends, by a crash or by a nil Deployment (deployment.go:19,
\* configuration.go:190); the next one lists what there is.
Restart ==
  /\ Goto("idle")
  /\ queued' = TRUE
  /\ cache' = [jenkins |-> jenkins, store |-> store]
  /\ UNCHANGED <<jenkins, store, obj, configured>>

Dequeue ==
  /\ pc = "idle" /\ queued
  /\ queued' = FALSE
  /\ obj' = cache.jenkins
  /\ Goto(IF cache.jenkins.conds = NoConditions THEN "initial" ELSE "defaults")
  /\ UNCHANGED <<jenkins, store, cache, others, faults, configured>>

Accepts_AnyVersion(o) == TRUE                          \* mutant
Accepts(o) == o.rv = jenkins.rv

\* A status write of o, and where the worker goes with either answer.
Taken(o) ==
  /\ Accepts(o)
  /\ jenkins' = IF o.conds = jenkins.conds /\ o.spec = jenkins.spec THEN jenkins
                ELSE [jenkins EXCEPT !.rv = @ + 1, !.conds = o.conds, !.spec = o.spec]
  /\ obj' = jenkins'
  /\ UNCHANGED faults

Refused(o) ==
  /\ \/ ~ Accepts(o) /\ UNCHANGED faults
     \/ MishapsLeft /\ faults' = faults + 1
  /\ UNCHANGED <<jenkins, obj>>

\* setInitialConditions.
SetInitial ==
  /\ pc = "initial"
  /\ LET o == [obj EXCEPT !.conds = InitialConditions] IN
     \/ Taken(o) /\ Goto("defaults")
     \/ Refused(o) /\ pc' = "reload" /\ after' = "defaults" /\ UNCHANGED at
  /\ UNCHANGED <<store, cache, queued, others, configured>>

\* updateJenkinsStatus reads again, and then reports a completed reconcile.
Reload ==
  /\ pc = "reload"
  /\ obj' = [cache.jenkins EXCEPT !.conds = StatusConditions]
  /\ Goto("rewrite")
  /\ UNCHANGED <<jenkins, store, cache, queued, others, faults, configured>>

Rewrite ==
  /\ pc = "rewrite"
  /\ \/ Taken(obj) /\ Goto(after) /\ UNCHANGED queued
     \/ Refused(obj) /\ ReturnError
  /\ UNCHANGED <<store, cache, others, configured>>

\* getCalculatedSpec puts its result into the object it is compared with, so
\* setDefaults never finds a difference and never updates.
Calculated(o) == o.gen

\* setDefaults and Validate; a cluster-wide read or the claim may fail too.
Defaults ==
  /\ pc = "defaults"
  /\ obj' = [obj EXCEPT !.spec = Calculated(obj)]
  /\ \/ /\ Specs[obj.gen] = "broken"
        /\ Goto("failed") /\ UNCHANGED faults
     \/ /\ Specs[obj.gen] = "invalid"
        /\ Goto("final") /\ UNCHANGED faults
     \/ /\ Specs[obj.gen] = "valid"
        /\ pc' = "ensure" /\ at' = 1 /\ UNCHANGED <<after, faults>>
     \/ /\ MishapsLeft
        /\ faults' = faults + 1
        /\ Goto("failed")
  /\ UNCHANGED <<jenkins, store, cache, queued, others, configured>>

NextResource ==
  IF at < Len(Plan) THEN pc' = "ensure" /\ at' = at + 1 /\ UNCHANGED after
                    ELSE Goto("ready")

BaseFails_GoesOn == NextResource                       \* mutant
\* base.Reconcile returns an error, which reconcile does not pass on.
BaseFails == Goto("final")

\* CreateOrUpdateResource.
Upsert(r) ==
  /\ r \in Upserted
  /\ store' = Overwrite(r, obj.spec)
  /\ NextResource

InStep(r) == IF Exists(cache.store[r]) THEN cache.store[r].rv = store[r].rv
                                       ELSE ~ Exists(store[r])

\* createService: created, or updated with the version found in the cache.
UpdateCopy(r) ==
  /\ r \in Copied
  /\ \/ InStep(r) /\ store' = Overwrite(r, obj.spec) /\ NextResource
     \/ ~ InStep(r) /\ BaseFails /\ UNCHANGED store

\* The Secret, and the Deployment: created once.  What was created is not in
\* the cache when ensureJenkinsDeploymentIsPresent reads it again.
CreateOnce(r) ==
  /\ r \notin Upserted \cup Copied
  /\ \/ /\ Exists(cache.store[r])
        /\ NextResource
        /\ UNCHANGED store
     \/ /\ ~ Exists(cache.store[r]) /\ ~ Exists(store[r])
        /\ store' = Overwrite(r, obj.spec)
        /\ IF r = Deployment THEN Goto("reread") ELSE NextResource
     \/ /\ ~ Exists(cache.store[r]) /\ Exists(store[r])
        /\ BaseFails
        /\ UNCHANGED store

Ensure ==
  /\ pc = "ensure"
  /\ \/ /\ Upsert(Plan[at]) \/ UpdateCopy(Plan[at]) \/ CreateOnce(Plan[at])
        /\ UNCHANGED faults
     \/ /\ MishapsLeft
        /\ faults' = faults + 1
        /\ BaseFails
        /\ UNCHANGED store
  /\ UNCHANGED <<jenkins, cache, queued, obj, others, configured>>

Reread ==
  /\ pc = "reread"
  /\ Goto(IF Exists(cache.store[Deployment]) THEN "ready" ELSE "final")
  /\ UNCHANGED <<jenkins, store, cache, queued, obj, others, faults, configured>>

\* ensureJenkinsDeploymentIsReady and GetPodByDeployment read it once more.
Ready ==
  /\ pc = "ready"
  /\ \/ /\ Exists(cache.store[Deployment])
        /\ configured' = obj.spec
        /\ Goto("final")
        /\ UNCHANGED <<jenkins, store, cache, queued, obj>>
     \/ /\ ~ Exists(cache.store[Deployment])
        /\ Restart
  /\ UNCHANGED <<others, faults>>

\* setReconcileFailedStatus; the error of the write replaces that of
\* reconcile, so only a write that fails brings the Jenkins back.
Failed ==
  /\ pc = "failed"
  /\ LET o == [obj EXCEPT !.conds = ReconcileFailed(obj.conds)] IN
     \/ Taken(o) /\ Return
     \/ Refused(o) /\ ReturnError
  /\ UNCHANGED <<store, cache, others, configured>>

Final ==
  /\ pc = "final"
  /\ LET o == [obj EXCEPT !.conds = StatusConditions] IN
     \/ Taken(o) /\ Return
     \/ /\ Refused(o)
        /\ pc' = "reload" /\ after' = "idle"
        /\ UNCHANGED <<at, queued>>
  /\ UNCHANGED <<store, cache, others, configured>>

Work == \/ SetInitial \/ Reload \/ Rewrite \/ Defaults
        \/ Ensure \/ Reread \/ Ready \/ Failed \/ Final

---------------------------------------------------------------------------
(* The others.                                                             *)

Crash ==
  /\ MishapsLeft
  /\ crashes' = crashes + 1
  /\ Restart
  /\ UNCHANGED <<edits, deletes, faults>>

\* The user changes the spec.
EditSpec ==
  /\ jenkins.gen < Len(Specs)
  /\ jenkins' = [jenkins EXCEPT !.gen = @ + 1, !.rv = @ + 1]
  /\ UNCHANGED <<store, cache, queued, worker, others, faults, configured>>

EditMetadata ==
  /\ MishapsLeft
  /\ edits' = edits + 1
  /\ jenkins' = [jenkins EXCEPT !.rv = @ + 1]
  /\ UNCHANGED <<store, cache, queued, worker, deletes, faults, crashes, configured>>

DeleteResource(r) ==
  /\ MishapsLeft /\ Exists(store[r])
  /\ deletes' = deletes + 1
  /\ store' = [store EXCEPT ![r].content = 0, ![r].rv = @ + 1]
  /\ UNCHANGED <<jenkins, cache, queued, worker, edits, faults, crashes, configured>>

ModifyResource(r) ==
  /\ MishapsLeft /\ Exists(store[r])
  /\ edits' = edits + 1
  /\ store' = Overwrite(r, Foreign)
  /\ UNCHANGED <<jenkins, cache, queued, worker, deletes, faults, crashes, configured>>

Init ==
  /\ jenkins = [gen |-> 1, rv |-> 1, conds |-> NoConditions, spec |-> 0]
  /\ store   = [r \in Resources |-> Absent]
  /\ cache   = [jenkins |-> jenkins, store |-> store]
  /\ queued  = TRUE
  /\ pc = "idle" /\ obj = jenkins /\ at = 1 /\ after = "idle"
  /\ edits = 0 /\ deletes = 0 /\ faults = 0 /\ crashes = 0
  /\ configured = 0

Next ==
  \/ Dequeue \/ Work \/ DeliverJenkins
  \/ \E r \in Resources :
       DeliverResource(r) \/ DeleteResource(r) \/ ModifyResource(r)
  \/ EditSpec \/ EditMetadata \/ Crash

Spec == Init /\ [][Next]_vars

\* The worker runs and the watches deliver.  The filter drops the replays of
\* the informers, so no resync brings the Jenkins back.
Fairness ==
  /\ WF_vars(Dequeue) /\ WF_vars(Work)
  /\ WF_vars(DeliverJenkins)
  /\ \A r \in Resources : WF_vars(DeliverResource(r))

FairSpec == Spec /\ Fairness
---------------------------------------------------------------------------
(* Properties.                                                             *)

Contents == 0..Foreign
JenkinsType == [gen : Generations, rv : Nat, spec : 0..Len(Specs),
                conds : [complete : {"absent", "Unknown", "True"}, degraded : BOOLEAN]]
StoreType == [Resources -> [uid : Nat, rv : Nat, content : Contents]]
Places == {"idle", "initial", "reload", "rewrite", "defaults", "ensure",
           "reread", "ready", "failed", "final"}

TypeOK ==
  /\ jenkins \in JenkinsType
  /\ store   \in StoreType
  /\ cache   \in [jenkins : JenkinsType, store : StoreType]
  /\ queued  \in BOOLEAN
  /\ pc \in Places /\ obj \in JenkinsType
  /\ at \in DOMAIN Plan /\ after \in {"defaults", "idle"}
  /\ {edits, deletes, faults, crashes} \subseteq 0..MaxMishaps
  /\ configured \in 0..Len(Specs)

\* The Deployment, whose pod mounts and uses the others, is not created
\* before each of them has been (reconcile.go:49-55), whatever fails and
\* however old the caches are.
DeploymentAfterAll ==
  [][(~ Exists(store[Deployment]) /\ Exists(store'[Deployment]))
       => \A r \in Resources \ {Deployment} : store[r].uid > 0]_vars

Rank(c) == CASE c.complete = "absent" -> 0 [] c.complete = "Unknown" -> 1
             [] c.complete = "True" -> 2

\* A reported completion is not taken back to Unknown by a worker that still
\* sees the Jenkins without conditions (jenkins_controller.go:145-152).
CompletionStays == [][Rank(jenkins'.conds) >= Rank(jenkins.conds)]_vars

\* Why: what a worker holds of the Jenkins is an older version or has the same
\* conditions, and what it has gone past in the plan has been created.
Behind(o) ==
  /\ o.rv <= jenkins.rv
  /\ o.rv = jenkins.rv => o.conds = jenkins.conds

CreatedBefore(n) == \A i \in 1..(n - 1) : store[Plan[i]].uid > 0

JenkinsInv ==
  /\ TypeOK
  /\ Behind(cache.jenkins)
  /\ pc \notin {"idle", "reload", "rewrite"} => Behind(obj)
  /\ pc = "initial" => obj.conds = NoConditions
  /\ pc = "rewrite" => obj.conds = StatusConditions
  /\ \A r \in Resources :
       Exists(store[r]) \/ Exists(cache.store[r]) => store[r].uid > 0
  /\ pc = "ensure" => obj.spec > 0 /\ CreatedBefore(at)

\* Once the last spec has been configured, a watched resource that is deleted
\* comes back (jenkins_controller.go:104-107), although the errors of stale
\* caches are swallowed and a deleted Deployment can end the process: the event
\* of the deletion brings the Jenkins back.  A failing call or a foreign edit
\* in between can prevent it for good.
WatchedComeBack ==
  \A g \in Generations :
    [](edits = 0 /\ faults = 0) /\ <>[](jenkins.gen = g /\ configured = g)
      => <>[](\A r \in Watched : Exists(store[r]))

\* Degraded follows the last spec the user left (jenkins_controller.go:155,
\* 257), through conflicting writes, stale reads and crashes, as long as only
\* the spec makes the calculation fail.
DegradedSettles ==
  \A g \in Generations :
    [](faults = 0) /\ <>[](jenkins.gen = g)
      => <>[](jenkins.conds.degraded <=> Specs[g] = "broken")

\* jenkins_controller.go:70, "Reconciliation completed successfully".
CompleteMeansConfigured ==
  jenkins.conds.complete = "True" => configured > 0

\* jenkins_controller.go:369, "Base configuration reconciliation failed with
\* error, requeuing": the Services follow the spec in the end.
FailureIsRetried ==
  \A g \in Generations :
    <>[](jenkins.gen = g)
      => <>[](\A r \in Copied : store[r].content = g)

\* docs/overview.adoc:25, "If any of these resources are deleted or modified,
\* the `Jenkins controller` will reconcile".
ModifiedIsRestored ==
  store[Deployment].content = Foreign ~> store[Deployment].content # Foreign

\* docs/overview.adoc:18, "The applied and calculated values are then reported
\* in the `Jenkins.Status.Spec` field".
SpecIsReported ==
  \A g \in Generations :
    <>[](jenkins.gen = g) => <>[](jenkins.spec = g)

=============================================================================
