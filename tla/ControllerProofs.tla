-------------------------- MODULE ControllerProofs --------------------------
(***************************************************************************)
(* Theorems about JenkinsController, SharedJenkins, OperatorProcess and    *)
(* OperatorWorkers, for every value of their constants: what controllers   *)
(* and processes may rely on, of caches, of each other, of their clients.  *)
(***************************************************************************)
EXTENDS JenkinsController, SharedJenkins, OperatorWorkers, SequenceTheorems, TLAPS

---------------------------------------------------------------------------
(* JenkinsController.                                                      *)

LEMMA PlanIs ==
  /\ Plan \in Seq(Resources) /\ Len(Plan) \in Nat \ {0} /\ DOMAIN Plan = 1..Len(Plan)
  /\ Deployment = Plan[Len(Plan)] /\ Deployment \in Resources
  /\ Deployment \notin Upserted \cup Copied
  /\ \A i, j \in DOMAIN Plan : Plan[i] = Plan[j] => i = j
  /\ Len(Specs) \in Nat \ {0}
<1>1. /\ Plan \in Seq(Resources) /\ Plan # <<>> /\ Specs # <<>>
      /\ Specs \in Seq({"valid", "invalid", "broken"})
  BY JenkinsAssumption
<1>2. Deployment = Plan[Len(Plan)] /\ Deployment \notin Upserted \cup Copied
  BY JenkinsAssumption DEF Deployment, Last
<1>3. Len(Plan) \in Nat \ {0} /\ DOMAIN Plan = 1..Len(Plan) /\ Plan[Len(Plan)] \in Resources
  BY <1>1
<1>4. \A i, j \in DOMAIN Plan : Plan[i] = Plan[j] => i = j
  BY JenkinsAssumption DEF IsInjective
<1> QED
  BY <1>1, <1>2, <1>3, <1>4

LEMMA FirstJenkins == Init => JenkinsInv
<1> SUFFICES ASSUME Init PROVE JenkinsInv
  OBVIOUS
<1>1. jenkins \in JenkinsType /\ obj \in JenkinsType /\ obj = jenkins
  BY PlanIs DEF Init, JenkinsType, Generations, NoConditions
<1>2. /\ store \in StoreType /\ \A r \in Resources : store[r] = Absent
  BY DEF Init, StoreType, Absent, Contents, Foreign
<1>3. cache = [jenkins |-> jenkins, store |-> store]
  BY DEF Init
<1>4. TypeOK
  BY <1>1, <1>2, <1>3, PlanIs, JenkinsAssumption DEF Init, TypeOK, Places
<1>5. Behind(cache.jenkins)
  BY <1>1, <1>3 DEF Behind, JenkinsType
<1>6. \A r \in Resources : ~ Exists(store[r]) /\ ~ Exists(cache.store[r])
  BY <1>2, <1>3 DEF Exists, Absent
<1> QED
  BY <1>4, <1>5, <1>6 DEF Init, JenkinsInv

\* A resource that is written exists from then on with an identity.
LEMMA Overwritten ==
  ASSUME store \in StoreType, NEW r \in Resources, NEW content \in Contents \ {0},
         Exists(store[r]) => store[r].uid > 0
  PROVE  LET new == Overwrite(r, content) IN
         /\ new \in StoreType /\ new[r].uid > 0
         /\ \A s \in Resources : s # r => new[s] = store[s]
         /\ \A s \in Resources : new[s].uid >= store[s].uid
<1>1. store[r].uid \in Nat /\ store[r].rv \in Nat /\ store[r].content \in Contents
      /\ \A s \in Resources : store[s].uid \in Nat
  BY DEF StoreType
<1> DEFINE new == Overwrite(r, content)
           entry == [uid |-> store[r].uid + (IF Exists(store[r]) THEN 0 ELSE 1),
                     rv |-> store[r].rv + 1, content |-> content]
<1>2. CASE store[r].content = content
  <2>1. new = store
    BY <1>2 DEF Overwrite
  <2> QED
    BY <1>1, <1>2, <2>1 DEF Exists
<1>3. CASE store[r].content # content
  <2>1. new = [store EXCEPT ![r] = entry]
    BY <1>3 DEF Overwrite
  <2>2. entry \in [uid : Nat, rv : Nat, content : Contents] /\ entry.uid > 0
        /\ entry.uid >= store[r].uid
    BY <1>1
  <2> HIDE DEF entry, new
  <2> QED
    BY <1>1, <2>1, <2>2 DEF StoreType, new
<1> QED
  BY <1>2, <1>3

\* What stays true when neither the Jenkins nor the object of the worker changes,
\* and the resources only gain identities.
LEMMA ResourcesKeep ==
  ASSUME JenkinsInv, TypeOK', UNCHANGED <<jenkins, obj>>,
         cache'.jenkins \in {cache.jenkins, jenkins},
         \A r \in Resources :
           /\ store'[r].uid >= store[r].uid
           /\ Exists(store'[r]) => Exists(store[r]) \/ store'[r].uid > 0
           /\ cache'.store[r] \in {cache.store[r], store[r]},
         pc' # pc => pc' \notin {"initial", "rewrite", "ensure"},
         pc' # pc => pc \notin {"idle", "reload", "rewrite"} \/ pc' \in {"idle", "reload"},
         pc' = pc => at' = at
  PROVE  JenkinsInv'
<1>1. Behind(jenkins)
  BY DEF Behind, JenkinsInv, TypeOK, JenkinsType
<1>2. Behind(cache.jenkins)'
  BY <1>1 DEF JenkinsInv, Behind
<1>3. pc' \notin {"idle", "reload", "rewrite"} => Behind(obj)'
  BY DEF JenkinsInv, Behind
<1>4. \A r \in Resources : store[r].uid \in Nat /\ store'[r].uid \in Nat
  BY DEF JenkinsInv, TypeOK, StoreType
<1>5. \A r \in Resources :
        Exists(store'[r]) \/ Exists(cache'.store[r]) => store'[r].uid > 0
  BY <1>4 DEF JenkinsInv
<1>6. pc' = "ensure" => obj'.spec > 0 /\ CreatedBefore(at)'
  <2> SUFFICES ASSUME pc' = "ensure" PROVE obj'.spec > 0 /\ CreatedBefore(at)'
    OBVIOUS
  <2>1. pc = "ensure" /\ at' = at /\ obj' = obj
    OBVIOUS
  <2>2. obj.spec > 0 /\ CreatedBefore(at) /\ at \in DOMAIN Plan
    BY <2>1 DEF JenkinsInv, TypeOK
  <2>3. \A i \in 1..(at - 1) : Plan[i] \in Resources
    BY <2>2, PlanIs
  <2> QED
    BY <1>4, <2>1, <2>2, <2>3 DEF CreatedBefore
<1> QED
  BY <1>2, <1>3, <1>5, <1>6 DEF JenkinsInv

LEMMA DeliveriesKeep ==
  ASSUME JenkinsInv, DeliverJenkins \/ (\E r \in Resources : DeliverResource(r))
  PROVE  JenkinsInv'
<1>1. /\ UNCHANGED <<jenkins, store, pc, obj, at, after, edits, deletes, crashes, faults, configured>>
      /\ queued \in BOOLEAN /\ queued' \in BOOLEAN
  BY DEF DeliverJenkins, DeliverResource, worker, others, JenkinsInv, TypeOK
<1>2. CASE DeliverJenkins
  <2>1. cache' = [cache EXCEPT !.jenkins = jenkins]
    BY <1>2 DEF DeliverJenkins
  <2>2. cache'.jenkins = jenkins /\ cache'.store = cache.store
        /\ cache' \in [jenkins : JenkinsType, store : StoreType]
    BY <2>1 DEF JenkinsInv, TypeOK
  <2>3. TypeOK'
    BY <1>1, <2>2 DEF JenkinsInv, TypeOK
  <2>4. \A r \in Resources : store[r].uid >= store[r].uid
    BY DEF JenkinsInv, TypeOK, StoreType
  <2> QED
    BY <1>1, <2>2, <2>3, <2>4, ResourcesKeep
<1>3. ASSUME NEW r \in Resources, DeliverResource(r) PROVE JenkinsInv'
  <2>1. cache' = [cache EXCEPT !.store[r] = store[r]]
    BY <1>3 DEF DeliverResource
  <2>2. cache'.jenkins = cache.jenkins /\ cache'.store = [cache.store EXCEPT ![r] = store[r]]
    BY <2>1 DEF JenkinsInv, TypeOK
  <2>3. cache'.store \in StoreType
    BY <2>2 DEF JenkinsInv, TypeOK, StoreType
  <2>4. cache' \in [jenkins : JenkinsType, store : StoreType]
    BY <2>1, <2>2, <2>3 DEF JenkinsInv, TypeOK
  <2>5. TypeOK'
    BY <1>1, <2>4 DEF JenkinsInv, TypeOK
  <2>6. \A s \in Resources : cache'.store[s] \in {cache.store[s], store[s]}
                              /\ store[s].uid >= store[s].uid
    BY <2>2 DEF JenkinsInv, TypeOK, StoreType
  <2> QED
    BY <1>1, <2>2, <2>5, <2>6, ResourcesKeep
<1> QED
  BY <1>2, <1>3

\* A process that ends leaves the worker without an object.
LEMMA RestartKeeps ==
  ASSUME JenkinsInv, Restart, UNCHANGED <<edits, deletes>>,
         crashes' \in 0..MaxMishaps, faults' = faults
  PROVE  JenkinsInv'
<1>1. /\ UNCHANGED <<jenkins, store, obj, configured, at, after>> /\ pc' = "idle" /\ queued' = TRUE
      /\ cache' = [jenkins |-> jenkins, store |-> store]
  BY DEF Restart, Goto
<1>2. TypeOK'
  BY <1>1 DEF JenkinsInv, TypeOK, Places
<1>3. \A r \in Resources : store[r].uid >= store[r].uid
  BY DEF JenkinsInv, TypeOK, StoreType
<1> QED
  BY <1>1, <1>2, <1>3, ResourcesKeep

LEMMA MishapsBound ==
  ASSUME JenkinsInv, MishapsLeft
  PROVE  {edits + 1, deletes + 1, faults + 1, crashes + 1} \subseteq 0..MaxMishaps
<1>1. /\ edits \in Nat /\ deletes \in Nat /\ faults \in Nat /\ crashes \in Nat
      /\ MaxMishaps \in Nat
  BY JenkinsAssumption DEF JenkinsInv, TypeOK
<1>2. edits + deletes + faults + crashes < MaxMishaps
  BY DEF MishapsLeft
<1> QED
  BY <1>1, <1>2

\* Somebody else deletes or changes a resource.
LEMMA ForeignKeeps ==
  ASSUME JenkinsInv, NEW r \in Resources, DeleteResource(r) \/ ModifyResource(r)
  PROVE  JenkinsInv'
<1>1. /\ UNCHANGED <<jenkins, cache, queued, pc, obj, at, after, faults, crashes, configured>>
      /\ edits' \in 0..MaxMishaps /\ deletes' \in 0..MaxMishaps
  BY MishapsBound DEF DeleteResource, ModifyResource, worker, JenkinsInv, TypeOK
<1>2. store[r].uid > 0 /\ store[r] \in [uid : Nat, rv : Nat, content : Contents]
  BY DEF DeleteResource, ModifyResource, JenkinsInv, TypeOK, StoreType
<1>3. /\ store' \in StoreType
      /\ \A s \in Resources : store'[s].uid >= store[s].uid
                               /\ (Exists(store'[s]) => Exists(store[s]) \/ store'[s].uid > 0)
  <2>1. CASE DeleteResource(r)
    <3> DEFINE entry == [store[r] EXCEPT !.content = 0, !.rv = store[r].rv + 1]
    <3>1. store' = [store EXCEPT ![r] = entry]
      BY <1>2, <2>1 DEF DeleteResource, JenkinsInv, TypeOK, StoreType
    <3>2. store[r].rv + 1 \in Nat /\ 0 \in Contents
      BY <1>2 DEF Contents, Foreign
    <3>3. entry \in [uid : Nat, rv : Nat, content : Contents] /\ entry.uid = store[r].uid
      BY <1>2, <3>2
    <3> HIDE DEF entry
    <3> QED
      BY <1>2, <3>1, <3>3 DEF JenkinsInv, TypeOK, StoreType
  <2>2. CASE ModifyResource(r)
    <3>1. Foreign \in Contents \ {0} /\ store' = Overwrite(r, Foreign)
      BY <2>2, PlanIs DEF ModifyResource, Contents, Foreign
    <3>2. store \in StoreType
      BY DEF JenkinsInv, TypeOK
    <3> QED
      BY <1>2, <3>1, <3>2, Overwritten
  <2> QED
    BY <2>1, <2>2
<1>4. TypeOK'
  BY <1>1, <1>3 DEF JenkinsInv, TypeOK
<1> QED
  BY <1>1, <1>3, <1>4, ResourcesKeep

\* The user changes the Jenkins: whoever holds it holds an older version.
LEMMA UsersKeep ==
  ASSUME JenkinsInv, EditSpec \/ EditMetadata
  PROVE  JenkinsInv'
<1>1. /\ UNCHANGED <<store, cache, queued, pc, obj, at, after, deletes, faults, crashes, configured>>
      /\ edits' \in 0..MaxMishaps
  BY MishapsBound DEF EditSpec, EditMetadata, worker, others, JenkinsInv, TypeOK
<1>2. /\ jenkins' \in JenkinsType /\ jenkins'.rv = jenkins.rv + 1
      /\ jenkins.rv \in Nat /\ cache.jenkins.rv \in Nat /\ obj.rv \in Nat
  <2>1. jenkins \in JenkinsType /\ cache.jenkins \in JenkinsType /\ obj \in JenkinsType
    BY DEF JenkinsInv, TypeOK
  <2>2. CASE EditSpec
    <3>1. jenkins.gen + 1 \in Generations
      BY <2>1, <2>2, PlanIs DEF EditSpec, JenkinsType, Generations
    <3>2. jenkins' = [jenkins EXCEPT !.gen = jenkins.gen + 1, !.rv = jenkins.rv + 1]
      BY <2>2 DEF EditSpec
    <3>3. jenkins.rv \in Nat /\ cache.jenkins.rv \in Nat /\ obj.rv \in Nat
      BY <2>1 DEF JenkinsType
    <3>4. jenkins' \in JenkinsType
      <4>1. PICK g \in Generations, v \in Nat : g = jenkins.gen + 1 /\ v = jenkins.rv + 1
        BY <3>1, <3>3
      <4>2. jenkins' = [jenkins EXCEPT !.gen = g, !.rv = v]
        BY <3>2, <4>1
      <4> QED
        BY <2>1, <4>2 DEF JenkinsType
    <3>5. jenkins'.rv = jenkins.rv + 1
      BY <2>1, <3>2 DEF JenkinsType
    <3> QED
      BY <3>3, <3>4, <3>5
  <2>3. CASE EditMetadata
    BY <2>1, <2>3 DEF EditMetadata, JenkinsType
  <2> QED
    BY <2>2, <2>3
<1>3. TypeOK'
  BY <1>1, <1>2 DEF JenkinsInv, TypeOK
<1>4. (cache.jenkins.rv <= jenkins.rv => Behind(cache.jenkins)')
      /\ (obj.rv <= jenkins.rv => Behind(obj)')
  BY <1>1, <1>2 DEF Behind
<1>5. cache.jenkins.rv <= jenkins.rv
      /\ (pc \notin {"idle", "reload", "rewrite"} => obj.rv <= jenkins.rv)
  BY DEF JenkinsInv, Behind
<1>6. CreatedBefore(at)' <=> CreatedBefore(at)
  BY <1>1 DEF CreatedBefore
<1> QED
  BY <1>1, <1>3, <1>4, <1>5, <1>6 DEF JenkinsInv

\* A status write that was taken: what the worker holds then is what there is.
LEMMA TakenIs ==
  ASSUME JenkinsInv, NEW o \in JenkinsType, Taken(o), UNCHANGED cache
  PROVE  /\ jenkins' \in JenkinsType /\ obj' = jenkins' /\ o.rv = jenkins.rv
         /\ jenkins'.conds = o.conds /\ faults' = faults
         /\ Behind(obj)' /\ Behind(cache.jenkins)'
<1>1. jenkins \in JenkinsType /\ jenkins.rv \in Nat /\ cache.jenkins.rv \in Nat
  BY DEF JenkinsInv, TypeOK, JenkinsType
<1>2. /\ o.rv = jenkins.rv /\ obj' = jenkins' /\ faults' = faults /\ cache' = cache
  BY DEF Taken, Accepts
<1>3. CASE o.conds = jenkins.conds /\ o.spec = jenkins.spec
  <2>1. jenkins' = jenkins
    BY <1>3 DEF Taken
  <2> QED
    BY <1>1, <1>2, <1>3, <2>1 DEF JenkinsInv, Behind
<1>4. CASE ~ (o.conds = jenkins.conds /\ o.spec = jenkins.spec)
  <2>1. PICK v \in Nat : v = jenkins.rv + 1
    BY <1>1
  <2>2. jenkins' = [jenkins EXCEPT !.rv = v, !.conds = o.conds, !.spec = o.spec]
    BY <1>4, <2>1 DEF Taken
  <2>3. o.conds \in [complete : {"absent", "Unknown", "True"}, degraded : BOOLEAN]
        /\ o.spec \in 0..Len(Specs)
    BY DEF JenkinsType
  <2>4. jenkins' \in JenkinsType /\ jenkins'.rv = v /\ jenkins'.conds = o.conds
    BY <1>1, <2>2, <2>3 DEF JenkinsType
  <2> QED
    BY <1>1, <1>2, <2>1, <2>4 DEF JenkinsInv, Behind
<1> QED
  BY <1>3, <1>4

LEMMA RefusedIs ==
  ASSUME JenkinsInv, NEW o, Refused(o)
  PROVE  UNCHANGED <<jenkins, obj>> /\ faults' \in 0..MaxMishaps
  BY MishapsBound DEF Refused, JenkinsInv, TypeOK

\* The steps around a status write.
LEMMA ObjectKeeps ==
  ASSUME JenkinsInv, UNCHANGED <<store, cache, edits, deletes, crashes, configured, at>>,
         queued' \in BOOLEAN, after' \in {"defaults", "idle"}, faults' \in 0..MaxMishaps,
         jenkins' \in JenkinsType, obj' \in JenkinsType, Behind(cache.jenkins)',
         pc' \in Places \ {"initial", "ensure"},
         pc' = "rewrite" => obj'.conds = StatusConditions,
         pc' \notin {"idle", "reload", "rewrite"} => Behind(obj)'
  PROVE  JenkinsInv'
<1>1. TypeOK'
  BY DEF JenkinsInv, TypeOK
<1>2. \A r \in Resources :
        Exists(store'[r]) \/ Exists(cache'.store[r]) => store'[r].uid > 0
  BY DEF JenkinsInv
<1> QED
  BY <1>1, <1>2 DEF JenkinsInv

\* The objects the worker writes to the status.
LEMMA WrittenAre ==
  ASSUME JenkinsInv
  PROVE  /\ [obj EXCEPT !.conds = InitialConditions] \in JenkinsType
         /\ [obj EXCEPT !.conds = StatusConditions] \in JenkinsType
         /\ [obj EXCEPT !.conds = ReconcileFailed(obj.conds)] \in JenkinsType
         /\ [cache.jenkins EXCEPT !.conds = StatusConditions] \in JenkinsType
         /\ [obj EXCEPT !.conds = InitialConditions].conds = InitialConditions
         /\ [obj EXCEPT !.conds = StatusConditions].conds = StatusConditions
         /\ [cache.jenkins EXCEPT !.conds = StatusConditions].conds = StatusConditions
         /\ [obj EXCEPT !.conds = ReconcileFailed(obj.conds)].conds.complete = obj.conds.complete
         /\ [obj EXCEPT !.conds = InitialConditions].rv = obj.rv
         /\ [obj EXCEPT !.conds = ReconcileFailed(obj.conds)].rv = obj.rv
<1> DEFINE CondsType == [complete : {"absent", "Unknown", "True"}, degraded : BOOLEAN]
<1>1. obj \in JenkinsType /\ cache.jenkins \in JenkinsType
  BY DEF JenkinsInv, TypeOK
<1>2. InitialConditions \in CondsType /\ StatusConditions \in CondsType
  BY DEF InitialConditions, StatusConditions
<1>3. ReconcileFailed(obj.conds) \in CondsType
      /\ ReconcileFailed(obj.conds).complete = obj.conds.complete
  BY <1>1 DEF JenkinsType, ReconcileFailed
<1>4. ASSUME NEW o \in JenkinsType, NEW c \in CondsType
      PROVE  /\ [o EXCEPT !.conds = c] \in JenkinsType
             /\ [o EXCEPT !.conds = c].conds = c /\ [o EXCEPT !.conds = c].rv = o.rv
  BY DEF JenkinsType
<1> HIDE DEF CondsType
<1> QED
  BY <1>1, <1>2, <1>3, <1>4

LEMMA StatusKeeps ==
  ASSUME JenkinsInv, SetInitial \/ Rewrite \/ Failed \/ Final
  PROVE  JenkinsInv'
<1> USE DEF Goto, Return, ReturnError
<1>1. /\ UNCHANGED <<store, cache, edits, deletes, crashes, configured>>
      /\ jenkins \in JenkinsType /\ obj \in JenkinsType /\ queued \in BOOLEAN
      /\ after \in {"defaults", "idle"} /\ faults \in 0..MaxMishaps
      /\ Behind(cache.jenkins)
  BY DEF SetInitial, Rewrite, Failed, Final, others, JenkinsInv, TypeOK
<1>2. ASSUME NEW o \in JenkinsType, Refused(o)
      PROVE  /\ UNCHANGED <<jenkins, obj>> /\ faults' \in 0..MaxMishaps
             /\ jenkins' \in JenkinsType /\ obj' \in JenkinsType /\ Behind(cache.jenkins)'
  BY <1>1, <1>2, RefusedIs DEF Behind
<1>3. ASSUME NEW o \in JenkinsType, Taken(o)
      PROVE  /\ jenkins' \in JenkinsType /\ obj' \in JenkinsType /\ faults' \in 0..MaxMishaps
             /\ Behind(obj)' /\ Behind(cache.jenkins)'
  BY <1>1, <1>3, TakenIs
<1>4. CASE SetInitial
  <2> DEFINE o == [obj EXCEPT !.conds = InitialConditions]
  <2>1. o \in JenkinsType /\ queued' = queued
    BY <1>4, WrittenAre DEF SetInitial
  <2>2. CASE Taken(o) /\ Goto("defaults")
    BY <1>1, <1>3, <2>1, <2>2, ObjectKeeps DEF Places
  <2>3. CASE Refused(o) /\ pc' = "reload" /\ after' = "defaults" /\ UNCHANGED at
    BY <1>1, <1>2, <2>1, <2>3, ObjectKeeps DEF Places
  <2> QED
    BY <1>4, <2>2, <2>3 DEF SetInitial
<1>5. CASE Rewrite
  <2>1. CASE Taken(obj) /\ Goto(after) /\ UNCHANGED queued
    BY <1>1, <1>3, <2>1, ObjectKeeps DEF Places
  <2>2. CASE Refused(obj) /\ ReturnError
    BY <1>1, <1>2, <2>2, ObjectKeeps DEF Places
  <2> QED
    BY <1>5, <2>1, <2>2 DEF Rewrite
<1>6. CASE Failed
  <2> DEFINE o == [obj EXCEPT !.conds = ReconcileFailed(obj.conds)]
  <2>1. o \in JenkinsType
    BY WrittenAre
  <2>2. CASE Taken(o) /\ Return
    BY <1>1, <1>3, <2>1, <2>2, ObjectKeeps DEF Places
  <2>3. CASE Refused(o) /\ ReturnError
    BY <1>1, <1>2, <2>1, <2>3, ObjectKeeps DEF Places
  <2> QED
    BY <1>6, <2>2, <2>3 DEF Failed
<1>7. CASE Final
  <2> DEFINE o == [obj EXCEPT !.conds = StatusConditions]
  <2>1. o \in JenkinsType
    BY WrittenAre
  <2>2. CASE Taken(o) /\ Return
    BY <1>1, <1>3, <2>1, <2>2, ObjectKeeps DEF Places
  <2>3. CASE Refused(o) /\ pc' = "reload" /\ after' = "idle" /\ UNCHANGED <<at, queued>>
    BY <1>1, <1>2, <2>1, <2>3, ObjectKeeps DEF Places
  <2> QED
    BY <1>7, <2>2, <2>3 DEF Final
<1> QED
  BY <1>4, <1>5, <1>6, <1>7

LEMMA ReloadKeeps ==
  ASSUME JenkinsInv, Reload
  PROVE  JenkinsInv'
<1>1. /\ UNCHANGED <<jenkins, store, cache, queued, edits, deletes, crashes, faults, configured, at, after>>
      /\ pc' = "rewrite" /\ obj' = [cache.jenkins EXCEPT !.conds = StatusConditions]
  BY DEF Reload, Goto, others
<1>2. obj' \in JenkinsType /\ obj'.conds = StatusConditions
  BY <1>1, WrittenAre
<1>3. Behind(cache.jenkins)' /\ jenkins' \in JenkinsType /\ queued' \in BOOLEAN
      /\ after' \in {"defaults", "idle"} /\ faults' \in 0..MaxMishaps
  BY <1>1 DEF JenkinsInv, TypeOK, Behind
<1> QED
  BY <1>1, <1>2, <1>3, ObjectKeeps DEF Places

LEMMA DequeueKeeps ==
  ASSUME JenkinsInv, Dequeue
  PROVE  JenkinsInv'
<1>1. /\ UNCHANGED <<jenkins, store, cache, edits, deletes, crashes, faults, configured, at, after>>
      /\ obj' = cache.jenkins /\ queued' = FALSE
      /\ pc' = IF cache.jenkins.conds = NoConditions THEN "initial" ELSE "defaults"
  BY DEF Dequeue, Goto, others
<1>2. TypeOK'
  BY <1>1 DEF JenkinsInv, TypeOK, Places
<1>3. Behind(cache.jenkins)' /\ Behind(obj)'
  BY <1>1 DEF JenkinsInv, Behind
<1>4. \A r \in Resources :
        Exists(store'[r]) \/ Exists(cache'.store[r]) => store'[r].uid > 0
  BY <1>1 DEF JenkinsInv
<1> QED
  BY <1>1, <1>2, <1>3, <1>4 DEF JenkinsInv

LEMMA DefaultsKeep ==
  ASSUME JenkinsInv, Defaults
  PROVE  JenkinsInv'
<1>1. /\ UNCHANGED <<jenkins, store, cache, queued, edits, deletes, crashes, configured>>
      /\ obj' = [obj EXCEPT !.spec = obj.gen] /\ pc = "defaults"
      /\ obj \in JenkinsType /\ after' = after
      /\ pc' \in {"failed", "final", "ensure"} /\ faults' \in 0..MaxMishaps
      /\ pc' = "ensure" => at' = 1
      /\ at' \in {at, 1}
  BY MishapsBound DEF Defaults, Goto, Calculated, others, JenkinsInv, TypeOK
<1>2. /\ obj' \in JenkinsType /\ obj'.spec \in 1..Len(Specs)
      /\ obj'.rv = obj.rv /\ obj'.conds = obj.conds
  <2>1. obj.gen \in 1..Len(Specs) /\ obj.gen \in 0..Len(Specs)
    BY <1>1, PlanIs DEF JenkinsType, Generations
  <2> QED
    BY <1>1, <2>1 DEF JenkinsType
<1>3. TypeOK'
  BY <1>1, <1>2, PlanIs DEF JenkinsInv, TypeOK, Places
<1>4. Behind(cache.jenkins)' /\ Behind(obj)'
  BY <1>1, <1>2 DEF JenkinsInv, Behind
<1>5. \A r \in Resources :
        Exists(store'[r]) \/ Exists(cache'.store[r]) => store'[r].uid > 0
  BY <1>1 DEF JenkinsInv
<1>6. pc' = "ensure" => obj'.spec > 0 /\ CreatedBefore(at)'
  BY <1>1, <1>2, PlanIs DEF CreatedBefore
<1> QED
  BY <1>1, <1>3, <1>4, <1>5, <1>6 DEF JenkinsInv

\* A worker goes past a resource only when that is or was there.
LEMMA EnsureIs ==
  ASSUME JenkinsInv, Ensure
  PROVE  /\ UNCHANGED <<jenkins, cache, queued, obj, after, edits, deletes, crashes, configured>>
         /\ pc = "ensure" /\ faults' \in 0..MaxMishaps
         /\ Plan[at] \in Resources /\ obj.spec \in Contents \ {0}
         /\ store' \in {store, Overwrite(Plan[at], obj.spec)}
         /\ \/ /\ pc' = "ensure" /\ at' = at + 1 /\ at < Len(Plan)
               /\ store'[Plan[at]].uid > 0
            \/ pc' \in {"ready", "reread", "final"} /\ at' = at
<1>1. /\ UNCHANGED <<jenkins, cache, queued, obj, edits, deletes, crashes, configured>>
      /\ pc = "ensure"
  BY DEF Ensure, others
<1>2. /\ Plan[at] \in Resources /\ obj.spec \in Contents \ {0} /\ store \in StoreType
  BY <1>1, PlanIs DEF JenkinsInv, TypeOK, JenkinsType, Contents, Foreign
<1> DEFINE r == Plan[at]
<1>3. /\ Exists(store[r]) \/ Exists(cache.store[r]) => store[r].uid > 0
      /\ Overwrite(r, obj.spec)[r].uid > 0
  BY <1>2, Overwritten DEF JenkinsInv
<1>4. CASE /\ MishapsLeft /\ faults' = faults + 1 /\ BaseFails /\ UNCHANGED store
  BY <1>1, <1>2, <1>4, MishapsBound DEF BaseFails, Goto
<1>5. CASE Upsert(r) /\ UNCHANGED faults
  BY <1>1, <1>2, <1>3, <1>5 DEF Upsert, NextResource, Goto, JenkinsInv, TypeOK
<1>6. CASE UpdateCopy(r) /\ UNCHANGED faults
  BY <1>1, <1>2, <1>3, <1>6 DEF UpdateCopy, NextResource, BaseFails, Goto, JenkinsInv, TypeOK
<1>7. CASE CreateOnce(r) /\ UNCHANGED faults
  BY <1>1, <1>2, <1>3, <1>7 DEF CreateOnce, NextResource, BaseFails, Goto, JenkinsInv, TypeOK
<1> QED
  BY <1>4, <1>5, <1>6, <1>7 DEF Ensure

LEMMA EnsureKeeps ==
  ASSUME JenkinsInv, Ensure
  PROVE  JenkinsInv'
<1>1. /\ UNCHANGED <<jenkins, cache, queued, obj, after, edits, deletes, crashes, configured>>
      /\ pc = "ensure" /\ faults' \in 0..MaxMishaps
      /\ Plan[at] \in Resources /\ obj.spec \in Contents \ {0}
      /\ store' \in {store, Overwrite(Plan[at], obj.spec)}
  BY EnsureIs
<1>2. /\ store' \in StoreType
      /\ \A s \in Resources : store'[s].uid >= store[s].uid
                               /\ (Exists(store'[s]) => Exists(store[s]) \/ store'[s].uid > 0)
  <2>1. store \in StoreType /\ (Exists(store[Plan[at]]) => store[Plan[at]].uid > 0)
    BY <1>1 DEF JenkinsInv, TypeOK
  <2>2. CASE store' = store
    BY <2>1, <2>2 DEF StoreType
  <2>3. CASE store' = Overwrite(Plan[at], obj.spec)
    BY <1>1, <2>1, <2>3, Overwritten
  <2> QED
    BY <1>1, <2>2, <2>3
<1>3. CASE pc' \in {"ready", "reread", "final"} /\ at' = at
  <2>1. TypeOK'
    BY <1>1, <1>2, <1>3 DEF JenkinsInv, TypeOK, Places
  <2> QED
    BY <1>1, <1>2, <1>3, <2>1, ResourcesKeep
<1>4. CASE pc' = "ensure" /\ at' = at + 1 /\ at < Len(Plan) /\ store'[Plan[at]].uid > 0
  <2>1. at \in 1..Len(Plan) /\ at' \in DOMAIN Plan
    BY <1>4, PlanIs DEF JenkinsInv, TypeOK
  <2>2. TypeOK'
    BY <1>1, <1>2, <1>4, <2>1 DEF JenkinsInv, TypeOK, Places
  <2>3. \A i \in 1..(at - 1) : Plan[i] \in Resources /\ store[Plan[i]].uid > 0
    BY <1>1, <2>1, PlanIs DEF JenkinsInv, CreatedBefore
  <2>4. \A s \in Resources : store[s].uid \in Nat /\ store'[s].uid \in Nat
    BY <1>2 DEF JenkinsInv, TypeOK, StoreType
  <2>5. CreatedBefore(at)'
    <3> SUFFICES ASSUME NEW i \in 1..at PROVE store'[Plan[i]].uid > 0
      BY <1>4, <2>1 DEF CreatedBefore
    <3>1. CASE i = at
      BY <1>4, <3>1
    <3>2. CASE i # at
      BY <1>2, <2>1, <2>3, <2>4, <3>2
    <3> QED
      BY <3>1, <3>2
  <2>6. Behind(cache.jenkins)' /\ Behind(obj)'
    BY <1>1 DEF JenkinsInv, Behind
  <2>7. \A s \in Resources :
          Exists(store'[s]) \/ Exists(cache'.store[s]) => store'[s].uid > 0
    BY <1>1, <1>2, <2>4 DEF JenkinsInv
  <2>8. obj.spec > 0
    BY <1>1 DEF JenkinsInv
  <2> QED
    BY <1>1, <1>4, <2>2, <2>5, <2>6, <2>7, <2>8 DEF JenkinsInv
<1> QED
  BY <1>3, <1>4, EnsureIs

LEMMA LastStepsKeep ==
  ASSUME JenkinsInv, Reread \/ Ready
  PROVE  JenkinsInv'
<1>1. CASE Ready /\ ~ Exists(cache.store[Deployment])
  BY <1>1, RestartKeeps DEF Ready, Restart, Goto, others, JenkinsInv, TypeOK
<1>2. CASE Reread \/ (Ready /\ Exists(cache.store[Deployment]))
  <2>1. /\ UNCHANGED <<jenkins, store, cache, queued, obj, at, after, edits, deletes, crashes, faults>>
        /\ pc \in {"reread", "ready"} /\ pc' \in {"ready", "final"}
        /\ configured' \in {configured, obj.spec}
    BY <1>2 DEF Reread, Ready, Goto, others
  <2>2. TypeOK'
    BY <2>1 DEF JenkinsInv, TypeOK, Places, JenkinsType
  <2>3. \A r \in Resources : store[r].uid >= store[r].uid
    BY DEF JenkinsInv, TypeOK, StoreType
  <2> QED
    BY <2>1, <2>2, <2>3, ResourcesKeep
<1> QED
  BY <1>1, <1>2

LEMMA JenkinsSteps == JenkinsInv /\ [Next]_vars => JenkinsInv'
<1> SUFFICES ASSUME JenkinsInv, [Next]_vars PROVE JenkinsInv'
  OBVIOUS
<1>1. CASE Dequeue
  BY <1>1, DequeueKeeps
<1>2. CASE Work
  BY <1>2, StatusKeeps, ReloadKeeps, DefaultsKeep, EnsureKeeps, LastStepsKeep DEF Work
<1>3. CASE DeliverJenkins \/ \E r \in Resources : DeliverResource(r)
  BY <1>3, DeliveriesKeep
<1>4. CASE \E r \in Resources : DeleteResource(r) \/ ModifyResource(r)
  BY <1>4, ForeignKeeps
<1>5. CASE EditSpec \/ EditMetadata
  BY <1>5, UsersKeep
<1>6. CASE Crash
  BY <1>6, RestartKeeps, MishapsBound DEF Crash
<1>7. CASE UNCHANGED vars
  <2>1. UNCHANGED <<jenkins, store, cache, queued, pc, obj, at, after, edits, deletes, crashes,
                    faults, configured>>
    BY <1>7 DEF vars, worker, others
  <2>2. TypeOK'
    BY <2>1 DEF JenkinsInv, TypeOK
  <2>3. \A r \in Resources : store[r].uid >= store[r].uid
    BY DEF JenkinsInv, TypeOK, StoreType
  <2> QED
    BY <2>1, <2>2, <2>3 DEF JenkinsInv, Behind, CreatedBefore
<1> QED
  BY <1>1, <1>2, <1>3, <1>4, <1>5, <1>6, <1>7 DEF Next

\* Only the last place of the plan creates the Deployment.
LEMMA DeploymentStep ==
  ASSUME JenkinsInv, [Next]_vars,
         ~ Exists(store[Deployment]), Exists(store'[Deployment])
  PROVE  \A r \in Resources \ {Deployment} : store[r].uid > 0
<1>1. store \in StoreType /\ Deployment \in Resources
  BY PlanIs DEF JenkinsInv, TypeOK
<1>2. ASSUME NEW r \in Resources, r # Deployment, NEW content
      PROVE  Overwrite(r, content)[Deployment] = store[Deployment]
  BY <1>1, <1>2 DEF Overwrite, StoreType
<1>3. Ensure
  <2>1. store' # store
    OBVIOUS
  <2>2. ASSUME NEW r \in Resources PROVE ~ DeleteResource(r) /\ ~ ModifyResource(r)
    <3>1. ASSUME DeleteResource(r) PROVE FALSE
      BY <1>1, <3>1 DEF DeleteResource, Exists, StoreType
    <3>2. ASSUME ModifyResource(r) PROVE FALSE
      BY <1>2, <3>2 DEF ModifyResource
    <3> QED
      BY <3>1, <3>2
  <2>3. ~ UNCHANGED vars /\ ~ Dequeue /\ ~ DeliverJenkins /\ ~ EditSpec /\ ~ EditMetadata
        /\ ~ Crash /\ \A r \in Resources : ~ DeliverResource(r)
    BY <2>1, Zenon DEF vars, Dequeue, DeliverJenkins, EditSpec, EditMetadata, Crash, Restart,
         DeliverResource
  <2>4. ~ SetInitial /\ ~ Reload /\ ~ Rewrite /\ ~ Defaults /\ ~ Reread /\ ~ Ready
        /\ ~ Failed /\ ~ Final
    BY <2>1, Zenon DEF SetInitial, Reload, Rewrite, Defaults, Reread, Ready, Failed, Final, Restart
  <2> QED
    BY <2>2, <2>3, <2>4, Zenon DEF Next, Work
<1>4. at \in 1..Len(Plan) /\ CreatedBefore(at) /\ store' = Overwrite(Plan[at], obj.spec)
  BY <1>3, EnsureIs, PlanIs DEF JenkinsInv, TypeOK
<1>5. Plan[at] = Deployment
  BY <1>2, <1>3, <1>4, EnsureIs
<1>6. at = Len(Plan)
  BY <1>4, <1>5, PlanIs
<1>7. ASSUME NEW r \in Resources, r # Deployment PROVE store[r].uid > 0
  <2>1. PICK i \in DOMAIN Plan : r = Plan[i]
    BY DEF Resources, ToSet
  <2>2. i \in 1..(at - 1)
    BY <1>5, <1>6, <1>7, <2>1, PlanIs
  <2> QED
    BY <1>4, <2>1, <2>2 DEF CreatedBefore
<1> QED
  BY <1>7

\* The Deployment is not created before everything its pod mounts and uses
\* has been, with failing calls, stale caches, crashes and foreign deletions.
THEOREM DeploymentLast == Spec => DeploymentAfterAll
<1>1. JenkinsInv /\ [Next]_vars =>
        [(~ Exists(store[Deployment]) /\ Exists(store'[Deployment]))
           => \A r \in Resources \ {Deployment} : store[r].uid > 0]_vars
  BY DeploymentStep
<1> QED
  BY <1>1, FirstJenkins, JenkinsSteps, PTL DEF Spec, DeploymentAfterAll

LEMMA RankStep ==
  ASSUME JenkinsInv, [Next]_vars
  PROVE  Rank(jenkins'.conds) >= Rank(jenkins.conds)
<1>1. /\ jenkins \in JenkinsType /\ obj \in JenkinsType
      /\ jenkins.conds.complete \in {"absent", "Unknown", "True"}
  BY DEF JenkinsInv, TypeOK, JenkinsType
<1>2. CASE jenkins'.conds = jenkins.conds
  BY <1>1, <1>2 DEF Rank
<1>3. ASSUME NEW o \in JenkinsType, Taken(o)
      PROVE  jenkins'.conds = o.conds /\ o.rv = jenkins.rv
  <2>1. \/ jenkins' = jenkins /\ o.conds = jenkins.conds
        \/ jenkins' = [jenkins EXCEPT !.rv = @ + 1, !.conds = o.conds, !.spec = o.spec]
    BY <1>3 DEF Taken
  <2> QED
    BY <1>1, <1>3, <2>1 DEF Taken, Accepts, JenkinsType
<1>4. ASSUME NEW o, Refused(o) PROVE jenkins' = jenkins
  BY <1>4 DEF Refused
<1>5. CASE SetInitial
  <2> DEFINE o == [obj EXCEPT !.conds = InitialConditions]
  <2>1. CASE Taken(o)
    <3>1. jenkins'.conds = InitialConditions /\ obj.rv = jenkins.rv
      BY <1>3, <2>1, WrittenAre
    <3>2. jenkins.conds = NoConditions
      BY <1>5, <3>1 DEF SetInitial, JenkinsInv, Behind
    <3> QED
      BY <3>1, <3>2 DEF Rank, InitialConditions, NoConditions
  <2> QED
    BY <1>2, <1>4, <1>5, <2>1 DEF SetInitial
<1>6. CASE Rewrite
  <2>1. CASE Taken(obj)
    <3>1. jenkins'.conds = StatusConditions
      BY <1>1, <1>3, <1>6, <2>1 DEF Rewrite, JenkinsInv
    <3> QED
      BY <1>1, <3>1 DEF Rank, StatusConditions
  <2> QED
    BY <1>2, <1>4, <1>6, <2>1 DEF Rewrite
<1>7. CASE Failed
  <2> DEFINE o == [obj EXCEPT !.conds = ReconcileFailed(obj.conds)]
  <2>1. CASE Taken(o)
    <3>1. jenkins'.conds.complete = obj.conds.complete /\ obj.rv = jenkins.rv
      BY <1>3, <2>1, WrittenAre
    <3>2. jenkins.conds = obj.conds
      BY <1>7, <3>1 DEF Failed, JenkinsInv, Behind
    <3> QED
      BY <1>1, <3>1, <3>2 DEF Rank
  <2> QED
    BY <1>2, <1>4, <1>7, <2>1 DEF Failed
<1>8. CASE Final
  <2> DEFINE o == [obj EXCEPT !.conds = StatusConditions]
  <2>1. CASE Taken(o)
    <3>1. jenkins'.conds = StatusConditions
      BY <1>3, <2>1, WrittenAre
    <3> QED
      BY <1>1, <3>1 DEF Rank, StatusConditions
  <2> QED
    BY <1>2, <1>4, <1>8, <2>1 DEF Final
<1>9. CASE EditSpec \/ EditMetadata
  <2>1. jenkins'.conds = jenkins.conds
    BY <1>1, <1>9 DEF EditSpec, EditMetadata, JenkinsType
  <2> QED
    BY <1>2, <2>1
<1>10. CASE \/ Dequeue \/ Reload \/ Defaults \/ Ensure \/ Reread \/ Ready \/ Crash
            \/ DeliverJenkins \/ UNCHANGED vars
            \/ \E r \in Resources : DeliverResource(r) \/ DeleteResource(r) \/ ModifyResource(r)
  <2>1. jenkins' = jenkins
    BY <1>10, Zenon DEF vars, Dequeue, Reload, Defaults, Ensure, Reread, Ready, Crash, Restart,
         DeliverJenkins, DeliverResource, DeleteResource, ModifyResource
  <2> QED
    BY <1>2, <2>1
<1> QED
  BY <1>5, <1>6, <1>7, <1>8, <1>9, <1>10 DEF Next, Work

\* A reported completion is not taken back by a worker with an old copy.
THEOREM CompletionKept == Spec => CompletionStays
<1>1. JenkinsInv /\ [Next]_vars => [Rank(jenkins'.conds) >= Rank(jenkins.conds)]_vars
  BY RankStep
<1> QED
  BY <1>1, FirstJenkins, JenkinsSteps, PTL DEF Spec, CompletionStays

---------------------------------------------------------------------------
(* SharedJenkins.                                                          *)

LEMMA SharedVocabulary ==
  /\ B!NoConditions \in [BackupConditions -> B!CondValue]
  /\ B!Blank \in B!Object /\ B!Blank.conds = B!NoConditions
  /\ "QuietDownStarted" \in BackupConditions
  /\ B!NoConditions["QuietDownStarted"] = "unset"
BY SharedAssumption DEF B!NoConditions, B!Blank, B!Object, B!CondValue

LEMMA FirstShared == SharedInit => SharedInv
<1> SUFFICES ASSUME SharedInit PROVE SharedInv
  OBVIOUS
<1>1. /\ bApi = [b \in Backups |-> B!Blank] /\ bPc = [o \in Operators |-> "idle"]
      /\ bCache = [o \in Operators |-> [b \in Backups |-> B!Blank]]
      /\ bKey = [o \in Operators |-> None] /\ bObj = [o \in Operators |-> B!Blank]
  BY DEF SharedInit, B!Init, B!SkeletonInit
<1>2. SharedTypeOK
  BY <1>1, SharedVocabulary DEF SharedTypeOK, B!Early
<1> QED
  BY <1>1, <1>2 DEF SharedInv, QuietedOrSpoiled

\* Where no worker of a Backup moves, what ends a quiet-down is a restart.
LEMMA WorkersRest ==
  ASSUME SharedInv, UNCHANGED <<bPc, bKey, bObj>>,
         bApi' \in [Backups -> B!Object],
         bCache' \in [Operators -> [Backups -> B!Object]],
         quieted \cup spoiled \subseteq quieted' \cup spoiled'
  PROVE  SharedInv'
BY DEF SharedInv, SharedTypeOK, QuietedOrSpoiled, Reported

\* The one worker goes to stage p with object m of name k.
LEMMA WorkerMoves ==
  ASSUME SharedInv, OneOperator, NEW o \in Operators,
         NEW p \in B!Early \cup B!BackupStages,
         NEW k \in Backups \cup {None}, NEW m \in B!Object,
         bPc' = [bPc EXCEPT ![o] = p], bKey' = [bKey EXCEPT ![o] = k],
         bObj' = [bObj EXCEPT ![o] = m],
         bApi' \in [Backups -> B!Object],
         bCache' \in [Operators -> [Backups -> B!Object]],
         p # "idle" => k \in Backups,
         p \in {"refs", "init"} => m.conds = B!NoConditions,
         p = "quietDown" => m.conds["QuietDownStarted"] # "True",
         p \in {"saveQuietDown", "mkdir", "copy", "saveCopy"}
           /\ m.conds["QuietDownStarted"] = "True" => k \in quieted' \cup spoiled'
  PROVE  SharedInv'
<1>1. SharedTypeOK'
  BY DEF SharedInv, SharedTypeOK
<1>2. bPc'[o] = p /\ bKey'[o] = k /\ bObj'[o] = m /\ \A q \in Operators : q = o
  BY DEF SharedInv, SharedTypeOK, OneOperator
<1> QED
  BY <1>1, <1>2 DEF SharedInv, QuietedOrSpoiled, Reported

\* A reconcile that returns holds nothing.
LEMMA WorkerReturns ==
  ASSUME SharedInv, OneOperator, NEW o \in Operators, B!Return(o),
         bApi' \in [Backups -> B!Object],
         bCache' \in [Operators -> [Backups -> B!Object]]
  PROVE  SharedInv'
<1>1. /\ bPc' = [bPc EXCEPT ![o] = "idle"] /\ bKey' = [bKey EXCEPT ![o] = None]
      /\ bObj' = [bObj EXCEPT ![o] = B!Blank]
  BY DEF B!Return
<1>2. "idle" \in B!Early \cup B!BackupStages /\ None \in Backups \cup {None}
  BY DEF B!Early
<1> QED
  BY <1>1, <1>2, SharedVocabulary, WorkerMoves

LEMMA SharedSetCondition ==
  ASSUME NEW m \in B!Object, NEW t \in BackupConditions, NEW v \in {"True", "False"}
  PROVE  /\ B!SetCondition(m, t, v) \in B!Object
         /\ B!SetCondition(m, t, v).conds[t] = v
         /\ \A u \in BackupConditions \ {t} :
              B!SetCondition(m, t, v).conds[u] = m.conds[u]
<1> DEFINE c == [m.conds EXCEPT ![t] = v]
<1>1. c \in [BackupConditions -> B!CondValue] /\ c[t] = v
      /\ \A u \in BackupConditions \ {t} : c[u] = m.conds[u]
  BY DEF B!Object, B!CondValue
<1>2. B!SetCondition(m, t, v) = [m EXCEPT !.conds = c]
  BY DEF B!SetCondition
<1> HIDE DEF c
<1> QED
  BY <1>1, <1>2 DEF B!Object

\* A write of the status goes on with the conditions written, or the worker
\* returns.
LEMMA WorkerUpdates ==
  ASSUME SharedInv, OneOperator, NEW o \in Operators, bPc[o] # "idle",
         NEW m \in B!Object, NEW p \in B!Early \cup B!BackupStages,
         B!Update(o, m, p), p \notin {"refs", "init"},
         p = "quietDown" => m.conds["QuietDownStarted"] # "True",
         p \in {"saveQuietDown", "mkdir", "copy", "saveCopy"}
           /\ m.conds["QuietDownStarted"] = "True" => bKey[o] \in quieted' \cup spoiled'
  PROVE  SharedInv'
<1> DEFINE b == bKey[o]
           n == B!Stored(b, m)
<1>1. b \in Backups /\ bApi \in [Backups -> B!Object]
      /\ bCache' = bCache /\ bCache' \in [Operators -> [Backups -> B!Object]]
      /\ bKey \in [Operators -> Backups \cup {None}]
  BY DEF SharedInv, SharedTypeOK, QuietedOrSpoiled, B!Update
<1>2. bApi[b] \in B!Object /\ n \in B!Object /\ n.conds = m.conds
  BY <1>1 DEF B!Stored, B!Revision, B!Object
<1> HIDE DEF n
<1>3. CASE B!UpdateTaken(o, m, p)
  <2>1. bApi' = [bApi EXCEPT ![b] = n] /\ bApi' \in [Backups -> B!Object]
    BY <1>1, <1>2, <1>3 DEF B!UpdateTaken, n
  <2>2. CASE p = "idle"
    BY <1>1, <1>3, <2>1, <2>2, WorkerReturns DEF B!UpdateTaken
  <2>3. CASE p # "idle"
    <3>1. /\ bPc' = [bPc EXCEPT ![o] = p] /\ bObj' = [bObj EXCEPT ![o] = n]
          /\ bKey' = [bKey EXCEPT ![o] = b]
      BY <1>1, <1>3, <2>3 DEF B!UpdateTaken, B!Go, n
    <3> QED
      BY <1>1, <1>2, <2>1, <3>1, WorkerMoves
  <2> QED
    BY <2>2, <2>3
<1>4. CASE B!UpdateRefused(o, m)
  BY <1>1, <1>4, WorkerReturns DEF B!UpdateRefused, B!GiveUp
<1>5. ~ B!UpdateLost(o, m)
  BY DEF B!UpdateLost
<1> QED
  BY <1>3, <1>4, <1>5 DEF B!Update

\* The steps of the worker that write no status.
LEMMA ScriptsKeepQuiet ==
  ASSUME SharedInv, OneOperator, ~ JenkinsMayRefuse, NEW o \in Operators,
         bPc[o] # "cancel" => quieted \cup spoiled \subseteq quieted' \cup spoiled',
         \/ \E missing \in B!Lookup : B!FetchRefs(o, missing)
         \/ B!QuietDown(o) \/ B!MakeDirectory(o) \/ B!CopyLocation(o)
         \/ B!CancelQuietDown(o)
         \/ \E b \in Backups : B!TakeBackup(o, b)
  PROVE  SharedInv'
<1> USE DEF B!Early, B!BackupStages
<1> DEFINE Same == bApi' = bApi /\ bCache' = bCache
<1>1. /\ bApi \in [Backups -> B!Object] /\ bObj[o] \in B!Object
      /\ bCache \in [Operators -> [Backups -> B!Object]]
      /\ bObj[o].conds \in [BackupConditions -> B!CondValue]
  BY DEF SharedInv, SharedTypeOK, B!Object
<1>2. /\ bPc[o] # "idle" => bKey[o] \in Backups
      /\ bPc[o] \in {"refs", "init"} => bObj[o].conds = B!NoConditions
      /\ bPc[o] = "quietDown" => bObj[o].conds["QuietDownStarted"] # "True"
      /\ bPc[o] \in {"saveQuietDown", "mkdir", "copy", "saveCopy"}
           /\ bObj[o].conds["QuietDownStarted"] = "True" => bKey[o] \in quieted \cup spoiled
  BY DEF SharedInv, QuietedOrSpoiled, Reported
<1>3. bKey = [bKey EXCEPT ![o] = bKey[o]] /\ bKey[o] \in Backups \cup {None}
  BY DEF SharedInv, SharedTypeOK
<1>4. ASSUME NEW missing \in B!Lookup, B!FetchRefs(o, missing)
      PROVE  SharedInv'
  <2>1. bPc[o] = "refs" /\ bApi' = bApi /\ (bCache' = bCache \/ B!Restart(o))
    BY <1>4, Zenon DEF B!FetchRefs, B!Fetch, B!Restart, B!serverVars
  <2>2. bCache' \in [Operators -> [Backups -> B!Object]]
    BY <1>1, <2>1 DEF B!Restart
  <2>3. CASE B!Return(o)
    BY <1>1, <2>1, <2>2, <2>3, WorkerReturns
  <2>4. CASE B!Go(o, "init", bObj[o])
    BY <1>1, <1>2, <1>3, <2>1, <2>2, <2>4, WorkerMoves DEF B!Go
  <2> QED
    BY <1>4, <2>3, <2>4 DEF B!FetchRefs, B!Fetch, B!Restart, B!GiveUp
<1>5. CASE B!QuietDown(o)
  <2>1. PICK ran, ok, done \in BOOLEAN :
          /\ B!Exec(ran, ok) /\ B!Answered(ran, done)
          /\ quieted' = IF done THEN quieted \cup {bKey[o]} ELSE quieted
          /\ B!Go(o, "saveQuietDown",
                  B!SetCondition(bObj[o], "QuietDownStarted",
                                 IF ok THEN "True" ELSE "False"))
    BY <1>5 DEF B!QuietDown
  <2>2. bPc[o] = "quietDown" /\ Same
    BY <1>5 DEF B!QuietDown, B!serverVars
  <2> DEFINE v == IF ok THEN "True" ELSE "False"
             m == B!SetCondition(bObj[o], "QuietDownStarted", v)
  <2>3. m \in B!Object /\ m.conds["QuietDownStarted"] = v
    BY <1>1, SharedVocabulary, SharedSetCondition
  <2>4. ok => bKey[o] \in quieted'
    BY <2>1 DEF B!Exec, B!Answered
  <2>5. /\ bPc' = [bPc EXCEPT ![o] = "saveQuietDown"] /\ bKey' = bKey
        /\ bObj' = [bObj EXCEPT ![o] = m]
    BY <2>1 DEF B!Go
  <2>6. m.conds["QuietDownStarted"] = "True" => bKey[o] \in quieted' \cup spoiled'
    BY <2>3, <2>4
  <2> HIDE DEF m
  <2> QED
    BY <1>1, <1>2, <1>3, <2>2, <2>3, <2>5, <2>6, WorkerMoves
<1>6. ASSUME NEW p \in {"cancel", "complete", "copy", "saveMkdir", "saveCopy", "saveCancel"},
             NEW m \in B!Object, B!Go(o, p, m), Same, bPc[o] # "idle",
             p \in {"copy", "saveCopy"} =>
               /\ bPc[o] \in {"mkdir", "copy"}
               /\ m.conds["QuietDownStarted"] = bObj[o].conds["QuietDownStarted"]
      PROVE  SharedInv'
  <2>1. /\ bPc' = [bPc EXCEPT ![o] = p] /\ bKey' = bKey
        /\ bObj' = [bObj EXCEPT ![o] = m]
    BY <1>6 DEF B!Go
  <2>2. p \in {"saveQuietDown", "mkdir", "copy", "saveCopy"}
          /\ m.conds["QuietDownStarted"] = "True" => bKey[o] \in quieted' \cup spoiled'
    BY <1>2, <1>6
  <2> QED
    BY <1>1, <1>2, <1>3, <1>6, <2>1, <2>2, WorkerMoves
<1> DEFINE failed    == B!SetCondition(bObj[o], "BackupCompleted", "False")
           cancel(v) == B!SetCondition(bObj[o], "QuietDownCancelled", v)
<1>7. /\ failed \in B!Object
      /\ failed.conds["QuietDownStarted"] = bObj[o].conds["QuietDownStarted"]
      /\ \A v \in {"True", "False"} : cancel(v) \in B!Object
  BY <1>1, SharedAssumption, SharedSetCondition
<1>8. CASE B!MakeDirectory(o)
  <2>1. bPc[o] = "mkdir" /\ Same
    BY <1>8 DEF B!MakeDirectory, B!serverVars
  <2>2. \/ \E p \in {"cancel", "complete", "copy"} : B!Go(o, p, bObj[o])
        \/ B!Go(o, "saveMkdir", failed)
    BY <1>8 DEF B!MakeDirectory, B!AfterBackup
  <2> HIDE DEF failed
  <2> QED
    BY <1>1, <1>6, <1>7, <2>1, <2>2
<1>9. CASE B!CopyLocation(o)
  <2>1. bPc[o] = "copy" /\ Same
    BY <1>9 DEF B!CopyLocation, B!serverVars
  <2>2. B!Go(o, "copy", bObj[o]) \/ B!Go(o, "saveCopy", failed)
    BY <1>9 DEF B!CopyLocation
  <2> HIDE DEF failed
  <2> QED
    BY <1>1, <1>6, <1>7, <2>1, <2>2
<1>10. CASE B!CancelQuietDown(o)
  <2>1. bPc[o] = "cancel" /\ Same
    BY <1>10 DEF B!CancelQuietDown, B!serverVars
  <2>2. \E v \in {"True", "False"} : B!Go(o, "saveCancel", cancel(v))
    BY <1>10 DEF B!CancelQuietDown
  <2> HIDE DEF cancel
  <2> QED
    BY <1>6, <1>7, <2>1, <2>2
<1>11. ASSUME NEW b \in Backups, B!TakeBackup(o, b)
       PROVE  SharedInv'
  <2>1. bPc[o] = "idle" /\ Same
    BY <1>11 DEF B!TakeBackup, B!Dequeue
  <2>2. CASE B!Unmarked(bCache[o][b])
    <3>1. /\ bPc' = [bPc EXCEPT ![o] = "refs"] /\ bKey' = [bKey EXCEPT ![o] = b]
          /\ bObj' = [bObj EXCEPT ![o] = bCache[o][b]]
      BY <1>11, <2>2 DEF B!TakeBackup, B!Dequeue
    <3>2. bCache[o][b] \in B!Object /\ bCache[o][b].conds = B!NoConditions
      BY <1>1, <2>2 DEF B!Unmarked
    <3> QED
      BY <1>1, <2>1, <3>1, <3>2, WorkerMoves
  <2>3. CASE ~ B!Unmarked(bCache[o][b])
    <3>1. UNCHANGED <<bPc, bKey, bObj>>
      BY <1>11, <2>3 DEF B!TakeBackup, B!Dequeue
    <3> QED
      BY <1>1, <2>1, <3>1, WorkersRest
  <2> QED
    BY <2>2, <2>3
<1> QED
  BY <1>4, <1>5, <1>8, <1>9, <1>10, <1>11

\* The steps that write the status.
LEMMA WritesKeepQuiet ==
  ASSUME SharedInv, OneOperator, NEW o \in Operators,
         quieted \cup spoiled \subseteq quieted' \cup spoiled',
         \/ B!InitializeBackup(o) \/ B!SaveQuietDown(o) \/ B!SaveMakeDirectory(o)
         \/ B!SaveCopyFailure(o)  \/ B!SaveCopies(o)    \/ B!SaveCancel(o)
         \/ B!Complete(o)
  PROVE  SharedInv'
<1> USE DEF B!Early, B!BackupStages
<1>1. bObj[o] \in B!Object /\ bObj[o].conds \in [BackupConditions -> B!CondValue]
  BY DEF SharedInv, SharedTypeOK, B!Object
<1>2. /\ bPc[o] \in {"refs", "init"} => bObj[o].conds = B!NoConditions
      /\ bPc[o] \in {"saveQuietDown", "mkdir", "copy", "saveCopy"}
           /\ bObj[o].conds["QuietDownStarted"] = "True" => bKey[o] \in quieted \cup spoiled
  BY DEF SharedInv, QuietedOrSpoiled, Reported
<1>3. CASE B!InitializeBackup(o)
  <2> DEFINE m(v) == B!SetCondition(bObj[o], "BackupInitialized", v)
  <2>1. bPc[o] = "init"
    BY <1>3 DEF B!InitializeBackup, B!Initialize
  <2>2. \A v \in {"True", "False"} :
          m(v) \in B!Object /\ m(v).conds["QuietDownStarted"] # "True"
    BY <1>1, <1>2, <2>1, SharedAssumption, SharedVocabulary, SharedSetCondition
  <2>3. \E v \in {"True", "False"}, p \in {"quietDown", "mkdir", "idle"} :
          B!Update(o, m(v), p)
    BY <1>3 DEF B!InitializeBackup, B!Initialize
  <2> HIDE DEF m
  <2> QED
    BY <2>1, <2>2, <2>3, WorkerUpdates
<1>4. ASSUME NEW p \in {"mkdir", "copy", "cancel", "complete"}, bPc[o] # "idle",
             B!Update(o, bObj[o], p),
             p \in {"mkdir", "copy"} => bPc[o] \in {"saveQuietDown", "saveCopy"}
      PROVE  SharedInv'
  BY <1>1, <1>2, <1>4, WorkerUpdates
<1>5. CASE B!SaveQuietDown(o)
  BY <1>4, <1>5 DEF B!SaveQuietDown, B!SaveStatus, B!Save
<1>6. CASE B!SaveMakeDirectory(o)
  BY <1>4, <1>6 DEF B!SaveMakeDirectory, B!SaveStatus, B!Save, B!AfterBackup
<1>7. CASE B!SaveCopyFailure(o)
  BY <1>4, <1>7 DEF B!SaveCopyFailure, B!SaveStatus, B!Save
<1>8. CASE B!SaveCopies(o)
  BY <1>4, <1>8 DEF B!SaveCopies, B!SaveStatus, B!Save, B!AfterBackup
<1>9. CASE B!SaveCancel(o)
  BY <1>4, <1>9 DEF B!SaveCancel, B!SaveStatus, B!Save
<1>10. CASE B!Complete(o)
  <2> DEFINE m == B!SetCondition(bObj[o], "BackupCompleted", "True")
  <2>1. m \in B!Object
    BY <1>1, SharedAssumption, SharedSetCondition
  <2>2. bPc[o] = "complete" /\ B!Update(o, m, "idle")
    BY <1>10 DEF B!Complete
  <2> HIDE DEF m
  <2> QED
    BY <2>1, <2>2, WorkerUpdates
<1> QED
  BY <1>3, <1>5, <1>6, <1>7, <1>8, <1>9, <1>10

\* Users, the watches and the end of the process.
LEMMA WorldKeepsQuiet ==
  ASSUME SharedInv, quieted \cup spoiled \subseteq quieted' \cup spoiled',
         \/ \E o \in Operators : B!Resync(o)
         \/ \E o \in Operators, b \in Backups : B!Deliver(o, b)
         \/ \E b \in Backups : B!Create(b) \/ B!Delete(b)
  PROVE  SharedInv'
<1>1. /\ bApi \in [Backups -> B!Object]
      /\ bCache \in [Operators -> [Backups -> B!Object]]
  BY DEF SharedInv, SharedTypeOK
<1>2. CASE \E o \in Operators : B!Resync(o)
  BY <1>1, <1>2, WorkersRest DEF B!Resync, B!localVars
<1>3. ASSUME NEW o \in Operators, NEW b \in Backups, B!Deliver(o, b)
      PROVE  SharedInv'
  <2>1. bCache' \in [Operators -> [Backups -> B!Object]]
    BY <1>1, <1>3 DEF B!Deliver
  <2> QED
    BY <1>1, <1>3, <2>1, WorkersRest DEF B!Deliver, B!localVars
<1>4. ASSUME NEW b \in Backups, B!Create(b) \/ B!Delete(b)
      PROVE  SharedInv'
  <2>1. bApi[b].uid \in Nat /\ bApi[b].rv \in Nat
    BY <1>1 DEF B!Object
  <2>2. PICK l \in BOOLEAN, u \in Nat :
          bApi' = [bApi EXCEPT ![b] = B!Revision(b, l, u, B!NoConditions)]
    <3>1. CASE B!Create(b)
      <4>1. bApi[b].uid + 1 \in Nat
        BY <2>1
      <4> QED
        BY <3>1, <4>1, Zenon DEF B!Create
    <3>2. CASE B!Delete(b)
      BY <2>1, <3>2, Zenon DEF B!Delete
    <3> QED
      BY <1>4, <3>1, <3>2
  <2>3. B!Revision(b, l, u, B!NoConditions) \in B!Object
    BY <2>1, SharedVocabulary DEF B!Revision, B!Object
  <2>4. bApi' \in [Backups -> B!Object]
    BY <1>1, <2>2, <2>3
  <2> QED
    BY <1>1, <1>4, <2>4, WorkersRest DEF B!Create, B!Delete, B!localVars
<1> QED
  BY <1>2, <1>3, <1>4

LEMMA RestartReturns ==
  ASSUME SharedInv, OneOperator, NEW o \in Operators, B!Restart(o)
  PROVE  SharedInv'
<1>1. /\ bApi' \in [Backups -> B!Object]
      /\ bCache \in [Operators -> [Backups -> B!Object]] /\ bApi' = bApi
  BY DEF SharedInv, SharedTypeOK, B!Restart
<1>2. bCache' \in [Operators -> [Backups -> B!Object]]
  BY <1>1 DEF B!Restart
<1> QED
  BY <1>1, <1>2, WorkerReturns DEF B!Restart

LEMMA SharedSteps ==
  SharedInv /\ OneOperator /\ ~ JenkinsMayRefuse /\ [SharedNext]_sharedVars => SharedInv'
<1> SUFFICES ASSUME SharedInv, OneOperator, ~ JenkinsMayRefuse, [SharedNext]_sharedVars
             PROVE  SharedInv'
  OBVIOUS
<1>1. CASE BackupSteps
  <2> DEFINE Kept == quieted \cup spoiled \subseteq quieted' \cup spoiled'
  <2>1. spoiled' = spoiled \ quieted'
    BY <1>1 DEF BackupSteps
  <2>2. quieted' = quieted => Kept
    BY <2>1
  <2>3. ASSUME NEW o \in Operators,
               \/ \E missing \in B!Lookup : B!FetchRefs(o, missing)
               \/ B!QuietDown(o) \/ B!MakeDirectory(o) \/ B!CopyLocation(o)
               \/ B!CancelQuietDown(o)
               \/ \E b \in Backups : B!TakeBackup(o, b)
        PROVE  SharedInv'
    <3>1. B!QuietDown(o) => Kept
      BY <2>1 DEF B!QuietDown
    <3>2. B!CancelQuietDown(o) => bPc[o] = "cancel"
      BY DEF B!CancelQuietDown
    <3>3. ~ B!QuietDown(o) /\ ~ B!CancelQuietDown(o) => quieted' = quieted
      BY <2>3 DEF B!FetchRefs, B!MakeDirectory, B!CopyLocation, B!TakeBackup, B!podVars
    <3>4. bPc[o] # "cancel" => Kept
      BY <2>1, <2>2, <3>1, <3>2, <3>3
    <3> HIDE DEF Kept
    <3> QED
      BY <2>3, <3>4, ScriptsKeepQuiet DEF Kept
  <2>4. ASSUME NEW o \in Operators,
               \/ B!InitializeBackup(o) \/ B!SaveQuietDown(o) \/ B!SaveMakeDirectory(o)
               \/ B!SaveCopyFailure(o)  \/ B!SaveCopies(o)    \/ B!SaveCancel(o)
               \/ B!Complete(o)
        PROVE  SharedInv'
    <3>1. quieted' = quieted
      BY <2>4 DEF B!InitializeBackup, B!SaveQuietDown, B!SaveMakeDirectory, B!SaveCopyFailure,
           B!SaveCopies, B!SaveCancel, B!Complete, B!SaveStatus, B!podVars
    <3> QED
      BY <2>2, <2>4, <3>1, WritesKeepQuiet
  <2>5. ASSUME \/ \E o \in Operators : B!Resync(o) /\ B!World
               \/ \E o \in Operators, b \in Backups : B!Deliver(o, b) /\ B!World
               \/ \E b \in Backups : B!CreateBackup(b) \/ (B!Delete(b) /\ B!World)
        PROVE  SharedInv'
    <3>1. quieted' = quieted
      BY <2>5 DEF B!CreateBackup, B!World, B!podVars
    <3> QED
      BY <2>2, <2>5, <3>1, WorldKeepsQuiet DEF B!CreateBackup
  <2> QED
    BY <1>1, <2>3, <2>4, <2>5, Zenon DEF BackupSteps
<1>2. CASE RestoreSteps \/ UNCHANGED sharedVars
  BY <1>2, WorkersRest DEF RestoreSteps, sharedVars, backupVars, SharedInv, SharedTypeOK
<1>3. CASE JenkinsRestarts
  <2>1. quieted \cup spoiled \subseteq quieted' \cup spoiled'
    BY <1>3 DEF JenkinsRestarts
  <2> QED
    BY <1>3, <2>1, WorkersRest DEF JenkinsRestarts, backupVars, SharedInv, SharedTypeOK
<1>4. ASSUME NEW o \in Operators, BackupPanics(o)
      PROVE  SharedInv'
  <2>1. UNCHANGED <<quieted, spoiled>>
    BY <1>4 DEF BackupPanics, B!FetchRefs, B!podVars
  <2> QED
    BY <1>4, <2>1, ScriptsKeepQuiet DEF BackupPanics, B!Lookup
<1>5. ASSUME NEW o \in Operators, RestorePanics(o)
      PROVE  SharedInv'
  BY <1>5, RestartReturns DEF RestorePanics
<1> QED
  BY <1>1, <1>2, <1>3, <1>4, <1>5 DEF SharedNext

\* With one operator and a Jenkins that does as it is told, a copy under a
\* reported quiet-down is taken in quiet-down unless a restart ended it: the
\* steps of Reconcile (backup_controller.go:158-181) under panics of either
\* controller, lost updates and replaced objects never do.
THEOREM QuietStays ==
  ASSUME OneOperator, ~ JenkinsMayRefuse
  PROVE  SharedSpec => []QuietUnlessRestarted
<1>1. SharedInv /\ [SharedNext]_sharedVars => SharedInv'
  BY SharedSteps
<1>2. SharedInv => QuietUnlessRestarted
  BY DEF SharedInv, QuietedOrSpoiled, Reported, QuietUnlessRestarted
<1> QED
  BY <1>1, <1>2, FirstShared, PTL DEF SharedSpec

---------------------------------------------------------------------------
(* OperatorWorkers.                                                        *)

\* A client that was just made.
LEMMA FreshClient ==
  ASSUME NoClient
  PROVE  ClientInv'
<1>1. ClientTypeOK'
  BY DEF NoClient, ClientTypeOK, Outcomes
<1>2. AtRest' /\ AnswerIsOwn' /\ caller' = "idle"
  BY DEF NoClient, AtRest, AnswerIsOwn, Request
<1> QED
  BY <1>1, <1>2 DEF ClientInv

LEMMA FirstClient == ClientInit => ClientInv
<1> SUFFICES ASSUME ClientInit PROVE ClientInv
  OBVIOUS
<1>1. ClientTypeOK
  BY DEF ClientInit, ClientTypeOK, Outcomes
<1>2. AtRest /\ AnswerIsOwn /\ caller = "idle"
  BY DEF ClientInit, AtRest, AnswerIsOwn, Request
<1> QED
  BY <1>1, <1>2 DEF ClientInv

LEMMA StartKeepsInv ==
  ASSUME ClientInv, Start
  PROVE  ClientInv'
<1> USE DEF Request
<1>t. ClientTypeOK /\ AtRest /\ AnswerIsOwn
  BY DEF ClientInv, Start
<1>1. CASE /\ streams' = Append(streams, "streaming") /\ err' = NoError
           /\ caller' = "awaits" /\ UNCHANGED <<ended, answers>>
  <2>1. ClientTypeOK'
    BY <1>1, <1>t DEF ClientTypeOK, Outcomes
  <2>2. /\ Len(streams') = Len(streams) + 1 /\ streams'[Len(streams) + 1] = "streaming"
        /\ \A n \in 1..Len(streams) : streams'[n] = "gone"
    BY <1>1, <1>t DEF ClientTypeOK, AtRest
  <2>3. UnderWay'
    BY <1>1, <2>2, <1>t DEF UnderWay, AtRest, Start, ClientTypeOK
  <2> QED
    BY <1>1, <1>t, <2>1, <2>3 DEF ClientInv, AnswerIsOwn
<1>2. ASSUME NEW e \in Errors, streams' = Append(streams, "gone"),
             ended' = Append(ended, e), answers' = Append(answers, e),
             err' = e, caller' = caller
      PROVE  ClientInv'
  <2>1. ClientTypeOK'
    BY <1>2, <1>t DEF ClientTypeOK, Outcomes
  <2>2. AtRest'
    BY <1>2, <1>t DEF AtRest, ClientTypeOK, Start
  <2>3. AnswerIsOwn'
    BY <1>2, <1>t DEF AnswerIsOwn, AtRest, ClientTypeOK
  <2> QED
    BY <1>2, <2>1, <2>2, <2>3 DEF ClientInv, Start
<1> QED
  BY <1>1, <1>2 DEF Start

\* The steps while a command is under way.
LEMMA CallKeepsInv ==
  ASSUME ClientInv, Goroutine \/ Await \/ ReadErr
  PROVE  ClientInv'
<1> USE DEF Request
<1>t. ClientTypeOK /\ AnswerIsOwn
  BY DEF ClientInv
<1>b. ASSUME NEW n \in DOMAIN streams, streams[n] # "gone"
      PROVE  UnderWay /\ caller = "awaits" /\ n = Len(streams)
  <2>1. n \in 1..Len(streams) /\ Len(streams) \in Nat
    BY <1>t DEF ClientTypeOK
  <2>2. caller # "idle" /\ UnderWay
    BY <1>b, <2>1 DEF ClientInv, AtRest
  <2>3. n = Len(streams)
    BY <1>b, <2>1, <2>2 DEF UnderWay
  <2> QED
    BY <1>b, <1>t, <2>2, <2>3 DEF UnderWay, ClientTypeOK
<1>1. ASSUME NEW n \in DOMAIN streams, EndStream(n)
      PROVE  ClientInv'
  <2>1. UnderWay /\ caller = "awaits" /\ n = Len(streams) /\ streams[n] = "streaming"
    BY <1>1, <1>b DEF EndStream
  <2>2. PICK e \in Outcomes : ended' = Append(ended, e) /\ err' = e
    BY <1>1 DEF EndStream
  <2>3. /\ streams' = [streams EXCEPT ![n] = "ended"]
        /\ UNCHANGED <<execComplete, execErr, caller, answers>>
    BY <1>1 DEF EndStream
  <2>4. ClientTypeOK'
    BY <2>2, <2>3, <1>t DEF ClientTypeOK
  <2>5. UnderWay'
    BY <2>1, <2>2, <2>3, <1>t DEF UnderWay, ClientTypeOK
  <2>6. AnswerIsOwn'
    BY <2>1, <2>2, <2>3, <1>t DEF UnderWay, AnswerIsOwn, ClientTypeOK
  <2> QED
    BY <2>1, <2>3, <2>4, <2>5, <2>6 DEF ClientInv
<1>2. ASSUME NEW n \in DOMAIN streams, SendErr(n)
      PROVE  ClientInv'
  <2>1. UnderWay /\ caller = "awaits" /\ n = Len(streams) /\ streams[n] = "ended"
    BY <1>2, <1>b DEF SendErr
  <2>2. /\ execErr' = Append(execErr, err) /\ execErr = <<>> /\ err = ended[n]
        /\ streams' = [streams EXCEPT ![n] = "reported"]
        /\ UNCHANGED <<execComplete, err, caller, ended, answers>>
    BY <1>2, <2>1 DEF SendErr, UnderWay
  <2>3. ClientTypeOK'
    BY <2>2, <1>t DEF ClientTypeOK
  <2>4. UnderWay'
    BY <2>1, <2>2, <1>t DEF UnderWay, ClientTypeOK
  <2> QED
    BY <2>1, <2>2, <2>3, <2>4, <1>t DEF ClientInv, AnswerIsOwn
<1>3. ASSUME NEW n \in DOMAIN streams, SendComplete(n)
      PROVE  ClientInv'
  <2>1. UnderWay /\ caller = "awaits" /\ n = Len(streams) /\ streams[n] = "reported"
    BY <1>3, <1>b DEF SendComplete
  <2>2. /\ execComplete' = Append(execComplete, TRUE) /\ execComplete = <<>>
        /\ streams' = [streams EXCEPT ![n] = "gone"]
        /\ UNCHANGED <<execErr, err, caller, ended, answers>>
    BY <1>3, <2>1 DEF SendComplete, UnderWay
  <2>3. ClientTypeOK'
    BY <2>2, <1>t DEF ClientTypeOK
  <2>c. execComplete' = <<TRUE>>
    BY <2>2
  <2>4. UnderWay'
    <3>1. /\ streams'[n] = "gone" /\ Len(streams') = n
          /\ \A i \in 1..n - 1 : streams'[i] = "gone"
      BY <2>1, <2>2, <1>t DEF UnderWay, ClientTypeOK
    <3> QED
      BY <2>1, <2>2, <2>c, <3>1 DEF UnderWay
  <2> QED
    BY <2>1, <2>2, <2>3, <2>4, <1>t DEF ClientInv, AnswerIsOwn
<1>4. CASE Await
  <2>1. UnderWay /\ caller = "awaits" /\ execComplete = <<TRUE>>
        /\ streams[Len(streams)] = "gone"
    BY <1>4 DEF Await, ClientInv, UnderWay
  <2>2. execComplete' = <<>> /\ caller' = "reads"
        /\ UNCHANGED <<execErr, err, streams, ended, answers>>
    BY <1>4, <2>1 DEF Await
  <2>3. ClientTypeOK' /\ AnswerIsOwn'
    BY <2>2, <1>t DEF ClientTypeOK, AnswerIsOwn
  <2>4. UnderWay'
    BY <2>1, <2>2, <1>t DEF UnderWay, ClientTypeOK
  <2> QED
    BY <2>2, <2>3, <2>4 DEF ClientInv
<1>5. CASE ReadErr
  <2> DEFINE L == Len(streams)
  <2>1. UnderWay /\ caller = "reads" /\ streams[L] = "gone"
        /\ execErr = <<ended[L]>> /\ execComplete = <<>> /\ Len(ended) = L
    BY <1>5 DEF ReadErr, ClientInv, UnderWay
  <2>2. /\ execErr' = <<>> /\ err' = ended[L] /\ caller' = "idle"
        /\ answers' = Append(answers, ended[L])
        /\ UNCHANGED <<execComplete, streams, ended>>
    BY <1>5, <2>1 DEF ReadErr, Answer
  <2>3. L \in Nat /\ L > 0 /\ Len(answers) = L - 1 /\ ended[L] \in Outcomes
    BY <2>1, <1>t DEF UnderWay, ClientTypeOK
  <2>4. ClientTypeOK'
    BY <2>2, <2>3, <1>t DEF ClientTypeOK
  <2>5. AnswerIsOwn'
    BY <2>1, <2>2, <2>3, <1>t DEF AnswerIsOwn, ClientTypeOK
  <2>6. AtRest'
    BY <2>1, <2>2, <2>3, <1>t DEF AtRest, UnderWay, ClientTypeOK
  <2> QED
    BY <2>2, <2>4, <2>5, <2>6 DEF ClientInv
<1> QED
  BY <1>1, <1>2, <1>3, <1>4, <1>5 DEF Goroutine

LEMMA SameClient ==
  ASSUME ClientInv, UNCHANGED clientVars
  PROVE  ClientInv'
<1>1. ClientTypeOK'
  BY DEF ClientInv, ClientTypeOK, clientVars
<1>2. AnswerIsOwn'
  BY DEF ClientInv, AnswerIsOwn, clientVars
<1>3. caller = "idle" => AtRest'
  BY DEF ClientInv, AtRest, clientVars, Request
<1>4. caller # "idle" => UnderWay'
  BY DEF ClientInv, UnderWay, clientVars, Request
<1> QED
  BY <1>1, <1>2, <1>3, <1>4 DEF ClientInv, clientVars

\* What a command reports to the reconcile that ran it is how it ended, not what
\* an earlier command left in a channel (exec.go:125-141).
THEOREM AnswerSafe == WorkersSpec => []AnswerIsOwn
<1>1. WorkersInit => ClientInv
  BY FirstClient DEF WorkersInit
<1>2. ASSUME ClientInv, [WorkersNext]_workersVars
      PROVE  ClientInv'
  <2>1. CASE Command
    BY <1>2, <2>1, StartKeepsInv DEF Command
  <2>2. CASE Client \/ Streams
    BY <1>2, <2>2, CallKeepsInv DEF Client, Streams
  <2>3. CASE Done
    BY <2>3, FreshClient DEF Done
  <2>4. CASE Take \/ Notify \/ Others \/ Process
    BY <1>2, <2>4, SameClient DEF Take, Notify, Others, Process
  <2>5. ASSUME NEW p \in Processes, End(p)
        PROVE  ClientInv'
    BY <1>2, <2>5, FreshClient, SameClient DEF End
  <2>6. CASE UNCHANGED workersVars
    BY <1>2, <2>6, SameClient DEF workersVars
  <2> QED
    BY <1>2, <2>1, <2>2, <2>3, <2>4, <2>5, <2>6 DEF WorkersNext
<1>3. ClientInv => AnswerIsOwn
  BY DEF ClientInv
<1> QED
  BY <1>1, <1>2, <1>3, PTL DEF WorkersSpec

---------------------------------------------------------------------------
(* OperatorProcess.                                                        *)

LEMMA HeardSteps == HeardInv /\ [ProcessNext]_processVars => HeardInv'
<1> SUFFICES ASSUME HeardInv, [ProcessNext]_processVars PROVE HeardInv'
  OBVIOUS
<1> USE DEF HeardInv, At, Enter, Stages
<1>1. ASSUME NEW p \in Processes,
             Launch(p) \/ InitManager(p) \/ CheckFeatures(p) \/ SetupControllers(p) \/ Run(p)
      PROVE  HeardInv'
  <2>1. UNCHANGED <<listens, sending, listener>>
    BY <1>1 DEF Launch, InitManager, CheckFeatures, SetupControllers, Run, channel
  <2>2. PICK s \in {"flags", "features", "listen", "start", "running"} :
          /\ stage' = [stage EXCEPT ![p] = s]
          /\ stage[p] # "running"
          /\ s \in {"start", "running"} => stage[p] \in {"setup", "start"}
    BY <1>1 DEF Launch, InitManager, CheckFeatures, SetupControllers, Run
  <2> QED
    BY <2>1, <2>2
<1>2. ASSUME NEW p \in Processes, StartListener(p)
      PROVE  HeardInv'
  BY <1>2 DEF StartListener, GoListen, channel
<1>3. ASSUME NEW p \in Processes, ProcessEnds(p)
      PROVE  HeardInv'
  BY <1>3 DEF ProcessEnds
<1>4. ASSUME NEW p \in Processes, NEW c \in Controllers, Send(p, c)
      PROVE  HeardInv'
  BY <1>4 DEF Send, startup
<1>5. ASSUME NEW p \in Processes, NEW c \in Controllers, Receive(p, c)
      PROVE  HeardInv'
  <2>1. stage[p] = "running"
    BY <1>5 DEF Receive
  <2> QED
    BY <1>5, <2>1 DEF Receive, startup
<1>6. ASSUME NEW p \in Processes, Emit(p)
      PROVE  HeardInv'
  <2>1. stage[p] = "running"
    BY <1>6 DEF Emit
  <2> QED
    BY <1>6, <2>1 DEF Emit, startup
<1>7. CASE UNCHANGED processVars \/ \E f \in Features : Install(f)
  BY <1>7 DEF Install, processVars, startup, channel
<1> QED
  BY <1>1, <1>2, <1>3, <1>4, <1>5, <1>6, <1>7 DEF ProcessNext, Proceed, Startup

\* No controller of any process blocks in a send that nobody will ever receive:
\* main starts Listen (main.go:108) before the manager starts the controllers.
THEOREM AllAreHeard == ProcessSpec => []SendersAreHeard
<1>1. ProcessInit => HeardInv
  BY DEF ProcessInit, HeardInv, Stages, At
<1>2. HeardInv => SendersAreHeard
  BY DEF HeardInv, SendersAreHeard, At
<1> QED
  BY <1>1, <1>2, HeardSteps, PTL DEF ProcessSpec

=============================================================================
