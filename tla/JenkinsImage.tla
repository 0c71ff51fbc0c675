---------------------------- MODULE JenkinsImage ----------------------------
(***************************************************************************)
(* controllers/jenkinsimage_controller.go: Reconcile creates the ConfigMap *)
(* of the Dockerfile, then the builder pod, and once both are there starts *)
(* a goroutine per reconcile.  The goroutine keeps the copies of the pod   *)
(* and of the JenkinsImage it was started with, polls the pod by name      *)
(* until it has succeeded, and records the image named in its copy.        *)
(* One JenkinsImage; it is not deleted.                                    *)
(***************************************************************************)
EXTENDS Naturals, Sequences

CONSTANTS
  Images,     \* what a builder pod may write to its termination log
  Slots,      \* bound: goroutines that wait at a time
  MaxPods,    \* bound: builder pods in a run
  MaxFaults,  \* bound: crashes, lost replies and foreign writes
  None

ASSUME ImageAssumption ==
  /\ MaxPods \in Nat /\ MaxFaults \in Nat
  /\ None \notin Images /\ None \notin Slots

VARIABLES
  image,     \* the JenkinsImage at the API server: version and builds
  file, pod, \* the ConfigMap and the builder pod at the API server
  cached,    \* the informer caches of the three
  queued,    \* the JenkinsImage is in the work queue
  waiters,   \* the goroutines, by slot
  faults,
  built,     \* history: images of builder pods that succeeded
  outlived   \* history: a goroutine recorded an image of a pod already gone

imageVars == <<image, file, pod, cached, queued, waiters, faults, built, outlived>>

\* A pod's container has no status before the kubelet reports ("pending").
Phase == {"none", "pending", "waiting", "running", "succeeded", "failed"}
NoPod == [id |-> 0, phase |-> "none", message |-> None]
Reported   == Phase \ {"none", "pending"}
Terminated_Reported == Reported      \* mutant
Terminated == {"succeeded", "failed"}

Nobody == [pod |-> NoPod, image |-> [rv |-> 0, builds |-> <<>>]]

---------------------------------------------------------------------------

Missing(p) == p.phase = "none"

\* A goroutine starts with copies of the pod and of the JenkinsImage.  One
\* with the copies of another adds nothing: its write would be refused.
Spawn ==
  LET w == [pod |-> cached.pod, image |-> cached.image] IN
  IF \E s \in Slots : waiters[s] = w
  THEN UNCHANGED waiters
  ELSE \E s \in Slots : /\ waiters[s] = Nobody
                        /\ waiters' = [waiters EXCEPT ![s] = w]

\* Create what the cache does not show; a create that finds the object in
\* place is an error, and the JenkinsImage is queued again.
Reconcile ==
  /\ queued
  /\ \/ /\ ~ cached.file
        /\ file' = TRUE
        /\ queued' = file
        /\ UNCHANGED <<pod, waiters>>
     \/ /\ cached.file /\ Missing(cached.pod)
        /\ pod' = IF pod.phase = "none"
                  THEN [id |-> pod.id + 1, phase |-> "pending", message |-> None]
                  ELSE pod
        /\ queued' = (pod.phase # "none")
        /\ UNCHANGED <<file, waiters>>
     \/ /\ cached.file /\ ~ Missing(cached.pod)
        /\ Spawn
        /\ queued' = FALSE
        /\ UNCHANGED <<file, pod>>
  /\ UNCHANGED <<image, cached, faults, built, outlived>>

\* The process ends: goroutines and queue are lost; the next one lists.
ImageRestart ==
  /\ waiters' = [s \in Slots |-> Nobody]
  /\ cached' = [image |-> image', file |-> file', pod |-> pod']
  /\ queued' = TRUE

\* A goroutine returns, or hangs for ever on the channel main.go left nil.
Ends(s) ==
  /\ waiters' = [waiters EXCEPT ![s] = Nobody]
  /\ UNCHANGED <<cached, queued>>

Contains_Never(builds, i) == FALSE   \* mutant
Contains_Inverted(builds, i) == \A n \in DOMAIN builds : builds[n] # i  \* mutant
Contains(builds, i) == \E n \in DOMAIN builds : builds[n] = i

ImageAccepts_AnyVersion(w) == TRUE        \* mutant
ImageAccepts(w) == w.image.rv = image.rv

\* The status the goroutine writes: the builds it knew and the new one.
Recorded(w) == [rv |-> image.rv + 1, builds |-> Append(w.image.builds, w.pod.message)]

\* The pod has succeeded.  A copy without container status, and a write that
\* succeeded, both lead to err.Error() on a nil error and end the process.
Succeeded(s) ==
  LET w == waiters[s] IN
  /\ UNCHANGED <<file, pod, built>>
  /\ w # Nobody /\ cached.pod.phase = "succeeded"
  /\ \/ /\ w.pod.phase \notin Reported
        /\ UNCHANGED <<image, faults, outlived>>
        /\ ImageRestart
     \/ /\ w.pod.phase \in Reported
        /\ \/ w.pod.phase \notin Terminated
           \/ Contains(w.image.builds, w.pod.message)
        /\ Ends(s)
        /\ UNCHANGED <<image, faults, outlived>>
     \/ /\ w.pod.phase \in Terminated
        /\ ~ Contains(w.image.builds, w.pod.message)
        /\ \/ /\ ImageAccepts(w)
              /\ image' = Recorded(w)
              /\ outlived' = (outlived \/ w.pod.id # pod.id)
              /\ ImageRestart
              /\ UNCHANGED faults
           \/ /\ ~ ImageAccepts(w)
              /\ Ends(s)
              /\ UNCHANGED <<image, faults, outlived>>
           \/ /\ faults < MaxFaults
              /\ faults' = faults + 1
              /\ Ends(s)
              /\ \/ UNCHANGED <<image, outlived>>
                 \/ /\ ImageAccepts(w)
                    /\ image' = Recorded(w)
                    /\ outlived' = (outlived \/ w.pod.id # pod.id)

\* The poll does not find the pod: the error is to be notified.
PodNotFound(s) ==
  /\ waiters[s] # Nobody /\ cached.pod.phase = "none"
  /\ Ends(s)
  /\ UNCHANGED <<image, file, pod, faults, built, outlived>>

---------------------------------------------------------------------------
(* The cluster.                                                            *)

\* The kubelet starts the container and reports how it ended.
PodSteps ==
  /\ \/ pod.phase = "pending" /\ pod' = [pod EXCEPT !.phase = "waiting"]
     \/ pod.phase \in {"pending", "waiting"} /\ pod' = [pod EXCEPT !.phase = "running"]
     \/ /\ pod.phase = "running"
        /\ \E i \in Images : pod' = [pod EXCEPT !.phase = "succeeded", !.message = i]
     \/ /\ pod.phase = "running"
        /\ \E i \in Images \cup {None} :
             pod' = [pod EXCEPT !.phase = "failed", !.message = i]
  /\ built' = IF pod'.phase = "succeeded" THEN built \cup {pod'.message} ELSE built
  /\ UNCHANGED <<image, file, cached, queued, waiters, faults, outlived>>

\* Someone deletes the pod; the next one has the same name.
DeletePod ==
  /\ pod.phase # "none" /\ pod.id < MaxPods
  /\ pod' = [pod EXCEPT !.phase = "none", !.message = None]
  /\ UNCHANGED <<image, file, cached, queued, waiters, faults, built, outlived>>

DeleteFile ==
  /\ file /\ faults < MaxFaults
  /\ faults' = faults + 1
  /\ file' = FALSE
  /\ UNCHANGED <<image, pod, cached, queued, waiters, built, outlived>>

Touch ==
  /\ faults < MaxFaults
  /\ faults' = faults + 1
  /\ image' = [image EXCEPT !.rv = @ + 1]
  /\ UNCHANGED <<file, pod, cached, queued, waiters, built, outlived>>

\* Watches of the three kinds; each event enqueues the JenkinsImage.
DeliverImage ==
  /\ \/ cached.image # image /\ cached' = [cached EXCEPT !.image = image]
     \/ cached.file # file /\ cached' = [cached EXCEPT !.file = file]
     \/ cached.pod # pod /\ cached' = [cached EXCEPT !.pod = pod]
  /\ queued' = TRUE
  /\ UNCHANGED <<image, file, pod, waiters, faults, built, outlived>>

Resync ==
  /\ queued' = TRUE
  /\ UNCHANGED <<image, file, pod, cached, waiters, faults, built, outlived>>

ImageCrash ==
  /\ faults < MaxFaults
  /\ faults' = faults + 1
  /\ UNCHANGED <<image, file, pod, built, outlived>>
  /\ ImageRestart

ImageInit ==
  /\ image    = [rv |-> 1, builds |-> <<>>]
  /\ file     = FALSE
  /\ pod      = NoPod
  /\ cached   = [image |-> image, file |-> FALSE, pod |-> NoPod]
  /\ queued   = TRUE
  /\ waiters  = [s \in Slots |-> Nobody]
  /\ faults   = 0
  /\ built    = {}
  /\ outlived = FALSE

ImageNext ==
  \/ Reconcile \/ DeliverImage \/ Resync \/ ImageCrash
  \/ \E s \in Slots : Succeeded(s) \/ PodNotFound(s)
  \/ PodSteps \/ DeletePod \/ DeleteFile \/ Touch

ImageSpec == ImageInit /\ [][ImageNext]_imageVars

\* The worker and the goroutines run, watches deliver and the resync period
\* passes; neither the kubelet nor a user owes a step.
ImageFairness ==
  /\ WF_imageVars(Reconcile) /\ WF_imageVars(DeliverImage) /\ WF_imageVars(Resync)
  /\ \A s \in Slots : WF_imageVars(Succeeded(s)) /\ WF_imageVars(PodNotFound(s))

ImageFairSpec == ImageSpec /\ ImageFairness

---------------------------------------------------------------------------
(* Properties.                                                             *)

PodType   == [id : Nat, phase : Phase, message : Images \cup {None}]
ImageType == [rv : Nat, builds : Seq(Images \cup {None})]

ImageTypeOK ==
  /\ image  \in ImageType
  /\ file   \in BOOLEAN
  /\ pod    \in PodType
  /\ cached \in [image : ImageType, file : BOOLEAN, pod : PodType]
  /\ queued \in BOOLEAN
  /\ waiters \in [Slots -> [pod : PodType, image : ImageType]]
  /\ faults \in 0..MaxFaults
  /\ built \subseteq Images /\ outlived \in BOOLEAN

\* Every copy is one of the stored JenkinsImage, and of its current builds if
\* it has the current version.
Behind(copy) ==
  copy.rv <= image.rv /\ (copy.rv = image.rv => copy.builds = image.builds)

\* The builder pods, and copies of them, that have terminated differ only if
\* they are different ones; goroutines hold no newer one than the cache.
Ended(p)    == p.phase \in Terminated
SameEnd(p, q) ==
  Ended(p) /\ Ended(q) /\ p.id = q.id => p.phase = q.phase /\ p.message = q.message
Outcome(p) ==
  /\ p.id <= pod.id /\ SameEnd(p, cached.pod) /\ SameEnd(p, pod)
  /\ Ended(p) /\ p.id = pod.id => pod.phase = "none" \/ Ended(pod)
  /\ p.phase = "succeeded" => p.message \in built

\* Each build is recorded once, and in the end (jenkinsimage_controller.go:
\* 131-161): the goroutines of many reconciles append to copies of the list,
\* and only contains and the version of the write keep them apart.
RecordedOnce ==
  \A m, n \in DOMAIN image.builds : image.builds[m] = image.builds[n] => m = n

\* No goroutine takes back what another one recorded (:145-149).
BuildsOnlyGrow ==
  [][\/ image'.builds = image.builds
     \/ \E i \in Images \cup {None} : image'.builds = Append(image.builds, i)]_imageVars

\* A recorded image is one that a builder pod built and reported with
\* success, unless a goroutine outlived its pod and took the success of the
\* next pod of that name for its own (:132, resources/pod.go:573).
BuildsGenuine ==
  \/ \A n \in DOMAIN image.builds : image.builds[n] \in built
  \/ outlived

\* Why: what goroutines hold is no newer than the cache, nor the cache than the
\* API server.
ImageInv ==
  /\ ImageTypeOK /\ RecordedOnce /\ BuildsGenuine
  /\ image.rv > 0 /\ Behind(cached.image)
  /\ Outcome(pod) /\ Outcome(cached.pod)
  /\ \A s \in Slots :
       /\ Behind(waiters[s].image)
       /\ Outcome(waiters[s].pod) /\ waiters[s].pod.id <= cached.pod.id

\* A build that succeeded is recorded (:131-161), although nearly every
\* goroutine that gets that far ends the process: the pod's last event
\* starts one whose copy shows how it terminated.
SuccessIsRecorded ==
  pod.phase = "succeeded" ~>
    \/ pod.phase # "succeeded"
    \/ \E n \in DOMAIN image.builds : image.builds[n] = pod.message

\* resources/pod.go:595 of WaitForPodIsCompleted, "Poll up to timeout seconds
\* for pod": every goroutine gets an answer.
WaitsEnd ==
  \A s \in Slots : (waiters[s] # Nobody) ~> (waiters[s] = Nobody)

=============================================================================
