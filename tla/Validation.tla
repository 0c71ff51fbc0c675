----------------------------- MODULE Validation -----------------------------
(***************************************************************************)
(* pkg/configuration/base/validate.go within the reconciles of the         *)
(* Jenkinses of one process: what a spec refers to is looked up in the     *)
(* caches, and the ConfigMaps with the default configuration and with the  *)
(* global proxy are created on the way.  The first one is created from a   *)
(* package variable, and a create writes its answer, resource version      *)
(* included, into the object it was given.  A failed validation is not     *)
(* retried (see JenkinsController), and nobody watches what is looked up.  *)
(***************************************************************************)
EXTENDS Naturals, FiniteSets

CONSTANTS
  Jenkinses,
  Space,       \* the namespace of each Jenkins
  Objects,     \* ConfigMaps, Secrets and claims of users
  Specs,       \* the specs users choose from
  GlobalProxies, \* the HTTP proxies a process may find when it starts
  Perishable,  \* objects that may be deleted
  MaxChanges,  \* bound: changes by users
  MaxFaults    \* bound: failing calls and crashes

Spaces    == {Space[j] : j \in Jenkinses}
Default(n) == <<"jenkins-default-configuration", n>>
Proxy(n)   == <<"jenkins-proxy-configuration", n>>
Stored    == Objects \cup {Default(n) : n \in Spaces} \cup {Proxy(n) : n \in Spaces}

\* wrong: one of the checks that look nothing up has a message.  backups: the
\* claims "<volume>-jenkins-backup" of spec.backupVolumes.
SpecType == [wrong : BOOLEAN, volumes : SUBSET [object : Objects, optional : BOOLEAN],
             needs : SUBSET Objects, default : BOOLEAN, proxy : BOOLEAN,
             backups : SUBSET Objects]

ASSUME ValidationAssumption ==
  /\ Jenkinses # {} /\ Specs # {} /\ Specs \subseteq SpecType
  /\ GlobalProxies \subseteq {"unset", "user:password@host:port", "host:port"}
  /\ Perishable \subseteq Stored
  /\ MaxChanges \in Nat /\ MaxFaults \in Nat

VARIABLES
  specs, store,              \* at the API server
  globalProxy,               \* that of the environment
  cachedSpecs, cached,       \* the informer caches
  stamped,                   \* the package variable has a resource version
  queue, events,             \* the work queue, events on their way to it
  pc, cur, held, left, messages, \* the worker and its locals
  deployed,                  \* the Jenkinses whose resources were created
  verdict,                   \* how the last reconcile of each Jenkins ended
  changes, faults,
  made                       \* history: what has ever existed

cache  == <<cachedSpecs, cached>>
worker == <<pc, cur, held, left, messages>>
ends   == <<deployed, verdict, events>>
server == <<specs, store, globalProxy, made>>
vars   == <<server, cache, stamped, queue, worker, ends, changes, faults>>

Put(o) == store' = store \cup {o} /\ made' = made \cup {o}
          /\ UNCHANGED <<specs, globalProxy>>

---------------------------------------------------------------------------
(* The worker.                                                             *)

Required_Optional(s) == {v.object : v \in {w \in s.volumes : w.optional}}  \* mutant
Required(s) == {v.object : v \in {w \in s.volumes : ~ w.optional}}

Dequeue(j) ==
  /\ pc = "idle" /\ j \in queue
  /\ queue' = queue \ {j}
  /\ cur' = j /\ held' = cachedSpecs[j]
  /\ left' = Required(cachedSpecs[j]) /\ messages' = cachedSpecs[j].wrong
  /\ pc' = "volumes"
  /\ UNCHANGED <<server, cache, stamped, ends, changes, faults>>

Goto(p, os) == pc' = p /\ left' = os /\ UNCHANGED <<cur, held>>
End == Goto("idle", {}) /\ messages' = FALSE

\* The error ends as Degraded in the status; only if that write is refused is
\* the Jenkins queued again.
Fail ==
  /\ End
  /\ queue' \in {queue, queue \cup {cur}}
  /\ verdict' = [verdict EXCEPT ![cur] = "failed"]
  /\ UNCHANGED <<deployed, events>>

CheckVolume(o) ==
  /\ pc = "volumes" /\ o \in left
  /\ Goto("volumes", left \ {o})
  /\ messages' = (messages \/ o \notin cached)
  /\ UNCHANGED <<server, cache, stamped, queue, ends, changes, faults>>

VolumesChecked ==
  /\ pc = "volumes" /\ left = {}
  /\ Goto("config", held.needs) /\ UNCHANGED messages
  /\ UNCHANGED <<server, cache, stamped, queue, ends, changes, faults>>

CheckConfig(o) ==
  /\ pc = "config" /\ o \in left
  /\ \/ /\ o \in cached
        /\ Goto("config", left \ {o})
        /\ UNCHANGED <<messages, queue, ends>>
     \/ /\ o \notin cached
        /\ Fail
  /\ UNCHANGED <<server, cache, stamped, changes, faults>>

ConfigChecked ==
  /\ pc = "config" /\ left = {}
  /\ Goto("default", {}) /\ UNCHANGED messages
  /\ UNCHANGED <<server, cache, stamped, queue, ends, changes, faults>>

\* defaultConfigMap with name and namespace set.
Template(j) == Default(Space[j])

\* The API server creates nothing that has a resource version.
Creatable(o) == ~ stamped /\ o \notin store

EnsureDefault ==
  /\ pc = "default"
  /\ \/ /\ ~ held.default \/ Default(Space[cur]) \in cached
        /\ Goto("proxy", {})
        /\ UNCHANGED <<server, stamped, queue, messages, ends, faults>>
     \/ /\ held.default /\ Default(Space[cur]) \notin cached
        /\ Creatable(Template(cur))
        /\ Put(Template(cur))
        /\ \/ /\ stamped' = TRUE
              /\ Goto("verdict", {})
              /\ UNCHANGED <<queue, messages, ends, faults>>
           \/ /\ faults < MaxFaults /\ faults' = faults + 1   \* no answer
              /\ Fail
              /\ UNCHANGED stamped
     \/ /\ held.default /\ Default(Space[cur]) \notin cached
        /\ ~ Creatable(Template(cur))
        /\ Fail
        /\ UNCHANGED <<server, stamped, faults>>
  /\ UNCHANGED <<cache, changes>>

\* The process ends and the next one lists what there is.
Restart ==
  /\ Goto("idle", {}) /\ messages' = FALSE
  /\ stamped' = FALSE
  /\ cachedSpecs' = specs /\ cached' = store
  /\ queue' = Jenkinses /\ events' = {}
  /\ UNCHANGED <<deployed, verdict>>

\* matches[0] of a proxy without user and password.
Parses_Never == FALSE                                             \* mutant
Parses == globalProxy = "user:password@host:port"

ProxyMissing == held.proxy /\ globalProxy # "unset" /\ Proxy(Space[cur]) \notin cached

\* The outcome of the create is only logged.
EnsureProxy ==
  /\ pc = "proxy"
  /\ \/ /\ ProxyMissing /\ Parses
        /\ Put(Proxy(Space[cur]))
        /\ Goto("verdict", {})
        /\ UNCHANGED <<cache, stamped, queue, messages, ends>>
     \/ /\ ProxyMissing /\ ~ Parses
        /\ Restart
        /\ UNCHANGED server
     \/ /\ ~ ProxyMissing
        /\ Goto("verdict", {})
        /\ UNCHANGED <<server, cache, stamped, queue, messages, ends>>
  /\ UNCHANGED <<changes, faults>>

\* Creations among the resources of a Jenkins, whose events bring it back.
Created_Unwatched(j) == {}                                        \* mutant
Created(j) == {j} \ deployed

\* Without messages the base configuration is created.
Conclude ==
  /\ pc = "verdict"
  /\ End
  /\ verdict' = [verdict EXCEPT ![cur] = IF messages THEN "rejected" ELSE "accepted"]
  /\ deployed' = IF messages THEN deployed ELSE deployed \cup {cur}
  /\ events'   = IF messages THEN events ELSE events \cup Created(cur)
  /\ UNCHANGED <<server, cache, stamped, queue, changes, faults>>

\* A lookup or a create fails; a failure about the proxy is ignored.
CallFails ==
  /\ faults < MaxFaults /\ faults' = faults + 1
  /\ \/ /\ pc \in {"volumes", "config", "default"}
        /\ Fail
     \/ /\ pc = "proxy"
        /\ Goto("verdict", {}) /\ UNCHANGED <<messages, queue, ends>>
  /\ UNCHANGED <<server, cache, stamped, changes>>

---------------------------------------------------------------------------
(* The others.                                                             *)

Crash ==
  /\ faults < MaxFaults /\ faults' = faults + 1
  /\ Restart
  /\ UNCHANGED <<server, changes>>

DeliverSpec(j) ==
  /\ cachedSpecs[j] # specs[j]
  /\ cachedSpecs' = [cachedSpecs EXCEPT ![j] = specs[j]]
  /\ queue' = queue \cup {j}
  /\ UNCHANGED <<server, cached, stamped, worker, ends, changes, faults>>

\* What was created without an owner belongs to no Jenkins.
DeliverObject(o) ==
  /\ (o \in cached) # (o \in store)
  /\ cached' = IF o \in store THEN cached \cup {o} ELSE cached \ {o}
  /\ UNCHANGED <<server, cachedSpecs, stamped, queue, worker, ends, changes, faults>>

DeliverCreation(j) ==
  /\ j \in events
  /\ events' = events \ {j} /\ queue' = queue \cup {j}
  /\ UNCHANGED <<server, cache, stamped, worker, deployed, verdict, changes, faults>>

Change == changes < MaxChanges /\ changes' = changes + 1

EditSpec(j) ==
  /\ Change
  /\ \E s \in Specs \ {specs[j]} : specs' = [specs EXCEPT ![j] = s]
  /\ UNCHANGED <<store, globalProxy, made, cache, stamped, queue, worker, ends, faults>>

CreateObject(o) ==
  /\ Change /\ o \notin store
  /\ Put(o)
  /\ UNCHANGED <<cache, stamped, queue, worker, ends, faults>>

DeleteObject(o) ==
  /\ Change /\ o \in store
  /\ store' = store \ {o}
  /\ UNCHANGED <<specs, globalProxy, made, cache, stamped, queue, worker, ends, faults>>

Init ==
  /\ specs \in [Jenkinses -> Specs] /\ cachedSpecs = specs
  /\ globalProxy \in GlobalProxies
  /\ store \in SUBSET Objects /\ cached = store /\ made = store
  /\ stamped = FALSE
  /\ queue = Jenkinses /\ events = {}
  /\ pc = "idle" /\ cur = (CHOOSE j \in Jenkinses : TRUE) /\ held = specs[cur]
  /\ left = {} /\ messages = FALSE
  /\ deployed = {} /\ verdict = [j \in Jenkinses |-> "none"]
  /\ changes = 0 /\ faults = 0

Work ==
  \/ VolumesChecked \/ ConfigChecked \/ EnsureDefault \/ EnsureProxy \/ Conclude
  \/ \E o \in Objects : CheckVolume(o) \/ CheckConfig(o)

Next ==
  \/ Work \/ CallFails \/ Crash
  \/ \E j \in Jenkinses :
       Dequeue(j) \/ DeliverSpec(j) \/ DeliverCreation(j) \/ EditSpec(j)
  \/ \E o \in Stored : DeliverObject(o)
  \/ \E o \in Objects : CreateObject(o)
  \/ \E o \in Perishable : DeleteObject(o)

Spec == Init /\ [][Next]_vars

\* The worker runs, the queue hands out, the watches deliver.  The replays of
\* the informers are filtered.
Fairness ==
  /\ WF_vars(Work)
  /\ \A j \in Jenkinses : SF_vars(Dequeue(j)) /\ WF_vars(DeliverSpec(j))
                            /\ WF_vars(DeliverCreation(j))
  /\ \A o \in Stored : WF_vars(DeliverObject(o))

FairSpec == Spec /\ Fairness

---------------------------------------------------------------------------
(* Properties.                                                             *)

Verdicts == {"none", "failed", "rejected", "accepted"}

TypeOK ==
  /\ specs \in [Jenkinses -> Specs] /\ cachedSpecs \in [Jenkinses -> Specs]
  /\ store \subseteq made /\ cached \subseteq made /\ made \subseteq Stored
  /\ stamped \in BOOLEAN /\ globalProxy \in GlobalProxies
  /\ queue \subseteq Jenkinses /\ events \subseteq deployed
  /\ pc \in {"idle", "volumes", "config", "default", "proxy", "verdict"}
  /\ cur \in Jenkinses /\ held \in Specs
  /\ left \subseteq Required(held) \cup held.needs /\ messages \in BOOLEAN
  /\ deployed \subseteq Jenkinses /\ verdict \in [Jenkinses -> Verdicts]
  /\ changes \in 0..MaxChanges /\ faults \in 0..MaxFaults

\* What a validation ought to have seen of a spec: its volumes, unless they are
\* optional, its configuration as code and the default configuration.
LookedUp(s, n) ==
  {v.object : v \in {w \in s.volumes : ~ w.optional}} \cup s.needs
    \cup (IF s.default THEN {Default(n)} ELSE {})

\* What the pod of a Jenkins with spec s mounts, and waits for when it is not
\* there, of objects that are not among its own resources.
Mounted(s, n) == LookedUp(s, n) \cup s.backups

\* A validation ends without messages only after all that the pod mounts, which
\* waits for it for ever otherwise, has existed (validate.go:282-357, 573-609),
\* the default configuration included that the validation makes itself - all
\* but the claims of backup volumes (deployment.go:50-60, pod.go:169-175),
\* which validate.go looks up only where spec.master.volumes has them too.
AcceptedHadAll ==
  pc = "verdict" /\ ~ messages =>
    Mounted(held, Space[cur]) \ made \subseteq held.backups \ LookedUp(held, Space[cur])

\* docs/backupandrestore.adoc:33, "To enable backup for your Jenkins instance,
\* reference your backupvolumes in the Jenkins CR": a validation without
\* messages has seen the claims of these too.
MountedHadAll ==
  pc = "verdict" /\ ~ messages => Mounted(held, Space[cur]) \subseteq made

\* Why: what the worker has checked has existed, in each phase that much more,
\* unless it already has a message; the caches show nothing that never did.
ValidationInv ==
  /\ TypeOK
  /\ pc = "volumes" => messages \/ Required(held) \ left \subseteq made
  /\ pc = "config" => held.needs \ left \subseteq made
  /\ pc \in {"config", "default", "proxy", "verdict"} =>
       messages \/ Required(held) \subseteq made
  /\ pc \in {"default", "proxy", "verdict"} => held.needs \subseteq made
  /\ pc \in {"proxy", "verdict"} /\ held.default => Default(Space[cur]) \in made

\* Every Jenkins gets a verdict, whichever objects are missing, refused or
\* deleted on the way, unless a proxy without credentials ends each process.
EveryoneJudged ==
  globalProxy # "host:port" => \A j \in Jenkinses : <>(verdict[j] # "none")

\* jenkins_types.go:70-72, "if a global proxy is set in openshift, the operator
\* will automatically configure the jenkins proxy": although the validation
\* that creates the default configuration skips the proxy (validate.go:608), a
\* Jenkins that stays accepted gets one with credentials in the end, unless a
\* call fails.
ProxyFollows ==
  \A j \in Jenkinses :
    /\ globalProxy = "user:password@host:port" /\ [](faults = 0)
    /\ <>[](specs[j].proxy /\ verdict[j] = "accepted")
    => <>(Proxy(Space[j]) \in store)

\* validate.go:600, "Default config is enabled but Default ConfigMap '%s' is
\* not found, creating Default ConfigMap".
DefaultIsCreated ==
  \A j \in Jenkinses :
    [](specs[j].default) => <>(Default(Space[j]) \in made)

=============================================================================
