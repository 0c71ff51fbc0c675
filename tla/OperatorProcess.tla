--------------------------- MODULE OperatorProcess ---------------------------
(***************************************************************************)
(* main.go and pkg/notifications/sender.go: operator processes from their  *)
(* flags over the steps of main to their controllers, and in each process  *)
(* the unbuffered channel that Jenkins, Backup and Restore send their      *)
(* notifications into and that one goroutine reads.  A process that ends   *)
(* may be launched again.                                                  *)
(***************************************************************************)
EXTENDS Naturals, FiniteSets

CONSTANTS
  Processes,
  Controllers, \* the workers that share the channel
  Features,    \* those looked at, out of AllFeatures
  Nobody,
  EnableLeaderElection, \* the flag --enable-leader-election as given
  MaxLaunches  \* bound: processes launched, crashed, APIs installed

AllFeatures == {"registry", "routes", "monitors", "proxy"}

ASSUME ProcessAssumption ==
  /\ Features \subseteq AllFeatures
  /\ Nobody \notin Processes \cup Controllers
  /\ EnableLeaderElection \in BOOLEAN /\ MaxLaunches \in Nat

VARIABLES
  stage,    \* where main is, by process: "down" or one of Stages
  elects,   \* whether its manager was made with leader election
  found,    \* the APIs its package variables say are there
  offered,  \* the APIs the cluster has
  lease,    \* the holder of the lease 9cf053ac.jenkins.io
  listens,  \* whether the goroutine of Listen was started
  sending,  \* the controllers blocked in a send, by process
  listener, \* whose event Listen has in hand, by process
  launches

startup == <<stage, elects, found>>
channel == <<sending, listener>>
outside == <<offered, launches>>
processVars == <<startup, listens, lease, channel, outside>>

\* What main does next, in its order.
Stages == {"flags", "features", "listen", "setup", "start", "running"}

At(p, s)   == stage[p] = s
Enter(p, s) == stage' = [stage EXCEPT ![p] = s]

Launch(p) ==
  /\ At(p, "down") /\ launches < MaxLaunches
  /\ Enter(p, "flags")
  /\ launches' = launches + 1
  /\ UNCHANGED <<elects, found, offered, listens, lease, channel>>

\* parseFlags binds the flags to its own parameters: main keeps the zero
\* values of its variables.
Parsed(flag) == FALSE

InitManager(p) ==
  /\ At(p, "flags") /\ Enter(p, "features")
  /\ elects' = [elects EXCEPT ![p] = Parsed(EnableLeaderElection)]
  /\ UNCHANGED <<found, listens, lease, channel, outside>>

\* What a check may answer: an error is taken for "not available".
Answers(f) == {offered \cap {f}, {}}

\* The namespace of the registry, and a Service with an address in it.
IsImageRegistryAvailable == Answers("registry")
IsRouteAPIAvailable      == Answers("routes")
IsPrometheusAPIAvailable == Answers("monitors")

\* QueryProxyConfig: the API may be there and the proxy not be known.
ProxyKnown == Answers("proxy")

\* The answers are kept in package variables; none of the checks is repeated.
CheckFeatures(p) ==
  /\ At(p, "features") /\ Enter(p, "listen")
  /\ \E a \in IsImageRegistryAvailable, b \in IsRouteAPIAvailable,
        c \in IsPrometheusAPIAvailable, d \in ProxyKnown :
       found' = [found EXCEPT ![p] = a \cup b \cup c \cup d]
  /\ UNCHANGED <<elects, listens, lease, channel, outside>>

GoListen(p) == listens' = [listens EXCEPT ![p] = TRUE]

StartListener(p) ==
  /\ At(p, "listen") /\ Enter(p, "setup")
  /\ GoListen(p)
  /\ UNCHANGED <<elects, found, lease, channel, outside>>

SetupControllers(p) ==
  /\ At(p, "setup") /\ Enter(p, "start")
  /\ UNCHANGED <<elects, found, listens, lease, channel, outside>>

\* The manager starts the controllers, at once or when it has the lease.
Run(p) ==
  /\ At(p, "start") /\ Enter(p, "running")
  /\ elects[p] => lease = Nobody
  /\ lease' = IF elects[p] THEN p ELSE lease
  /\ UNCHANGED <<elects, found, listens, channel, outside>>

Startup(p) == InitManager(p) \/ CheckFeatures(p) \/ StartListener(p)
                \/ SetupControllers(p) \/ Run(p)

\* A call of main fails, a goroutine panics, the pod is evicted: with the
\* process its variables, its channel and its listener are gone.
ProcessEnds(p) ==
  /\ ~ At(p, "down") /\ launches < MaxLaunches
  /\ Enter(p, "down")
  /\ elects' = [elects EXCEPT ![p] = FALSE]
  /\ found' = [found EXCEPT ![p] = {}]
  /\ listens' = [listens EXCEPT ![p] = FALSE]
  /\ sending' = [sending EXCEPT ![p] = {}]
  /\ listener' = [listener EXCEPT ![p] = Nobody]
  /\ lease' = IF lease = p THEN Nobody ELSE lease
  /\ UNCHANGED outside

\* A reconcile of the controller sends: it blocks until Listen receives.
Send(p, c) ==
  /\ At(p, "running") /\ c \notin sending[p]
  /\ sending' = [sending EXCEPT ![p] = @ \cup {c}]
  /\ UNCHANGED <<startup, listens, lease, listener, outside>>

Receive(p, c) ==
  /\ listens[p] /\ c \in sending[p] /\ listener[p] = Nobody
  /\ sending' = [sending EXCEPT ![p] = @ \ {c}]
  /\ listener' = [listener EXCEPT ![p] = c]
  /\ UNCHANGED <<startup, listens, lease, outside>>

\* What Listen has in hand once the event is emitted: it ranges on.
Emitted(c) == Nobody

Emit(p) ==
  /\ listener[p] # Nobody
  /\ listener' = [listener EXCEPT ![p] = Emitted(@)]
  /\ UNCHANGED <<startup, listens, lease, sending, outside>>

\* The cluster gets another API.
Install(f) ==
  /\ f \notin offered /\ launches < MaxLaunches
  /\ offered' = offered \cup {f} /\ launches' = launches + 1
  /\ UNCHANGED <<startup, listens, lease, channel>>

ProcessInit ==
  /\ stage = [p \in Processes |-> "down"]
  /\ elects = [p \in Processes |-> FALSE]
  /\ found = [p \in Processes |-> {}]
  /\ offered \in SUBSET Features
  /\ listens = [p \in Processes |-> FALSE]
  /\ lease = Nobody
  /\ sending = [p \in Processes |-> {}]
  /\ listener = [p \in Processes |-> Nobody]
  /\ launches = 0

\* All but the sends, which are steps of the controllers.
Proceed ==
  \/ \E p \in Processes : Launch(p) \/ Startup(p) \/ Emit(p)
  \/ \E p \in Processes, c \in Controllers : Receive(p, c)
  \/ \E f \in Features : Install(f)

ProcessNext ==
  \/ Proceed
  \/ \E p \in Processes : ProcessEnds(p) \/ \E c \in Controllers : Send(p, c)

\* Goroutines are scheduled; the senders blocked on a channel are served in
\* the order they came.
ProcessFairness ==
  \A p \in Processes :
    /\ WF_processVars(Startup(p)) /\ WF_processVars(Emit(p))
    /\ \A c \in Controllers : SF_processVars(Receive(p, c))

ProcessSpec == ProcessInit /\ [][ProcessNext]_processVars /\ ProcessFairness

---------------------------------------------------------------------------
(* Properties.                                                             *)

\* With --enable-leader-election at most one process has active controllers
\* (the flag's help text, main.go:173-174).
OneActive ==
  EnableLeaderElection =>
    Cardinality({p \in Processes : At(p, "running")}) <= 1

\* Whoever blocks in a send has a listener in its process, which it can wait for
\* (main.go:108 starts Listen before the manager, and nothing else ends it): in a
\* process that runs its controllers, and in one that sends, Listen was started.
SendersAreHeard ==
  \A p \in Processes :
    At(p, "running") \/ sending[p] # {} \/ listener[p] # Nobody => listens[p]

\* Why: no process gets past its listener without starting it, and only one that
\* runs has anything on its channel.
HeardInv ==
  /\ stage \in [Processes -> {"down"} \cup Stages]
  /\ listens \in [Processes -> BOOLEAN]
  /\ DOMAIN sending = Processes /\ DOMAIN listener = Processes
  /\ \A p \in Processes :
       /\ stage[p] \in {"setup", "start", "running"} => listens[p]
       /\ ~ At(p, "running") => sending[p] = {} /\ listener[p] = Nobody

\* What a process takes for available is available, and the other way round
\* ("error, API not available" and "API Exists", resources/route.go:44-48).
\* The code does not keep the latter (README, section 4).
FeaturesAreReal ==
  \A p \in Processes : At(p, "running") => found[p] = offered

=============================================================================
