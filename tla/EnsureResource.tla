--------------------------- MODULE EnsureResource ---------------------------
(***************************************************************************)
(* How pkg/configuration/base makes sure of one resource of a Jenkins, in  *)
(* the styles its functions have: what they read from the informer cache,  *)
(* whether they write without a resource version or from the copy they     *)
(* read, and which answers of the API server they take for success.        *)
(***************************************************************************)
EXTENDS Naturals, Sequences

CONSTANTS
  Styles,    \* those looked at, out of AllStyles
  Wanted,    \* what specs ask of the resource
  Labelled,  \* those of them that ask for labels (Service) or annotations
             \* (account) on top of what the others ask for
  Malformed, \* those of them whose volumeSize is no quantity
  Tampered,  \* what users make of it by hand,
  Bare,      \* with the parts missing that the code takes for granted
  MaxLag,    \* bound: the versions a cache is behind when a reconcile begins
  MaxMishaps \* bound: users' changes, failing calls, crashes

AllStyles == {"claim", "credentials", "configmap", "account", "service",
              "monitor", "route", "deployment"}

\* Passwords are numbers.
ASSUME EnsureAssumption == Styles \subseteq AllStyles /\ Bare \notin Nat

VARIABLES
  style,   \* of the resource; it never changes
  wanted,  \* what the spec asks for now
  log,     \* the versions of the resource at the API server, the last is it
  seen,    \* the version the informer cache has
  pc, desired, held, mixed, tries,  \* the worker and its local variables
  result,  \* of the last reconcile: "none", "nil" or "error"
  edits, mishaps

local  == <<desired, mixed, tries>>
worker == <<pc, held, local, result>>
server == <<log, seen>>
world  == <<style, wanted, edits>>
vars   == <<world, server, worker, mishaps>>

\* own is what the operator writes, foreign what others keep in the object.
\* stray: the selector of a Service has labels no pod has.
Gone == [there |-> FALSE, own |-> Bare, stray |-> FALSE, foreign |-> 0]
Object(own, stray, foreign) ==
  [there |-> TRUE, own |-> own, stray |-> stray, foreign |-> foreign]

Stored == log[Len(log)]
Cached == log[seen]

---------------------------------------------------------------------------
(* The API server.                                                         *)

\* A write of what is there makes no version.
Write(o) == log' = IF o = Stored THEN log ELSE Append(log, o)

Accepts_AnyVersion(version) == Stored.there                      \* mutant
Accepts(version) == version = Len(log) /\ Stored.there

Mishap == mishaps < MaxMishaps /\ mishaps' = mishaps + 1

\* The watch hands over the versions in order, and may skip some.
Deliver ==
  /\ seen < Len(log) /\ seen' \in seen + 1 .. Len(log)
  /\ UNCHANGED <<world, log, worker, mishaps>>

---------------------------------------------------------------------------
(* The worker.                                                             *)

Goto(p)     == pc' = p /\ UNCHANGED <<held, result>>
Return(r)   == pc' = "idle" /\ result' = r /\ UNCHANGED held
UpdateOf(v) == pc' = "update" /\ held' = v /\ UNCHANGED result

\* The ones that create first and look only if there is one.
CreatesFirst == {"configmap", "monitor"}

\* mixed: the labels every resource of this reconcile starts from have those
\* of a Service in them (see Create), which may be the other Service's.
Begin ==
  /\ pc = "idle" /\ Len(log) - seen <= MaxLag
  /\ pc' = IF style \in CreatesFirst THEN "create" ELSE "get"
  /\ desired' = wanted /\ held' = seen /\ tries' = 0 /\ result' = "none"
  /\ \/ mixed' = FALSE /\ UNCHANGED mishaps
     \/ style = "service" /\ mixed' = TRUE /\ Mishap
  /\ UNCHANGED <<world, server>>

\* A Secret with user and password is left alone.
Complete(o) == o.own # Bare

\* The ones whose updates add to a map and take nothing out of it.
Adding == {"account", "service"}

\* compareMap: what is asked for is among what is there.
Covers(own, asked) ==
  own = asked \/ (style \in Adding /\ own \in Labelled /\ asked \notin Labelled)

Same_Swapped(o) == Covers(o.own, desired) \/ o.own = Bare         \* mutant
Same(o) == Covers(o.own, desired)

\* The first look, and that of the retries of the ServiceMonitor.
Get ==
  /\ pc = "get"
  /\ \/ /\ ~ Cached.there
        /\ IF style = "monitor" THEN Return("nil") ELSE Goto("create")
     \/ /\ Cached.there
        /\ CASE style = "credentials" ->
                  IF Complete(Cached) THEN Return("nil") ELSE Goto("overwrite")
             [] style = "account" ->
                  IF Same(Cached) THEN Return("nil") ELSE UpdateOf(seen)
             [] style \in {"claim", "deployment"} -> Return("nil")
             [] OTHER -> UpdateOf(seen)
  /\ UNCHANGED <<world, server, local, mishaps>>

\* UpdateService writes to a map that may be nil, UpdateRoute reads a port that
\* may be, MustParse is given a size that may be none.  A panic ends the process.
Panics ==
  \/ /\ pc = "update" /\ log[held].own = Bare
     /\ style = "route" \/ (style = "service" /\ desired \in Labelled)
  \/ pc = "create" /\ style = "claim" /\ desired \in Malformed

\* A password is random, so that no other version has it.
Content == IF style = "credentials" THEN Len(log) + 1 ELSE desired

\* createService: the labels of a new Service are its selector as well, one
\* map, and UpdateService adds the labels of the spec to it.
Mixed == mixed \/ (style = "service" /\ desired \in Labelled)
New   == Object(Content, Mixed, 0)

Create_OrOverwrite ==                                            \* mutant
  /\ pc = "create" /\ Write(New) /\ Return("nil")
  /\ UNCHANGED <<world, seen, local, mishaps>>
Create ==
  /\ pc = "create" /\ ~ Panics
  /\ \/ /\ Stored.there /\ UNCHANGED <<log, mixed>>
        /\ CASE style = "configmap" -> Goto("overwrite")
             [] style = "monitor"   -> Goto("get")
             [] OTHER               -> Return("error")
     \/ /\ ~ Stored.there
        /\ Write(New) /\ mixed' = Mixed
        /\ CASE style = "service"    -> UpdateOf(Len(log) + 1)
             [] style = "deployment" -> Goto("reread")
             [] OTHER                -> Return("nil")
  /\ UNCHANGED <<world, seen, desired, tries, mishaps>>

\* ensureJenkinsDeploymentIsPresent asks the cache for what it just created.
Reread ==
  /\ pc = "reread"
  /\ Return(IF Cached.there THEN "nil" ELSE "error")
  /\ UNCHANGED <<world, server, local, mishaps>>

\* UpdateResource with an object that was built here: it has no version.
Overwrite ==
  /\ pc = "overwrite"
  /\ \/ /\ Stored.there /\ Write(Object(Content, FALSE, 0)) /\ Return("nil")
     \/ /\ ~ Stored.there /\ UNCHANGED log /\ Return("error")
  /\ UNCHANGED <<world, seen, local, mishaps>>

Updated == LET old == log[held] IN
  Object(IF Covers(old.own, desired) THEN old.own ELSE desired, mixed, old.foreign)

MaxTries == 4

\* UpdateResource with the copy that was read, and what becomes of a conflict.
Conflict_Swallowed == Return("nil") /\ UNCHANGED tries           \* mutant
Conflict ==
  IF style = "monitor" /\ tries < MaxTries
  THEN Goto("get") /\ tries' = tries + 1
  ELSE Return(IF style = "route" THEN "nil" ELSE "error") /\ UNCHANGED tries

Update ==
  /\ pc = "update" /\ ~ Panics
  /\ \/ Accepts(held) /\ Write(Updated) /\ Return("nil") /\ UNCHANGED tries
     \/ ~ Accepts(held) /\ Stored.there /\ UNCHANGED log /\ Conflict
     \/ ~ Stored.there /\ UNCHANGED log /\ Return("error") /\ UNCHANGED tries
  /\ UNCHANGED <<world, seen, desired, mixed, mishaps>>

\* A call fails, or is carried out and its answer lost.  Only that the lookup
\* of the claim failed is nobody's concern.
Fail ==
  /\ pc # "idle" /\ ~ Panics /\ Mishap
  /\ Return(IF style = "claim" /\ pc = "get" THEN "nil" ELSE "error")
  /\ UNCHANGED <<world, server, local>>

Lose ==
  /\ Mishap /\ Return("error")
  /\ \/ pc = "create" /\ ~ Panics /\ ~ Stored.there /\ Write(New)
     \/ pc = "overwrite" /\ Stored.there /\ Write(Object(Content, FALSE, 0))
     \/ pc = "update" /\ ~ Panics /\ Accepts(held) /\ Write(Updated)
  /\ UNCHANGED <<world, seen, local>>

\* The process ends; the next one lists what there is.
Restart == Return("error") /\ seen' = Len(log) /\ UNCHANGED <<world, log, local>>

Panic == Panics /\ Restart /\ UNCHANGED mishaps
Crash == Mishap /\ Restart

---------------------------------------------------------------------------
(* The users.                                                              *)

Edit ==
  /\ Stored.there /\ Mishap /\ edits' = edits + 1
  /\ \/ \E own \in {Tampered, Bare} : Write([Stored EXCEPT !.own = own])
     \/ Write([Stored EXCEPT !.foreign = @ + 1])
  /\ UNCHANGED <<style, wanted, seen, worker>>

Delete ==
  /\ Stored.there /\ Mishap /\ Write(Gone)
  /\ UNCHANGED <<world, seen, worker>>

Want ==
  /\ Mishap /\ wanted' \in Wanted
  /\ UNCHANGED <<style, edits, server, worker>>

---------------------------------------------------------------------------
Step == Get \/ Create \/ Reread \/ Overwrite \/ Update \/ Panic

Init ==
  /\ style \in Styles /\ wanted \in Wanted
  /\ log = <<Gone>> /\ seen = 1
  /\ pc = "idle" /\ desired = wanted /\ held = 1 /\ mixed = FALSE /\ tries = 0
  /\ result = "none"
  /\ edits = 0 /\ mishaps = 0

Next == Begin \/ Step \/ Deliver \/ Fail \/ Lose \/ Crash
          \/ Edit \/ Delete \/ Want

\* A reconcile goes on once it has begun, and watches deliver.  That there is
\* another reconcile is a premise of what follows, as events decide on it.
Spec == Init /\ [][Next]_vars /\ WF_vars(Step) /\ WF_vars(Deliver)

---------------------------------------------------------------------------
(* Properties.                                                             *)

Contents == Wanted \cup {Tampered, Bare} \cup Nat
Versions == [there : BOOLEAN, own : Contents, stray : BOOLEAN, foreign : Nat]

TypeOK ==
  /\ style \in AllStyles /\ wanted \in Wanted /\ desired \in Wanted
  /\ log \in Seq(Versions) /\ Len(log) > 0
  /\ seen \in 1..Len(log) /\ held \in 1..Len(log)
  /\ mixed \in BOOLEAN /\ edits \in Nat /\ mishaps \in Nat

\* Which style may be where, and that the passwords of a Secret no user had a
\* hand in are there in all its versions.
Placed ==
  /\ pc = "get" => style # "configmap"
  /\ pc = "overwrite" => style \in {"credentials", "configmap"}
  /\ pc = "update" => style \in {"account", "service", "monitor", "route"}
  /\ pc = "reread" => style = "deployment"
EnsureInv ==
  /\ TypeOK /\ Placed
  /\ style = "credentials" /\ edits = 0 =>
       pc # "overwrite" /\ \A v \in 1..Len(log) : log[v].there => Complete(log[v])

\* What the styles that do not just overwrite are careful about.
Copying == {"account", "service", "monitor", "route"}

\* A write computed from a copy of the resource, however old, takes nothing
\* back of what others changed since (configuration.go:86-96): of their edits
\* none gets lost for as long as the resource is there.
ForeignKept ==
  [][Stored.there /\ Stored.there' /\ style \in Copying /\ UNCHANGED edits
       => Stored.foreign' = Stored.foreign]_vars

\* A reconcile that returns no error has put, or found, what the spec asked for
\* at the API server, in a version not older than what its cache had
\* (reconcile.go:90-154).  Claim, Route and ServiceMonitor are another matter:
\* they return nil after a failed lookup, a conflict or a deletion
\* (jenkins_controller.go:314, route.go:41, service_monitor.go:97).
Meets(o) ==
  /\ o.there
  /\ style \in {"configmap", "account", "service"} => Covers(o.own, desired)
  /\ style = "credentials" => Complete(o)
Returns(r) == pc # "idle" /\ pc' = "idle" /\ result' = r
SuccessIsReal ==
  [][Returns("nil") /\ style \notin {"claim", "route", "monitor"}
       => \E v \in seen..Len(log') : Meets(log'[v])]_vars

\* The password of the operator is the same for as long as its Secret is there,
\* whatever the cache shows, unless users take a hand in it: Jenkins creates the
\* operator's user once, with the first password (reconcile.go:156-171).
CredentialsStay ==
  [][style = "credentials" /\ edits' = 0 /\ Stored.there /\ Stored.there'
       => Stored.own' = Stored.own]_vars

\* As long as there are reconciles, and nothing makes them panic, the resource
\* gets (back) to what the spec asks for and stays there.  The content of a
\* claim, a Deployment and a complete Secret is left alone.
Current ==
  /\ Stored.there /\ ~ Stored.stray
  /\ style \in Copying \cup {"configmap"} => Covers(Stored.own, wanted)
  /\ style = "credentials" => Complete(Stored)
EnsureConverges ==
  ([]<>(pc # "idle") /\ <>[](~ Panics)) => <>[]Current

---------------------------------------------------------------------------
(* What the code says of itself and does not keep (README, section 4).     *)

\* A Route or ServiceMonitor that is logged as "updated successfully"
\* (route.go:42, service_monitor.go:110) has been updated.
ReportIsReal ==
  [][Returns("nil") /\ style \in {"route", "monitor"}
       => \E v \in seen..Len(log') : log'[v].there /\ log'[v].own = desired]_vars

\* "make sure that user won't break service by hand" (service.go:36, route.go:35)
UserCannotBreak == style \in {"service", "route"} => ~ Panics

=============================================================================
