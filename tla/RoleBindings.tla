---------------------------- MODULE RoleBindings ----------------------------
(***************************************************************************)
(* pkg/configuration/base/rbac.go: the RoleBindings of the Jenkinses of    *)
(* one namespace.  A reconcile creates the binding of the Jenkins' own     *)
(* Role and one for each role its spec asks for, and then deletes, of the  *)
(* cached list, those it takes by their names for its own and that the     *)
(* spec does not ask for.  An error ends the reconcile and is not retried  *)
(* (see JenkinsController); only events bring a Jenkins back.              *)
(***************************************************************************)
EXTENDS Naturals, Sequences, SequencesExt

CONSTANTS
  Jenkinses,
  Namespaces, \* which Jenkinses may be in the namespace together
  Words,      \* what stands between the dashes of a name
  Label,      \* the name of each Jenkins, as the words its dashes separate
  Roles,      \* roles a spec may ask for: their kind and the words of a name
  Nobody,
  MaxChanges, \* bound: changes by users
  MaxFaults   \* bound: failing calls and crashes

Kinds == {"r", "cr"}

\* Names of bindings, as the words their dashes separate.
MainName(j)       == <<"jenkins">> \o Label[j]
ExtraName(j, r)   == MainName(j) \o <<r.kind>> \o r.name
ExtraNames(j, rs) == {ExtraName(j, r) : r \in rs}
Names == UNION {{MainName(j)} \cup ExtraNames(j, Roles) : j \in Jenkinses}

\* The Role of its own that every Jenkins has bears the Jenkins' name.
MainRole(j) == [kind |-> "r", name |-> MainName(j)]
Bindable    == Roles \cup {MainRole(j) : j \in Jenkinses}

\* The names that an extra binding without a role's name is a prefix of.
Extra(j, n) == \E kind \in Kinds : IsStrictPrefix(Append(MainName(j), kind), n)

ASSUME RoleAssumption ==
  /\ Kinds \cup {"jenkins"} \subseteq Words
  /\ Roles \subseteq [kind : Kinds, name : Seq(Words)]
  /\ Label \in [Jenkinses -> Seq(Words)]
  /\ Namespaces \subseteq SUBSET Jenkinses
  /\ Jenkinses # {} /\ Nobody \notin Jenkinses
  /\ MaxChanges \in Nat /\ MaxFaults \in Nat

VARIABLES
  present,      \* the Jenkinses of the namespace
  roles,        \* the roles each spec asks for
  bindings,     \* the RoleBindings at the API server, by name
  cachedRoles, cachedBindings,
  queue,
  pc, cur, asked, left, doomed, \* the worker and its locals
  changes, faults

cache  == <<cachedRoles, cachedBindings>>
worker == <<pc, cur, asked, left, doomed>>
server == <<present, roles, bindings>>
vars   == <<server, cache, queue, worker, changes, faults>>

\* Of a binding that is gone, uid, owner and role are those it had.
Binding(uid, live, owner, role) ==
  [uid |-> uid, live |-> live, owner |-> owner, role |-> role]
Exists(b) == b.live
Gone(b)   == Binding(b.uid, FALSE, b.owner, b.role)

---------------------------------------------------------------------------
(* The worker.                                                             *)

Dequeue(j) ==
  /\ pc = "idle" /\ j \in queue
  /\ queue' = queue \ {j}
  /\ cur' = j /\ asked' = cachedRoles[j]
  /\ pc' = "main"
  /\ UNCHANGED <<server, cache, left, doomed, changes, faults>>

\* A reconcile ends; its error, if any, is forgotten.
End == pc' = "idle" /\ left' = {} /\ doomed' = {} /\ asked' = {}
       /\ UNCHANGED cur

\* CreateOrUpdateResource: an update cannot change what is bound.
Refused(n, role) == Exists(bindings[n]) /\ bindings[n].role # role

Upsert(n, role) ==
  /\ ~ Refused(n, role)
  /\ bindings' = [bindings EXCEPT ![n] =
       Binding(IF Exists(@) THEN @.uid ELSE @.uid + 1, TRUE, cur, role)]

CreateMain ==
  /\ pc = "main"
  /\ \/ /\ Upsert(MainName(cur), MainRole(cur))
        /\ pc' = "extra" /\ left' = asked
        /\ UNCHANGED <<cur, asked, doomed>>
     \/ /\ Refused(MainName(cur), MainRole(cur))
        /\ End /\ UNCHANGED bindings
  /\ UNCHANGED <<present, roles, cache, queue, changes, faults>>

CreateExtra(r) ==
  /\ pc = "extra" /\ r \in left
  /\ \/ /\ Upsert(ExtraName(cur, r), r)
        /\ left' = left \ {r}
        /\ UNCHANGED <<pc, cur, asked, doomed>>
     \/ /\ Refused(ExtraName(cur, r), r)
        /\ End /\ UNCHANGED bindings
  /\ UNCHANGED <<present, roles, cache, queue, changes, faults>>

Unasked_All(n) == TRUE                                           \* mutant
Unasked(n) == n \notin ExtraNames(cur, asked)

ListBindings ==
  /\ pc = "extra" /\ left = {}
  /\ doomed' = {n \in Names :
                  Exists(cachedBindings[n]) /\ Extra(cur, n) /\ Unasked(n)}
  /\ pc' = "prune"
  /\ UNCHANGED <<server, cache, queue, cur, asked, left, changes, faults>>

\* Whether a reconcile goes on after the delete of n: not after NotFound.
Deleted(n) == Exists(bindings[n])

Prune(n) ==
  /\ pc = "prune" /\ n \in doomed
  /\ bindings' = [bindings EXCEPT ![n] = Gone(@)]
  /\ IF Deleted(n) THEN doomed' = doomed \ {n} /\ UNCHANGED <<pc, cur, asked, left>>
                   ELSE End
  /\ UNCHANGED <<present, roles, cache, queue, changes, faults>>

Finish ==
  /\ pc = "prune" /\ doomed = {}
  /\ End
  /\ UNCHANGED <<server, cache, queue, changes, faults>>

\* A call of this reconcile fails, here or before it gets here.
CallFails ==
  /\ pc # "idle" /\ faults < MaxFaults
  /\ faults' = faults + 1
  /\ End
  /\ UNCHANGED <<server, cache, queue, changes>>

---------------------------------------------------------------------------
(* Watches, restarts, users.                                               *)

DeliverRoles(j) ==
  /\ cachedRoles[j] # roles[j]
  /\ cachedRoles' = [cachedRoles EXCEPT ![j] = roles[j]]
  /\ queue' = queue \cup {j}
  /\ UNCHANGED <<server, cachedBindings, worker, changes, faults>>

Notified_Creations(old, new) ==                                  \* mutant
  IF old.uid # new.uid THEN {old.owner, new.owner} \ {Nobody} ELSE {}
Notified_Deletions(old, new) ==                                  \* mutant
  IF Exists(old) /\ ~ Exists(new) THEN {old.owner} ELSE {}
\* Creations and deletions, also one after the other, reach the owner;
\* updates, since a RoleBinding has no generation, are filtered.
Notified(old, new) ==
  IF old.uid # new.uid \/ Exists(old) # Exists(new)
    THEN {old.owner, new.owner} \ {Nobody} ELSE {}

DeliverBinding(n) ==
  /\ cachedBindings[n] # bindings[n]
  /\ cachedBindings' = [cachedBindings EXCEPT ![n] = bindings[n]]
  /\ queue' = queue \cup Notified(cachedBindings[n], bindings[n])
  /\ UNCHANGED <<server, cachedRoles, worker, changes, faults>>

Crash ==
  /\ faults < MaxFaults /\ faults' = faults + 1
  /\ cachedRoles' = roles /\ cachedBindings' = bindings
  /\ queue' = present
  /\ End
  /\ UNCHANGED <<server, changes>>

Change == changes < MaxChanges /\ changes' = changes + 1

EditRoles(j) ==
  /\ Change /\ j \in present
  /\ \E rs \in SUBSET Roles : roles' = [roles EXCEPT ![j] = rs]
  /\ UNCHANGED <<present, bindings, cache, queue, worker, faults>>

DeleteBinding(n) ==
  /\ Change /\ Exists(bindings[n])
  /\ bindings' = [bindings EXCEPT ![n] = Gone(@)]
  /\ UNCHANGED <<present, roles, cache, queue, worker, faults>>

---------------------------------------------------------------------------
Init ==
  /\ present \in Namespaces
  /\ roles \in [Jenkinses -> SUBSET Roles] /\ cachedRoles = roles
  /\ \A j \in Jenkinses \ present : roles[j] = {}
  /\ bindings = [n \in Names |->
       Binding(0, FALSE, Nobody, CHOOSE r \in Bindable : TRUE)]
  /\ cachedBindings = bindings
  /\ queue = present
  /\ pc = "idle" /\ cur = (CHOOSE j \in Jenkinses : TRUE)
  /\ asked = {} /\ left = {} /\ doomed = {}
  /\ changes = 0 /\ faults = 0

Work ==
  \/ CreateMain \/ ListBindings \/ Finish
  \/ \E r \in Roles : CreateExtra(r)
  \/ \E n \in Names : Prune(n)

Next ==
  \/ Work \/ CallFails \/ Crash
  \/ \E j \in Jenkinses : Dequeue(j) \/ DeliverRoles(j) \/ EditRoles(j)
  \/ \E n \in Names : DeliverBinding(n) \/ DeleteBinding(n)

Spec == Init /\ [][Next]_vars

\* The worker runs, hands out what is queued, and the watches deliver.  No
\* resync: the event filter drops the replays.
Fairness ==
  /\ WF_vars(Work)
  /\ \A j \in Jenkinses : SF_vars(Dequeue(j)) /\ WF_vars(DeliverRoles(j))
  /\ \A n \in Names : WF_vars(DeliverBinding(n))

FairSpec == Spec /\ Fairness

---------------------------------------------------------------------------
(* Properties.                                                             *)

Places == {"idle", "main", "extra", "prune"}
BindingType == [uid : Nat, live : BOOLEAN,
                owner : Jenkinses \cup {Nobody}, role : Bindable]

TypeOK ==
  /\ present \subseteq Jenkinses
  /\ roles \in [Jenkinses -> SUBSET Roles]
  /\ cachedRoles \in [Jenkinses -> SUBSET Roles]
  /\ bindings \in [Names -> BindingType]
  /\ cachedBindings \in [Names -> BindingType]
  /\ queue \subseteq Jenkinses
  /\ pc \in Places /\ cur \in Jenkinses
  /\ asked \subseteq Roles /\ left \subseteq asked
  /\ doomed \subseteq Names \ ExtraNames(cur, asked)
  /\ changes \in 0..MaxChanges /\ faults \in 0..MaxFaults

\* The names of the bindings of a Jenkins, those it asks for, and those it owns.
OwnNames(j)  == {MainName(j)} \cup ExtraNames(j, Roles)
OwnName(n, j) == j \in Jenkinses /\ n \in OwnNames(j)
Due(j, rs)   == {MainName(j)} \cup ExtraNames(j, rs)
Granted(j)   == {n \in Names : Exists(bindings[n]) /\ bindings[n].owner = j}

\* Every binding bears a name of its owner, and what is to be pruned bears
\* a name that the Jenkins at work prunes by; nothing of a reconcile that has
\* ended is left.
RoleInv ==
  /\ \A n \in Names : Exists(bindings[n]) => OwnName(n, bindings[n].owner)
  /\ \A n \in doomed : Extra(cur, n)
  /\ pc # "prune" => doomed = {}
  /\ pc = "idle" => left = {}

\* A reconcile never dooms a binding its spec asks for, whatever list it prunes
\* from (rbac.go:71-92), and owners and names of bindings go together, from
\* creation to deletion and through restarts.  Both together are inductive.
IInv == TypeOK /\ RoleInv

\* No other Jenkins has a binding of a name that j has one of.
Sole(j) == \A k \in Jenkinses \ {j} : OwnNames(j) \cap OwnNames(k) = {}

\* The worker is at j and has n still to create.
Creates(j, n) ==
  cur = j /\ (pc = "main" \/ (pc = "extra" /\ n \in ExtraNames(j, left)))

\* An event that will bring j back is on its way.
Announced(j, n) ==
  cachedBindings[n] # bindings[n] /\ j \in Notified(cachedBindings[n], bindings[n])

Noticed(j, n) ==
  Exists(bindings[n]) \/ j \in queue \/ Creates(j, n) \/ Announced(j, n)

\* A binding that a Jenkins asks for never goes missing unnoticed, not even
\* when the reconcile of another Jenkins takes it for its own, by a name that
\* starts like those of its extra bindings, and deletes it (rbac.go:71-92, a
\* Jenkins "ci" and one "ci-cr"): the Jenkins is queued or at work on it, or an
\* event of the binding or of the spec will queue it.  A failing call, whose
\* reconcile is not retried, can end that.
MissingIsNoticed ==
  faults = 0 =>
    \A j \in present : Sole(j) =>
      \/ cachedRoles[j] # roles[j]
      \/ \A n \in Due(j, roles[j]) : Noticed(j, n)

\* Why: what a Jenkins at work creates is what its cached spec asks for, unless
\* it is queued again.
AskedKnown ==
  \A j \in Jenkinses :
    pc # "idle" /\ cur = j => asked = cachedRoles[j] \/ j \in queue

\* Why: a live binding has the role that its name is for, and a cached copy of
\* it is of an earlier one of that name, or of the same and not of its end.
CopiesBehind ==
  \A n \in Names :
    /\ cachedBindings[n].uid <= bindings[n].uid
    /\ Exists(bindings[n]) =>
         /\ cachedBindings[n].uid = bindings[n].uid => Exists(cachedBindings[n])
         /\ \/ /\ n = MainName(bindings[n].owner)
               /\ bindings[n].role = MainRole(bindings[n].owner)
            \/ /\ bindings[n].role \in Roles
               /\ n = ExtraName(bindings[n].owner, bindings[n].role)

\* Why: until a call fails, the same is true of the cached specs.
AllNoticed ==
  faults = 0 =>
    \A j \in present : Sole(j) => \A n \in Due(j, cachedRoles[j]) : Noticed(j, n)

NoticeInv == AskedKnown /\ CopiesBehind /\ AllNoticed

\* jenkins_types.go:49, "Roles defines list of extra RBAC roles for the Jenkins
\* Master pod service account": a reconcile deletes no binding of another
\* Jenkins (rbac.go:71-92).
OthersUntouched ==
  [][\A n \in Names :
       pc = "prune" /\ UNCHANGED changes /\ Exists(bindings[n]) /\ ~ Exists(bindings'[n])
         => bindings[n].owner = cur]_vars

\* No other Jenkins of the namespace has bindings that j takes for its own, nor
\* takes those of j for its own.
Alone(j) ==
  \A k \in present \ {j} :
    /\ \A n \in OwnNames(k) : ~ Extra(j, n)
    /\ \A n \in OwnNames(j) : ~ Extra(k, n)

\* Once users leave it alone, a Jenkins has a binding for each role it asks
\* for, and for no other if no names are ambiguous (rbac.go:55-94), whatever the
\* caches showed when the roles were asked for or taken back: nothing is
\* retried, and it takes the events of the bindings to get there.  A failing
\* call can prevent it.
RolesSettle ==
  \A j \in Jenkinses, rs \in SUBSET Roles :
    [](faults = 0) /\ <>[](j \in present /\ Sole(j) /\ roles[j] = rs)
      => <>[](/\ Due(j, rs) \subseteq Granted(j)
              /\ Alone(j) => Granted(j) \subseteq Due(j, rs))

=============================================================================
