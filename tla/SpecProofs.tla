----------------------------- MODULE SpecProofs -----------------------------
(***************************************************************************)
(* Theorems about Validation and about PodStart, for every value of their  *)
(* constants: what a spec that is accepted has to have, and what the pod   *)
(* made from it has.                                                       *)
(***************************************************************************)
EXTENDS Validation, PodStart, FiniteSetTheorems, SequenceTheorems, TLAPS

---------------------------------------------------------------------------
(* Validation: whatever is deleted, edited, refused or lost on the way, a  *)
(* validation that ends without messages has seen all the pod mounts but   *)
(* the claims of backup volumes, which it does not look for.               *)

USE ValidationAssumption

LEMMA SpecTypes ==
  ASSUME NEW s \in Specs
  PROVE  /\ s.wrong \in BOOLEAN /\ s.default \in BOOLEAN /\ s.proxy \in BOOLEAN
         /\ s.needs \subseteq Objects /\ Required(s) \subseteq Objects
  BY DEF SpecType, Required

LEMMA FirstValidation == Init => ValidationInv
<1> SUFFICES ASSUME Init PROVE ValidationInv
  OBVIOUS
<1>1. cur \in Jenkinses /\ held \in Specs
  BY DEF Init
<1>2. verdict \in [Jenkinses -> Verdicts]
  BY DEF Init, Verdicts
<1>3. /\ specs \in [Jenkinses -> Specs] /\ cachedSpecs = specs
      /\ store \subseteq Stored /\ cached = store /\ made = store
      /\ 0 \in 0..MaxChanges /\ 0 \in 0..MaxFaults
  BY DEF Init, Stored
<1>4. TypeOK
  BY <1>1, <1>2, <1>3 DEF Init, TypeOK
<1> QED
  BY <1>4 DEF Init, ValidationInv

\* A worker that takes a Jenkins starts with all it requires.
LEMMA TakingKeeps ==
  ASSUME ValidationInv, NEW j \in Jenkinses, Dequeue(j)
  PROVE  ValidationInv'
<1>1. cachedSpecs[j] \in Specs
  BY DEF ValidationInv, TypeOK
<1>2. cachedSpecs[j].wrong \in BOOLEAN
  BY <1>1, SpecTypes
<1>3. TypeOK'
  BY <1>1, <1>2 DEF ValidationInv, TypeOK, Dequeue, server, cache, ends
<1> QED
  BY <1>3 DEF ValidationInv, Dequeue, server

\* A reconcile that fails has nothing to show, whether or not what it created
\* is there.
LEMMA FailureKeeps ==
  ASSUME ValidationInv, Fail, UNCHANGED server \/ \E o \in Stored : Put(o),
         UNCHANGED <<cache, changes>>, stamped' \in BOOLEAN, faults' \in 0..MaxFaults
  PROVE  ValidationInv'
<1>1. verdict' \in [Jenkinses -> Verdicts] /\ cur \in Jenkinses
  BY DEF ValidationInv, TypeOK, Fail, Verdicts
<1>2. /\ store' \subseteq made' /\ cached' \subseteq made' /\ made' \subseteq Stored
      /\ UNCHANGED <<specs, cachedSpecs, globalProxy>>
  BY DEF ValidationInv, TypeOK, server, cache, Put
<1>3. TypeOK'
  BY <1>1, <1>2 DEF ValidationInv, TypeOK, Fail, End, Goto
<1> QED
  BY <1>3 DEF ValidationInv, Fail, End, Goto

\* A check moves an object from those left to those that have existed, or
\* leaves a message, or ends the reconcile.
LEMMA ChecksKeep ==
  ASSUME ValidationInv,
         \/ \E o \in Objects : CheckVolume(o) \/ CheckConfig(o)
         \/ VolumesChecked \/ ConfigChecked
  PROVE  ValidationInv'
<1> USE DEF Goto, End, Fail
<1>1. TypeOK'
  BY DEF ValidationInv, TypeOK, CheckVolume, CheckConfig, VolumesChecked, ConfigChecked,
         server, cache, ends, Verdicts
<1>2. cached \subseteq made
  BY DEF ValidationInv, TypeOK
<1>3. CASE \E o \in Objects : CheckVolume(o)
  BY <1>1, <1>2, <1>3 DEF ValidationInv, CheckVolume, server
<1>4. CASE \E o \in Objects : CheckConfig(o)
  BY <1>1, <1>2, <1>4 DEF ValidationInv, CheckConfig, server
<1>5. CASE VolumesChecked \/ ConfigChecked
  BY <1>1, <1>5 DEF ValidationInv, VolumesChecked, ConfigChecked, server
<1> QED
  BY <1>3, <1>4, <1>5

LEMMA RestartKeeps ==
  ASSUME ValidationInv, Restart, UNCHANGED <<server, changes>>,
         faults' \in 0..MaxFaults
  PROVE  ValidationInv'
  BY DEF ValidationInv, TypeOK, Restart, Goto, server

\* The default configuration exists from then on, also when nobody knows.
LEMMA DefaultKeeps ==
  ASSUME ValidationInv, EnsureDefault
  PROVE  ValidationInv'
<1>1. cur \in Jenkinses /\ Default(Space[cur]) \in Stored /\ cached \subseteq made
  BY DEF ValidationInv, TypeOK, Stored, Spaces
<1>2. CASE Fail
  <2>1. UNCHANGED server \/ \E o \in Stored : Put(o)
    BY <1>1 DEF EnsureDefault, Put, Template, server
  <2>2. UNCHANGED <<cache, changes>> /\ stamped' \in BOOLEAN /\ faults' \in 0..MaxFaults
    <3>1. stamped \in BOOLEAN /\ faults \in 0..MaxFaults
      BY DEF ValidationInv, TypeOK
    <3>2. UNCHANGED <<cache, changes>> /\ (UNCHANGED stamped \/ stamped' = TRUE)
      BY DEF EnsureDefault
    <3>3. UNCHANGED faults \/ (faults < MaxFaults /\ faults' = faults + 1)
      BY DEF EnsureDefault
    <3>4. faults' \in 0..MaxFaults
      BY <3>1, <3>3 DEF ValidationAssumption
    <3> QED
      BY <3>1, <3>2, <3>4, Zenon
  <2> QED
    BY <1>2, <2>1, <2>2, FailureKeeps
<1>3. CASE /\ Goto("proxy", {})
           /\ ~ held.default \/ Default(Space[cur]) \in cached
           /\ UNCHANGED <<server, stamped, queue, messages, ends, faults, cache, changes>>
  <2>1. TypeOK'
    BY <1>3 DEF ValidationInv, TypeOK, server, cache, ends, Goto
  <2> QED
    BY <1>1, <1>3, <2>1 DEF ValidationInv, server, Goto, EnsureDefault
<1>4. CASE /\ Goto("verdict", {}) /\ Put(Template(cur)) /\ stamped' = TRUE
           /\ UNCHANGED <<queue, messages, ends, faults, cache, changes>>
  <2>1. TypeOK'
    BY <1>1, <1>4 DEF ValidationInv, TypeOK, Put, Template, cache, ends, Goto
  <2> QED
    BY <1>1, <1>4, <2>1 DEF ValidationInv, Put, Template, Goto, EnsureDefault
<1> QED
  BY <1>2, <1>3, <1>4 DEF EnsureDefault

LEMMA ProxyKeeps ==
  ASSUME ValidationInv, EnsureProxy
  PROVE  ValidationInv'
<1>1. CASE Restart /\ UNCHANGED server
  BY <1>1, RestartKeeps DEF EnsureProxy, ValidationInv, TypeOK
<1>2. CASE Goto("verdict", {})
  <2>1. Proxy(Space[cur]) \in Stored
    BY DEF ValidationInv, TypeOK, Stored, Spaces
  <2>2. TypeOK'
    BY <1>2, <2>1 DEF ValidationInv, TypeOK, EnsureProxy, Put, Goto, server, cache, ends, Restart
  <2> QED
    BY <1>2, <2>2 DEF ValidationInv, EnsureProxy, Put, Goto, server, Restart
<1> QED
  BY <1>1, <1>2 DEF EnsureProxy

LEMMA ConclusionKeeps ==
  ASSUME ValidationInv, Conclude \/ CallFails
  PROVE  ValidationInv'
<1> USE DEF Goto, End, Fail
<1>1. CASE Conclude
  <2>1. verdict' \in [Jenkinses -> Verdicts] /\ cur \in Jenkinses
    BY <1>1 DEF ValidationInv, TypeOK, Conclude, Verdicts
  <2>2. TypeOK'
    BY <1>1, <2>1 DEF ValidationInv, TypeOK, Conclude, Created, server, cache
  <2> QED
    BY <1>1, <2>2 DEF ValidationInv, Conclude, server
<1>2. CASE CallFails
  <2>1. /\ UNCHANGED <<server, cache, stamped, changes>>
        /\ faults' \in 0..MaxFaults /\ stamped' \in BOOLEAN
    BY <1>2 DEF ValidationInv, TypeOK, CallFails
  <2>2. CASE Fail
    BY <2>1, <2>2, FailureKeeps
  <2>3. CASE pc = "proxy" /\ Goto("verdict", {}) /\ UNCHANGED <<messages, queue, ends>>
    <3>1. TypeOK'
      BY <2>1, <2>3 DEF ValidationInv, TypeOK, Goto, server, cache, ends
    <3> QED
      BY <2>1, <2>3, <3>1 DEF ValidationInv, Goto, server
  <2> QED
    BY <1>2, <2>2, <2>3 DEF CallFails
<1> QED
  BY <1>1, <1>2

\* The environment takes nothing away from what has existed.
LEMMA OutsideKeeps ==
  ASSUME ValidationInv,
         \/ \E j \in Jenkinses : DeliverSpec(j) \/ DeliverCreation(j) \/ EditSpec(j)
         \/ \E o \in Stored : DeliverObject(o)
         \/ \E o \in Objects : CreateObject(o)
         \/ \E o \in Perishable : DeleteObject(o)
  PROVE  ValidationInv'
<1>1. UNCHANGED worker /\ made \subseteq made'
  BY DEF DeliverSpec, DeliverCreation, EditSpec, DeliverObject, CreateObject,
         DeleteObject, Put, server
<1>2. TypeOK'
  <2>1. CASE \E j \in Jenkinses : DeliverSpec(j) \/ DeliverCreation(j) \/ EditSpec(j)
    BY <2>1 DEF ValidationInv, TypeOK, DeliverSpec, DeliverCreation, EditSpec, Change,
                server, cache, worker, ends
  <2>2. CASE \E o \in Stored : DeliverObject(o)
    BY <2>2 DEF ValidationInv, TypeOK, DeliverObject, server, worker, ends
  <2>3. CASE \E o \in Objects : CreateObject(o)
    BY <2>3 DEF ValidationInv, TypeOK, CreateObject, Put, Change, cache, worker, ends, Stored
  <2>4. CASE \E o \in Perishable : DeleteObject(o)
    BY <2>4 DEF ValidationInv, TypeOK, DeleteObject, Change, cache, worker, ends
  <2> QED
    BY <2>1, <2>2, <2>3, <2>4
<1> QED
  BY <1>1, <1>2 DEF ValidationInv, worker

LEMMA ValidationSteps == ValidationInv /\ [Next]_vars => ValidationInv'
<1> SUFFICES ASSUME ValidationInv, [Next]_vars PROVE ValidationInv'
  OBVIOUS
<1>1. CASE UNCHANGED vars
  <2>1. TypeOK'
    BY <1>1 DEF vars, server, cache, worker, ends, ValidationInv, TypeOK
  <2> QED
    BY <1>1, <2>1 DEF vars, server, worker, ValidationInv, Required
<1>2. CASE Work
  <2>1. CASE VolumesChecked \/ ConfigChecked \/ \E o \in Objects : CheckVolume(o) \/ CheckConfig(o)
    BY <2>1, ChecksKeep
  <2> QED
    BY <1>2, <2>1, DefaultKeeps, ProxyKeeps, ConclusionKeeps DEF Work
<1>3. CASE Crash
  BY <1>3, RestartKeeps DEF Crash, ValidationInv, TypeOK
<1>4. CASE Next /\ ~ Work /\ ~ Crash
  BY <1>4, TakingKeeps, ConclusionKeeps, OutsideKeeps DEF Next
<1> QED
  BY <1>1, <1>2, <1>3, <1>4 DEF Next

\* The validation looks up what a spec refers to one by one, in caches that
\* may show what is gone (validate.go:282-357, 573-609), and creates the default
\* configuration itself; it concludes only when all of it has existed.  What
\* the pod mounts besides are claims of backup volumes (deployment.go:50-60).
THEOREM AcceptedSafe == Spec => []AcceptedHadAll
<1>1. ValidationInv => AcceptedHadAll
  <2> SUFFICES ASSUME ValidationInv, pc = "verdict", ~ messages
               PROVE  Mounted(held, Space[cur]) \ made
                        \subseteq held.backups \ LookedUp(held, Space[cur])
    BY DEF AcceptedHadAll
  <2> QED
    BY DEF ValidationInv, Mounted, LookedUp, Required
<1> QED
  BY <1>1, FirstValidation, ValidationSteps, PTL DEF Spec

---------------------------------------------------------------------------
(* Sequences, by their elements.                                           *)

HIDE ValidationAssumption

LEMMA ConcatSet ==
  ASSUME NEW X, NEW a \in Seq(X), NEW b \in Seq(X)
  PROVE  a \o b \in Seq(X) /\ ToSet(a \o b) = ToSet(a) \cup ToSet(b)
<1>1. /\ a \o b \in Seq(X) /\ DOMAIN (a \o b) = 1..Len(a) + Len(b)
      /\ \A i \in 1..Len(a) : (a \o b)[i] = a[i]
      /\ \A i \in 1..Len(b) : (a \o b)[Len(a) + i] = b[i]
  OBVIOUS
<1>2. \A x : x \in ToSet(a \o b) => x \in ToSet(a) \cup ToSet(b)
  <2> SUFFICES ASSUME NEW i \in DOMAIN (a \o b)
               PROVE  (a \o b)[i] \in ToSet(a) \cup ToSet(b)
    BY DEF ToSet
  <2>1. CASE i \in 1..Len(a)
    BY <1>1, <2>1 DEF ToSet
  <2>2. CASE i \notin 1..Len(a)
    <3>1. i - Len(a) \in 1..Len(b) /\ (a \o b)[i] = b[i - Len(a)]
      BY <1>1, <2>2
    <3> QED
      BY <3>1 DEF ToSet
  <2> QED
    BY <2>1, <2>2
<1>3. ToSet(a) \subseteq ToSet(a \o b)
  BY <1>1 DEF ToSet
<1>4. ToSet(b) \subseteq ToSet(a \o b)
  <2> SUFFICES ASSUME NEW i \in 1..Len(b) PROVE b[i] \in ToSet(a \o b)
    BY DEF ToSet
  <2>1. Len(a) + i \in DOMAIN (a \o b) /\ (a \o b)[Len(a) + i] = b[i]
    BY <1>1
  <2> QED
    BY <2>1 DEF ToSet
<1> QED
  BY <1>1, <1>2, <1>3, <1>4, Zenon

LEMMA ConcatInjective ==
  ASSUME NEW X, NEW a \in Seq(X), NEW b \in Seq(X),
         IsInjective(a), IsInjective(b), ToSet(a) \cap ToSet(b) = {}
  PROVE  IsInjective(a \o b)
<1> SUFFICES ASSUME NEW i \in 1..Len(a) + Len(b), NEW j \in 1..Len(a) + Len(b),
                    (a \o b)[i] = (a \o b)[j]
             PROVE  i = j
  BY DEF IsInjective
<1>1. CASE i \in 1..Len(a) /\ j \in 1..Len(a)
  BY <1>1 DEF IsInjective
<1>2. CASE i \notin 1..Len(a) /\ j \notin 1..Len(a)
  BY <1>2 DEF IsInjective
<1>3. ASSUME NEW k \in 1..Len(a), NEW l \in 1..Len(b) PROVE a[k] # b[l]
  BY DEF ToSet
<1>4. CASE i \in 1..Len(a) /\ j \notin 1..Len(a)
  BY <1>3, <1>4
<1>5. CASE i \notin 1..Len(a) /\ j \in 1..Len(a)
  BY <1>3, <1>5
<1> QED
  BY <1>1, <1>2, <1>4, <1>5

LEMMA OnceOnly ==
  ASSUME NEW X, NEW a \in Seq(X), IsInjective(a)
  PROVE  {v \in ToSet(a) : Cardinality({i \in DOMAIN a : a[i] = v}) > 1} = {}
<1> SUFFICES ASSUME NEW n \in DOMAIN a
             PROVE  ~ (Cardinality({i \in DOMAIN a : a[i] = a[n]}) > 1)
  BY DEF ToSet
<1>1. {i \in DOMAIN a : a[i] = a[n]} = {n}
  BY DEF IsInjective
<1>2. Cardinality({n}) = 1
  BY FS_Singleton
<1>3. Cardinality({i \in DOMAIN a : a[i] = a[n]}) = 1
  BY <1>1, <1>2, Zenon
<1> QED
  BY <1>3

LEMMA OptSet ==
  ASSUME NEW X, NEW a \in Seq(X), NEW c \in BOOLEAN
  PROVE  /\ Opt(c, a) \in Seq(X) /\ ToSet(Opt(c, a)) = IF c THEN ToSet(a) ELSE {}
         /\ IsInjective(a) => IsInjective(Opt(c, a))
  BY DEF Opt, ToSet, IsInjective

LEMMA OneElement ==
  ASSUME NEW X, NEW x \in X
  PROVE  <<x>> \in Seq(X) /\ ToSet(<<x>>) = {x} /\ IsInjective(<<x>>)
  BY DEF ToSet, IsInjective

---------------------------------------------------------------------------
(* The names of volumes.                                                   *)

LEMMA NamesTyped ==
  /\ {Home, Scripts, Casc, CascSecret, CascDefault, Helpers, <<"init-configuration">>,
      <<"base-plugins">>, <<"operator-credentials">>} \subseteq Words
  /\ \A w \in Words : CascInit(w) \in Words /\ Pool(w) \in Words
<1>1. ASSUME NEW w \in Own \cup Given PROVE <<w>> \in Words
  BY <1>1, OneElement, Zenon DEF Words
<1>2. {Home, Scripts, Casc, CascSecret, CascDefault, Helpers, <<"init-configuration">>,
       <<"base-plugins">>, <<"operator-credentials">>, <<"casc-init">>, <<"backup-pool">>}
        \subseteq Words
  BY <1>1 DEF Home, Scripts, Casc, CascSecret, CascDefault, Helpers, Own
<1>3. \A v, w \in Words : v \o w \in Words
  BY ConcatSet, Zenon DEF Words
<1> QED
  BY <1>2, <1>3 DEF CascInit, Pool

\* The lemmas above about such names.
LEMMA NameLists ==
  /\ \A w \in Words : <<w>> \in Seq(Words) /\ ToSet(<<w>>) = {w} /\ IsInjective(<<w>>)
  /\ \A a \in Seq(Words), c \in BOOLEAN :
       /\ Opt(c, a) \in Seq(Words) /\ ToSet(Opt(c, a)) = IF c THEN ToSet(a) ELSE {}
       /\ IsInjective(a) => IsInjective(Opt(c, a))
  /\ \A a, b \in Seq(Words) :
       /\ a \o b \in Seq(Words) /\ ToSet(a \o b) = ToSet(a) \cup ToSet(b)
       /\ IsInjective(a) /\ IsInjective(b) /\ ToSet(a) \cap ToSet(b) = {}
            => IsInjective(a \o b)
<1>1. ASSUME NEW w \in Words
      PROVE  <<w>> \in Seq(Words) /\ ToSet(<<w>>) = {w} /\ IsInjective(<<w>>)
  BY OneElement, Zenon
<1>2. ASSUME NEW a \in Seq(Words), NEW c \in BOOLEAN
      PROVE  /\ Opt(c, a) \in Seq(Words) /\ ToSet(Opt(c, a)) = IF c THEN ToSet(a) ELSE {}
             /\ IsInjective(a) => IsInjective(Opt(c, a))
  BY OptSet, Zenon
<1>3. ASSUME NEW a \in Seq(Words), NEW b \in Seq(Words)
      PROVE  /\ a \o b \in Seq(Words) /\ ToSet(a \o b) = ToSet(a) \cup ToSet(b)
             /\ IsInjective(a) /\ IsInjective(b) /\ ToSet(a) \cap ToSet(b) = {}
                  => IsInjective(a \o b)
  BY ConcatSet, ConcatInjective, Zenon
<1> QED
  BY <1>1, <1>2, <1>3, Zenon

LEMMA WordsConcat ==
  \A a, b \in Seq(Words) : a \o b \in Seq(Words) /\ ToSet(a \o b) = ToSet(a) \cup ToSet(b)
  BY NameLists, Zenon

LEMMA WordsApart ==
  \A a, b \in Seq(Words) :
    IsInjective(a) /\ IsInjective(b) /\ ToSet(a) \cap ToSet(b) = {} => IsInjective(a \o b)
  BY NameLists, Zenon

\* The volume of a configuration is named like no other one of the operator.
LEMMA InitsDiffer ==
  /\ \A v, w \in Words : CascInit(v) = CascInit(w) => v = w
  /\ \A w \in Words : CascInit(w) \notin
       {Home, Scripts, Casc, CascSecret, CascDefault, <<"init-configuration">>,
        <<"base-plugins">>, <<"operator-credentials">>}
<1>1. ASSUME NEW w \in Words
      PROVE  /\ CascInit(w)[1] = "casc-init" /\ Len(CascInit(w)) = Len(w) + 1
             /\ \A i \in 1..Len(w) : CascInit(w)[i + 1] = w[i]
  BY DEF CascInit, Words
<1>2. ASSUME NEW v \in Words, NEW w \in Words, CascInit(v) = CascInit(w) PROVE v = w
  <2>1. Len(v) = Len(w) /\ \A i \in 1..Len(v) : v[i] = w[i]
    BY <1>1, <1>2 DEF Words
  <2> QED
    BY <2>1 DEF Words
<1>3. ASSUME NEW w \in Words
      PROVE  CascInit(w) \notin {Home, Scripts, Casc, CascSecret, CascDefault,
               <<"init-configuration">>, <<"base-plugins">>, <<"operator-credentials">>}
  BY <1>1 DEF Home, Scripts, Casc, CascSecret, CascDefault
<1> QED
  BY <1>2, <1>3

LEMMA OptOne ==
  ASSUME NEW w \in Words, NEW c \in BOOLEAN
  PROVE  /\ Opt(c, <<w>>) \in Seq(Words) /\ ToSet(Opt(c, <<w>>)) = (IF c THEN {w} ELSE {})
         /\ IsInjective(Opt(c, <<w>>))
  BY NameLists

LEMMA InitsSet ==
  ASSUME NEW c \in Seq(Words)
  PROVE  /\ CascInits(c) \in Seq(Words)
         /\ ToSet(CascInits(c)) = {CascInit(w) : w \in ToSet(c)}
         /\ IsInjective(c) => IsInjective(CascInits(c))
<1>1. CascInits(c) \in Seq(Words)
  BY NamesTyped DEF CascInits
<1>2. ToSet(CascInits(c)) = {CascInit(w) : w \in ToSet(c)}
  BY DEF CascInits, ToSet
<1>3. ASSUME IsInjective(c) PROVE IsInjective(CascInits(c))
  BY <1>3, InitsDiffer DEF CascInits, IsInjective
<1> QED
  BY <1>1, <1>2, <1>3

LEMMA PoolsSet ==
  ASSUME NEW b \in Seq(Words)
  PROVE  Pools(b) \in Seq(Words) /\ Append(Pools(b), Helpers) \in Seq(Words)
         /\ ToSet(Append(Pools(b), Helpers)) = ToSet(Pools(b)) \cup {Helpers}
<1>1. Pools(b) \in Seq(Words) /\ Helpers \in Words
  BY NamesTyped DEF Pools
<1>2. Append(Pools(b), Helpers) = Pools(b) \o <<Helpers>>
  BY <1>1
<1>3. <<Helpers>> \in Seq(Words) /\ ToSet(<<Helpers>>) = {Helpers}
  BY <1>1, NameLists
<1>4. /\ Pools(b) \o <<Helpers>> \in Seq(Words)
      /\ ToSet(Pools(b) \o <<Helpers>>) = ToSet(Pools(b)) \cup ToSet(<<Helpers>>)
  BY <1>1, <1>3, WordsConcat
<1> QED
  BY <1>1, <1>2, <1>3, <1>4, Zenon

\* What each name of a volume of a section stands for.
LEMMA CascSet ==
  ASSUME NEW c \in CascType
  PROVE  /\ CascVolumes(c) \in Seq(Words)
         /\ ToSet(CascVolumes(c)) =
              IF c.enabled
              THEN {Casc} \cup (IF c.default THEN {CascDefault} ELSE {})
                     \cup {CascInit(w) : w \in ToSet(c.configs)}
                     \cup (IF c.secret THEN {CascSecret} ELSE {})
              ELSE {}
         /\ IsInjective(c.configs) => IsInjective(CascVolumes(c))
<1> DEFINE A == <<Casc>>
           B == Opt(c.default, <<CascDefault>>)
           C == CascInits(c.configs)
           D == Opt(c.secret, <<CascSecret>>)
<1>0. /\ c.enabled \in BOOLEAN /\ c.default \in BOOLEAN /\ c.secret \in BOOLEAN
      /\ c.configs \in Seq(Words)
  BY DEF CascType
<1>1. A \in Seq(Words) /\ ToSet(A) = {Casc} /\ IsInjective(A)
  BY NameLists, NamesTyped
<1>2. /\ B \in Seq(Words) /\ ToSet(B) = (IF c.default THEN {CascDefault} ELSE {})
      /\ IsInjective(B)
  BY <1>0, NamesTyped, OptOne, Zenon
<1>3. /\ C \in Seq(Words) /\ ToSet(C) = {CascInit(w) : w \in ToSet(c.configs)}
      /\ IsInjective(c.configs) => IsInjective(C)
  BY <1>0, InitsSet
<1>4. /\ D \in Seq(Words) /\ ToSet(D) = (IF c.secret THEN {CascSecret} ELSE {})
      /\ IsInjective(D)
  BY <1>0, NamesTyped, OptOne, Zenon
<1>5. Casc # CascDefault /\ Casc # CascSecret /\ CascDefault # CascSecret
  BY DEF Casc, CascDefault, CascSecret
<1>6. /\ {CascInit(w) : w \in ToSet(c.configs)} \cap {Casc, CascDefault, CascSecret} = {}
  BY <1>0, InitsDiffer DEF ToSet
<1> HIDE DEF A, B, C, D
<1>7. A \o B \in Seq(Words) /\ ToSet(A \o B) = ToSet(A) \cup ToSet(B) /\ IsInjective(A \o B)
  BY <1>1, <1>2, <1>5, NameLists
<1>8. /\ (A \o B) \o C \in Seq(Words) /\ ToSet((A \o B) \o C) = ToSet(A \o B) \cup ToSet(C)
      /\ IsInjective(c.configs) => IsInjective((A \o B) \o C)
  <2>1. ToSet(A \o B) \cap ToSet(C) = {}
    BY <1>1, <1>2, <1>3, <1>6, <1>7
  <2>2. /\ (A \o B) \o C \in Seq(Words)
        /\ ToSet((A \o B) \o C) = ToSet(A \o B) \cup ToSet(C)
    BY <1>3, <1>7, WordsConcat, Zenon
  <2>3. IsInjective(c.configs) => IsInjective((A \o B) \o C)
    BY <1>3, <1>7, <2>1, WordsApart, Zenon
  <2> QED
    BY <2>2, <2>3
<1>9. /\ ((A \o B) \o C) \o D \in Seq(Words)
      /\ ToSet(((A \o B) \o C) \o D) = ToSet((A \o B) \o C) \cup ToSet(D)
      /\ IsInjective(c.configs) => IsInjective(((A \o B) \o C) \o D)
  <2>1. ToSet((A \o B) \o C) \cap ToSet(D) = {}
    BY <1>1, <1>2, <1>3, <1>4, <1>5, <1>6, <1>7, <1>8
  <2>2. /\ ((A \o B) \o C) \o D \in Seq(Words)
        /\ ToSet(((A \o B) \o C) \o D) = ToSet((A \o B) \o C) \cup ToSet(D)
    BY <1>4, <1>8, WordsConcat, Zenon
  <2>3. IsInjective(c.configs) => IsInjective(((A \o B) \o C) \o D)
    BY <1>4, <1>8, <2>1, WordsApart, Zenon
  <2> QED
    BY <2>2, <2>3
<1>10. CascVolumes(c) = Opt(c.enabled, ((A \o B) \o C) \o D)
  BY DEF CascVolumes, A, B, C, D
<1> DEFINE E == ((A \o B) \o C) \o D
<1>11. ToSet(E) = ToSet(A) \cup ToSet(B) \cup ToSet(C) \cup ToSet(D)
  BY <1>7, <1>8, <1>9
<1>12. /\ Opt(c.enabled, E) \in Seq(Words)
       /\ ToSet(Opt(c.enabled, E)) = IF c.enabled THEN ToSet(E) ELSE {}
       /\ IsInjective(c.configs) => IsInjective(Opt(c.enabled, E))
  BY <1>0, <1>9, OptSet, Zenon
<1>13. ToSet(E) = {Casc} \cup (IF c.default THEN {CascDefault} ELSE {})
                    \cup {CascInit(w) : w \in ToSet(c.configs)}
                    \cup (IF c.secret THEN {CascSecret} ELSE {})
  BY <1>1, <1>2, <1>3, <1>4, <1>11, Zenon
<1> QED
  BY <1>10, <1>12, <1>13, Zenon

---------------------------------------------------------------------------
(* The pod of a calculated spec.                                           *)

\* What calculating a spec leaves alone, and what it makes sure of.
LEMMA CalculatedIs ==
  ASSUME NEW s \in PodSpec
  PROVE  /\ Calculated(s) \in PodSpec /\ Calculated(s).casc \in CascType
         /\ Calculated(s).casc = IF s.casc = NoCasc THEN DefaultCasc ELSE s.casc
         /\ Calculated(s).plugins = IF s.plugins = <<>> THEN BasePlugins ELSE s.plugins
         /\ Calculated(s).mounts = s.mounts /\ Calculated(s).others = s.others
         /\ Calculated(s).volumes = s.volumes /\ Calculated(s).backups = s.backups
         /\ Calculated(s).force = s.force /\ Calculated(s).persistent = s.persistent
<1>1. DefaultCasc \in CascType
  BY EmptySeq, Zenon DEF DefaultCasc, CascType
<1>2. "jenkins-master" \in Own
  BY DEF Own
<1>3. /\ s \in PodSpec /\ s.opts \in {"unset", "flags", "other"}
      /\ s.casc \in CascType \cup {NoCasc} /\ s.plugins \in Seq(LineType)
  BY DEF PodSpec
<1> DEFINE opts    == IF s.opts = "unset" THEN "flags" ELSE s.opts
           casc    == IF s.casc = NoCasc THEN DefaultCasc ELSE s.casc
           plugins == IF s.plugins = <<>> THEN BasePlugins ELSE s.plugins
<1>4. /\ opts \in {"unset", "flags", "other"} /\ casc \in CascType
      /\ plugins \in Seq(LineType)
  BY <1>1, <1>3, PodAssumption
<1>5. Calculated(s) = [s EXCEPT !.first = "jenkins-master", !.opts = opts,
                                !.casc = casc, !.plugins = plugins]
  BY DEF Calculated
<1> HIDE DEF opts, casc, plugins
<1>6. Calculated(s) \in PodSpec
  BY <1>2, <1>4, <1>5 DEF PodSpec
<1>7. /\ Calculated(s).casc = casc
      /\ Calculated(s).plugins = plugins
      /\ Calculated(s).mounts = s.mounts /\ Calculated(s).others = s.others
      /\ Calculated(s).volumes = s.volumes /\ Calculated(s).backups = s.backups
      /\ Calculated(s).force = s.force /\ Calculated(s).persistent = s.persistent
  BY <1>5 DEF PodSpec
<1> QED
  BY <1>4, <1>6, <1>7 DEF casc, plugins

LEMMA BaseVolumesAre ==
  ASSUME NEW s \in PodSpec, s.casc \in CascType
  PROVE  /\ BaseVolumes(s) \in Seq(Words)
         /\ ToSet(BaseVolumes(s)) =
              {Scripts, <<"init-configuration">>, <<"base-plugins">>,
               <<"operator-credentials">>, Home} \cup ToSet(s.backups) \cup ToSet(CascVolumes(s.casc))
         /\ s.backups = <<>> /\ IsInjective(s.casc.configs) => IsInjective(BaseVolumes(s))
<1> DEFINE A == <<Scripts, <<"init-configuration">>, <<"base-plugins">>,
                  <<"operator-credentials">>, Home>>
           B == s.backups
           C == CascVolumes(s.casc)
<1>1. BaseVolumes(s) = (A \o B) \o C
  BY PodAssumption DEF BaseVolumes, Opt
<1>2. /\ A \in Seq(Words) /\ IsInjective(A)
      /\ ToSet(A) = {Scripts, <<"init-configuration">>, <<"base-plugins">>,
                     <<"operator-credentials">>, Home}
  <2>1. A \in Seq(Words)
    BY NamesTyped
  <2>2. DOMAIN A = {1, 2, 3, 4, 5}
    OBVIOUS
  <2>3. IsInjective(A)
    BY <2>2 DEF IsInjective, Scripts, Home
  <2> QED
    BY <2>1, <2>2, <2>3 DEF ToSet
<1>3. B \in Seq(Words)
  BY DEF PodSpec
<1>4. C \in Seq(Words) /\ (IsInjective(s.casc.configs) => IsInjective(C))
  BY CascSet
<1>5. ToSet(A) \cap ToSet(C) = {}
  <2>1. ToSet(C) \subseteq {Casc, CascDefault, CascSecret} \cup {CascInit(w) : w \in ToSet(s.casc.configs)}
    BY CascSet
  <2>2. ToSet(s.casc.configs) \subseteq Words
    BY DEF CascType, ToSet
  <2>3. ToSet(A) \cap {Casc, CascDefault, CascSecret} = {}
    BY <1>2 DEF Casc, CascDefault, CascSecret, Scripts, Home
  <2>4. \A w \in Words : CascInit(w) \notin ToSet(A)
    BY <1>2, InitsDiffer
  <2> QED
    BY <2>1, <2>2, <2>3, <2>4
<1> HIDE DEF A, B, C
<1>6. A \o B \in Seq(Words) /\ ToSet(A \o B) = ToSet(A) \cup ToSet(B)
  BY <1>2, <1>3, NameLists
<1>7. (A \o B) \o C \in Seq(Words) /\ ToSet((A \o B) \o C) = ToSet(A) \cup ToSet(B) \cup ToSet(C)
  <2>1. /\ (A \o B) \o C \in Seq(Words)
        /\ ToSet((A \o B) \o C) = ToSet(A \o B) \cup ToSet(C)
    BY <1>4, <1>6, WordsConcat, Zenon
  <2> QED
    BY <1>6, <2>1, Zenon
<1>8. ASSUME B = <<>>, IsInjective(s.casc.configs) PROVE IsInjective(A \o C)
  BY <1>2, <1>4, <1>5, <1>8, NameLists
<1>9. ASSUME B = <<>> PROVE A \o B = A
  BY <1>2, <1>9
<1>10. s.backups = <<>> /\ IsInjective(s.casc.configs) => IsInjective((A \o B) \o C)
  BY <1>8, <1>9, Zenon DEF B
<1>11. ToSet((A \o B) \o C) = ToSet(A) \cup ToSet(s.backups) \cup ToSet(CascVolumes(s.casc))
  BY <1>7 DEF B, C
<1> QED
  BY <1>1, <1>2, <1>7, <1>10, <1>11, Zenon

\* The volumes of the pod, and that each of them is there once.
LEMMA VolumesAre ==
  ASSUME NEW s \in PodSpec, s.casc \in CascType
  PROVE  /\ Volumes(s) \in Seq(Words)
         /\ ToSet(Volumes(s)) = ToSet(BaseVolumes(s)) \cup ToSet(s.volumes)
              \cup (IF s.backups # <<>> THEN ToSet(Pools(s.backups)) \cup {Helpers} ELSE {})
         /\ ToSet(BaseVolumes(s) \o s.volumes) = ToSet(BaseVolumes(s)) \cup ToSet(s.volumes)
         /\ s.backups = <<>> /\ IsInjective(s.casc.configs) /\ IsInjective(s.volumes)
              /\ Reserved(s) = {} => IsInjective(Volumes(s))
<1> DEFINE A == BaseVolumes(s)
           B == s.volumes
           C == Append(Pools(s.backups), Helpers)
           D == Opt(s.backups # <<>>, C)
<1>1. A \in Seq(Words) /\ B \in Seq(Words) /\ s.backups \in Seq(Words)
  BY BaseVolumesAre DEF PodSpec
<1>2. C \in Seq(Words) /\ ToSet(C) = ToSet(Pools(s.backups)) \cup {Helpers}
  BY <1>1, PoolsSet
<1>3. D \in Seq(Words) /\ ToSet(D) = (IF s.backups # <<>> THEN ToSet(C) ELSE {})
  BY <1>2, OptSet, Zenon
<1>4. A \o B \in Seq(Words) /\ ToSet(A \o B) = ToSet(A) \cup ToSet(B)
  BY <1>1, ConcatSet, Zenon
<1>5. (A \o B) \o D \in Seq(Words) /\ ToSet((A \o B) \o D) = ToSet(A \o B) \cup ToSet(D)
  <2> HIDE DEF A, B, C, D
  <2> QED
    BY <1>3, <1>4, WordsConcat, Zenon
<1>6. Volumes(s) = (A \o B) \o D
  BY DEF Volumes
<1>7. ASSUME s.backups = <<>>, IsInjective(s.casc.configs), IsInjective(s.volumes),
             Reserved(s) = {}
      PROVE  IsInjective(Volumes(s))
  <2>1. IsInjective(A) /\ IsInjective(B)
    BY <1>7, BaseVolumesAre
  <2>2. ToSet(A) \cap ToSet(B) = {}
    BY <1>7 DEF Reserved
  <2>3. IsInjective(A \o B)
    BY <1>1, <2>1, <2>2, ConcatInjective, Zenon
  <2>4. D = <<>>
    BY <1>7 DEF Opt
  <2>5. (A \o B) \o D = A \o B
    <3> HIDE DEF A, B, C, D
    <3> QED
      BY <1>4, <2>4
  <2> QED
    BY <1>6, <2>3, <2>5, Zenon
<1>8. ToSet(D) = IF s.backups # <<>> THEN ToSet(Pools(s.backups)) \cup {Helpers} ELSE {}
  BY <1>2, <1>3, Zenon
<1>9. ToSet(Volumes(s)) = ToSet(A) \cup ToSet(B) \cup ToSet(D)
  BY <1>4, <1>5, <1>6, Zenon
<1> QED
  BY <1>4, <1>5, <1>6, <1>7, <1>8, <1>9, Zenon

\* The containers and init containers of the pod, as sets.
LEMMA ContainersAre ==
  ASSUME NEW s \in PodSpec, s.casc \in CascType
  PROVE  /\ ToSet(Containers(s) \o InitContainers(s)) =
              ToSet(Containers(s)) \cup ToSet(InitContainers(s))
         /\ ToSet(Containers(s)) =
              {Container("jenkins-master", MasterMounts(s), TRUE)} \cup ToSet(s.others)
                \cup (IF s.casc.enabled /\ s.casc.reload
                      THEN {Container("config", {Casc, Home, Scripts}, TRUE)} ELSE {})
                \cup (IF s.backups # <<>>
                      THEN {Container("backup", BackupMounts(s) \cup {Home}, TRUE)} ELSE {})
         /\ ToSet(InitContainers(s)) =
              {Container("plugins-init", {Scripts, <<"base-plugins">>}, TRUE)}
                \cup (IF s.casc.enabled
                      THEN {Container("config-init", ConfigInitMounts(s), TRUE)} ELSE {})
                \cup (IF s.backups # <<>>
                      THEN {Container("backup-init", BackupMounts(s), TRUE)} ELSE {})
<1> DEFINE M == Container("jenkins-master", MasterMounts(s), TRUE)
           R == Container("config", {Casc, Home, Scripts}, TRUE)
           K == Container("backup", BackupMounts(s) \cup {Home}, TRUE)
           P == Container("plugins-init", {Scripts, <<"base-plugins">>}, TRUE)
           I == Container("config-init", ConfigInitMounts(s), TRUE)
           L == Container("backup-init", BackupMounts(s), TRUE)
           X == ToSet(s.others) \cup {M, R, K, P, I, L}
           reloads == s.casc.enabled /\ s.casc.reload
           saves   == s.backups # <<>>
<1>1. /\ s.casc # NoCasc /\ s.casc.enabled \in BOOLEAN /\ s.casc.reload \in BOOLEAN
      /\ s.others \in Seq(X)
  <2>1. s.others \in Seq(ContainerType)
    BY DEF PodSpec
  <2>2. s.others \in Seq(ToSet(s.others))
    BY <2>1 DEF ToSet
  <2>3. s.others \in Seq(X)
    <3>1. ToSet(s.others) \subseteq X
      OBVIOUS
    <3> HIDE DEF X
    <3> QED
      BY <2>2, <3>1
  <2> QED
    BY <2>3, PodAssumption DEF CascType
<1>2. \A x \in X, c \in BOOLEAN :
        /\ Opt(c, <<x>>) \in Seq(X) /\ ToSet(Opt(c, <<x>>)) = (IF c THEN {x} ELSE {})
        /\ <<x>> \in Seq(X) /\ ToSet(<<x>>) = {x}
  <2> TAKE x \in X, c \in BOOLEAN
  <2>1. <<x>> \in Seq(X) /\ ToSet(<<x>>) = {x}
    BY OneElement, Zenon
  <2> QED
    BY <2>1, OptSet, Zenon
<1>3. \A a, b \in Seq(X) : a \o b \in Seq(X) /\ ToSet(a \o b) = ToSet(a) \cup ToSet(b)
  BY ConcatSet, Zenon
<1>4. M \in X /\ R \in X /\ K \in X /\ P \in X /\ I \in X /\ L \in X
  OBVIOUS
<1>5. reloads \in BOOLEAN /\ saves \in BOOLEAN /\ TRUE \in BOOLEAN /\ s.casc.enabled \in BOOLEAN
  BY <1>1
<1>6. Containers(s) = (<<M>> \o (Opt(reloads, <<R>>) \o s.others)) \o Opt(saves, <<K>>)
  <2>1. Opt(s.casc # NoCasc, Opt(reloads, <<R>>) \o s.others) = Opt(reloads, <<R>>) \o s.others
    BY <1>1 DEF Opt
  <2> QED
    BY <2>1, Zenon DEF Containers
<1>7. InitContainers(s) = (<<P>> \o Opt(s.casc.enabled, <<I>>)) \o Opt(saves, <<L>>)
  <2>1. Opt(s.casc = NoCasc \/ s.casc.enabled, <<I>>) = Opt(s.casc.enabled, <<I>>)
    BY <1>1 DEF Opt
  <2> QED
    BY <2>1, Zenon DEF InitContainers
<1> HIDE DEF M, R, K, P, I, L, X, reloads, saves
<1>8. /\ Opt(reloads, <<R>>) \o s.others \in Seq(X)
      /\ ToSet(Opt(reloads, <<R>>) \o s.others) = (IF reloads THEN {R} ELSE {}) \cup ToSet(s.others)
  <2>1. /\ Opt(reloads, <<R>>) \in Seq(X)
        /\ ToSet(Opt(reloads, <<R>>)) = (IF reloads THEN {R} ELSE {})
    BY <1>2, <1>4, <1>5, Zenon
  <2>2. s.others \in Seq(X)
    BY <1>1
  <2> QED
    BY <1>3, <2>1, <2>2
<1>9. /\ <<M>> \o (Opt(reloads, <<R>>) \o s.others) \in Seq(X)
      /\ ToSet(<<M>> \o (Opt(reloads, <<R>>) \o s.others)) =
           {M} \cup ((IF reloads THEN {R} ELSE {}) \cup ToSet(s.others))
  <2>1. <<M>> \in Seq(X) /\ ToSet(<<M>>) = {M}
    BY <1>2, <1>4, <1>5, Zenon
  <2>2. /\ <<M>> \o (Opt(reloads, <<R>>) \o s.others) \in Seq(X)
        /\ ToSet(<<M>> \o (Opt(reloads, <<R>>) \o s.others)) =
             ToSet(<<M>>) \cup ToSet(Opt(reloads, <<R>>) \o s.others)
    BY <1>3, <1>8, <2>1, Zenon
  <2> QED
    BY <1>8, <2>1, <2>2, Zenon
<1>10. /\ Containers(s) \in Seq(X)
       /\ ToSet(Containers(s)) = ({M} \cup ((IF reloads THEN {R} ELSE {}) \cup ToSet(s.others)))
                                   \cup (IF saves THEN {K} ELSE {})
  <2>1. Opt(saves, <<K>>) \in Seq(X) /\ ToSet(Opt(saves, <<K>>)) = (IF saves THEN {K} ELSE {})
    BY <1>2, <1>4, <1>5, Zenon
  <2> DEFINE W == <<M>> \o (Opt(reloads, <<R>>) \o s.others)
  <2>3. W \in Seq(X)
    BY <1>9
  <2>4. Containers(s) = W \o Opt(saves, <<K>>)
    BY <1>6
  <2> HIDE DEF W
  <2>5. /\ Containers(s) \in Seq(X)
        /\ ToSet(Containers(s)) = ToSet(W) \cup ToSet(Opt(saves, <<K>>))
    BY <1>3, <2>1, <2>3, <2>4, Zenon
  <2>2. /\ Containers(s) \in Seq(X)
        /\ ToSet(Containers(s)) = ToSet(<<M>> \o (Opt(reloads, <<R>>) \o s.others))
                                    \cup ToSet(Opt(saves, <<K>>))
    BY <2>5 DEF W
  <2> QED
    BY <1>9, <2>1, <2>2, Zenon
<1>11. /\ <<P>> \o Opt(s.casc.enabled, <<I>>) \in Seq(X)
       /\ ToSet(<<P>> \o Opt(s.casc.enabled, <<I>>)) = {P} \cup (IF s.casc.enabled THEN {I} ELSE {})
  <2>1. <<P>> \in Seq(X) /\ ToSet(<<P>>) = {P}
    BY <1>2, <1>4, <1>5, Zenon
  <2>2. /\ Opt(s.casc.enabled, <<I>>) \in Seq(X)
        /\ ToSet(Opt(s.casc.enabled, <<I>>)) = (IF s.casc.enabled THEN {I} ELSE {})
    BY <1>2, <1>4, <1>5, Zenon
  <2> QED
    BY <1>3, <2>1, <2>2
<1>12. /\ InitContainers(s) \in Seq(X)
       /\ ToSet(InitContainers(s)) = ({P} \cup (IF s.casc.enabled THEN {I} ELSE {}))
                                       \cup (IF saves THEN {L} ELSE {})
  <2>1. Opt(saves, <<L>>) \in Seq(X) /\ ToSet(Opt(saves, <<L>>)) = (IF saves THEN {L} ELSE {})
    BY <1>2, <1>4, <1>5, Zenon
  <2> DEFINE W == <<P>> \o Opt(s.casc.enabled, <<I>>)
  <2>2. W \in Seq(X) /\ InitContainers(s) = W \o Opt(saves, <<L>>)
    BY <1>7, <1>11
  <2> HIDE DEF W
  <2>3. /\ InitContainers(s) \in Seq(X)
        /\ ToSet(InitContainers(s)) = ToSet(W) \cup ToSet(Opt(saves, <<L>>))
    BY <1>3, <2>1, <2>2, Zenon
  <2>4. ToSet(W) = {P} \cup (IF s.casc.enabled THEN {I} ELSE {})
    BY <1>11 DEF W
  <2> QED
    BY <2>1, <2>3, <2>4, Zenon
<1>13. ToSet(Containers(s) \o InitContainers(s)) =
         ToSet(Containers(s)) \cup ToSet(InitContainers(s))
  BY <1>3, <1>10, <1>12, Zenon
<1>14. ToSet(Containers(s)) = {M} \cup ToSet(s.others) \cup (IF reloads THEN {R} ELSE {})
                                \cup (IF saves THEN {K} ELSE {})
  BY <1>10
<1> QED
  BY <1>12, <1>13, <1>14, Zenon DEF M, R, K, P, I, L, reloads, saves

\* Each mount is of a volume the pod has, whoever put it there.
LEMMA MountsAre ==
  ASSUME NEW s \in PodSpec, s.casc \in CascType, VerifyVolumes(s)
  PROVE  \A c \in ToSet(Containers(s) \o InitContainers(s)) :
           c.mounts \subseteq ToSet(Volumes(s))
<1> DEFINE V == ToSet(Volumes(s))
<1>1. {Scripts, <<"init-configuration">>, <<"base-plugins">>, Home} \subseteq V
  BY BaseVolumesAre, VolumesAre
<1>2. ToSet(CascVolumes(s.casc)) \subseteq V
  BY BaseVolumesAre, VolumesAre
<1>3. s.casc.enabled =>
        /\ Casc \in V
        /\ s.casc.default => CascDefault \in V
        /\ s.casc.secret => CascSecret \in V
        /\ {CascInit(w) : w \in ToSet(s.casc.configs)} \subseteq V
  BY <1>2, CascSet
<1>4. s.backups # <<>> => ToSet(Pools(s.backups)) \cup {Helpers} \subseteq V
  BY VolumesAre
<1>5. ToSet(BaseVolumes(s) \o s.volumes) \subseteq V
  BY VolumesAre
<1>6. s.casc # NoCasc /\ s.casc.configs \in Seq(Words)
      /\ s.casc.enabled \in BOOLEAN /\ s.casc.default \in BOOLEAN /\ s.casc.secret \in BOOLEAN
  BY PodAssumption DEF CascType
<1>7. s.others \in Seq(ContainerType)
  BY DEF PodSpec
<1>8. \A c \in ToSet(UserContainers(s)) : c.mounts \subseteq V
  BY <1>5 DEF VerifyVolumes, Unmounted
<1>9. Container("jenkins-master", s.mounts, TRUE) \in ToSet(UserContainers(s))
      /\ ToSet(s.others) \subseteq ToSet(UserContainers(s))
  <2> DEFINE M == Container("jenkins-master", s.mounts, TRUE)
             X == ToSet(s.others) \cup {M}
  <2>1. <<M>> \in Seq(X) /\ ToSet(<<M>>) = {M}
    BY OneElement, Zenon
  <2>2. s.others \in Seq(X)
    <3>1. s.others \in Seq(ToSet(s.others))
      BY <1>7 DEF ToSet
    <3>2. ToSet(s.others) \subseteq X
      OBVIOUS
    <3> HIDE DEF X
    <3> QED
      BY <3>1, <3>2
  <2>3. ToSet(<<M>> \o s.others) = ToSet(<<M>>) \cup ToSet(s.others)
    <3> HIDE DEF M, X
    <3>1. ASSUME NEW a \in Seq(X), NEW b \in Seq(X)
          PROVE  ToSet(a \o b) = ToSet(a) \cup ToSet(b)
      BY ConcatSet, Zenon
    <3> QED
      BY <2>1, <2>2, <3>1, Zenon
  <2> QED
    BY <2>1, <2>3 DEF UserContainers
<1>10. s.mounts \subseteq V /\ \A c \in ToSet(s.others) : c.mounts \subseteq V
  BY <1>8, <1>9 DEF Container
<1> HIDE DEF V
<1>11. MasterMounts(s) \subseteq V
  <2>1. ASSUME s.casc.enabled
        PROVE  ToSet(<<Casc>> \o Opt(s.casc.secret, <<CascSecret>>)) \subseteq V
    <3>1. <<Casc>> \in Seq(Words) /\ ToSet(<<Casc>>) = {Casc}
      BY NamesTyped, NameLists
    <3>2. /\ Opt(s.casc.secret, <<CascSecret>>) \in Seq(Words)
          /\ ToSet(Opt(s.casc.secret, <<CascSecret>>)) = IF s.casc.secret THEN {CascSecret} ELSE {}
      BY <1>6, NamesTyped, OptOne, Zenon
    <3>3. ToSet(<<Casc>> \o Opt(s.casc.secret, <<CascSecret>>)) =
            ToSet(<<Casc>>) \cup ToSet(Opt(s.casc.secret, <<CascSecret>>))
      BY <3>1, <3>2, WordsConcat, Zenon
    <3>4. ToSet(<<Casc>> \o Opt(s.casc.secret, <<CascSecret>>)) =
            {Casc} \cup (IF s.casc.secret THEN {CascSecret} ELSE {})
      BY <3>1, <3>2, <3>3, Zenon
    <3>5. Casc \in V /\ (s.casc.secret => CascSecret \in V)
      BY <1>3, <2>1
    <3> QED
      BY <3>4, <3>5
  <2>2. ToSet(Opt(s.casc # NoCasc /\ s.casc.enabled,
                  <<Casc>> \o Opt(s.casc.secret, <<CascSecret>>))) \subseteq V
    <3>1. ToSet(<<>>) = {}
      BY DEF ToSet
    <3> QED
      BY <1>6, <2>1, <3>1 DEF Opt
  <2> QED
    BY <1>1, <1>10, <2>2 DEF MasterMounts
<1>12. ASSUME s.casc.enabled PROVE ConfigInitMounts(s) \subseteq V
  <2>1. ToSet(Opt(s.casc = NoCasc \/ s.casc.default, <<CascDefault>>)) =
          (IF s.casc.default THEN {CascDefault} ELSE {})
    <3>1. (s.casc = NoCasc \/ s.casc.default) = s.casc.default
      BY <1>6
    <3> QED
      BY <1>6, <3>1, NamesTyped, OptOne, Zenon
  <2>2. ToSet(Opt(s.casc # NoCasc /\ s.casc.enabled, CascInits(s.casc.configs))) =
          {CascInit(w) : w \in ToSet(s.casc.configs)}
    BY <1>6, <1>12, InitsSet DEF Opt
  <2> QED
    BY <1>3, <1>12, <2>1, <2>2 DEF ConfigInitMounts
<1>13. s.backups # <<>> => BackupMounts(s) \cup {Home} \subseteq V
  BY <1>1, <1>4 DEF BackupMounts
<1>14. \A c \in ToSet(Containers(s)) : c.mounts \subseteq V
  <2> TAKE c \in ToSet(Containers(s))
  <2>1. CASE c = Container("jenkins-master", MasterMounts(s), TRUE)
    BY <1>11, <2>1 DEF Container
  <2>2. CASE c \in ToSet(s.others)
    BY <1>10, <2>2
  <2>3. CASE s.casc.enabled /\ c = Container("config", {Casc, Home, Scripts}, TRUE)
    BY <1>1, <1>3, <2>3 DEF Container
  <2>4. CASE s.backups # <<>> /\ c = Container("backup", BackupMounts(s) \cup {Home}, TRUE)
    BY <1>13, <2>4 DEF Container
  <2> QED
    BY <2>1, <2>2, <2>3, <2>4, ContainersAre
<1>15. \A c \in ToSet(InitContainers(s)) : c.mounts \subseteq V
  <2> TAKE c \in ToSet(InitContainers(s))
  <2>1. CASE c = Container("plugins-init", {Scripts, <<"base-plugins">>}, TRUE)
    BY <1>1, <2>1 DEF Container
  <2>2. CASE s.casc.enabled /\ c = Container("config-init", ConfigInitMounts(s), TRUE)
    BY <1>12, <2>2 DEF Container
  <2>3. CASE s.backups # <<>> /\ c = Container("backup-init", BackupMounts(s), TRUE)
    BY <1>13, <2>3 DEF Container
  <2>4. \/ c = Container("plugins-init", {Scripts, <<"base-plugins">>}, TRUE)
        \/ s.casc.enabled /\ c = Container("config-init", ConfigInitMounts(s), TRUE)
        \/ s.backups # <<>> /\ c = Container("backup-init", BackupMounts(s), TRUE)
    BY ContainersAre
  <2> QED
    BY <2>1, <2>2, <2>3, <2>4
<1> QED
  BY <1>14, <1>15, ContainersAre DEF V

\* Of two specs that differ in their plugins and options only, the pods are the
\* same, and so is the judgement about their volumes.
LEMMA SamePod ==
  ASSUME NEW s \in PodSpec, NEW t \in PodSpec,
         s.mounts = t.mounts, s.others = t.others, s.volumes = t.volumes, s.casc = t.casc,
         s.backups = t.backups, s.force = t.force, s.persistent = t.persistent
  PROVE  Pod(s) = Pod(t) /\ VerifyVolumes(s) = VerifyVolumes(t)
<1>1. BaseVolumes(s) = BaseVolumes(t)
  BY DEF BaseVolumes
<1>2. Volumes(s) = Volumes(t)
  BY <1>1 DEF Volumes
<1>3. MasterMounts(s) = MasterMounts(t) /\ BackupMounts(s) = BackupMounts(t)
  BY DEF MasterMounts, BackupMounts
<1>4. Containers(s) = Containers(t)
  BY <1>3 DEF Containers
<1>5. ConfigInitMounts(s) = ConfigInitMounts(t)
  BY DEF ConfigInitMounts
<1>6. InitContainers(s) = InitContainers(t)
  BY <1>3, <1>5 DEF InitContainers
<1>7. UserContainers(s) = UserContainers(t) /\ Reserved(s) = Reserved(t)
      /\ \A c : Unmounted(s, c) = Unmounted(t, c)
  BY <1>1 DEF UserContainers, Reserved, Unmounted
<1> QED
  BY <1>2, <1>4, <1>6, <1>7 DEF Pod, Hook, VerifyVolumes

---------------------------------------------------------------------------
(* PodStart: the pod is that of the spec.                                  *)

\* Lines of the list change nothing of the pod but what its start installs.
LEMMA SamePodOfLists ==
  ASSUME NEW s \in PodSpec, NEW plugins \in Seq(LineType)
  PROVE  LET t == [s EXCEPT !.plugins = plugins] IN
         /\ t \in PodSpec
         /\ Pod(Calculated(t)) = Pod(Calculated(s))
         /\ VerifyVolumes(Calculated(t)) = VerifyVolumes(Calculated(s))
<1> DEFINE t == [s EXCEPT !.plugins = plugins]
<1>1. t \in PodSpec
  BY DEF PodSpec
<1>2. /\ t.mounts = s.mounts /\ t.others = s.others /\ t.volumes = s.volumes
      /\ t.casc = s.casc /\ t.backups = s.backups /\ t.force = s.force
      /\ t.persistent = s.persistent
  BY DEF PodSpec
<1> HIDE DEF t
<1> DEFINE cs == Calculated(s)
           ct == Calculated(t)
<1>3. /\ cs \in PodSpec /\ ct \in PodSpec /\ ct.casc = cs.casc
      /\ cs.mounts = s.mounts /\ cs.others = s.others /\ cs.volumes = s.volumes
      /\ cs.backups = s.backups /\ cs.force = s.force /\ cs.persistent = s.persistent
      /\ ct.mounts = t.mounts /\ ct.others = t.others /\ ct.volumes = t.volumes
      /\ ct.backups = t.backups /\ ct.force = t.force /\ ct.persistent = t.persistent
  BY <1>1, <1>2, CalculatedIs
<1> HIDE DEF cs, ct
<1>4. Pod(ct) = Pod(cs) /\ VerifyVolumes(ct) = VerifyVolumes(cs)
  BY <1>2, <1>3, SamePod
<1> QED
  BY <1>1, <1>4 DEF t, cs, ct

LEMMA PodIsThere ==
  ASSUME NEW s \in PodSpec, s.casc \in CascType
  PROVE  Pod(s) # NoPod
<1>1. Home \in ToSet(Volumes(s))
  BY BaseVolumesAre, VolumesAre
<1>2. Volumes(s) # <<>>
  BY <1>1 DEF ToSet
<1> QED
  BY <1>2 DEF Pod, NoPod

LEMMA FirstPod == StartInit => PodInv
<1> SUFFICES ASSUME StartInit PROVE PodInv
  OBVIOUS
<1>1. spec \in PodSpec /\ (spec.force => spec.plugins \in Lists)
  BY PodAssumption, StartAssumption DEF StartInit, PodInit
<1>2. pod = NoPod /\ ~ pod.hook /\ judgement = "none" /\ installed \in Seq(LineType)
  BY DEF StartInit, PodInit, NoPod
<1> QED
  BY <1>1, <1>2 DEF PodInv

\* What a spec has to have for its Deployment to be created at all.
LEMMA ReconcileKeepsPod ==
  ASSUME PodInv, Reconcile
  PROVE  PodInv'
<1> DEFINE s == Calculated(spec)
<1>1. /\ spec \in PodSpec /\ spec' = spec
      /\ s \in PodSpec /\ s.casc \in CascType /\ s.force = spec.force
      /\ s.plugins = IF spec.plugins = <<>> THEN BasePlugins ELSE spec.plugins
  BY CalculatedIs DEF PodInv, Reconcile
<1>2. CASE judgement' # "accepted"
  BY <1>1, <1>2 DEF Reconcile, PodInv
<1>3. CASE judgement' = "accepted"
  <2>1. /\ Accepted(s) /\ installed' = s.plugins
        /\ pod' = IF pod = NoPod THEN Pod(s) ELSE pod
    BY <1>3 DEF Reconcile
  <2>2. pod' = Pod(s) /\ pod' # NoPod /\ VerifyVolumes(s) /\ VerifyBasePlugins(installed')
    BY <1>1, <2>1, PodIsThere DEF PodInv, Accepted
  <2>3. installed' \in Seq(LineType)
    BY <1>1, <2>1 DEF PodSpec
  <2>4. pod'.hook = spec.force
    BY <1>1, <2>2 DEF Pod, Hook
  <2>5. pod'.hook => installed' \in Lists \cup {BasePlugins}
    BY <1>1, <2>1, <2>4 DEF PodInv
  <2> QED
    BY <1>1, <2>2, <2>3, <2>5 DEF PodInv
<1> QED
  BY <1>2, <1>3

LEMMA EditKeepsPod ==
  ASSUME PodInv, NEW plugins \in Lists, Edit(plugins)
  PROVE  PodInv'
<1>1. /\ spec \in PodSpec /\ plugins \in Seq(LineType)
      /\ spec' = [spec EXCEPT !.plugins = plugins]
      /\ judgement' = "none" /\ installed' = installed /\ pod' = pod
  BY StartAssumption DEF PodInv, Edit
<1>2. /\ spec' \in PodSpec /\ Pod(Calculated(spec')) = Pod(Calculated(spec))
      /\ VerifyVolumes(Calculated(spec')) = VerifyVolumes(Calculated(spec))
  BY <1>1, SamePodOfLists
<1>3. spec'.plugins = plugins
  BY <1>1 DEF PodSpec
<1> QED
  BY <1>1, <1>2, <1>3 DEF PodInv

LEMMA PodSteps == PodInv /\ [StartNext]_startVars => PodInv'
<1> SUFFICES ASSUME PodInv, [StartNext]_startVars PROVE PodInv'
  OBVIOUS
<1>1. CASE Judge
  BY <1>1, ReconcileKeepsPod DEF Judge
<1>2. ASSUME NEW plugins \in Lists, Edit(plugins) PROVE PodInv'
  BY <1>2, EditKeepsPod
<1>3. ASSUME Start \/ Install \/ Break PROVE UNCHANGED installed
  BY <1>3, Zenon DEF Start, Install, Break, Script!Begin, Script!Progress, Script!Lock, Script!Analyze,
       Script!Finish, Script!Test, Script!Fetch, Script!Transfer, Script!Check,
       Script!Kill, Script!Recreate
<1>4. CASE (Start \/ Install \/ Break) /\ UNCHANGED <<spec, judgement, pod>>
  BY <1>3, <1>4 DEF PodInv
<1>5. CASE UNCHANGED startVars
  BY <1>5 DEF startVars, podVars, PodInv
<1> QED
  BY <1>1, <1>2, <1>4, <1>5 DEF StartNext

LEMMA PodInvHolds == StartSpec => []PodInv
  BY FirstPod, PodSteps, PTL DEF StartSpec

LEMMA MountsFollow == PodInv => MountsResolve
<1> SUFFICES ASSUME PodInv PROVE MountsResolve
  OBVIOUS
<1>1. CASE pod = NoPod
  BY <1>1 DEF NoPod, MountsResolve, AllContainers, Twice, ToSet
<1>2. CASE pod # NoPod
  <2> DEFINE s == Calculated(spec)
  <2>1. /\ spec \in PodSpec /\ pod = Pod(s) /\ VerifyVolumes(s)
    BY <1>2 DEF PodInv
  <2>2. /\ s \in PodSpec /\ s.casc \in CascType
        /\ s.casc = IF spec.casc = NoCasc THEN DefaultCasc ELSE spec.casc
        /\ s.volumes = spec.volumes /\ s.backups = spec.backups
    BY <2>1, CalculatedIs
  <2> HIDE DEF s
  <2>3. /\ pod.volumes = Volumes(s) /\ pod.containers = Containers(s)
        /\ pod.inits = InitContainers(s)
    BY <2>1 DEF Pod
  <2>4. \A c \in AllContainers : c.mounts \subseteq ToSet(pod.volumes)
    BY <2>1, <2>2, <2>3, MountsAre DEF AllContainers
  <2>5. ASSUME spec.backups = <<>>, IsInjective(spec.volumes),
               spec.casc = NoCasc \/ IsInjective(spec.casc.configs)
        PROVE  Twice = {}
    <3>1. IsInjective(s.casc.configs)
      BY <2>2, <2>5 DEF DefaultCasc, IsInjective
    <3>2. Reserved(s) = {}
      BY <2>1 DEF VerifyVolumes
    <3>3. Volumes(s) \in Seq(Words) /\ IsInjective(Volumes(s))
      BY <2>2, <2>5, <3>1, <3>2, VolumesAre
    <3>4. pod.volumes \in Seq(Words) /\ IsInjective(pod.volumes)
      BY <2>3, <3>3, Zenon
    <3> QED
      BY <3>4, OnceOnly, Zenon DEF Twice
  <2> QED
    BY <2>4, <2>5 DEF MountsResolve
<1> QED
  BY <1>1, <1>2

\* In the pod of an accepted Jenkins every mount names a volume, and one only:
\* the parts that name them independently of each other agree.
THEOREM MountsResolved == StartSpec => []MountsResolve
  BY PodInvHolds, MountsFollow, PTL

LEMMA CompletenessFollows == PodInv => PodIsComplete
<1> SUFFICES ASSUME PodInv, judgement = "accepted" PROVE PodIsComplete
  BY DEF PodIsComplete
<1> DEFINE s == Calculated(spec)
           c == IF spec.casc = NoCasc THEN DefaultCasc ELSE spec.casc
           from == ToSet(CascInits(c.configs))
                     \cup (IF c.default THEN {CascDefault} ELSE {})
<1>1. /\ spec \in PodSpec /\ pod = Pod(s)
  BY DEF PodInv
<1>2. /\ s \in PodSpec /\ s.casc \in CascType /\ s.casc = c
      /\ s.others = spec.others
  BY <1>1, CalculatedIs
<1> HIDE DEF s, c
<1>3. pod.containers = Containers(s) /\ pod.inits = InitContainers(s)
  BY <1>1 DEF Pod
<1>4. AllContainers = ToSet(Containers(s)) \cup ToSet(InitContainers(s))
  BY <1>2, <1>3, ContainersAre DEF AllContainers
<1>5. c # NoCasc /\ c.enabled \in BOOLEAN /\ c.default \in BOOLEAN /\ c.reload \in BOOLEAN
      /\ c.secret \in BOOLEAN /\ c.configs \in Seq(Words)
  BY <1>2, PodAssumption DEF CascType
<1>6. ToSet(spec.others) \subseteq ToSet(pod.containers)
  BY <1>2, <1>3, ContainersAre
<1>7. ASSUME c.enabled
      PROVE  \E k \in AllContainers : k.name = "config-init" /\ from \cup {Casc} \subseteq k.mounts
  <2> DEFINE I == Container("config-init", ConfigInitMounts(s), TRUE)
  <2>1. I \in AllContainers
    BY <1>2, <1>4, <1>7, ContainersAre
  <2>2. ToSet(Opt(c # NoCasc /\ c.enabled, CascInits(c.configs))) = ToSet(CascInits(c.configs))
    BY <1>5, <1>7 DEF Opt
  <2>3. c.default => CascDefault \in ToSet(Opt(c = NoCasc \/ c.default, <<CascDefault>>))
    BY <1>5 DEF Opt, ToSet
  <2>4. from \cup {Casc} \subseteq ConfigInitMounts(s)
    BY <1>2, <2>2, <2>3 DEF ConfigInitMounts
  <2> QED
    BY <2>1, <2>4 DEF Container
<1>8. ASSUME c.enabled
      PROVE  \E k \in AllContainers :
               /\ k.name = "jenkins-master"
               /\ Casc \in k.mounts /\ (c.secret => CascSecret \in k.mounts)
  <2> DEFINE M == Container("jenkins-master", MasterMounts(s), TRUE)
             A == <<Casc>> \o Opt(c.secret, <<CascSecret>>)
  <2>1. M \in AllContainers
    BY <1>2, <1>4, ContainersAre
  <2>2. ToSet(Opt(c # NoCasc /\ c.enabled, A)) = ToSet(A)
    BY <1>5, <1>8 DEF Opt
  <2>3. <<Casc>> \in Seq(Words) /\ ToSet(<<Casc>>) = {Casc}
    BY NamesTyped, NameLists
  <2>4. /\ Opt(c.secret, <<CascSecret>>) \in Seq(Words)
        /\ ToSet(Opt(c.secret, <<CascSecret>>)) = (IF c.secret THEN {CascSecret} ELSE {})
    BY <1>5, NamesTyped, OptOne, Zenon
  <2>5. ToSet(A) = ToSet(<<Casc>>) \cup ToSet(Opt(c.secret, <<CascSecret>>))
    BY <2>3, <2>4, WordsConcat, Zenon
  <2>6. Casc \in ToSet(A) /\ (c.secret => CascSecret \in ToSet(A))
    <3> HIDE DEF A
    <3> QED
      BY <2>3, <2>4, <2>5
  <2>7. Casc \in MasterMounts(s) /\ (c.secret => CascSecret \in MasterMounts(s))
    <3>1. ToSet(A) \subseteq MasterMounts(s)
      BY <1>2, <2>2 DEF MasterMounts
    <3> QED
      BY <2>6, <3>1
  <2> QED
    BY <2>1, <2>7 DEF Container
<1>9. ASSUME c.enabled, c.reload
      PROVE  \E k \in AllContainers : k.name = "config" /\ {Casc} \subseteq k.mounts
  <2>1. Container("config", {Casc, Home, Scripts}, TRUE) \in AllContainers
    BY <1>2, <1>4, <1>9, ContainersAre
  <2> QED
    BY <2>1 DEF Container
<1> QED
  BY <1>6, <1>7, <1>8, <1>9 DEF PodIsComplete, c

\* The pod of an accepted Jenkins has all the spec asks for: the user's other
\* containers, and the configuration as code, mounted where it is read.
THEOREM PodComplete == StartSpec => []PodIsComplete
  BY PodInvHolds, CompletenessFollows, PTL

---------------------------------------------------------------------------
(* PodStart: the script that fills the home.                               *)

\* The lines of the list of a run.
LEMMA LinesAre ==
  ASSUME ScriptInv
  PROVE  /\ list \in Seq(LineType)
         /\ \A i \in DOMAIN list :
              /\ list[i] \in LineType /\ list[i].name \in Script!Names(list[i])
              /\ Script!Names(list[i]) = {list[i].name, Alias[list[i].name]}
              /\ list[i].name # Alias[list[i].name]
              /\ Script!Names(list[i]) \subseteq Files
              /\ Script!Version(list[i]) \in Nat \cup {Garbled}
              /\ Script!Version(list[i]) # Garbled => Script!Version(list[i]) = list[i].version
<1>1. list \in Seq(LineType)
  BY StartAssumption, PodAssumption DEF ScriptInv
<1>2. ASSUME NEW i \in DOMAIN list
      PROVE  list[i] \in Plugins /\ list[i] \in LineType
  <2>1. list # <<>>
    BY <1>2
  <2>2. list \in Lists \cup {BasePlugins}
    BY <2>1 DEF ScriptInv
  <2>3. list[i] \in ToSet(list)
    BY <1>2 DEF ToSet
  <2> QED
    BY <1>1, <2>2, <2>3 DEF Plugins
<1>3. ASSUME NEW i \in DOMAIN list
      PROVE  /\ list[i].name \in Script!Names(list[i])
             /\ Script!Names(list[i]) = {list[i].name, Alias[list[i].name]}
             /\ list[i].name # Alias[list[i].name]
             /\ Script!Names(list[i]) \subseteq Files
  BY <1>2, StartAssumption DEF Script!Names
<1>4. ASSUME NEW p \in LineType
      PROVE  /\ Script!Version(p) \in Nat \cup {Garbled}
             /\ Script!Version(p) # Garbled => Script!Version(p) = p.version
  BY DEF Script!Version, LineType
<1> QED
  BY <1>1, <1>2, <1>3, <1>4

LEMMA ArchivesAre ==
  ASSUME NEW v \in Nat \cup {Garbled}, NEW whole \in BOOLEAN
  PROVE  /\ Script!Archive(v, whole) \in ArchiveType
         /\ Script!Archive(v, whole) # None
         /\ Script!Archive(v, whole).version = v
         /\ Script!Archive(v, whole).whole = whole
<1>1. Script!Archive(v, whole) \in ArchiveType
  BY DEF Script!Archive, ArchiveType
<1> QED
  BY <1>1, StartAssumption DEF Script!Archive

LEMMA JobsAre ==
  ASSUME NEW name \in Files
  PROVE  Script!Job(name) \in JobType /\ Script!Job(name).step = "test"
         /\ Script!Job(name).name = name
  BY DEF Script!Job, JobType

LEMMA FirstStart == StartInit => ScriptInv
<1> SUFFICES ASSUME StartInit PROVE ScriptInv
  OBVIOUS
<1>1. /\ list = <<>> /\ script = "off" /\ downloads = <<>> /\ files = [f \in Files |-> None]
  BY DEF StartInit, Script!NoFiles
<1>2. downloads \in Seq(JobType) /\ Len(downloads) = 0 /\ DOMAIN downloads = {}
  BY <1>1
<1> QED
  BY <1>1, <1>2 DEF ScriptInv

\* A run that ends leaves the home, or takes it along.
LEMMA ExitKeeps ==
  ASSUME ScriptInv, Script!Exit,
         UNCHANGED files \/ files' = [f \in Files |-> None]
  PROVE  ScriptInv'
<1>1. /\ script' = "off" /\ downloads' = <<>> /\ list' = list
  BY DEF Script!Exit
<1>2. downloads' \in Seq(JobType) /\ Len(downloads') = 0 /\ DOMAIN downloads' = {}
  BY <1>1
<1>3. /\ files' \in [Files -> ArchiveType \cup {None}]
      /\ \A f \in Files : files'[f] # None => <<f, files'[f].version>> \in Served
  BY DEF ScriptInv
<1>4. 0 <= Len(list')
  BY <1>1, LinesAre
<1> QED
  BY <1>1, <1>2, <1>3, <1>4 DEF ScriptInv

LEMMA StartKeeps ==
  ASSUME PodInv, ScriptInv, Start
  PROVE  ScriptInv'
<1>1. /\ script' = "locking" /\ list' = installed /\ downloads' = <<>> /\ files' = files
      /\ pod.hook
  BY DEF Start, Script!Begin
<1>2. installed \in Lists \cup {BasePlugins} /\ VerifyBasePlugins(installed)
      /\ installed \in Seq(LineType)
  BY <1>1 DEF PodInv, NoPod
<1>3. downloads' \in Seq(JobType) /\ Len(downloads') = 0 /\ DOMAIN downloads' = {}
      /\ 0 <= Len(list')
  BY <1>1, <1>2
<1> QED
  BY <1>1, <1>2, <1>3 DEF ScriptInv

LEMMA LockKeeps ==
  ASSUME ScriptInv, Script!Lock
  PROVE  ScriptInv'
<1>0. Len(downloads) \in Nat
  BY DEF ScriptInv
<1> PICK n \in Nat : n = Len(downloads) + 1
  BY <1>0
<1> DEFINE name == list[n].name
<1>1. /\ script = "locking" /\ n - 1 < Len(list) /\ downloads \in Seq(JobType)
      /\ Len(downloads) \in Nat /\ UNCHANGED <<files, failed>>
  BY DEF Script!Lock, ScriptInv
<1>2. CASE Script!Exit
  BY <1>1, <1>2, ExitKeeps
<1>3. CASE downloads' = Append(downloads, Script!Job(name)) /\ UNCHANGED <<list, script>>
  <2>1. n \in DOMAIN list /\ name \in Files /\ name \in Script!Names(list[n])
    BY <1>1, LinesAre
  <2>2. /\ Script!Job(name) \in JobType /\ Script!Job(name).step = "test"
        /\ Script!Job(name).name = name
    BY <2>1, JobsAre
  <2> HIDE DEF name
  <2>3. /\ downloads' \in Seq(JobType) /\ Len(downloads') = n /\ n <= Len(list')
        /\ DOMAIN downloads' = 1..n
        /\ \A j \in 1..(n - 1) : downloads'[j] = downloads[j]
        /\ downloads'[n] = Script!Job(name)
    BY <1>1, <1>3, <2>1, <2>2, LinesAre
  <2>4. JobInv(n)'
    BY <1>3, <2>1, <2>2, <2>3 DEF JobInv
  <2>5. ASSUME NEW j \in 1..(n - 1) PROVE JobInv(j)'
    <3>1. JobInv(j)
      BY <1>1, <2>5 DEF ScriptInv
    <3>2. DOMAIN downloads = 1..(n - 1) /\ DOMAIN downloads \subseteq DOMAIN downloads'
      BY <1>1, <2>3
    <3>3. /\ Pending(j) => Pending(j)'
          /\ Script!Left(j) => Script!Left(j)'
      BY <1>1, <1>3, <2>3, <3>2 DEF Pending, Script!Left
    <3>4. /\ Script!Held(j, BOOLEAN) => Script!Held(j, BOOLEAN)'
          /\ Script!Held(j, {TRUE}) => Script!Held(j, {TRUE})'
      BY <1>1, <1>3, <2>3 DEF Script!Held, Script!Lines
    <3>5. downloads'[j] = downloads[j] /\ failed' = failed /\ list' = list
      BY <1>1, <1>3, <2>3
    <3> QED
      BY <3>1, <3>3, <3>4, <3>5 DEF JobInv
  <2>6. \A j \in DOMAIN downloads' : JobInv(j)'
    <3>1. \A j \in DOMAIN downloads' : j = n \/ j \in 1..(n - 1)
      BY <1>1, <2>3
    <3> QED
      BY <2>4, <2>5, <3>1
  <2>7. files' = files /\ list' = list /\ script' = "locking"
    BY <1>1, <1>3
  <2> QED
    BY <1>1, <2>3, <2>6, <2>7 DEF ScriptInv
<1> QED
  BY <1>2, <1>3 DEF Script!Lock

LEMMA SameJobs ==
  ASSUME ScriptInv, UNCHANGED <<list, files, failed, downloads>>
  PROVE  \A j \in DOMAIN downloads : JobInv(j)'
<1> SUFFICES ASSUME NEW j \in DOMAIN downloads PROVE JobInv(j)'
  OBVIOUS
<1>1. JobInv(j)
  BY DEF ScriptInv
<1>2. /\ Script!Held(j, BOOLEAN)' = Script!Held(j, BOOLEAN)
      /\ Script!Held(j, {TRUE})' = Script!Held(j, {TRUE})
  BY DEF Script!Held, Script!Lines
<1>3. Pending(j)' = Pending(j) /\ Script!Left(j)' = Script!Left(j)
  BY DEF Pending, Script!Left
<1> QED
  BY <1>1, <1>2, <1>3 DEF JobInv

LEMMA AnalyzeKeeps ==
  ASSUME ScriptInv, Script!Analyze
  PROVE  ScriptInv'
<1>1. /\ Len(downloads) = Len(list) /\ UNCHANGED <<files, failed>> /\ script = "locking"
  BY DEF Script!Analyze, Script!home
<1>2. CASE Script!Exit
  BY <1>1, <1>2, ExitKeeps
<1>3. CASE script' = "downloading" /\ UNCHANGED <<list, downloads>>
  <2>1. \A j \in DOMAIN downloads : JobInv(j)'
    BY <1>1, <1>3, SameJobs
  <2> QED
    BY <1>1, <1>3, <2>1 DEF ScriptInv
<1> QED
  BY <1>2, <1>3 DEF Script!Analyze

LEMMA FinishKeeps ==
  ASSUME ScriptInv, Script!Finish
  PROVE  ScriptInv'
<1>1. /\ script = "downloading" /\ \A i \in DOMAIN downloads : downloads[i].step = "gone"
      /\ UNCHANGED <<files, failed>>
  BY DEF Script!Finish
<1>2. CASE Script!Exit
  BY <1>1, <1>2, ExitKeeps
<1>3. CASE ~ failed /\ script' = "ready" /\ UNCHANGED <<list, downloads>>
  <2>1. \A j \in DOMAIN downloads : JobInv(j)'
    BY <1>1, <1>3, SameJobs
  <2> QED
    BY <1>1, <1>3, <2>1 DEF ScriptInv
<1> QED
  BY <1>2, <1>3 DEF Script!Finish

\* What is known about a job that does something.
LEMMA WorkingJob ==
  ASSUME ScriptInv, NEW i \in DOMAIN downloads
  PROVE  /\ downloads \in Seq(JobType) /\ downloads[i] \in JobType
         /\ i \in DOMAIN list /\ JobInv(i) /\ downloads[i].name \in Files
         /\ files \in [Files -> ArchiveType \cup {None}]
         /\ Script!Version(list[i]) \in Nat \cup {Garbled}
         /\ Script!Names(list[i]) \subseteq Files
         /\ Script!Names(list[i]) = {list[i].name, Alias[list[i].name]}
         /\ list[i].name # Alias[list[i].name]
         /\ i \in Script!Lines(downloads[i].name)
<1>1. downloads \in Seq(JobType) /\ Len(downloads) <= Len(list) /\ JobInv(i)
      /\ files \in [Files -> ArchiveType \cup {None}]
  BY DEF ScriptInv
<1>2. downloads[i] \in JobType /\ i \in DOMAIN list
  BY <1>1, LinesAre
<1>3. downloads[i].name \in Files
  BY <1>2 DEF JobType
<1>4. i \in Script!Lines(downloads[i].name)
  BY <1>1, <1>2 DEF JobInv, Script!Lines
<1> QED
  BY <1>1, <1>2, <1>3, <1>4, LinesAre

\* A step of one job and the others, which may have the same archive: it leaves
\* what they found good, or it has a check ahead, fails the run, or goes on to
\* its second name.
LEMMA OneJob ==
  ASSUME ScriptInv, NEW i \in DOMAIN downloads, script = "downloading",
         UNCHANGED <<list, script>>,
         downloads' \in Seq(JobType), Len(downloads') = Len(downloads),
         \A j \in DOMAIN downloads : j # i =>
           downloads'[j].name = downloads[j].name /\ downloads'[j].step = downloads[j].step,
         files' \in [Files -> ArchiveType \cup {None}],
         \A f \in Files : f # downloads[i].name => files'[f] = files[f],
         \A f \in Files : files'[f] # None => <<f, files'[f].version>> \in Served,
         failed => failed',
         \/ files'[downloads[i].name] = files[downloads[i].name]
         \/ /\ \E whole \in BOOLEAN : files'[downloads[i].name] =
                  Script!Archive(Script!Version(list[i]), whole)
            /\ downloads'[i].name = downloads[i].name
            /\ downloads'[i].step \in {"transfer", "check"},
         downloads[i].step \in {"transfer", "check"} =>
           \/ /\ downloads'[i].name = downloads[i].name
              /\ downloads'[i].step \in {"transfer", "check"}
           \/ failed' \/ downloads'[i].name # downloads[i].name
           \/ UNCHANGED files /\ Script!Intact(downloads[i].name),
         \/ downloads'[i].name = downloads[i].name
         \/ list[i].name = downloads[i].name,
         JobInv(i)'
  PROVE  ScriptInv'
<1>1. /\ downloads \in Seq(JobType) /\ DOMAIN downloads' = DOMAIN downloads
      /\ DOMAIN downloads \subseteq DOMAIN list /\ list' = list /\ script' = "downloading"
  BY LinesAre DEF ScriptInv
<1>2. ASSUME NEW k \in DOMAIN downloads, k # i PROVE JobInv(k)'
  <2>1. /\ JobInv(k) /\ downloads[k].name \in Files
        /\ downloads'[k].name = downloads[k].name /\ downloads'[k].step = downloads[k].step
    BY <1>2, WorkingJob
  <2>2. downloads'[k].name \in Script!Names(list'[k])
        /\ (downloads'[k].step = "transfer" =>
              <<downloads'[k].name, Script!Version(list'[k])>> \in Served)
    BY <1>1, <2>1 DEF JobInv
  <2>3. files'[downloads[k].name] = files[downloads[k].name] =>
          /\ Script!Held(k, BOOLEAN) => Script!Held(k, BOOLEAN)'
          /\ Script!Held(k, {TRUE}) => Script!Held(k, {TRUE})'
    BY <1>1, <2>1 DEF Script!Held, Script!Lines
  <2>4. files'[downloads[k].name] # files[downloads[k].name] =>
          Script!Held(k, BOOLEAN)' /\ Pending(k)'
    <3>1. SUFFICES ASSUME files'[downloads[k].name] # files[downloads[k].name]
                   PROVE  Script!Held(k, BOOLEAN)' /\ Pending(k)'
      OBVIOUS
    <3>2. downloads[k].name = downloads[i].name
      BY <2>1, <3>1
    <3>3. PICK whole \in BOOLEAN : files'[downloads[k].name] =
            Script!Archive(Script!Version(list[i]), whole)
      BY <3>1, <3>2
    <3>4. i \in Script!Lines(downloads[k].name)'
      <4>1. i \in DOMAIN list /\ downloads'[k].name \in Script!Names(list[i])
        BY <2>1, <3>2, WorkingJob DEF Script!Lines
      <4> QED
        BY <1>1, <4>1 DEF Script!Lines
    <3>5. Script!Held(k, BOOLEAN)'
      BY <1>1, <2>1, <3>3, <3>4 DEF Script!Held
    <3>6. Pending(k)'
      BY <1>1, <2>1, <3>1, <3>2 DEF Pending
    <3> QED
      BY <3>5, <3>6
  <2>5. ASSUME Pending(k), ~ failed', Script!Held(k, BOOLEAN)
        PROVE  Script!Held(k, {TRUE})' \/ Pending(k)' \/ Script!Left(k)'
    <3>1. PICK j \in DOMAIN downloads : /\ downloads[j].name = downloads[k].name
                                       /\ downloads[j].step \in {"transfer", "check"}
      BY <2>5 DEF Pending
    <3>2. CASE j # i
      BY <1>1, <2>1, <3>1, <3>2 DEF Pending
    <3>3. CASE j = i /\ downloads'[i].name = downloads[i].name
                    /\ downloads'[i].step \in {"transfer", "check"}
      BY <1>1, <2>1, <3>1, <3>3 DEF Pending
    <3>4. CASE j = i /\ downloads'[i].name # downloads[i].name
      <4>1. list'[i].name = downloads'[k].name /\ downloads'[i].name # downloads'[k].name
        BY <1>1, <2>1, <3>1, <3>4
      <4> QED
        BY <1>1, <1>2, <4>1 DEF Script!Left
    <3>5. CASE j = i /\ UNCHANGED files /\ Script!Intact(downloads[i].name)
      <4>1. PICK l \in Script!Lines(downloads[k].name), whole \in BOOLEAN :
              files[downloads[k].name] = Script!Archive(Script!Version(list[l]), whole)
        BY <2>5 DEF Script!Held
      <4>2. Script!Version(list[l]) \in Nat \cup {Garbled}
        BY LinesAre DEF Script!Lines
      <4>3. whole = TRUE
        <5>1. files[downloads[k].name].whole
          BY <3>1, <3>5 DEF Script!Intact
        <5>2. Script!Archive(Script!Version(list[l]), whole).whole = whole
          BY <4>2, ArchivesAre, Zenon
        <5> QED
          BY <4>1, <5>1, <5>2, Zenon
      <4>4. Script!Held(k, {TRUE})
        BY <4>1, <4>3 DEF Script!Held
      <4> QED
        BY <2>3, <3>5, <4>4
    <3> QED
      BY <2>5, <3>1, <3>2, <3>3, <3>4, <3>5
  <2>6. Script!Left(k) => Script!Left(k)'
    <3>1. SUFFICES ASSUME NEW j \in DOMAIN downloads \ {k},
                          list[j].name = downloads[k].name,
                          downloads[j].name # downloads[k].name
                   PROVE  list'[j].name = downloads'[k].name
                          /\ downloads'[j].name # downloads'[k].name
      BY <1>1 DEF Script!Left
    <3>2. downloads'[j].name = downloads[j].name
      BY <3>1
    <3> QED
      BY <1>1, <2>1, <3>1, <3>2
  <2>7. downloads'[k].step \in {"check", "gone"} /\ ~ failed' => Script!Held(k, BOOLEAN)'
    BY <2>1, <2>3, <2>4 DEF JobInv
  <2>8. downloads'[k].step = "gone" /\ ~ failed' =>
          Script!Held(k, {TRUE})' \/ Pending(k)' \/ Script!Left(k)'
    BY <2>1, <2>3, <2>4, <2>5, <2>6 DEF JobInv
  <2> QED
    BY <2>2, <2>7, <2>8 DEF JobInv
<1>3. \A j \in DOMAIN downloads' : JobInv(j)'
  BY <1>1, <1>2
<1> QED
  BY <1>1, <1>3 DEF ScriptInv

\* A job that goes on to another step with its archive.
LEMMA StepIs ==
  ASSUME ScriptInv, NEW i \in DOMAIN downloads,
         NEW step \in {"test", "fetch", "transfer", "check", "gone"}, Script!Step(i, step)
  PROVE  /\ UNCHANGED <<list, script>>
         /\ downloads' \in Seq(JobType) /\ Len(downloads') = Len(downloads)
         /\ \A j \in DOMAIN downloads : j # i =>
              downloads'[j].name = downloads[j].name /\ downloads'[j].step = downloads[j].step
         /\ downloads'[i].name = downloads[i].name /\ downloads'[i].step = step
<1>1. downloads \in Seq(JobType) /\ downloads' = [downloads EXCEPT ![i].step = step]
  BY DEF ScriptInv, Script!Step
<1>2. [downloads[i] EXCEPT !.step = step] \in JobType
  <2>1. downloads[i] \in JobType
    BY <1>1
  <2> QED
    BY <2>1 DEF JobType
<1>3. downloads' = [downloads EXCEPT ![i] = [downloads[i] EXCEPT !.step = step]]
  BY <1>1
<1>4. downloads'[i] = [downloads[i] EXCEPT !.step = step]
      /\ downloads' \in Seq(JobType) /\ Len(downloads') = Len(downloads)
      /\ \A j \in DOMAIN downloads : j # i => downloads'[j] = downloads[j]
  BY <1>1, <1>2, <1>3
<1>5. downloads'[i].name = downloads[i].name /\ downloads'[i].step = step
  BY <1>1, <1>4 DEF JobType
<1> QED
  BY <1>4, <1>5 DEF Script!Step

LEMMA TestKeeps ==
  ASSUME ScriptInv, NEW i \in DOMAIN downloads, Script!Test(i)
  PROVE  ScriptInv'
<1> DEFINE provided == Script!Provided(downloads[i].name, Script!Version(list[i]))
           step == IF provided THEN "check" ELSE "fetch"
<1>1. /\ script = "downloading" /\ UNCHANGED <<files, failed>> /\ Script!Step(i, step)
      /\ downloads[i].step = "test"
  BY DEF Script!Test, Script!Working, Script!home
<1>2. step \in {"test", "fetch", "transfer", "check", "gone"}
      /\ (step = "check" => provided) /\ step \notin {"transfer", "gone"}
  OBVIOUS
<1> HIDE DEF step
<1>3. /\ UNCHANGED <<list, script>>
      /\ downloads' \in Seq(JobType) /\ Len(downloads') = Len(downloads)
      /\ \A j \in DOMAIN downloads : j # i =>
           downloads'[j].name = downloads[j].name /\ downloads'[j].step = downloads[j].step
      /\ downloads'[i].name = downloads[i].name /\ downloads'[i].step = step
  BY <1>1, <1>2, StepIs
<1>4. JobInv(i)'
  <2>1. JobInv(i)
    BY WorkingJob
  <2>2. step = "check" => Script!Held(i, BOOLEAN)'
    BY <1>1, <1>2, <1>3, WorkingJob DEF Script!Held, Script!Lines, Script!Provided
  <2> QED
    BY <1>1, <1>2, <1>3, <2>1, <2>2 DEF JobInv
<1> QED
  BY <1>1, <1>3, <1>4, OneJob DEF ScriptInv

\* A second try, under the other name, or the end of the job in failure.
LEMMA RetryKeeps ==
  ASSUME ScriptInv, NEW i \in DOMAIN downloads, script = "downloading",
         Script!Retry(i), UNCHANGED files
  PROVE  ScriptInv'
<1>1. CASE downloads[i].name = list[i].name
  <2> DEFINE other == Alias[list[i].name]
  <2>1. /\ downloads' = [downloads EXCEPT ![i] = Script!Job(other)]
        /\ UNCHANGED <<list, script, failed>>
    BY <1>1 DEF Script!Retry
  <2>2. /\ other \in Files /\ other \in Script!Names(list[i]) /\ downloads \in Seq(JobType)
    BY WorkingJob
  <2>3. /\ Script!Job(other) \in JobType /\ Script!Job(other).step = "test"
        /\ Script!Job(other).name = other
    BY <2>2, JobsAre
  <2>4. /\ downloads' \in Seq(JobType) /\ Len(downloads') = Len(downloads)
        /\ \A j \in DOMAIN downloads : j # i => downloads'[j] = downloads[j]
        /\ downloads'[i] = Script!Job(other)
    BY <2>1, <2>2, <2>3
  <2>5. JobInv(i)'
    BY <2>1, <2>2, <2>3, <2>4 DEF JobInv
  <2>6. downloads'[i].name # downloads[i].name
    BY <1>1, <2>3, <2>4, WorkingJob
  <2> QED
    BY <1>1, <2>1, <2>4, <2>5, <2>6, OneJob DEF ScriptInv
<1>2. CASE downloads[i].name # list[i].name
  <2>1. /\ Script!Step(i, "gone") /\ failed' = TRUE
    BY <1>2 DEF Script!Retry, Script!Step
  <2>2. /\ UNCHANGED <<list, script>>
        /\ downloads' \in Seq(JobType) /\ Len(downloads') = Len(downloads)
        /\ \A j \in DOMAIN downloads : j # i =>
             downloads'[j].name = downloads[j].name /\ downloads'[j].step = downloads[j].step
        /\ downloads'[i].name = downloads[i].name /\ downloads'[i].step = "gone"
    BY <2>1, StepIs
  <2>3. JobInv(i)'
    <3>1. JobInv(i)
      BY WorkingJob
    <3> QED
      BY <2>1, <2>2, <3>1 DEF JobInv
  <2> QED
    BY <2>1, <2>2, <2>3, OneJob DEF ScriptInv
<1> QED
  BY <1>1, <1>2

LEMMA FetchKeeps ==
  ASSUME ScriptInv, NEW i \in DOMAIN downloads, Script!Fetch(i)
  PROVE  ScriptInv'
<1> DEFINE name == downloads[i].name
           version == Script!Version(list[i])
           archive == Script!Archive(version, FALSE)
<1>1. script = "downloading"
  BY DEF Script!Fetch, Script!Working
<1>2. CASE /\ <<name, version>> \in Served
           /\ files' = [files EXCEPT ![name] = archive]
           /\ downloads' = [j \in DOMAIN downloads |->
                IF j = i
                THEN [downloads[i] EXCEPT !.step = "transfer", !.alone = Script!Sharing(i) = {}]
                ELSE IF j \in Script!Sharing(i) THEN [downloads[j] EXCEPT !.alone = FALSE]
                ELSE downloads[j]]
           /\ UNCHANGED <<list, script, failed>>
  <2>1. /\ downloads \in Seq(JobType) /\ name \in Files /\ JobInv(i)
        /\ version \in Nat \cup {Garbled} /\ files \in [Files -> ArchiveType \cup {None}]
    BY WorkingJob
  <2>2. archive \in ArchiveType /\ archive # None /\ archive.version = version
    BY <2>1, ArchivesAre
  <2>3. ASSUME NEW j \in DOMAIN downloads
        PROVE  /\ downloads'[j] \in JobType /\ downloads'[j].name = downloads[j].name
               /\ j # i => downloads'[j].step = downloads[j].step
               /\ j = i => downloads'[j].step = "transfer"
    <3>1. downloads[j] \in JobType /\ (Script!Sharing(i) = {}) \in BOOLEAN
      BY <2>1
    <3> QED
      BY <1>2, <3>1 DEF JobType
  <2>4. downloads' \in Seq(JobType) /\ Len(downloads') = Len(downloads)
    <3>1. DOMAIN downloads = 1..Len(downloads) /\ Len(downloads) \in Nat
      BY <2>1
    <3>2. downloads' = [j \in 1..Len(downloads) |-> downloads'[j]]
      BY <1>2, <3>1
    <3> QED
      BY <2>3, <3>1, <3>2
  <2> HIDE DEF archive
  <2>5. /\ files' \in [Files -> ArchiveType \cup {None}]
        /\ \A f \in Files : f # name => files'[f] = files[f]
        /\ files'[name] = archive
    BY <1>2, <2>1, <2>2
  <2>6. ASSUME NEW f \in Files, files'[f] # None PROVE <<f, files'[f].version>> \in Served
    <3>1. CASE f = name
      BY <1>2, <2>2, <2>5, <3>1
    <3>2. CASE f # name
      BY <2>5, <2>6, <3>2 DEF ScriptInv
    <3> QED
      BY <3>1, <3>2
  <2>7. JobInv(i)'
    BY <1>2, <2>1, <2>3 DEF JobInv
  <2>8. \E whole \in BOOLEAN : files'[name] = Script!Archive(version, whole)
    BY <2>5 DEF archive
  <2> QED
    BY <1>1, <1>2, <2>3, <2>4, <2>5, <2>6, <2>7, <2>8, OneJob
<1>3. CASE Script!Retry(i) /\ UNCHANGED files
  BY <1>1, <1>3, RetryKeeps
<1> QED
  BY <1>2, <1>3 DEF Script!Fetch

\* A transfer that is not the end of the job leaves an archive of its version.
LEMMA WrittenKeeps ==
  ASSUME ScriptInv, NEW i \in DOMAIN downloads, NEW whole \in BOOLEAN,
         script = "downloading", downloads[i].step = "transfer",
         files' = [files EXCEPT ![downloads[i].name] =
                     Script!Archive(Script!Version(list[i]), whole)],
         Script!Step(i, "check"), UNCHANGED failed
  PROVE  ScriptInv'
<1> DEFINE name == downloads[i].name
           version == Script!Version(list[i])
           archive == Script!Archive(version, whole)
<1>1. /\ name \in Files /\ JobInv(i)
      /\ version \in Nat \cup {Garbled} /\ files \in [Files -> ArchiveType \cup {None}]
  BY WorkingJob
<1>2. archive \in ArchiveType /\ archive # None /\ archive.version = version
  BY <1>1, ArchivesAre
<1>3. /\ UNCHANGED <<list, script>>
      /\ downloads' \in Seq(JobType) /\ Len(downloads') = Len(downloads)
      /\ \A j \in DOMAIN downloads : j # i =>
           downloads'[j].name = downloads[j].name /\ downloads'[j].step = downloads[j].step
      /\ downloads'[i].name = name /\ downloads'[i].step = "check"
  BY StepIs
<1>4. <<name, version>> \in Served
  BY <1>1 DEF JobInv
<1>5. /\ files' \in [Files -> ArchiveType \cup {None}]
      /\ \A f \in Files : f # name => files'[f] = files[f]
      /\ files'[name] = archive
  <2> HIDE DEF archive, name
  <2> QED
    BY <1>1, <1>2 DEF archive, name
<1>6. ASSUME NEW f \in Files, files'[f] # None PROVE <<f, files'[f].version>> \in Served
  <2>1. CASE f = name
    BY <1>2, <1>4, <1>5, <2>1
  <2>2. CASE f # name
    BY <1>5, <1>6, <2>2 DEF ScriptInv
  <2> QED
    BY <2>1, <2>2
<1>7. JobInv(i)'
  <2>1. Script!Held(i, BOOLEAN)'
    BY <1>3, <1>5, WorkingJob DEF Script!Held, Script!Lines
  <2> QED
    BY <1>1, <1>3, <2>1 DEF JobInv
<1> QED
  BY <1>3, <1>5, <1>6, <1>7, OneJob

LEMMA TransferKeeps ==
  ASSUME ScriptInv, NEW i \in DOMAIN downloads, Script!Transfer(i)
  PROVE  ScriptInv'
<1>1. script = "downloading" /\ downloads[i].step = "transfer"
  BY DEF Script!Transfer, Script!Working
<1>2. downloads[i].alone \in BOOLEAN
  BY WorkingJob DEF JobType
<1>3. ASSUME NEW whole \in {TRUE, downloads[i].alone},
             files' = [files EXCEPT ![downloads[i].name] =
                         Script!Archive(Script!Version(list[i]), whole)],
             Script!Step(i, "check"), UNCHANGED failed
      PROVE  ScriptInv'
  BY <1>1, <1>2, <1>3, WrittenKeeps
<1>4. CASE Script!Retry(i) /\ UNCHANGED files
  BY <1>1, <1>4, RetryKeeps
<1>5. CASE /\ files' = [files EXCEPT ![downloads[i].name] =
                          Script!Archive(Script!Version(list[i]), FALSE)]
           /\ Script!Step(i, "check") /\ UNCHANGED failed
  BY <1>1, <1>5, WrittenKeeps
<1> QED
  BY <1>3, <1>4, <1>5 DEF Script!Transfer

\* What the check of an archive finds broken fails the run.
LEMMA CheckKeeps ==
  ASSUME ScriptInv, NEW i \in DOMAIN downloads, Script!Check(i)
  PROVE  ScriptInv'
<1> DEFINE name == downloads[i].name
           version == Script!Version(list[i])
<1>1. /\ script = "downloading" /\ downloads[i].step = "check" /\ Script!Step(i, "gone")
      /\ UNCHANGED files /\ failed' = (failed \/ ~ Script!Intact(name))
  BY DEF Script!Check, Script!Working
<1>2. /\ name \in Files /\ JobInv(i)
      /\ version \in Nat \cup {Garbled} /\ files \in [Files -> ArchiveType \cup {None}]
  BY WorkingJob
<1>3. /\ UNCHANGED <<list, script>>
      /\ downloads' \in Seq(JobType) /\ Len(downloads') = Len(downloads)
      /\ \A j \in DOMAIN downloads : j # i =>
           downloads'[j].name = downloads[j].name /\ downloads'[j].step = downloads[j].step
      /\ downloads'[i].name = name /\ downloads'[i].step = "gone"
  BY <1>1, StepIs
<1>4. ASSUME ~ failed' PROVE Script!Held(i, {TRUE})'
  <2>1. PICK j \in Script!Lines(name), whole \in BOOLEAN :
          files[name] = Script!Archive(Script!Version(list[j]), whole)
    BY <1>1, <1>2, <1>4 DEF JobInv, Script!Held
  <2>2. files[name].whole /\ Script!Version(list[j]) \in Nat \cup {Garbled}
    BY <1>1, <1>4, LinesAre DEF Script!Intact, Script!Lines
  <2>3. whole = TRUE
    BY <2>1, <2>2, ArchivesAre
  <2> QED
    BY <1>1, <1>3, <2>1, <2>3 DEF Script!Held, Script!Lines
<1>7. Script!Held(i, {TRUE})' => Script!Held(i, BOOLEAN)'
  BY DEF Script!Held
<1>5. JobInv(i)'
  BY <1>2, <1>3, <1>4, <1>7 DEF JobInv
<1>6. failed => failed'
  BY <1>1
<1> QED
  BY <1>1, <1>2, <1>3, <1>5, <1>6, OneJob DEF ScriptInv

LEMMA ScriptSteps == PodInv /\ ScriptInv /\ [StartNext]_startVars => ScriptInv'
<1> SUFFICES ASSUME PodInv, ScriptInv, [StartNext]_startVars PROVE ScriptInv'
  OBVIOUS
<1>1. ASSUME UNCHANGED scriptVars PROVE ScriptInv'
  <2>1. /\ list' = list /\ files' = files /\ failed' = failed /\ script' = script
        /\ downloads' = downloads
    BY <1>1 DEF scriptVars
  <2>2. \A j \in DOMAIN downloads : JobInv(j)'
    BY <2>1, SameJobs
  <2> QED
    BY <2>1, <2>2 DEF ScriptInv
<1>2. CASE Judge \/ (\E plugins \in Lists : Edit(plugins)) \/ UNCHANGED startVars
  <2>1. UNCHANGED scriptVars
    BY <1>2, Zenon DEF Judge, Edit, startVars
  <2> QED
    BY <1>1, <2>1
<1>3. CASE Start
  BY <1>3, StartKeeps
<1>4. CASE Install
  <2>1. CASE Script!Lock \/ Script!Analyze \/ Script!Finish
    BY <2>1, LockKeeps, AnalyzeKeeps, FinishKeeps
  <2>2. ASSUME NEW i \in DOMAIN downloads,
               Script!Test(i) \/ Script!Fetch(i) \/ Script!Transfer(i) \/ Script!Check(i)
        PROVE  ScriptInv'
    BY <2>2, TestKeeps, FetchKeeps, TransferKeeps, CheckKeeps
  <2> QED
    BY <1>4, <2>1, <2>2, Zenon DEF Install, Script!Progress
<1>5. CASE Break
  <2>1. Script!Exit /\ (UNCHANGED files \/ files' = [f \in Files |-> None])
    BY <1>5 DEF Break, Script!Kill, Script!Recreate, Script!home, Script!NoFiles
  <2> QED
    BY <2>1, ExitKeeps
<1> QED
  BY <1>2, <1>3, <1>4, <1>5 DEF StartNext

LEMMA ReadyFollows == ScriptInv => ReadyHasPlugins
<1> SUFFICES ASSUME ScriptInv, script = "ready" PROVE ReadyHasPlugins
  BY DEF ReadyHasPlugins, Script!ReadyHasPlugins
<1>1. PluginNames(BasePlugins) \subseteq PluginNames(list)
  BY DEF ScriptInv, VerifyBasePlugins
<1>2. ASSUME NEW i \in DOMAIN list
      PROVE  /\ i \in Script!Lines(downloads[i].name)
             /\ \/ \E j \in Script!Lines(downloads[i].name) :
                     files[downloads[i].name] = Script!Archive(list[j].version, TRUE)
                \/ Script!Left(i)
  <2>1. /\ i \in DOMAIN downloads /\ ~ failed /\ downloads[i].step = "gone"
        /\ ~ Pending(i)
    BY LinesAre DEF ScriptInv, Pending
  <2> DEFINE name == downloads[i].name
  <2>2. name \in Files /\ JobInv(i) /\ i \in Script!Lines(name)
    BY <2>1, WorkingJob
  <2>3. CASE Script!Held(i, {TRUE})
    <3>1. PICK j \in Script!Lines(name) :
            files[name] = Script!Archive(Script!Version(list[j]), TRUE)
      BY <2>3 DEF Script!Held
    <3>2. /\ Script!Version(list[j]) \in Nat \cup {Garbled}
          /\ Script!Version(list[j]) # Garbled => Script!Version(list[j]) = list[j].version
      BY LinesAre DEF Script!Lines
    <3>3. files[name] # None /\ files[name].version = Script!Version(list[j])
      BY <3>1, <3>2, ArchivesAre
    <3>4. Script!Version(list[j]) # Garbled
      BY <2>2, <3>3, StartAssumption DEF ScriptInv
    <3> QED
      BY <2>2, <3>1, <3>2, <3>4
  <2> QED
    BY <2>1, <2>2, <2>3 DEF JobInv
<1> QED
  BY <1>1, <1>2 DEF ReadyHasPlugins, Script!ReadyHasPlugins

\* For any lists: a start of the script that has ended well has left a whole
\* archive for each line of its list, in the version of that line or of another
\* one that goes by the same name, unless a line of that name gave up on it, and
\* no plugin of the operator is missing on the list: whatever was killed, edited
\* or broken before (scripts_configmap.go:40-66, :158-238).
THEOREM ReadyComplete == StartSpec => []ReadyHasPlugins
<1>1. StartInit => PodInv /\ ScriptInv
  BY FirstPod, FirstStart
<1>2. PodInv /\ ScriptInv /\ [StartNext]_startVars => PodInv' /\ ScriptInv'
  BY PodSteps, ScriptSteps
<1> QED
  BY <1>1, <1>2, ReadyFollows, PTL DEF StartSpec

=============================================================================
