--------------------------- MODULE RestoreProofs ---------------------------
(***************************************************************************)
(* A Restore is run once and implements the one-shot task: RestoresOnceInv *)
(* holds of every behaviour of RestoreController, and every step of it is  *)
(* one of OneShotTask or none, whatever the constants. Its copies run in   *)
(* order, and its status reports what ran.                                 *)
(***************************************************************************)
EXTENDS RestoreController, OneShotProofs

Inv == RestoresOnceInv

---------------------------------------------------------------------------
(* How execs may change.                                                   *)

\* Executing a command that lies ahead of a worker.
LEMMA ExecKeeps ==
  ASSUME Inv, SkeletonInv', api' = api, key' = key, NEW o \in Operators, Claimed(o),
         NEW c \in Ahead(o), c \in Command, NEW ran \in BOOLEAN,
         Record(o, c, ran), obj'[o].uid = obj[o].uid,
         Ahead(o)' \subseteq Ahead(o) \ {c},
         \A q \in Operators \ {o} :
           pc'[q] = pc[q] /\ obj'[q] = obj[q] /\ todo'[q] = todo[q]
  PROVE  /\ execs' \in [Objects -> [Command -> Nat]]
         /\ RunsOnce' /\ FreshUnrun' /\ AheadUnrun'
<1> DEFINE b == key[o]
<1>1. b \in Objects
  BY DEF Inv, RestoresOnceInv, SkeletonInv, HeldBehind, Claimed, Early
<1>2. execs \in [Objects -> [Command -> Nat]]
  BY DEF Inv, RestoresOnceInv, TypeOK
<1>3. execs' \in [Objects -> [Command -> Nat]]
  BY <1>1, <1>2 DEF Record
<1>4. CASE ~ (ran /\ Current(o))
  <2>1. execs' = execs
    BY <1>4 DEF Record
  <2>2. \A q \in Operators : Claimed(q)' /\ Current(q)' =>
          Claimed(q) /\ Current(q) /\ Ahead(q)' \subseteq Ahead(q)
    BY DEF Claimed, Current, Ahead
  <2>3. QED
    BY <1>3, <2>1, <2>2
    DEF Inv, RestoresOnceInv, RunsOnce, FreshUnrun, AheadUnrun, SkeletonInv, ClaimsMarked
<1>5. CASE ran /\ Current(o)
  <2>1. execs' = [execs EXCEPT ![b][c] = @ + 1]
    BY <1>5 DEF Record
  <2>2. execs[b][c] = 0
    BY <1>5 DEF Inv, RestoresOnceInv, AheadUnrun
  <2>3. /\ execs'[b][c] = 1
        /\ \A d \in Command \ {c} : execs'[b][d] = execs[b][d]
        /\ \A a \in Objects \ {b} : execs'[a] = execs[a]
    BY <1>1, <1>2, <2>1, <2>2
  <2>4. RunsOnce'
    BY <1>1, <2>3 DEF Inv, RestoresOnceInv, RunsOnce, SkeletonInv, ClaimsMarked
  <2>5. FreshUnrun'
    <3>1. ~ (api[b].live /\ api[b].conds = NoConditions)
      BY <1>5 DEF Inv, RestoresOnceInv, SkeletonInv, OneClaimant
    <3>2. QED
      BY <2>3, <3>1 DEF Inv, RestoresOnceInv, FreshUnrun
  <2>6. AheadUnrun'
    <3> SUFFICES ASSUME NEW q \in Operators, Claimed(q)', Current(q)',
                        NEW d \in Ahead(q)'
                 PROVE  execs'[key[q]][d] = 0
      BY DEF AheadUnrun
    <3>1. d \in Ahead(q) /\ Claimed(q) /\ Current(q) /\ execs[key[q]][d] = 0
      BY DEF Claimed, Current, Ahead, Inv, RestoresOnceInv, AheadUnrun
    <3>2. d \in Command
      BY <3>1 DEF Ahead, Inv, RestoresOnceInv, TypeOK, SkeletonTypeOK, Command
    <3>3. q = o \/ key[q] # b
      BY <1>5, <3>1 DEF Inv, RestoresOnceInv, SkeletonInv, OneClaimant
    <3>4. key[q] \in Objects
      BY <3>1 DEF Inv, RestoresOnceInv, SkeletonInv, HeldBehind, Claimed, Early
    <3>5. CASE q = o
      BY <2>3, <3>1, <3>2, <3>5
    <3>6. CASE key[q] # b
      BY <2>3, <3>1, <3>4, <3>6
    <3>7. QED
      BY <3>3, <3>5, <3>6
  <2>7. QED
    BY <1>3, <2>4, <2>5, <2>6
<1>6. QED
  BY <1>4, <1>5

\* Steps that execute nothing: whoever is past its first write was there
\* before with as much ahead of it, or has just taken an unmarked object.
LEMMA NoExecKeeps ==
  ASSUME Inv, SkeletonInv', execs' = execs,
         \A b \in Objects : api'[b].live /\ api'[b].conds = NoConditions =>
           api[b].live /\ api[b].conds = NoConditions,
         \A q \in Operators : Claimed(q)' /\ Current(q)' =>
           \/ /\ Claimed(q) /\ Current(q) /\ key'[q] = key[q]
              /\ Ahead(q)' \subseteq Ahead(q)
           \/ /\ key'[q] \in Objects /\ Ahead(q)' \subseteq Command
              /\ api[key'[q]].live /\ api[key'[q]].conds = NoConditions
  PROVE  RunsOnce' /\ FreshUnrun' /\ AheadUnrun'
<1>1. RunsOnce' /\ FreshUnrun'
  BY DEF Inv, RestoresOnceInv, RunsOnce, FreshUnrun, SkeletonInv, ClaimsMarked
<1>2. AheadUnrun'
  BY DEF Inv, RestoresOnceInv, AheadUnrun, FreshUnrun
<1>3. QED
  BY <1>1, <1>2

---------------------------------------------------------------------------
(* One lemma per kind of step.                                             *)

\* The types of what a step that only writes the status leaves alone.
LEMMA RestTyped ==
  ASSUME TypeOK, SkeletonTypeOK', pc' \in [Operators -> Early \cup RestoreStages],
         UNCHANGED <<execs, plan>>
  PROVE  TypeOK'
BY DEF TypeOK

\* Writing a marked object at the API server, then going on or returning.
LEMMA SaveKeeps ==
  ASSUME Inv, NEW o \in Operators, Claimed(o),
         NEW m \in Object, m.rv = obj[o].rv, m.conds # NoConditions,
         NEW next \in RestoreStages \cup {"idle"}, Update(o, m, next),
         UNCHANGED <<claims, execs, plan>>,
         pc'[o] = next /\ todo'[o] = todo[o] => Ahead(o)' \subseteq Ahead(o)
  PROVE  Inv'
<1>1. /\ pc[o] # "idle" /\ key[o] \in Objects /\ next \in Stage
      /\ next = "idle" \/ next \notin Early
  BY DEF Inv, RestoresOnceInv, SkeletonInv, HeldBehind, Claimed, Early, Stage, RestoreStages
<1>2. SkeletonTypeOK' /\ SkeletonInv'
  BY <1>1, UpdateKeeps DEF Inv, RestoresOnceInv, TypeOK, SkeletonTypeOK
<1> DEFINE b == key[o]
<1>3. \/ /\ Accepts(b, m) /\ api' = [api EXCEPT ![b] = Stored(b, m)]
         /\ next # "idle" /\ Go(o, next, Stored(b, m)) /\ UNCHANGED <<strat, todo>>
      \/ Accepts(b, m) /\ api' = [api EXCEPT ![b] = Stored(b, m)] /\ Return(o)
      \/ api' = api /\ Return(o)
  BY <1>1, UpdateOutcomes DEF Inv, RestoresOnceInv, TypeOK
<1>4. TypeOK'
  <2>1. pc' \in [Operators -> Early \cup RestoreStages]
    BY <1>3 DEF Go, Return, Inv, RestoresOnceInv, TypeOK, Early
  <2>2. QED
    BY <1>2, <2>1, RestTyped DEF Inv, RestoresOnceInv
<1>5. ASSUME NEW a \in Objects, api'[a].live, api'[a].conds = NoConditions
      PROVE  api[a].live /\ api[a].conds = NoConditions
  <2>1. Accepts(b, m) => Stored(b, m).conds = m.conds
    BY <1>1, StoredTyped DEF Inv, RestoresOnceInv, TypeOK, SkeletonTypeOK
  <2>2. QED
    BY <1>1, <1>3, <1>5, <2>1 DEF Inv, RestoresOnceInv, TypeOK, SkeletonTypeOK
<1>6. ASSUME NEW q \in Operators, Claimed(q)', Current(q)'
      PROVE  /\ Claimed(q) /\ Current(q) /\ key'[q] = key[q]
             /\ Ahead(q)' \subseteq Ahead(q)
  <2>1. Accepts(b, m) => /\ Stored(b, m).uid = api[b].uid /\ api[b].live
                        /\ obj[o].rv = api[b].rv
    BY <1>1, StoredTyped DEF Inv, RestoresOnceInv, TypeOK, SkeletonTypeOK, Accepts
  <2>2. Accepts(b, m) => Current(o)
    BY <1>1, <2>1 DEF Inv, RestoresOnceInv, SkeletonInv, HeldBehind
  <2>3. CASE q = o
    <3>1. Go(o, next, Stored(b, m)) /\ Accepts(b, m) /\ todo' = todo
      BY <1>3, <1>6, <2>3 DEF Return, Claimed, Early, Inv, RestoresOnceInv, TypeOK, SkeletonTypeOK
    <3>2. QED
      BY <2>2, <2>3, <3>1 DEF Go, Inv, RestoresOnceInv, TypeOK, SkeletonTypeOK
  <2>4. CASE q # o
    <3>1. /\ pc'[q] = pc[q] /\ key'[q] = key[q] /\ obj'[q] = obj[q]
          /\ todo'[q] = todo[q]
      BY <1>3, <2>4 DEF Go, Return, Inv, RestoresOnceInv, TypeOK, SkeletonTypeOK
    <3>2. Claimed(q) /\ key[q] \in Objects
      BY <1>6, <3>1 DEF Claimed, Early, Inv, RestoresOnceInv, SkeletonInv, HeldBehind
    <3>3. Current(q)
      <4>1. api \in [Objects -> Object] /\ b \in Objects
        BY <1>1 DEF Inv, RestoresOnceInv, TypeOK, SkeletonTypeOK
      <4>2. \/ api' = api
            \/ Accepts(b, m) /\ api' = [api EXCEPT ![b] = Stored(b, m)]
        BY <1>3
      <4>3. api'[key[q]].uid = api[key[q]].uid /\ (api'[key[q]].live => api[key[q]].live)
        BY <2>1, <3>2, <4>1, <4>2
      <4>4. QED
        BY <1>6, <3>1, <4>3 DEF Current
    <3>4. Ahead(q)' = Ahead(q)
      BY <3>1 DEF Ahead
    <3>5. QED
      BY <3>1, <3>2, <3>3, <3>4
  <2>5. QED
    BY <2>3, <2>4
<1>7. RunsOnce' /\ FreshUnrun' /\ AheadUnrun'
  BY <1>2, <1>5, <1>6, NoExecKeeps
<1>8. QED
  BY <1>2, <1>4, <1>7 DEF Inv, RestoresOnceInv

\* The saves: the object in memory is marked.
LEMMA SavesKeep ==
  ASSUME Inv, NEW o \in Operators,
         SaveFailure(o) \/ SaveSuccess(o) \/ SaveRestart(o) \/ Finish(o)
  PROVE  Inv'
<1>1. PICK at \in RestoreStages, next \in RestoreStages \cup {"idle"} :
        /\ SaveStatus(o, at, next)
        /\ pc'[o] = next /\ todo'[o] = todo[o] => Ahead(o)' \subseteq Ahead(o)
  BY DEF SaveFailure, SaveSuccess, SaveRestart, Finish, SaveStatus, Save, Ahead,
         AfterRestore, RestoreStages
<1>2. Claimed(o)
  BY <1>1 DEF SaveStatus, Save, Claimed, Early, RestoreStages
<1>3. obj[o] \in Object /\ obj[o].conds # NoConditions
  BY <1>2 DEF Inv, RestoresOnceInv, TypeOK, SkeletonTypeOK, SkeletonInv, HeldBehind,
              Claimed, Early
<1>4. QED
  BY <1>1, <1>2, <1>3, SaveKeeps DEF SaveStatus, Save

\* A step of the script that executes command c and notes its outcome.
LEMMA CommandKeeps ==
  ASSUME Inv, NEW o \in Operators, Claimed(o),
         NEW c \in Ahead(o), c \in Command, NEW ran \in BOOLEAN,
         Record(o, c, ran), faults' \in Nat,
         NEW next \in RestoreStages, NEW m \in Object, Go(o, next, m),
         m.uid = obj[o].uid, m.rv = obj[o].rv, m.conds # NoConditions,
         UNCHANGED <<serverVars, strat, plan>>,
         todo' \in [Operators -> SUBSET Location],
         \A q \in Operators \ {o} : todo'[q] = todo[q],
         Ahead(o)' \subseteq Ahead(o) \ {c}
  PROVE  Inv'
<1>1. SkeletonTypeOK /\ SkeletonInv
  BY DEF Inv, RestoresOnceInv, TypeOK
<1>2. next \in Stage /\ next \notin Early /\ key[o] \in Objects
  BY <1>1 DEF Stage, RestoreStages, Early, SkeletonInv, HeldBehind, Claimed
<1>3. Moves(o, next, key[o], m)
  BY <1>2 DEF Moves
<1>4. key' = [key EXCEPT ![o] = key[o]]
  BY <1>1 DEF Go, SkeletonTypeOK
<1>5. SkeletonInv'
  BY <1>1, <1>2, <1>3, <1>4, MoveKeepsInv DEF Go, serverVars
<1>6. SkeletonTypeOK'
  BY <1>1, <1>2 DEF SkeletonTypeOK, Go, serverVars
<1>7. execs' \in [Objects -> [Command -> Nat]] /\ RunsOnce' /\ FreshUnrun' /\ AheadUnrun'
  <2>1. obj'[o].uid = obj[o].uid /\ api' = api /\ key' = key
    BY <1>1 DEF Go, SkeletonTypeOK, serverVars
  <2>2. \A q \in Operators \ {o} :
          pc'[q] = pc[q] /\ obj'[q] = obj[q] /\ todo'[q] = todo[q]
    BY <1>1 DEF Go, SkeletonTypeOK
  <2>3. QED
    BY <1>5, <2>1, <2>2, ExecKeeps
<1>8. TypeOK'
  <2>1. pc' \in [Operators -> Early \cup RestoreStages]
    BY DEF Go, Inv, RestoresOnceInv, TypeOK
  <2>2. QED
    BY <1>6, <1>7, <2>1 DEF TypeOK, Inv, RestoresOnceInv
<1>9. QED
  BY <1>5, <1>7, <1>8 DEF Inv, RestoresOnceInv

LEMMA ExecTyped ==
  ASSUME Inv, NEW ran \in BOOLEAN, NEW ok \in BOOLEAN, Exec(ran, ok)
  PROVE  faults' \in Nat
BY DEF Exec, Inv, RestoresOnceInv, TypeOK, SkeletonTypeOK

\* What a worker past its first write holds.
LEMMA HeldMarked ==
  ASSUME Inv, NEW o \in Operators, Claimed(o)
  PROVE  /\ key[o] \in Objects
         /\ obj[o] \in Object
         /\ obj[o].conds # NoConditions
         /\ \A t \in Conditions, v \in {"True", "False"} :
              LET m == SetCondition(obj[o], t, v)
              IN  /\ m \in Object /\ m.conds # NoConditions
                  /\ m.uid = obj[o].uid /\ m.rv = obj[o].rv
<1>1. obj[o] \in Object
  BY DEF Inv, RestoresOnceInv, TypeOK, SkeletonTypeOK
<1>2. key[o] \in Objects /\ obj[o].conds # NoConditions
  BY DEF Inv, RestoresOnceInv, SkeletonInv, HeldBehind, Claimed, Early
<1>3. QED
  BY <1>1, <1>2, SetConditionMarks

LEMMA RestoreLocationKeeps ==
  ASSUME Inv, NEW o \in Operators, RestoreLocation(o)
  PROVE  Inv'
<1>1. Claimed(o) /\ pc[o] = "restore" /\ UNCHANGED <<serverVars, strat, plan>>
  BY DEF RestoreLocation, Claimed, Early
<1>2. PICK l \in todo[o], ran, ok \in BOOLEAN :
        /\ Exec(ran, ok)
        /\ Record(o, l, ran)
        /\ todo' = [todo EXCEPT ![o] = @ \ {l}]
        /\ IF ~ ok
           THEN Go(o, "saveFailure",
                      SetCondition(obj[o], "RestoreCompleted", "False"))
           ELSE IF todo'[o] = {}
           THEN Go(o, "saveSuccess",
                      SetCondition(obj[o], "RestoreCompleted", "True"))
           ELSE Go(o, "restore", obj[o])
  BY DEF RestoreLocation
<1>3. /\ key[o] \in Objects /\ obj[o] \in Object /\ obj[o].conds # NoConditions
      /\ todo[o] \in SUBSET Location /\ faults' \in Nat
  BY <1>1, <1>2, HeldMarked, ExecTyped DEF Inv, RestoresOnceInv, TypeOK, SkeletonTypeOK
<1>4. \A v \in {"True", "False"} :
        LET m == SetCondition(obj[o], "RestoreCompleted", v)
        IN  /\ m \in Object /\ m.conds # NoConditions
            /\ m.uid = obj[o].uid /\ m.rv = obj[o].rv
  BY <1>1, HeldMarked, ConditionsAssumption
<1>5. PICK next \in {"restore", "saveFailure", "saveSuccess"}, m \in Object :
        /\ Go(o, next, m)
        /\ m.uid = obj[o].uid /\ m.rv = obj[o].rv /\ m.conds # NoConditions
  BY <1>2, <1>3, <1>4
<1>6. /\ todo' \in [Operators -> SUBSET Location]
      /\ todo'[o] = todo[o] \ {l}
      /\ \A q \in Operators \ {o} : todo'[q] = todo[q]
  BY <1>2, <1>3 DEF Inv, RestoresOnceInv, TypeOK, SkeletonTypeOK
<1>7. pc'[o] = next
  BY <1>5 DEF Go, Inv, RestoresOnceInv, TypeOK, SkeletonTypeOK
<1>8. l \in Ahead(o) /\ l \in Command /\ l \notin {"restart", "safeRestart"}
  BY <1>1, <1>2, <1>3 DEF Ahead, Command, Location
<1>9. Ahead(o)' \subseteq Ahead(o) \ {l}
  <2>1. Ahead(o) = todo[o] \cup {"restart", "safeRestart"}
    BY <1>1 DEF Ahead
  <2>2. Ahead(o)' \subseteq todo'[o] \cup {"restart", "safeRestart"}
    BY <1>5, <1>7 DEF Ahead
  <2>3. QED
    BY <1>6, <1>8, <2>1, <2>2
<1>10. next \in RestoreStages
  BY <1>5 DEF RestoreStages
<1>11. QED
  BY <1>1, <1>2, <1>3, <1>5, <1>6, <1>8, <1>9, <1>10, CommandKeeps

LEMMA RestartJenkinsKeeps ==
  ASSUME Inv, NEW o \in Operators, NEW ran \in BOOLEAN, NEW ok \in BOOLEAN,
         RestartJenkins(o, ran, ok)
  PROVE  Inv'
<1> DEFINE c == RestartOf(strat[o].restart)
           t == IF strat[o].restart = "safe"
                THEN "SafeRestartStarted" ELSE "RestartStarted"
           v == IF ok THEN "True" ELSE "False"
           m == SetCondition(obj[o], t, v)
           next == IF ok THEN "finish" ELSE "saveRestart"
<1>1. /\ Claimed(o) /\ pc[o] = "restart" /\ Exec(ran, ok) /\ Record(o, c, ran)
      /\ UNCHANGED <<serverVars, strat, todo, plan>> /\ Go(o, next, m)
  BY DEF RestartJenkins, Claimed, Early
<1>2. t \in Conditions /\ v \in {"True", "False"}
  BY ConditionsAssumption
<1> HIDE DEF t, v
<1>3. /\ m \in Object /\ m.conds # NoConditions
      /\ m.uid = obj[o].uid /\ m.rv = obj[o].rv
  BY <1>1, <1>2, HeldMarked
<1>4. c \in Ahead(o) /\ c \in Command /\ next \in RestoreStages
      /\ next \in {"finish", "saveRestart"}
  BY <1>1 DEF Ahead, Command, RestartOf, RestoreStages
<1> HIDE DEF m, c, next
<1>5. Ahead(o)' = {}
  <2>1. pc'[o] = next
    BY <1>1 DEF Go, Inv, RestoresOnceInv, TypeOK, SkeletonTypeOK
  <2>2. QED
    BY <1>4, <2>1 DEF Ahead
<1>6. /\ todo' \in [Operators -> SUBSET Location]
      /\ \A q \in Operators \ {o} : todo'[q] = todo[q]
  BY <1>1 DEF Inv, RestoresOnceInv, TypeOK, SkeletonTypeOK
<1>7. faults' \in Nat
  BY <1>1, ExecTyped
<1>8. QED
  BY <1>1, <1>3, <1>4, <1>5, <1>6, <1>7, CommandKeeps

---------------------------------------------------------------------------
(* Steps before the first write, and those of users and watches.           *)

\* A worker comes to a stage before its first write.
LEMMA EarlyKeeps ==
  ASSUME Inv, SkeletonTypeOK', SkeletonInv', api' = api,
         NEW o \in Operators, pc'[o] \in Early,
         \A q \in Operators \ {o} :
           /\ pc'[q] = pc[q] /\ key'[q] = key[q] /\ obj'[q] = obj[q]
           /\ todo'[q] = todo[q],
         UNCHANGED <<execs, plan>>
  PROVE  Inv'
<1>1. TypeOK'
  <2>1. pc' \in [Operators -> Early \cup RestoreStages]
    BY DEF SkeletonTypeOK, Inv, RestoresOnceInv, TypeOK
  <2>2. QED
    BY <2>1, RestTyped DEF Inv, RestoresOnceInv
<1>2. ASSUME NEW q \in Operators, Claimed(q)', Current(q)'
      PROVE  /\ Claimed(q) /\ Current(q) /\ key'[q] = key[q]
             /\ Ahead(q)' \subseteq Ahead(q)
  <2>1. q # o
    BY <1>2 DEF Claimed
  <2>2. QED
    BY <1>2, <2>1 DEF Claimed, Current, Ahead
<1>3. RunsOnce' /\ FreshUnrun' /\ AheadUnrun'
  BY <1>2, NoExecKeeps
<1>4. QED
  BY <1>1, <1>3 DEF Inv, RestoresOnceInv

LEMMA FetchRefsKeeps ==
  ASSUME Inv, NEW o \in Operators, NEW found, FetchRefs(o, found)
  PROVE  Inv'
<1>1. /\ SkeletonTypeOK' /\ SkeletonInv' /\ api' = api /\ pc'[o] \in Early
      /\ \A q \in Operators \ {o} :
           /\ pc'[q] = pc[q] /\ key'[q] = key[q] /\ obj'[q] = obj[q]
           /\ todo'[q] = todo[q]
  BY FetchKeeps DEF FetchRefs, Inv, RestoresOnceInv, TypeOK
<1>2. QED
  BY <1>1, EarlyKeeps DEF FetchRefs

LEMMA TakeRestoreKeeps ==
  ASSUME Inv, NEW o \in Operators, NEW b \in Objects, TakeRestore(o, b)
  PROVE  Inv'
<1>1. SkeletonTypeOK' /\ SkeletonInv'
  BY DequeueKeeps DEF TakeRestore, Inv, RestoresOnceInv, TypeOK
<1>2. /\ api' = api /\ pc'[o] \in Early
      /\ \A q \in Operators \ {o} :
           /\ pc'[q] = pc[q] /\ key'[q] = key[q] /\ obj'[q] = obj[q]
           /\ todo'[q] = todo[q]
  BY DEF TakeRestore, Dequeue, Unmarked, Inv, RestoresOnceInv, TypeOK, SkeletonTypeOK, Early
<1>3. QED
  BY <1>1, <1>2, EarlyKeeps DEF TakeRestore

\* A step of a user or of a watch at the objects leaves the workers alone.
LEMMA OutsideKeeps ==
  ASSUME Inv, SkeletonTypeOK', SkeletonInv', UNCHANGED localVars,
         \A b \in Objects : api'[b].live =>
           api[b].live /\ api'[b].uid = api[b].uid /\ api'[b].conds = api[b].conds,
         UNCHANGED <<execs, plan>>
  PROVE  Inv'
<1>1. TypeOK'
  <2>1. pc' \in [Operators -> Early \cup RestoreStages]
    BY DEF localVars, Inv, RestoresOnceInv, TypeOK
  <2>2. QED
    BY <2>1, RestTyped DEF Inv, RestoresOnceInv
<1>2. ASSUME NEW q \in Operators, Claimed(q)', Current(q)'
      PROVE  /\ Claimed(q) /\ Current(q) /\ key'[q] = key[q]
             /\ Ahead(q)' \subseteq Ahead(q)
  <2>1. Claimed(q) /\ key'[q] = key[q] /\ Ahead(q)' \subseteq Ahead(q)
    BY <1>2 DEF Claimed, Ahead, localVars
  <2>2. key[q] \in Objects
    BY <2>1 DEF Claimed, Early, Inv, RestoresOnceInv, SkeletonInv, HeldBehind
  <2>3. QED
    BY <1>2, <2>1, <2>2 DEF Current, localVars
<1>3. RunsOnce' /\ FreshUnrun' /\ AheadUnrun'
  BY <1>2, NoExecKeeps
<1>4. QED
  BY <1>1, <1>3 DEF Inv, RestoresOnceInv

LEMMA WorldKeeps ==
  ASSUME Inv, World
  PROVE  Inv'
<1>1. SkeletonTypeOK /\ SkeletonInv /\ UNCHANGED <<execs, plan>>
  BY DEF Inv, RestoresOnceInv, TypeOK, World
<1>2. ASSUME NEW o \in Operators, NEW b \in Objects, Deliver(o, b)
      PROVE  Inv'
  <2>1. SkeletonTypeOK' /\ SkeletonInv'
    BY <1>1, <1>2, DeliverKeeps
  <2>2. QED
    BY <1>1, <1>2, <2>1, OutsideKeeps DEF Deliver
<1>3. ASSUME NEW o \in Operators, Resync(o)
      PROVE  Inv'
  <2>1. SkeletonTypeOK' /\ SkeletonInv'
    BY <1>1, <1>3, ResyncKeeps
  <2>2. QED
    BY <1>1, <1>3, <2>1, OutsideKeeps DEF Resync
<1>4. ASSUME NEW o \in Operators, Crash(o)
      PROVE  Inv'
  <2>1. faults' \in Nat /\ Restart(o)
    BY <1>1, <1>4 DEF Crash, SkeletonTypeOK
  <2>2. SkeletonTypeOK' /\ SkeletonInv'
    BY <1>1, <2>1, RestartKeeps
  <2>3. /\ api' = api /\ pc'[o] \in Early
        /\ \A q \in Operators \ {o} :
             /\ pc'[q] = pc[q] /\ key'[q] = key[q] /\ obj'[q] = obj[q]
             /\ todo'[q] = todo[q]
    BY <1>1, <2>1 DEF Restart, Return, SkeletonTypeOK, Early
  <2>4. QED
    BY <1>1, <2>2, <2>3, EarlyKeeps
<1>5. ASSUME NEW b \in Objects, Delete(b) \/ Touch(b)
      PROVE  Inv'
  <2>1. SkeletonTypeOK' /\ SkeletonInv'
    BY <1>1, <1>5, UserStepKeeps
  <2>2. \A a \in Objects : api'[a].live =>
          api[a].live /\ api'[a].uid = api[a].uid /\ api'[a].conds = api[a].conds
    BY <1>1, <1>5 DEF Delete, Touch, Revision, SkeletonTypeOK
  <2>3. QED
    BY <1>1, <1>5, <2>1, <2>2, OutsideKeeps DEF Delete, Touch
<1>6. QED
  BY <1>2, <1>3, <1>4, <1>5 DEF World

\* The successor of a deleted object starts with an empty history; a worker
\* still holding the deleted one no longer counts.
LEMMA CreateKeeps ==
  ASSUME Inv, NEW b \in Objects, CreateRestore(b)
  PROVE  Inv'
<1>1. SkeletonTypeOK /\ SkeletonInv /\ Create(b)
  BY DEF Inv, RestoresOnceInv, TypeOK, CreateRestore
<1>2. SkeletonTypeOK' /\ SkeletonInv'
  BY <1>1, UserStepKeeps
<1>3. UNCHANGED localVars
  BY <1>1 DEF Create, CreateRestore
<1> DEFINE zero == [c \in Command |-> 0]
<1>4. execs' = [execs EXCEPT ![b] = zero] /\ plan' = [plan EXCEPT ![b] = NoStrategy]
  BY DEF CreateRestore
<1>5. zero \in [Command -> Nat] /\ \A c \in Command : zero[c] = 0
  OBVIOUS
<1> HIDE DEF zero
<1>6. TypeOK'
  <2>1. pc' \in [Operators -> Early \cup RestoreStages]
    BY <1>3 DEF localVars, Inv, RestoresOnceInv, TypeOK
  <2>2. execs' \in [Objects -> [Command -> Nat]] /\ plan' \in [Objects -> Strategy]
    BY <1>4, <1>5, BlankTyped DEF Inv, RestoresOnceInv, TypeOK
  <2>3. QED
    BY <1>2, <1>3, <2>1, <2>2 DEF Inv, RestoresOnceInv, TypeOK
<1>7. \A a \in Objects : execs'[a] = IF a = b THEN zero ELSE execs[a]
  BY <1>4 DEF Inv, RestoresOnceInv, TypeOK
<1>8. RunsOnce'
  BY <1>2, <1>5, <1>7 DEF Inv, RestoresOnceInv, RunsOnce, SkeletonInv, ClaimsMarked
<1>9. \A a \in Objects \ {b} : api'[a] = api[a]
  BY <1>1 DEF Create, SkeletonTypeOK
<1>10. FreshUnrun'
  BY <1>5, <1>7, <1>9 DEF Inv, RestoresOnceInv, FreshUnrun
<1>11. AheadUnrun'
  <2> SUFFICES ASSUME NEW q \in Operators, Claimed(q)', Current(q)',
                      NEW c \in Ahead(q)'
               PROVE  execs'[key'[q]][c] = 0
    BY DEF AheadUnrun
  <2>1. /\ key'[q] = key[q] /\ obj'[q] = obj[q] /\ Claimed(q) /\ c \in Ahead(q)
    BY <1>3 DEF localVars, Claimed, Ahead
  <2>2. key[q] \in Objects /\ obj[q].uid <= api[key[q]].uid
    BY <2>1 DEF Claimed, Early, Inv, RestoresOnceInv, SkeletonInv, HeldBehind
  <2>3. key[q] # b
    <3>1. api'[b].uid = api[b].uid + 1 /\ api[b].uid \in Nat
      BY <1>1 DEF Create, Revision, SkeletonTypeOK, Object
    <3>2. obj[q].uid \in Nat
      BY <1>1 DEF SkeletonTypeOK, Object
    <3>3. api'[key[q]].uid = obj[q].uid
      BY <2>1 DEF Current
    <3>4. QED
      BY <2>2, <3>1, <3>2, <3>3
  <2>4. Current(q)
    BY <1>9, <2>1, <2>2, <2>3 DEF Current
  <2>5. QED
    BY <1>7, <2>1, <2>2, <2>3, <2>4 DEF Inv, RestoresOnceInv, AheadUnrun
<1>12. QED
  BY <1>2, <1>6, <1>8, <1>10, <1>11 DEF Inv, RestoresOnceInv

\* The first status write: whoever comes through it holds an object that
\* carried no mark.
LEMMA InitializeRestoreKeeps ==
  ASSUME Inv, NEW o \in Operators, InitializeRestore(o)
  PROVE  Inv'
<1> DEFINE next == IF todo[o] = {} THEN AfterRestore(o) ELSE "restore"
           b    == key[o]
<1>1. /\ next \in Stage \ Early /\ next \in {"restore", "restart", "finish"}
      /\ "RestoreInitialized" \in Conditions
  BY ConditionsAssumption DEF Stage, RestoreStages, Early, AfterRestore
<1> HIDE DEF next
<1>2. /\ Initialize(o, "RestoreInitialized", next)
      /\ plan' = [plan EXCEPT ![b] =
                    IF claims'[b] # claims[b] THEN strat[o] ELSE @]
      /\ UNCHANGED execs
  BY DEF InitializeRestore, next
<1>3. SkeletonTypeOK /\ SkeletonInv /\ pc[o] = "init"
  BY <1>2 DEF Initialize, Inv, RestoresOnceInv, TypeOK
<1>4. b \in Objects /\ obj[o] \in Object /\ ~ Claimed(o)
  BY <1>3 DEF SkeletonInv, HeldBehind, SkeletonTypeOK, Claimed, Early
<1>5. SkeletonTypeOK' /\ SkeletonInv'
  BY <1>1, <1>2, <1>3, InitializeKeeps
<1>6. PICK v \in {"True", "False"}, n \in {next, "idle"} :
        Update(o, SetCondition(obj[o], "RestoreInitialized", v), n)
  BY <1>2 DEF Initialize
<1> DEFINE m == SetCondition(obj[o], "RestoreInitialized", v)
<1>7. m \in Object /\ m.conds # NoConditions /\ m.rv = obj[o].rv
  BY <1>1, <1>4, SetConditionMarks
<1> HIDE DEF m
<1>8. \/ /\ Accepts(b, m) /\ api' = [api EXCEPT ![b] = Stored(b, m)]
         /\ n # "idle" /\ Go(o, n, Stored(b, m)) /\ UNCHANGED <<strat, todo>>
      \/ Accepts(b, m) /\ api' = [api EXCEPT ![b] = Stored(b, m)] /\ Return(o)
      \/ api' = api /\ Return(o)
  <2>1. n \in Stage
    BY <1>1, <1>6 DEF Stage, Early
  <2>2. Update(o, m, n)
    BY <1>6 DEF m
  <2>3. QED
    BY <1>3, <1>4, <1>7, <2>1, <2>2, UpdateOutcomes
<1>9. Accepts(b, m) => /\ Stored(b, m).uid = api[b].uid /\ api[b].live
                      /\ Stored(b, m).conds = m.conds
                      /\ api[b].conds = NoConditions
  <2>1. Accepts(b, m) => obj[o].rv = api[b].rv /\ api[b].live
    BY <1>7 DEF Accepts
  <2>2. Accepts(b, m) => api[b].conds = NoConditions
    BY <1>3, <1>4, <2>1 DEF SkeletonInv, HeldBehind
  <2>3. QED
    BY <1>3, <1>4, <1>7, <2>1, <2>2, StoredTyped DEF SkeletonTypeOK
<1>10. TypeOK'
  <2>1. pc' \in [Operators -> Early \cup RestoreStages]
    BY <1>1, <1>6, <1>8 DEF Go, Return, Inv, RestoresOnceInv, TypeOK, Early, RestoreStages
  <2>2. plan' \in [Objects -> Strategy]
    BY <1>2, <1>3, <1>4 DEF Inv, RestoresOnceInv, TypeOK, SkeletonTypeOK
  <2>3. QED
    BY <1>2, <1>5, <2>1, <2>2 DEF Inv, RestoresOnceInv, TypeOK
<1>11. ASSUME NEW a \in Objects, api'[a].live, api'[a].conds = NoConditions
       PROVE  api[a].live /\ api[a].conds = NoConditions
  BY <1>3, <1>4, <1>7, <1>8, <1>9, <1>11 DEF SkeletonTypeOK
<1>12. ASSUME NEW q \in Operators, Claimed(q)', Current(q)'
       PROVE  \/ /\ Claimed(q) /\ Current(q) /\ key'[q] = key[q]
                 /\ Ahead(q)' \subseteq Ahead(q)
              \/ /\ key'[q] \in Objects /\ Ahead(q)' \subseteq Command
                 /\ api[key'[q]].live /\ api[key'[q]].conds = NoConditions
  <2>1. CASE q = o
    <3>1. Go(o, n, Stored(b, m)) /\ Accepts(b, m) /\ n # "idle"
      BY <1>3, <1>8, <1>12, <2>1 DEF Return, Claimed, Early, SkeletonTypeOK
    <3>2. key'[q] = b /\ pc'[q] \in {"restore", "restart", "finish"}
      BY <1>1, <1>3, <1>6, <2>1, <3>1 DEF Go, SkeletonTypeOK
    <3>3. Ahead(q)' \subseteq Command
      BY <1>5, <3>2 DEF Ahead, Command, SkeletonTypeOK
    <3>4. QED
      BY <1>4, <1>9, <3>1, <3>2, <3>3
  <2>2. CASE q # o
    <3>1. /\ pc'[q] = pc[q] /\ key'[q] = key[q] /\ obj'[q] = obj[q]
          /\ todo'[q] = todo[q]
      BY <1>3, <1>8, <2>2 DEF Go, Return, SkeletonTypeOK
    <3>2. Claimed(q) /\ key[q] \in Objects
      BY <1>3, <1>12, <3>1 DEF Claimed, Early, SkeletonInv, HeldBehind
    <3>3. Current(q)
      BY <1>3, <1>4, <1>8, <1>9, <1>12, <3>1, <3>2 DEF Current, SkeletonTypeOK
    <3>4. Ahead(q)' = Ahead(q)
      BY <3>1 DEF Ahead
    <3>5. QED
      BY <3>1, <3>2, <3>3, <3>4
  <2>3. QED
    BY <2>1, <2>2
<1>13. RunsOnce' /\ FreshUnrun' /\ AheadUnrun'
  BY <1>2, <1>5, <1>11, <1>12, NoExecKeeps
<1>14. QED
  BY <1>5, <1>10, <1>13 DEF Inv, RestoresOnceInv

---------------------------------------------------------------------------
(* The theorems.                                                           *)

LEMMA InitInv == Init => Inv
<1> SUFFICES ASSUME Init PROVE Inv
  OBVIOUS
<1>1. SkeletonInit
  BY DEF Init
<1>2. SkeletonTypeOK
  <2>1. "idle" \in Stage
    BY DEF Stage, Early
  <2>2. QED
    BY <1>1, <2>1, BlankTyped DEF SkeletonInit, SkeletonTypeOK
<1>3. SkeletonInv
  BY <1>1 DEF SkeletonInit, SkeletonInv, CacheBehind, HeldBehind, ClaimsMarked,
     OneClaimant, Claimed, Early, Blank
<1>4. TypeOK
  BY <1>1, <1>2, BlankTyped DEF Init, SkeletonInit, TypeOK, Early
<1>5. RunsOnce /\ FreshUnrun /\ AheadUnrun
  BY <1>1 DEF Init, SkeletonInit, RunsOnce, FreshUnrun, AheadUnrun, Claimed, Early
<1>6. QED
  BY <1>3, <1>4, <1>5 DEF Inv, RestoresOnceInv

LEMMA NextInv == Inv /\ [Next]_vars => Inv'
<1> SUFFICES ASSUME Inv, [Next]_vars PROVE Inv'
  OBVIOUS
<1>1. ASSUME NEW o \in Operators, Work(o) PROVE Inv'
  <2>1. CASE \E found \in Lookup : FetchRefs(o, found)
    BY <2>1, FetchRefsKeeps
  <2>2. CASE InitializeRestore(o)
    BY <2>2, InitializeRestoreKeeps
  <2>3. CASE RestoreLocation(o)
    BY <2>3, RestoreLocationKeeps
  <2>4. CASE SaveFailure(o) \/ SaveSuccess(o) \/ SaveRestart(o) \/ Finish(o)
    BY <2>4, SavesKeep
  <2>5. QED
    BY <1>1, <2>1, <2>2, <2>3, <2>4 DEF Work
<1>2. ASSUME NEW o \in Operators, NEW b \in Objects, TakeRestore(o, b) PROVE Inv'
  BY <1>2, TakeRestoreKeeps
<1>3. ASSUME NEW b \in Objects, CreateRestore(b) PROVE Inv'
  BY <1>3, CreateKeeps
<1>4. CASE World
  BY <1>4, WorldKeeps
<1>5. CASE UNCHANGED vars
  BY <1>5
  DEF vars, skeletonVars, localVars, Inv, RestoresOnceInv, TypeOK, SkeletonTypeOK,
      SkeletonInv, CacheBehind, HeldBehind, ClaimsMarked, OneClaimant, RunsOnce,
      FreshUnrun, AheadUnrun, Current, Claimed, Ahead
<1>6. ASSUME NEW o \in Operators, NEW ran \in BOOLEAN, NEW ok \in BOOLEAN,
             RestartJenkins(o, ran, ok)
      PROVE  Inv'
  BY <1>6, RestartJenkinsKeeps
<1>7. QED
  BY <1>1, <1>2, <1>3, <1>4, <1>5, <1>6 DEF Next

\* The guard of restore_controller.go:87 and the versioned write of
\* RestoreInitialized (:175) let one worker run a Restore, and each command at
\* most once, for any number of operators, objects, faults and restarts.
THEOREM RestoreInductive == Spec => []RestoresOnceInv
<1>1. Inv => RestoresOnceInv
  BY DEF Inv
<1>2. QED
  BY <1>1, InitInv, NextInv, PTL DEF Spec

---------------------------------------------------------------------------
(* The refinement of OneShotTask.                                          *)

USE ConditionsAssumption

Phases == [b \in Objects |-> Phase(b)]

\* A worker past the first status write has it in its copy, and the object it
\* works for says so too.
AcceptedInv ==
  \A o \in Operators : Claimed(o) =>
    /\ obj[o].conds["RestoreInitialized"] = "True"
    /\ Current(o) => api[key[o]].conds["RestoreInitialized"] = "True"

RefInv == Inv /\ AcceptedInv

\* What becomes of the workers in most steps: whoever is past the first write
\* was there before, with the same object.
Settled(q) ==
  Claimed(q)' => /\ Claimed(q) /\ key'[q] = key[q] /\ obj'[q].uid = obj[q].uid
                 /\ obj'[q].conds["RestoreInitialized"] = "True"

Unmoved(b) ==
  /\ api'[b].live = api[b].live /\ api'[b].uid = api[b].uid
  /\ api'[b].conds["RestoreInitialized"] = api[b].conds["RestoreInitialized"]

LEMMA CalmSteps ==
  ASSUME RefInv, \A b \in Objects : Unmoved(b), \A q \in Operators : Settled(q)
  PROVE  AcceptedInv' /\ Phases' = Phases
<1>1. \A b \in Objects : Phase(b)' = Phase(b)
  BY DEF Unmoved, Phase
<1>2. Phases' = Phases
  BY <1>1 DEF Phases
<1>3. ASSUME NEW q \in Operators, Claimed(q)'
      PROVE  /\ obj'[q].conds["RestoreInitialized"] = "True"
             /\ Current(q)' => api'[key'[q]].conds["RestoreInitialized"] = "True"
  <2>1. key[q] \in Objects /\ Claimed(q)
    BY <1>3, HeldMarked DEF Settled, RefInv
  <2> QED
    BY <1>3, <2>1 DEF Settled, Unmoved, Current, RefInv, AcceptedInv
<1> QED
  BY <1>2, <1>3 DEF AcceptedInv

---------------------------------------------------------------------------
(* Steps that execute a command.                                           *)

LEMMA RunsOneCommand ==
  ASSUME RefInv, NEW o \in Operators, Claimed(o), api' = api,
         NEW c \in Ahead(o), c \in Command, NEW ran \in BOOLEAN, Record(o, c, ran),
         NEW next, NEW m \in Object, Go(o, next, m), m.uid = obj[o].uid,
         m.conds["RestoreInitialized"] = "True"
  PROVE  AcceptedInv' /\ [Task!TaskNext]_Task!taskVars
<1>1. \A q \in Operators : Settled(q)
  BY DEF Settled, Go, RefInv, AcceptedInv, Inv, RestoresOnceInv, TypeOK, SkeletonTypeOK, Claimed
<1>2. AcceptedInv' /\ Phases' = Phases
  BY <1>1, CalmSteps DEF Unmoved
<1>3. key[o] \in Objects
  BY HeldMarked DEF RefInv
<1>4. CASE ~ (ran /\ Current(o))
  BY <1>2, <1>4 DEF Record, Phases, Task!taskVars
<1>5. CASE ran /\ Current(o)
  <2>1. execs[key[o]][c] = 0
    BY <1>5 DEF RefInv, Inv, RestoresOnceInv, AheadUnrun
  <2>2. Phase(key[o]) = "accepted"
    BY <1>5 DEF RefInv, AcceptedInv, Phase, Current
  <2>3. execs' = [execs EXCEPT ![key[o]] = [@ EXCEPT ![c] = 1]]
    BY <1>3, <1>5, <2>1 DEF Record, RefInv, Inv, RestoresOnceInv, TypeOK
  <2>4. Task!RunCommand(key[o], c)
    BY <1>2, <1>3, <2>1, <2>2, <2>3 DEF Task!RunCommand, Phases
  <2> QED
    BY <1>2, <1>3, <2>4 DEF Task!TaskNext
<1> QED
  BY <1>4, <1>5

\* What the script notes does not touch the condition of the first write.
LEMMA Notes ==
  ASSUME RefInv, NEW o \in Operators, Claimed(o),
         NEW t \in Conditions \ {"RestoreInitialized"}, NEW v \in {"True", "False"}
  PROVE  LET m == SetCondition(obj[o], t, v)
         IN  /\ m \in Object /\ m.uid = obj[o].uid /\ m.rv = obj[o].rv
             /\ m.conds # NoConditions /\ m.conds["RestoreInitialized"] = "True"
<1>1. obj[o] \in Object /\ obj[o].conds["RestoreInitialized"] = "True"
  BY HeldMarked DEF RefInv, AcceptedInv
<1> QED
  BY <1>1, SetConditionMarks

LEMMA LocationSteps ==
  ASSUME RefInv, NEW o \in Operators, RestoreLocation(o)
  PROVE  AcceptedInv' /\ [Task!TaskNext]_Task!taskVars
<1> DEFINE noted(v) == SetCondition(obj[o], "RestoreCompleted", v)
<1>1. Claimed(o) /\ api' = api
  BY DEF RestoreLocation, Claimed, Early, serverVars
<1>2. ASSUME NEW c \in Ahead(o), c \in Command, NEW ran \in BOOLEAN, Record(o, c, ran),
             NEW next, NEW m \in {obj[o], noted("True"), noted("False")},
             Go(o, next, m)
      PROVE  AcceptedInv' /\ [Task!TaskNext]_Task!taskVars
  <2>1. /\ m \in Object /\ m.uid = obj[o].uid
        /\ m.conds["RestoreInitialized"] = "True"
    <3>1. CASE m = obj[o]
      BY <1>1, <3>1, HeldMarked DEF RefInv, AcceptedInv
    <3>2. CASE m \in {noted("True"), noted("False")}
      BY <1>1, <3>2, Notes
    <3> QED
      BY <1>2, <3>1, <3>2
  <2> QED
    BY <1>1, <1>2, <2>1, RunsOneCommand
<1>3. PICK l \in todo[o], ran, ok \in BOOLEAN :
        /\ Record(o, l, ran)
        /\ IF ~ ok THEN Go(o, "saveFailure", noted("False"))
           ELSE IF todo'[o] = {} THEN Go(o, "saveSuccess", noted("True"))
           ELSE Go(o, "restore", obj[o])
  BY DEF RestoreLocation
<1>4. l \in Ahead(o) /\ l \in Command
  BY DEF RestoreLocation, Ahead, Command, RefInv, Inv, RestoresOnceInv, TypeOK,
     SkeletonTypeOK
<1> HIDE DEF noted
<1> QED
  BY <1>2, <1>3, <1>4

LEMMA RestartSteps ==
  ASSUME RefInv, NEW o \in Operators, NEW ran \in BOOLEAN, NEW ok \in BOOLEAN,
         RestartJenkins(o, ran, ok)
  PROVE  AcceptedInv' /\ [Task!TaskNext]_Task!taskVars
<1> DEFINE c == RestartOf(strat[o].restart)
           t == IF strat[o].restart = "safe"
                THEN "SafeRestartStarted" ELSE "RestartStarted"
           v == IF ok THEN "True" ELSE "False"
           m == SetCondition(obj[o], t, v)
           next == IF ok THEN "finish" ELSE "saveRestart"
<1>1. /\ Claimed(o) /\ pc[o] = "restart" /\ Record(o, c, ran)
      /\ api' = api /\ Go(o, next, m)
  BY DEF RestartJenkins, Claimed, Early, serverVars
<1>2. t \in Conditions \ {"RestoreInitialized"} /\ v \in {"True", "False"}
  OBVIOUS
<1>3. c \in Ahead(o) /\ c \in Command
  BY <1>1 DEF Ahead, Command, RestartOf
<1> HIDE DEF t, v, c, next
<1>4. /\ m \in Object /\ m.uid = obj[o].uid
      /\ m.conds["RestoreInitialized"] = "True"
  BY <1>1, <1>2, Notes
<1> HIDE DEF m
<1> QED
  BY <1>1, <1>3, <1>4, RunsOneCommand

---------------------------------------------------------------------------
(* Steps that write the status.                                            *)

LEMMA StatusStep ==
  ASSUME RefInv, NEW o \in Operators, Claimed(o),
         NEW m \in Object, m.rv = obj[o].rv, m.uid = obj[o].uid,
         m.conds["RestoreInitialized"] = "True",
         NEW next \in Stage, Update(o, m, next), execs' = execs
  PROVE  AcceptedInv' /\ [Task!TaskNext]_Task!taskVars
<1> DEFINE k == key[o]
<1>0. SkeletonTypeOK /\ SkeletonInv
  BY DEF RefInv, Inv, RestoresOnceInv, TypeOK
<1>1. k \in Objects /\ pc[o] # "idle"
  BY HeldMarked DEF RefInv, Claimed, Early
<1>2. \/ /\ Accepts(k, m) /\ api' = [api EXCEPT ![k] = Stored(k, m)]
         /\ Go(o, next, Stored(k, m))
      \/ Accepts(k, m) /\ api' = [api EXCEPT ![k] = Stored(k, m)] /\ Return(o)
      \/ api' = api /\ Return(o)
  BY <1>0, <1>1, UpdateOutcomes
<1>3. ASSUME Accepts(k, m)
      PROVE  /\ Stored(k, m).live = api[k].live /\ Stored(k, m).uid = api[k].uid
             /\ Stored(k, m).conds["RestoreInitialized"] = "True"
             /\ api[k].conds["RestoreInitialized"] = "True"
             /\ obj[o].uid = api[k].uid
  <2>1. /\ Stored(k, m).live /\ Stored(k, m).uid = api[k].uid
        /\ Stored(k, m).conds = m.conds
    BY <1>0, <1>1, <1>3, StoredTyped DEF SkeletonTypeOK
  <2>2. Current(o) /\ api[k].live
    BY <1>0, <1>1, <1>3 DEF SkeletonInv, HeldBehind, Accepts
  <2>3. api[k].live = TRUE /\ Stored(k, m).live = TRUE
    BY <2>1, <2>2, <1>0, <1>1, <1>3, StoredTyped DEF SkeletonTypeOK, Object
  <2> QED
    BY <2>1, <2>2, <2>3 DEF RefInv, AcceptedInv, Current
<1>4. \A b \in Objects : Unmoved(b)
  BY <1>0, <1>1, <1>2, <1>3 DEF Unmoved, SkeletonTypeOK
<1>5. \A q \in Operators : Settled(q)
  BY <1>0, <1>2, <1>3 DEF Settled, Go, Return, RefInv, AcceptedInv, Claimed, Early,
     SkeletonTypeOK
<1> QED
  BY <1>4, <1>5, CalmSteps DEF Phases, Task!taskVars

LEMMA SaveSteps ==
  ASSUME RefInv, NEW o \in Operators,
         SaveFailure(o) \/ SaveSuccess(o) \/ SaveRestart(o) \/ Finish(o)
  PROVE  AcceptedInv' /\ [Task!TaskNext]_Task!taskVars
<1>1. PICK at \in RestoreStages, next \in RestoreStages \cup {"idle"} :
        SaveStatus(o, at, next)
  BY DEF SaveFailure, SaveSuccess, SaveRestart, Finish, AfterRestore, RestoreStages
<1>2. Claimed(o) /\ next \in Stage
  BY <1>1 DEF SaveStatus, Save, Claimed, Early, RestoreStages, Stage
<1>3. obj[o] \in Object /\ obj[o].conds["RestoreInitialized"] = "True"
  BY <1>2, HeldMarked DEF RefInv, AcceptedInv
<1> QED
  BY <1>1, <1>2, <1>3, StatusStep DEF SaveStatus, Save

\* The first write decides on the task.
LEMMA DecidingStep ==
  ASSUME RefInv, NEW o \in Operators, InitializeRestore(o)
  PROVE  AcceptedInv' /\ [Task!TaskNext]_Task!taskVars
<1>0. SkeletonTypeOK /\ SkeletonInv
  BY DEF RefInv, Inv, RestoresOnceInv, TypeOK
<1>k. PICK k \in Objects : k = key[o]
  BY <1>0 DEF InitializeRestore, Initialize, SkeletonInv, HeldBehind
<1>1. pc[o] = "init" /\ ~ Claimed(o) /\ k \in Objects /\ obj[o] \in Object
      /\ execs' = execs
  BY <1>0 DEF InitializeRestore, Initialize, Claimed, Early, SkeletonInv, HeldBehind,
     SkeletonTypeOK
<1>2. PICK v \in {"True", "False"}, next \in Stage :
        /\ Update(o, SetCondition(obj[o], "RestoreInitialized", v), next)
        /\ v = "False" => next = "idle"
  BY DEF InitializeRestore, Initialize, AfterRestore, Stage, Early, RestoreStages
<1> DEFINE m == SetCondition(obj[o], "RestoreInitialized", v)
<1>3. /\ m \in Object /\ m.rv = obj[o].rv /\ m.uid = obj[o].uid
      /\ m.conds["RestoreInitialized"] = v
  BY <1>1, SetConditionMarks
<1> HIDE DEF m
<1>4. \/ /\ Accepts(k, m) /\ api' = [api EXCEPT ![k] = Stored(k, m)]
         /\ next # "idle" /\ Go(o, next, Stored(k, m))
      \/ Accepts(k, m) /\ api' = [api EXCEPT ![k] = Stored(k, m)] /\ Return(o)
      \/ api' = api /\ Return(o)
  BY <1>0, <1>k, <1>1, <1>2, <1>3, UpdateOutcomes DEF m
<1>5. \A q \in Operators \ {o} :
        pc'[q] = pc[q] /\ key'[q] = key[q] /\ obj'[q] = obj[q]
  BY <1>0, <1>4 DEF Go, Return, SkeletonTypeOK
<1>6. CASE api' = api /\ Return(o)
  <2>1. \A q \in Operators : Settled(q)
    BY <1>0, <1>5, <1>6 DEF Settled, Return, RefInv, AcceptedInv, Claimed, Early,
       SkeletonTypeOK
  <2> QED
    BY <1>1, <1>6, <2>1, CalmSteps DEF Unmoved, Phases, Task!taskVars
<1>7. CASE Accepts(k, m) /\ api' = [api EXCEPT ![k] = Stored(k, m)]
  <2>1. /\ Stored(k, m).live /\ Stored(k, m).uid = api[k].uid
        /\ Stored(k, m).conds["RestoreInitialized"] = v
    BY <1>0, <1>1, <1>3, <1>7, StoredTyped DEF SkeletonTypeOK
  <2>2. Current(o) /\ api[k].live /\ api[k].conds = NoConditions
    BY <1>0, <1>k, <1>1, <1>3, <1>7 DEF SkeletonInv, HeldBehind, Accepts
  <2>3. api[k].conds["RestoreInitialized"] = "unset"
    BY <2>2 DEF NoConditions
  <2>4. /\ api'[k] = Stored(k, m)
        /\ \A b \in Objects \ {k} : api'[b] = api[b]
    BY <1>0, <1>1, <1>7 DEF SkeletonTypeOK
  <2>5. /\ Phase(k) = "pending"
        /\ Phase(k)' = IF v = "True" THEN "accepted" ELSE "refused"
        /\ \A b \in Objects \ {k} : Phase(b)' = Phase(b)
    BY <2>1, <2>2, <2>3, <2>4 DEF Phase
  <2>6. Phases' = [Phases EXCEPT ![k] = IF v = "True" THEN "accepted" ELSE "refused"]
    BY <1>1, <2>5 DEF Phases
  <2>7. Task!Decide(k)
    BY <1>1, <2>5, <2>6 DEF Task!Decide, Phases
  <2>8. ASSUME NEW q \in Operators, Claimed(q)'
        PROVE  /\ obj'[q].conds["RestoreInitialized"] = "True"
               /\ Current(q)' => api'[key'[q]].conds["RestoreInitialized"] = "True"
    <3>1. CASE q = o
      <4>1. next # "idle" /\ Go(o, next, Stored(k, m)) /\ v = "True"
        BY <1>0, <1>2, <1>4, <1>7, <2>8, <3>1 DEF Return, Claimed, Early, SkeletonTypeOK
      <4> QED
        BY <1>0, <1>k, <1>1, <2>1, <2>4, <3>1, <4>1 DEF Go, SkeletonTypeOK
    <3>2. CASE q # o
      <4>1. Claimed(q) /\ key[q] \in Objects
        BY <1>5, <2>8, <3>2, HeldMarked DEF Claimed, RefInv
      <4>2. CASE key[q] = k
        <5>1. Current(q)' => Current(q)
          BY <1>5, <2>1, <2>2, <2>4, <3>2, <4>2 DEF Current
        <5>2. ~ Current(q)
          BY <2>3, <4>1, <4>2 DEF RefInv, AcceptedInv
        <5> QED
          BY <1>5, <3>2, <4>1, <5>1, <5>2 DEF RefInv, AcceptedInv
      <4>3. CASE key[q] # k
        BY <1>5, <2>4, <3>2, <4>1, <4>3 DEF RefInv, AcceptedInv, Current
      <4> QED
        BY <4>2, <4>3
    <3> QED
      BY <3>1, <3>2
  <2> QED
    BY <1>1, <2>7, <2>8 DEF AcceptedInv, Task!TaskNext
<1> QED
  BY <1>4, <1>6, <1>7

---------------------------------------------------------------------------
(* Everything else.                                                        *)

LEMMA OtherSteps ==
  ASSUME RefInv, api' = api, execs' = execs, NEW o \in Operators,
         pc'[o] \in Early,
         \A q \in Operators \ {o} :
           pc'[q] = pc[q] /\ key'[q] = key[q] /\ obj'[q] = obj[q]
  PROVE  AcceptedInv' /\ [Task!TaskNext]_Task!taskVars
<1>1. \A q \in Operators : Settled(q)
  BY DEF Settled, RefInv, AcceptedInv, Claimed
<1> QED
  BY <1>1, CalmSteps DEF Unmoved, Phases, Task!taskVars

\* Users create and delete tasks.
LEMMA UserSteps ==
  ASSUME RefInv, NEW b \in Objects,
         CreateRestore(b) \/ (UNCHANGED execs /\ (Delete(b) \/ Touch(b)))
  PROVE  AcceptedInv' /\ [Task!TaskNext]_Task!taskVars
<1>0. SkeletonTypeOK /\ SkeletonInv
  BY DEF RefInv, Inv, RestoresOnceInv, TypeOK
<1>1. /\ UNCHANGED <<pc, key, obj>> /\ api[b].uid \in Nat
      /\ \A a \in Objects \ {b} : api'[a] = api[a]
  BY <1>0 DEF CreateRestore, Create, Delete, Touch, localVars, SkeletonTypeOK, Object
<1>2. CASE Touch(b)
  <2>1. api[b].live \in BOOLEAN /\ api[b].live
    BY <1>0, <1>2 DEF SkeletonTypeOK, Object, Touch
  <2>2. /\ api'[b].live = TRUE /\ api'[b].uid = api[b].uid
        /\ api'[b].conds = api[b].conds
    BY <1>0, <1>2 DEF Touch, Revision, SkeletonTypeOK
  <2>3. \A a \in Objects : Unmoved(a)
    BY <1>1, <2>1, <2>2 DEF Unmoved
  <2>4. \A q \in Operators : Settled(q)
    BY <1>1 DEF Settled, RefInv, AcceptedInv, Claimed
  <2>5. execs' = execs
    BY <1>2 DEF Touch, CreateRestore, Create
  <2> QED
    BY <2>3, <2>4, <2>5, CalmSteps DEF Phases, Task!taskVars
<1>3. ASSUME NEW q \in Operators, Claimed(q), Current(q)', ~ Touch(b)
      PROVE  Current(q) /\ key[q] \in Objects \ {b}
  <2>1. /\ key[q] \in Objects /\ obj[q].uid <= api[key[q]].uid /\ obj[q].uid \in Nat
    BY <1>0, <1>3 DEF SkeletonInv, HeldBehind, Claimed, Early, SkeletonTypeOK, Object
  <2>2. CASE key[q] = b
    <3>1. api'[b].live /\ api'[b].uid = obj[q].uid
      BY <1>1, <1>3, <2>2 DEF Current
    <3>2. ~ api'[b].live \/ api'[b].uid = api[b].uid + 1
      BY <1>0, <1>3 DEF CreateRestore, Create, Delete, Revision, SkeletonTypeOK
    <3> QED
      BY <1>1, <2>1, <2>2, <3>1, <3>2
  <2>3. CASE key[q] # b
    BY <1>1, <1>3, <2>1, <2>3 DEF Current
  <2> QED
    BY <2>1, <2>2, <2>3
<1>4. ~ Touch(b) => AcceptedInv'
  BY <1>1, <1>3 DEF RefInv, AcceptedInv, Claimed
<1>5. \A a \in Objects \ {b} : Phase(a)' = Phase(a)
  BY <1>1 DEF Phase
<1>6. CASE CreateRestore(b) /\ ~ Touch(b)
  <2>1. Phase(b) = "absent" /\ Phase(b)' = "pending"
    BY <1>0, <1>6 DEF CreateRestore, Create, Revision, Phase, SkeletonTypeOK, NoConditions
  <2>2. Phases' = [Phases EXCEPT ![b] = "pending"]
    BY <1>5, <2>1 DEF Phases
  <2>3. Task!Submit(b)
    BY <1>6, <2>1, <2>2 DEF Task!Submit, Phases, CreateRestore
  <2> QED
    BY <1>4, <1>6, <2>3 DEF Task!TaskNext
<1>7. CASE Delete(b) /\ execs' = execs /\ ~ Touch(b)
  <2>1. Phase(b) # "absent" /\ Phase(b)' = "absent"
    BY <1>0, <1>7 DEF Delete, Revision, Phase, SkeletonTypeOK
  <2>2. Phases' = [Phases EXCEPT ![b] = "absent"]
    BY <1>5, <2>1 DEF Phases
  <2>3. Task!Withdraw(b)
    BY <1>7, <2>1, <2>2 DEF Task!Withdraw, Phases
  <2> QED
    BY <1>4, <1>7, <2>3 DEF Task!TaskNext
<1> QED
  BY <1>2, <1>6, <1>7

LEMMA WorldSteps ==
  ASSUME RefInv, World
  PROVE  AcceptedInv' /\ [Task!TaskNext]_Task!taskVars
<1>0. SkeletonTypeOK
  BY DEF RefInv, Inv, RestoresOnceInv, TypeOK
<1>1. ASSUME UNCHANGED <<api, pc, key, obj, execs>>
      PROVE  AcceptedInv' /\ [Task!TaskNext]_Task!taskVars
  <2>1. \A q \in Operators : Settled(q)
    BY <1>1 DEF Settled, RefInv, AcceptedInv, Claimed
  <2> QED
    BY <1>1, <2>1, CalmSteps DEF Unmoved, Phases, Task!taskVars
<1>2. ASSUME NEW o \in Operators, NEW b \in Objects, Deliver(o, b)
      PROVE  UNCHANGED <<api, pc, key, obj>>
  BY <1>2 DEF Deliver, localVars
<1>3. ASSUME NEW o \in Operators, Resync(o)
      PROVE  UNCHANGED <<api, pc, key, obj>>
  BY <1>3 DEF Resync, localVars
<1>4. ASSUME NEW o \in Operators, Crash(o)
      PROVE  AcceptedInv' /\ [Task!TaskNext]_Task!taskVars
  <2>1. api' = api /\ execs' = execs /\ pc'[o] \in Early
        /\ \A q \in Operators \ {o} :
             pc'[q] = pc[q] /\ key'[q] = key[q] /\ obj'[q] = obj[q]
    BY <1>0, <1>4 DEF World, Crash, Restart, Return, SkeletonTypeOK, Early
  <2> QED
    BY <2>1, OtherSteps
<1>5. execs' = execs
  BY DEF World
<1> QED
  BY <1>1, <1>2, <1>3, <1>4, <1>5, UserSteps DEF World

LEMMA StepRefines ==
  ASSUME RefInv, [Next]_vars
  PROVE  AcceptedInv' /\ [Task!TaskNext]_Task!taskVars
<1>0. SkeletonTypeOK /\ SkeletonInv
  BY DEF RefInv, Inv, RestoresOnceInv, TypeOK
<1>1. ASSUME NEW o \in Operators, Work(o)
      PROVE  AcceptedInv' /\ [Task!TaskNext]_Task!taskVars
  <2>1. ASSUME NEW found \in Lookup, FetchRefs(o, found)
        PROVE  AcceptedInv' /\ [Task!TaskNext]_Task!taskVars
    BY <1>0, <2>1, FetchKeeps, OtherSteps DEF FetchRefs
  <2> QED
    BY <1>1, <2>1, DecidingStep, LocationSteps, SaveSteps DEF Work
<1>2. ASSUME NEW o \in Operators, NEW b \in Objects, TakeRestore(o, b)
      PROVE  AcceptedInv' /\ [Task!TaskNext]_Task!taskVars
  <2>1. api' = api /\ execs' = execs /\ pc'[o] \in Early
        /\ \A q \in Operators \ {o} :
             pc'[q] = pc[q] /\ key'[q] = key[q] /\ obj'[q] = obj[q]
    BY <1>0, <1>2 DEF TakeRestore, Dequeue, SkeletonTypeOK, Early
  <2> QED
    BY <2>1, OtherSteps
<1>3. CASE UNCHANGED vars
  <2>1. \A q \in Operators : Settled(q)
    BY <1>3 DEF Settled, RefInv, AcceptedInv, Claimed, vars, skeletonVars, localVars
  <2> QED
    BY <1>3, <2>1, CalmSteps DEF Unmoved, Phases, Task!taskVars, vars, skeletonVars
<1> QED
  BY <1>1, <1>2, <1>3, RestartSteps, UserSteps, WorldSteps DEF Next

LEMMA InitRefines == Init => AcceptedInv /\ Task!TaskInit
<1> SUFFICES ASSUME Init PROVE AcceptedInv /\ Task!TaskInit
  OBVIOUS
<1>1. AcceptedInv
  BY DEF Init, SkeletonInit, AcceptedInv, Claimed, Early
<1>2. \A b \in Objects : Phase(b) = "absent"
  BY DEF Init, SkeletonInit, Phase, Blank
<1> QED
  BY <1>1, <1>2 DEF Init, Task!TaskInit

\* A Restore is a one-shot task: pending until the first status write decides
\* on it (restore_controller.go:166-180), then its commands run at most once
\* each, with any number of operators, restarts and lost answers.
THEOREM RestoreIsTask == Spec => ImplementsTask
<1>1. Init => RefInv /\ Task!TaskInit
  BY InitInv, InitRefines DEF RefInv
<1>2. RefInv /\ [Next]_vars => RefInv' /\ [Task!TaskNext]_Task!taskVars
  BY NextInv, StepRefines DEF RefInv
<1> QED
  BY <1>1, <1>2, PTL DEF Spec, ImplementsTask, Task!TaskSpec

---------------------------------------------------------------------------
(* What the status says ran, and the order in which it did.                *)

\* Every step keeps these, and what each lemma below is about.
ReportInv == Inv /\ Inv' /\ LoopInv

\* A step that runs a command runs it in its turn.
InOrder ==
  \A r \in Objects, c \in Command :
    execs'[r][c] > execs[r][c] =>
      IF c \in Location
      THEN /\ c \in plan[r].opts
           /\ \A d \in plan[r].opts : Before[d] < Before[c] => execs[r][d] = 1
           /\ execs[r]["restart"] = 0 /\ execs[r]["safeRestart"] = 0
      ELSE /\ plan[r].restart # "no" /\ c = RestartOf(plan[r].restart)
           /\ \/ \A d \in plan[r].opts : execs[r][d] = 1
              \/ api[r].conds["RestoreCompleted"] = "False"

\* No command of the object is taken back, and it keeps its strategy.
Kept(b) == plan'[b] = plan[b] /\ \A c \in Command : execs'[b][c] >= execs[b][c]

\* After the step, conds is true of the object.
Reported(r, conds) ==
  /\ conds["RestoreCompleted"] = "True" =>
       \A l \in plan'[r].opts : execs'[r][l] = 1
  /\ conds["RestartStarted"] = "True" => execs'[r]["restart"] = 1
  /\ conds["SafeRestartStarted"] = "True" => execs'[r]["safeRestart"] = 1
  /\ conds["RestartStarted"] # "unset" \/ conds["SafeRestartStarted"] # "unset" =>
       plan'[r].opts = {} \/ conds["RestoreCompleted"] # "unset"

LEMMA OnceStays ==
  ASSUME ReportInv, NEW b \in Objects, Kept(b)
  PROVE  \A c \in Command : execs[b][c] = 1 => execs'[b][c] = 1
<1>1. \A c \in Command : execs'[b][c] \in Nat /\ execs'[b][c] <= 1
  BY DEF ReportInv, Inv, RestoresOnceInv, TypeOK, RunsOnce
<1> QED
  BY <1>1 DEF Kept

LEMMA ReportsStay ==
  ASSUME ReportInv, NEW b \in Objects, Kept(b), NEW conds, Reports(b, conds)
  PROVE  Reported(b, conds)
<1>1. plan[b].opts \subseteq Command
  BY DEF ReportInv, Inv, RestoresOnceInv, TypeOK, Strategy, Command
<1> QED
  BY <1>1, OnceStays DEF Reports, Reported, Kept, Command

\* An object whose status was not written, or emptied.
LEMMA StatusStays ==
  ASSUME ReportInv, NEW b \in Objects,
         \/ api'[b].conds = NoConditions
         \/ api'[b].conds = api[b].conds /\ Kept(b)
  PROVE  Reports(b, api[b].conds)'
<1>1. CASE api'[b].conds = NoConditions
  BY <1>1 DEF NoConditions, Reports
<1>2. CASE api'[b].conds = api[b].conds /\ Kept(b)
  <2>1. Reported(b, api[b].conds)
    BY <1>2, ReportsStay DEF ReportInv, LoopInv, StatusReportsRun
  <2> QED
    BY <1>2, <2>1 DEF Reports, Reported
<1> QED
  BY <1>1, <1>2

\* A worker that did not take part.
LEMMA WorkerStays ==
  ASSUME ReportInv, NEW q \in Operators,
         pc'[q] = pc[q], key'[q] = key[q], obj'[q] = obj[q],
         strat'[q] = strat[q], todo'[q] = todo[q],
         Claimed(q) /\ Current(q)' =>
           Current(q) /\ Kept(key[q]) /\ api'[key[q]].conds = api[key[q]].conds
  PROVE  Follows(q)'
<1>1. Follows(q) /\ strat[q] \in Strategy
  BY DEF ReportInv, LoopInv, Inv, RestoresOnceInv, TypeOK, SkeletonTypeOK
<1>2. ASSUME Claimed(q), Current(q)'
      PROVE  /\ (plan[key[q]] = strat[q] /\ Reports(key[q], obj[q].conds))'
             /\ pc[q] = "restore" => Copied(key[q], strat[q].opts \ todo[q])'
             /\ pc[q] = "restart" =>
                  \/ Copied(key[q], strat[q].opts)'
                  \/ api'[key[q]].conds["RestoreCompleted"] = "False"
  <2>1. /\ key[q] \in Objects /\ Kept(key[q]) /\ Current(q)
        /\ api'[key[q]].conds = api[key[q]].conds
        /\ plan[key[q]] = strat[q] /\ Reports(key[q], obj[q].conds)
    BY <1>1, <1>2, HeldMarked DEF ReportInv, Follows
  <2>2. /\ plan'[key[q]] = plan[key[q]] /\ Reported(key[q], obj[q].conds)
        /\ \A c \in Location : execs[key[q]][c] = 1 => execs'[key[q]][c] = 1
    BY <2>1, ReportsStay, OnceStays DEF Kept, Command
  <2>3. (plan[key[q]] = strat[q] /\ Reports(key[q], obj[q].conds))'
    BY <2>1, <2>2 DEF Reports, Reported
  <2>4. strat[q].opts \subseteq Location
    BY <1>1 DEF Strategy
  <2> QED
    BY <1>1, <1>2, <2>1, <2>2, <2>3, <2>4 DEF Follows, Copied
<1> QED
  BY <1>1, <1>2 DEF Follows, Claimed

\* A worker before its first write, or without a task.
LEMMA WorkerEarly ==
  ASSUME NEW q, pc'[q] \in Early, todo'[q] \subseteq strat'[q].opts,
         pc'[q] = "init" => todo'[q] = strat'[q].opts,
         obj'[q].conds = NoConditions
  PROVE  Follows(q)'
BY DEF Follows, Claimed, Early

LEMMA ReturnFollows ==
  ASSUME Inv, NEW o \in Operators, Return(o)
  PROVE  /\ Follows(o)'
         /\ \A q \in Operators \ {o} :
              /\ pc'[q] = pc[q] /\ key'[q] = key[q] /\ obj'[q] = obj[q]
              /\ strat'[q] = strat[q] /\ todo'[q] = todo[q]
<1>1. /\ pc'[o] = "idle" /\ todo'[o] \subseteq strat'[o].opts
      /\ obj'[o].conds = NoConditions
  BY DEF Return, Blank, Inv, RestoresOnceInv, TypeOK, SkeletonTypeOK
<1>2. \A q \in Operators \ {o} :
        /\ pc'[q] = pc[q] /\ key'[q] = key[q] /\ obj'[q] = obj[q]
        /\ strat'[q] = strat[q] /\ todo'[q] = todo[q]
  BY DEF Return
<1> QED
  BY <1>1, <1>2, WorkerEarly DEF Early

\* Steps that execute no command keep the history of every object.
LEMMA NothingRuns ==
  ASSUME Inv, execs' = execs
  PROVE  InOrder /\ \A b \in Objects : plan'[b] = plan[b] => Kept(b)
BY DEF InOrder, Kept, Inv, RestoresOnceInv, TypeOK

\* Executing a command that lies ahead.
LEMMA CommandRuns ==
  ASSUME ReportInv, NEW o \in Operators, Claimed(o), NEW c \in Ahead(o), c \in Command,
         NEW ran \in BOOLEAN, Record(o, c, ran), UNCHANGED <<api, key, plan>>,
         IF c \in Location
         THEN c \in todo[o] /\ pc[o] = "restore" /\ \A d \in todo[o] : Before[c] <= Before[d]
         ELSE c = RestartOf(strat[o].restart) /\ pc[o] = "restart"
  PROVE  /\ InOrder /\ \A b \in Objects : Kept(b)
         /\ ran /\ Current(o) => execs'[key[o]][c] = 1
<1>1. key[o] \in Objects
  BY HeldMarked DEF ReportInv
<1>2. /\ execs \in [Objects -> [Command -> Nat]] /\ Follows(o)
      /\ strat[o] \in Strategy
  BY DEF ReportInv, Inv, RestoresOnceInv, TypeOK, LoopInv, SkeletonTypeOK
<1>3. CASE ~ (ran /\ Current(o))
  <2>1. execs' = execs
    BY <1>3 DEF Record
  <2> QED
    BY <1>3, <2>1, NothingRuns DEF ReportInv
<1>4. CASE ran /\ Current(o)
  <2>1. \A d \in Ahead(o) : execs[key[o]][d] = 0
    BY <1>4 DEF ReportInv, Inv, RestoresOnceInv, AheadUnrun
  <2>2. execs' = [execs EXCEPT ![key[o]] = [@ EXCEPT ![c] = 1]]
    <3>1. execs[key[o]][c] = 0
      BY <2>1
    <3> QED
      BY <1>1, <1>2, <1>4, <3>1 DEF Record
  <2>3. /\ execs'[key[o]][c] = 1
        /\ \A b \in Objects, d \in Command :
             execs'[b][d] = IF b = key[o] /\ d = c THEN 1 ELSE execs[b][d]
    BY <1>1, <1>2, <2>1, <2>2
  <2>4. \A b \in Objects : Kept(b)
    BY <1>2, <2>1, <2>3 DEF Kept
  <2>5. /\ plan[key[o]] = strat[o] /\ todo[o] \subseteq strat[o].opts
        /\ strat[o].opts \subseteq Location
        /\ pc[o] = "restore" => Copied(key[o], strat[o].opts \ todo[o])
        /\ pc[o] = "restart" =>
             /\ strat[o].restart # "no"
             /\ \/ Copied(key[o], strat[o].opts)
                \/ api[key[o]].conds["RestoreCompleted"] = "False"
    BY <1>2, <1>4 DEF Follows, Strategy
  <2>6. CASE c \in Location
    <3>1. "restart" \in Ahead(o) /\ "safeRestart" \in Ahead(o)
      BY <2>6 DEF Ahead
    <3>2. ASSUME NEW d \in strat[o].opts, Before[d] < Before[c]
          PROVE  execs[key[o]][d] = 1
      <4>1. Before[c] \in Nat /\ Before[d] \in Nat
        BY <2>5, <2>6 DEF Before, Location
      <4>2. d \notin todo[o]
        BY <2>6, <3>2, <4>1
      <4> QED
        BY <2>5, <2>6, <4>2 DEF Copied
    <3>3. ASSUME NEW b \in Objects, NEW d \in Command, execs'[b][d] > execs[b][d]
          PROVE  b = key[o] /\ d = c
      BY <1>2, <2>3, <3>3
    <3>4. InOrder
      BY <2>1, <2>5, <2>6, <3>1, <3>2, <3>3 DEF InOrder
    <3> QED
      BY <2>3, <2>4, <3>4
  <2>7. CASE c \notin Location
    <3>1. ASSUME NEW b \in Objects, NEW d \in Command, execs'[b][d] > execs[b][d]
          PROVE  b = key[o] /\ d = c
      BY <1>2, <2>3, <3>1
    <3>2. InOrder
      BY <2>5, <2>7, <3>1 DEF InOrder, Copied
    <3> QED
      BY <2>3, <2>4, <3>2
  <2> QED
    BY <2>6, <2>7
<1> QED
  BY <1>3, <1>4

\* What is left to show of a step that executes a command.
LEMMA RunReports ==
  ASSUME ReportInv, NEW o \in Operators, Claimed(o), \A b \in Objects : Kept(b),
         UNCHANGED <<api, strat>>, NEW m \in Object, m.uid = obj[o].uid,
         NEW next \in {"restore", "saveFailure", "saveSuccess", "saveRestart", "finish"},
         Go(o, next, m),
         todo'[o] \subseteq todo[o], \A q \in Operators \ {o} : todo'[q] = todo[q],
         next = "saveFailure" => m.conds["RestoreCompleted"] = "False",
         next = "saveSuccess" => m.conds["RestoreCompleted"] = "True",
         Current(o) => /\ Reported(key[o], m.conds)
                       /\ next = "restore" =>
                            \A d \in strat[o].opts \ todo'[o] : execs'[key[o]][d] = 1
  PROVE  LoopInv'
<1>1. SkeletonTypeOK /\ Follows(o) /\ key[o] \in Objects
  BY HeldMarked DEF ReportInv, Inv, RestoresOnceInv, TypeOK, LoopInv
<1>2. StatusReportsRun'
  BY StatusStays DEF StatusReportsRun
<1>3. ASSUME NEW q \in Operators \ {o} PROVE Follows(q)'
  <2>1. /\ pc'[q] = pc[q] /\ key'[q] = key[q] /\ obj'[q] = obj[q]
        /\ strat'[q] = strat[q] /\ todo'[q] = todo[q]
    BY <1>1 DEF Go, SkeletonTypeOK
  <2>2. Claimed(q) /\ Current(q)' =>
          Current(q) /\ Kept(key[q]) /\ api'[key[q]].conds = api[key[q]].conds
    BY <2>1, HeldMarked DEF Current, ReportInv
  <2> QED
    BY <2>1, <2>2, WorkerStays
<1>4. Follows(o)'
  <2>1. /\ pc'[o] = next /\ key'[o] = key[o] /\ obj'[o] = m /\ strat'[o] = strat[o]
        /\ Current(o)' = Current(o) /\ plan'[key[o]] = plan[key[o]]
    BY <1>1 DEF Go, SkeletonTypeOK, Current, Kept
  <2>2. Current(o)' =>
          /\ (plan[key[o]] = strat[o] /\ Reports(key[o], obj[o].conds))'
          /\ next = "restore" => Copied(key[o], strat[o].opts \ todo[o])'
    BY <1>1, <2>1 DEF Follows, Reports, Reported, Copied
  <2>3. Claimed(o)'
    BY <2>1 DEF Claimed, Early
  <2> QED
    BY <1>1, <2>1, <2>2, <2>3 DEF Follows
<1> QED
  BY <1>2, <1>3, <1>4 DEF LoopInv

LEMMA LocationReports ==
  ASSUME ReportInv, NEW o \in Operators, RestoreLocation(o)
  PROVE  InOrder /\ LoopInv'
<1> DEFINE noted(v) == SetCondition(obj[o], "RestoreCompleted", v)
<1>1. /\ Claimed(o) /\ pc[o] = "restore" /\ UNCHANGED <<api, strat, plan>>
      /\ SkeletonTypeOK /\ strat[o] \in Strategy
  BY DEF RestoreLocation, Claimed, Early, serverVars, ReportInv, Inv, RestoresOnceInv,
     TypeOK, SkeletonTypeOK
<1>2. Follows(o) /\ obj[o] \in Object /\ key[o] \in Objects
  BY <1>1, HeldMarked DEF ReportInv, LoopInv
<1>3. ASSUME NEW v \in {"True", "False"}
      PROVE  /\ noted(v) \in Object /\ noted(v).uid = obj[o].uid
             /\ noted(v).conds["RestoreCompleted"] = v
             /\ \A u \in Conditions \ {"RestoreCompleted"} :
                  noted(v).conds[u] = obj[o].conds[u]
  BY <1>2, SetConditionMarks
<1>4. PICK l \in todo[o], ran, ok \in BOOLEAN :
        /\ \A d \in todo[o] : Before[l] <= Before[d]
        /\ ok => ran
        /\ Record(o, l, ran)
        /\ todo' = [todo EXCEPT ![o] = @ \ {l}]
        /\ IF ~ ok THEN Go(o, "saveFailure", noted("False"))
           ELSE IF todo'[o] = {} THEN Go(o, "saveSuccess", noted("True"))
           ELSE Go(o, "restore", obj[o])
  BY DEF RestoreLocation, Exec
<1>5. l \in Ahead(o) /\ l \in Command /\ l \in Location
  BY <1>1 DEF Ahead, Command, SkeletonTypeOK
<1>6. /\ InOrder /\ \A b \in Objects : Kept(b)
      /\ ran /\ Current(o) => execs'[key[o]][l] = 1
  <2>1. key' = key
    BY <1>4 DEF Go
  <2> QED
    BY <1>1, <1>4, <1>5, <2>1, CommandRuns
<1>7. todo'[o] = todo[o] \ {l} /\ \A q \in Operators \ {o} : todo'[q] = todo[q]
  BY <1>1, <1>4 DEF SkeletonTypeOK
<1>8. ASSUME Current(o)
      PROVE  /\ Reported(key[o], obj[o].conds) /\ plan'[key[o]] = strat[o]
             /\ ok => \A d \in strat[o].opts \ todo'[o] : execs'[key[o]][d] = 1
  <2>1. /\ plan[key[o]] = strat[o] /\ Reports(key[o], obj[o].conds)
        /\ \A d \in strat[o].opts \ todo[o] : execs[key[o]][d] = 1
    BY <1>1, <1>2, <1>8 DEF Follows, Copied
  <2>2. strat[o].opts \subseteq Command
    BY <1>1 DEF Strategy, Command
  <2>3. ok => \A d \in strat[o].opts \ todo'[o] : execs'[key[o]][d] = 1
    BY <1>2, <1>4, <1>6, <1>7, <1>8, <2>1, <2>2, OnceStays
  <2> QED
    BY <1>1, <1>2, <1>6, <2>1, <2>3, ReportsStay
<1> HIDE DEF noted
<1>9. CASE ~ ok
  <2>1. Current(o) => Reported(key[o], noted("False").conds)
    BY <1>3, <1>8 DEF Reported
  <2> QED
    BY <1>1, <1>3, <1>4, <1>6, <1>7, <1>9, <2>1, RunReports
<1>10. CASE ok /\ todo'[o] = {}
  <2>1. Current(o) => Reported(key[o], noted("True").conds)
    BY <1>3, <1>8, <1>10 DEF Reported
  <2> QED
    BY <1>1, <1>3, <1>4, <1>6, <1>7, <1>10, <2>1, RunReports
<1>11. CASE ok /\ todo'[o] # {}
  BY <1>1, <1>2, <1>4, <1>6, <1>7, <1>8, <1>11, RunReports
<1> QED
  BY <1>9, <1>10, <1>11

LEMMA RestartReports ==
  ASSUME ReportInv, NEW o \in Operators, NEW ran \in BOOLEAN, NEW ok \in BOOLEAN,
         RestartJenkins(o, ran, ok)
  PROVE  InOrder /\ LoopInv'
<1> DEFINE c == RestartOf(strat[o].restart)
           t == IF strat[o].restart = "safe"
                THEN "SafeRestartStarted" ELSE "RestartStarted"
           v == IF ok THEN "True" ELSE "False"
           m == SetCondition(obj[o], t, v)
           next == IF ok THEN "finish" ELSE "saveRestart"
<1>1. /\ Claimed(o) /\ pc[o] = "restart" /\ Record(o, c, ran) /\ (ok => ran)
      /\ UNCHANGED <<api, strat, todo, plan>> /\ Go(o, next, m)
  BY DEF RestartJenkins, Claimed, Early, serverVars, Exec
<1>2. Follows(o) /\ obj[o] \in Object /\ key[o] \in Objects
  BY <1>1, HeldMarked DEF ReportInv, LoopInv
<1>3. /\ c \in Ahead(o) /\ c \in Command /\ c \notin Location
      /\ \/ c = "restart" /\ t = "RestartStarted"
         \/ c = "safeRestart" /\ t = "SafeRestartStarted"
  BY <1>1 DEF Ahead, Command, RestartOf, Location
<1>4. /\ InOrder /\ \A b \in Objects : Kept(b)
      /\ ran /\ Current(o) => execs'[key[o]][c] = 1
  BY <1>1, <1>3, CommandRuns DEF Go
<1>5. /\ m \in Object /\ m.uid = obj[o].uid /\ m.conds[t] = v
      /\ \A u \in Conditions \ {t} : m.conds[u] = obj[o].conds[u]
  <2>1. t \in Conditions /\ v \in {"True", "False"}
    OBVIOUS
  <2> QED
    BY <1>2, <2>1, SetConditionMarks
<1>6. Current(o) => Reported(key[o], m.conds)
  <2> SUFFICES ASSUME Current(o) PROVE Reported(key[o], m.conds)
    OBVIOUS
  <2>1. Reported(key[o], obj[o].conds) /\ plan'[key[o]] = strat[o]
    BY <1>1, <1>2, <1>4, ReportsStay DEF Follows
  <2>2. strat[o].opts = {} \/ obj[o].conds["RestoreCompleted"] # "unset"
    BY <1>1, <1>2 DEF Follows
  <2>3. v = "True" => execs'[key[o]][c] = 1
    BY <1>1, <1>4
  <2> HIDE DEF m, v, t, c
  <2> QED
    BY <1>3, <1>5, <2>1, <2>2, <2>3 DEF Reported
<1>7. next \in {"saveRestart", "finish"}
  OBVIOUS
<1> HIDE DEF m, next
<1> QED
  BY <1>1, <1>4, <1>5, <1>6, <1>7, RunReports

\* A status write after the first one.
LEMMA SaveReports ==
  ASSUME ReportInv, NEW o \in Operators,
         SaveFailure(o) \/ SaveSuccess(o) \/ SaveRestart(o) \/ Finish(o)
  PROVE  InOrder /\ LoopInv'
<1> DEFINE k == key[o]
           n == Stored(k, obj[o])
<1>1. PICK next \in {"restart", "finish", "idle"} :
        /\ Save(o, pc[o], next) /\ UNCHANGED <<execs, plan>>
        /\ pc[o] \in {"saveFailure", "saveSuccess", "saveRestart", "finish"}
        /\ next = "restart" =>
             pc[o] \in {"saveFailure", "saveSuccess"} /\ strat[o].restart # "no"
  BY DEF SaveFailure, SaveSuccess, SaveRestart, Finish, SaveStatus, Save, AfterRestore
<1>2. /\ SkeletonTypeOK /\ SkeletonInv /\ Follows(o) /\ Claimed(o)
      /\ k \in Objects /\ obj[o] \in Object /\ strat[o] \in Strategy
  BY <1>1, HeldMarked DEF ReportInv, Inv, RestoresOnceInv, TypeOK, LoopInv, Claimed,
     Early, SkeletonTypeOK
<1>3. InOrder /\ \A b \in Objects : Kept(b)
  BY <1>1, NothingRuns DEF ReportInv
<1>4. \/ /\ Accepts(k, obj[o]) /\ api' = [api EXCEPT ![k] = n] /\ next # "idle"
         /\ Go(o, next, n) /\ UNCHANGED <<strat, todo>>
      \/ Accepts(k, obj[o]) /\ api' = [api EXCEPT ![k] = n] /\ Return(o)
      \/ api' = api /\ Return(o)
  <2>1. next \in Stage
    BY <1>1 DEF Stage, RestoreStages, Early
  <2> QED
    BY <1>1, <1>2, <2>1, UpdateOutcomes DEF Save
<1>5. ASSUME Accepts(k, obj[o])
      PROVE  /\ n.live /\ n.uid = api[k].uid /\ n.conds = obj[o].conds
             /\ api[k].live /\ Current(o)
  <2>1. n.live /\ n.uid = api[k].uid /\ n.conds = obj[o].conds
    BY <1>2, <1>5, StoredTyped DEF SkeletonTypeOK
  <2>2. Current(o) /\ api[k].live
    BY <1>1, <1>2, <1>5 DEF SkeletonInv, HeldBehind, Accepts
  <2> QED
    BY <2>1, <2>2
<1> HIDE DEF n
<1>6. ASSUME NEW b \in Objects PROVE Reports(b, api[b].conds)'
  <2>1. CASE api'[b] = api[b]
    BY <1>3, <2>1, StatusStays
  <2>2. CASE b = k /\ Accepts(k, obj[o]) /\ api'[k] = n
    BY <1>1, <1>2, <1>5, <2>2 DEF Reports, Follows
  <2> QED
    BY <1>2, <1>4, <2>1, <2>2 DEF SkeletonTypeOK
<1>7. ASSUME NEW q \in Operators \ {o} PROVE Follows(q)'
  <2>1. /\ pc'[q] = pc[q] /\ key'[q] = key[q] /\ obj'[q] = obj[q]
        /\ strat'[q] = strat[q] /\ todo'[q] = todo[q]
    BY <1>2, <1>4, ReturnFollows DEF Go, SkeletonTypeOK, ReportInv
  <2>2. ASSUME Claimed(q), Current(q)'
        PROVE  Current(q) /\ Kept(key[q]) /\ api'[key[q]].conds = api[key[q]].conds
    <3>1. key[q] \in Objects
      BY <2>2, HeldMarked DEF ReportInv
    <3>2. CASE api'[key[q]] = api[key[q]]
      BY <1>3, <2>1, <2>2, <3>1, <3>2 DEF Current
    <3>3. CASE key[q] = k /\ Accepts(k, obj[o]) /\ api'[k] = n
      <4>1. Current(q)
        BY <1>5, <2>1, <2>2, <3>3 DEF Current
      <4> QED
        BY <1>2, <1>5, <2>2, <3>3, <4>1 DEF SkeletonInv, OneClaimant
    <3> QED
      BY <1>2, <1>4, <3>1, <3>2, <3>3 DEF SkeletonTypeOK
  <2> QED
    BY <2>1, <2>2, WorkerStays
<1>8. Follows(o)'
  <2>1. CASE Return(o)
    BY <2>1, ReturnFollows DEF ReportInv
  <2>2. CASE /\ Accepts(k, obj[o]) /\ api' = [api EXCEPT ![k] = n] /\ next # "idle"
             /\ Go(o, next, n) /\ UNCHANGED <<strat, todo>>
    <3>1. /\ pc'[o] = next /\ key'[o] = k /\ obj'[o] = n /\ strat'[o] = strat[o]
          /\ todo'[o] = todo[o] /\ api'[k] = n
      BY <1>2, <2>2 DEF Go, SkeletonTypeOK
    <3>2. (plan[key[o]] = strat[o] /\ Reports(key[o], obj[o].conds))'
      BY <1>1, <1>2, <1>5, <2>2, <3>1 DEF Follows, Reports
    <3>3. next = "restart" =>
            /\ \/ Copied(k, strat[o].opts)'
               \/ n.conds["RestoreCompleted"] = "False"
            /\ n.conds["RestoreCompleted"] # "unset"
      BY <1>1, <1>2, <1>5, <2>2, <3>1, <3>2 DEF Follows, Reports, Copied
    <3> QED
      BY <1>1, <1>2, <2>2, <3>1, <3>2, <3>3 DEF Follows, Claimed, Early, Copied
  <2> QED
    BY <1>4, <2>1, <2>2
<1> QED
  BY <1>3, <1>6, <1>7, <1>8 DEF LoopInv, StatusReportsRun

\* The first write: what it says is that nothing ran yet, and only a worker
\* that goes on with the strategy it fetched sets the plan.
LEMMA InitializeReports ==
  ASSUME ReportInv, NEW o \in Operators, InitializeRestore(o)
  PROVE  InOrder /\ LoopInv'
<1> DEFINE k == key[o]
<1>1. /\ SkeletonTypeOK /\ SkeletonInv /\ Follows(o) /\ pc[o] = "init" /\ k \in Objects
      /\ ~ Claimed(o) /\ obj[o] \in Object /\ obj[o].conds = NoConditions
      /\ execs' = execs /\ plan \in [Objects -> Strategy]
  BY DEF InitializeRestore, Initialize, ReportInv, Inv, RestoresOnceInv, TypeOK, LoopInv,
     SkeletonInv, HeldBehind, SkeletonTypeOK, Claimed, Early, Follows
<1>2. PICK v \in {"True", "False"}, next \in {"restore", "restart", "finish", "idle"} :
        /\ Update(o, SetCondition(obj[o], "RestoreInitialized", v), next)
        /\ claims' = claims \/ (pc'[o] = next /\ next # "idle")
        /\ next # "idle" => claims' = [claims EXCEPT ![k] =
                              IF Current(o) /\ pc'[o] = next THEN @ + 1 ELSE @]
        /\ plan' = [plan EXCEPT ![k] = IF claims'[k] # claims[k] THEN strat[o] ELSE @]
        /\ next \in {"restart", "finish"} => todo[o] = {}
        /\ next = "restart" => strat[o].restart # "no"
  <2>1. plan' = [plan EXCEPT ![k] = IF claims'[k] # claims[k] THEN strat[o] ELSE @]
    BY DEF InitializeRestore
  <2>2. claims \in [Objects -> Nat]
    BY <1>1 DEF SkeletonTypeOK
  <2>3. ASSUME NEW next \in {"restore", "restart", "finish"},
               claims' = [claims EXCEPT ![k] =
                            IF Current(o) /\ pc'[o] = next THEN @ + 1 ELSE @]
        PROVE  claims' = claims \/ (pc'[o] = next /\ next # "idle")
    BY <1>1, <2>2, <2>3
  <2> DEFINE after == IF todo[o] = {} THEN AfterRestore(o) ELSE "restore"
  <2>4. /\ after \in {"restore", "restart", "finish"}
        /\ after \in {"restart", "finish"} => todo[o] = {}
        /\ after = "restart" => strat[o].restart # "no"
    BY DEF AfterRestore
  <2>5. Initialize(o, "RestoreInitialized", after)
    BY DEF InitializeRestore
  <2> HIDE DEF after
  <2> QED
    BY <2>1, <2>3, <2>4, <2>5 DEF Initialize
<1> DEFINE m == SetCondition(obj[o], "RestoreInitialized", v)
           n == Stored(k, m)
<1>3. /\ m \in Object /\ m.rv = obj[o].rv
      /\ \A u \in Conditions \ {"RestoreInitialized"} : m.conds[u] = "unset"
  <2>1. "RestoreInitialized" \in Conditions
    OBVIOUS
  <2> QED
    BY <1>1, <2>1, SetConditionMarks DEF NoConditions
<1>4. \/ /\ Accepts(k, m) /\ api' = [api EXCEPT ![k] = n] /\ next # "idle"
         /\ Go(o, next, n) /\ UNCHANGED <<strat, todo>>
      \/ Accepts(k, m) /\ api' = [api EXCEPT ![k] = n] /\ Return(o)
      \/ api' = api /\ Return(o)
  <2>1. next \in Stage
    BY DEF Stage, RestoreStages, Early
  <2> QED
    BY <1>1, <1>2, <1>3, <2>1, UpdateOutcomes
<1> HIDE DEF m
<1>5. ASSUME Accepts(k, m)
      PROVE  /\ n.live /\ n.uid = api[k].uid /\ n.conds = m.conds
             /\ api[k].live /\ Current(o) /\ api[k].conds = NoConditions
  <2>1. n.live /\ n.uid = api[k].uid /\ n.conds = m.conds
    BY <1>1, <1>3, <1>5, StoredTyped DEF SkeletonTypeOK
  <2>2. Current(o) /\ api[k].live /\ api[k].conds = NoConditions
    BY <1>1, <1>3, <1>5 DEF SkeletonInv, HeldBehind, Accepts
  <2> QED
    BY <2>1, <2>2
<1> HIDE DEF n
<1>6. InOrder
  BY <1>1, NothingRuns DEF ReportInv
<1>7. \A b \in Objects : b # k \/ Return(o) => Kept(b)
  <2>1. Return(o) => claims' = claims
    BY <1>1, <1>2 DEF Return, SkeletonTypeOK
  <2>2. \A b \in Objects : b # k \/ Return(o) => plan'[b] = plan[b]
    BY <1>1, <1>2, <2>1
  <2> QED
    BY <1>1, <2>2, NothingRuns DEF ReportInv
<1>8. ASSUME NEW b \in Objects PROVE Reports(b, api[b].conds)'
  <2>1. CASE b # k \/ (api' = api /\ Return(o))
    <3>1. api'[b] = api[b] /\ Kept(b)
      BY <1>1, <1>4, <1>7, <2>1 DEF SkeletonTypeOK
    <3> QED
      BY <3>1, StatusStays
  <2>2. CASE b = k /\ Accepts(k, m) /\ api' = [api EXCEPT ![k] = n]
    <3>1. api'[b].conds = m.conds
      BY <1>1, <1>5, <2>2 DEF SkeletonTypeOK
    <3> QED
      BY <1>3, <3>1 DEF Reports
  <2> QED
    BY <1>4, <2>1, <2>2
<1>9. ASSUME NEW q \in Operators \ {o} PROVE Follows(q)'
  <2>1. /\ pc'[q] = pc[q] /\ key'[q] = key[q] /\ obj'[q] = obj[q]
        /\ strat'[q] = strat[q] /\ todo'[q] = todo[q]
    BY <1>1, <1>4, ReturnFollows DEF Go, SkeletonTypeOK, ReportInv
  <2>2. ASSUME Claimed(q), Current(q)'
        PROVE  Current(q) /\ Kept(key[q]) /\ api'[key[q]].conds = api[key[q]].conds
    <3>1. key[q] \in Objects
      BY <2>2, HeldMarked DEF ReportInv
    <3>2. CASE key[q] # k \/ (api' = api /\ Return(o))
      <4>1. api'[key[q]] = api[key[q]] /\ Kept(key[q])
        BY <1>1, <1>4, <1>7, <3>1, <3>2 DEF SkeletonTypeOK
      <4> QED
        BY <2>1, <2>2, <4>1 DEF Current
    <3>3. CASE key[q] = k /\ Accepts(k, m) /\ api' = [api EXCEPT ![k] = n]
      <4>1. Current(q)
        BY <1>1, <1>5, <2>1, <2>2, <3>3 DEF Current, SkeletonTypeOK
      <4> QED
        BY <1>1, <1>5, <2>2, <3>3, <4>1 DEF SkeletonInv, OneClaimant
    <3> QED
      BY <1>4, <3>2, <3>3
  <2> QED
    BY <2>1, <2>2, WorkerStays
<1>10. Follows(o)'
  <2>1. CASE Return(o)
    BY <2>1, ReturnFollows DEF ReportInv
  <2>2. CASE /\ Accepts(k, m) /\ api' = [api EXCEPT ![k] = n] /\ next # "idle"
             /\ Go(o, next, n) /\ UNCHANGED <<strat, todo>>
    <3>1. /\ pc'[o] = next /\ key'[o] = k /\ obj'[o] = n /\ strat'[o] = strat[o]
          /\ todo'[o] = todo[o]
      BY <1>1, <2>2 DEF Go, SkeletonTypeOK
    <3>2. plan'[k] = strat[o]
      BY <1>1, <1>2, <1>5, <2>2, <3>1 DEF SkeletonTypeOK
    <3>3. (plan[key[o]] = strat[o] /\ Reports(key[o], obj[o].conds))'
      BY <1>3, <1>5, <2>2, <3>1, <3>2 DEF Reports
    <3>4. todo[o] = strat[o].opts /\ (next = "restart" => strat[o].opts = {})
      BY <1>1, <1>2 DEF Follows
    <3>5. Copied(k, strat[o].opts \ todo[o])' /\ (next = "restart" => Copied(k, strat[o].opts)')
      BY <3>1, <3>4 DEF Copied
    <3> QED
      BY <1>1, <1>2, <2>2, <3>1, <3>3, <3>4, <3>5 DEF Follows, Claimed, Early, Copied
  <2> QED
    BY <1>4, <2>1, <2>2
<1> QED
  BY <1>6, <1>8, <1>9, <1>10 DEF LoopInv, StatusReportsRun

\* Steps of the skeleton that write no status: one worker at most takes part,
\* and it has not written, or has returned.
LEMMA CalmReports ==
  ASSUME ReportInv, UNCHANGED <<execs, plan>>,
         \A b \in Objects : api'[b].conds \in {api[b].conds, NoConditions},
         \A b \in Objects : api'[b].live => /\ api[b].live /\ api'[b].uid = api[b].uid
                                             /\ api'[b].conds = api[b].conds,
         NEW o \in Operators,
         \/ UNCHANGED <<pc, key, obj, strat, todo>>
         \/ Follows(o)',
         \A q \in Operators \ {o} :
           /\ pc'[q] = pc[q] /\ key'[q] = key[q] /\ obj'[q] = obj[q]
           /\ strat'[q] = strat[q] /\ todo'[q] = todo[q]
  PROVE  InOrder /\ LoopInv'
<1>1. InOrder /\ \A b \in Objects : Kept(b)
  BY NothingRuns DEF ReportInv
<1>2. StatusReportsRun'
  BY <1>1, StatusStays DEF StatusReportsRun
<1>3. ASSUME NEW q \in Operators, pc'[q] = pc[q], key'[q] = key[q], obj'[q] = obj[q],
             strat'[q] = strat[q], todo'[q] = todo[q]
      PROVE  Follows(q)'
  <2>1. ASSUME Claimed(q), Current(q)'
        PROVE  Current(q) /\ Kept(key[q]) /\ api'[key[q]].conds = api[key[q]].conds
    BY <1>1, <1>3, <2>1, HeldMarked DEF Current, ReportInv
  <2> QED
    BY <1>3, <2>1, WorkerStays
<1> QED
  BY <1>1, <1>2, <1>3 DEF LoopInv

LEMMA WorkerReports ==
  ASSUME ReportInv, NEW o \in Operators,
         \/ \E found \in Lookup : FetchRefs(o, found)
         \/ \E b \in Objects : TakeRestore(o, b)
         \/ Crash(o) /\ UNCHANGED <<execs, plan>>
  PROVE  InOrder /\ LoopInv'
<1>0. SkeletonTypeOK /\ Follows(o)
  BY DEF ReportInv, Inv, RestoresOnceInv, TypeOK, LoopInv
<1>1. UNCHANGED <<api, execs, plan>>
  BY DEF FetchRefs, Fetch, GiveUp, Restart, TakeRestore, Dequeue, Crash, serverVars
<1>2. CASE Return(o)
  BY <1>1, <1>2, CalmReports, ReturnFollows DEF ReportInv
<1>3. CASE \E found \in Lookup : FetchRefs(o, found)
  <2>1. Return(o) \/ (Go(o, "init", obj[o]) /\ pc[o] = "refs" /\ \E s \in Strategies :
             /\ strat' = [strat EXCEPT ![o] = s]
             /\ todo'  = [todo EXCEPT ![o] = s.opts])
    BY <1>3 DEF FetchRefs, Fetch, GiveUp, Restart
  <2>2. CASE Go(o, "init", obj[o]) /\ pc[o] = "refs" /\ \E s \in Strategies :
             /\ strat' = [strat EXCEPT ![o] = s]
             /\ todo'  = [todo EXCEPT ![o] = s.opts]
    <3>1. /\ pc'[o] = "init" /\ obj'[o] = obj[o] /\ todo'[o] \subseteq strat'[o].opts
          /\ todo'[o] = strat'[o].opts /\ obj[o].conds = NoConditions
      BY <1>0, <2>2 DEF Go, SkeletonTypeOK, Follows, Claimed, Early
    <3>2. Follows(o)'
      BY <3>1, WorkerEarly DEF Early
    <3>3. \A q \in Operators \ {o} :
            /\ pc'[q] = pc[q] /\ key'[q] = key[q] /\ obj'[q] = obj[q]
            /\ strat'[q] = strat[q] /\ todo'[q] = todo[q]
      BY <1>0, <2>2 DEF Go, SkeletonTypeOK
    <3> QED
      BY <1>1, <3>2, <3>3, CalmReports
  <2> QED
    BY <1>2, <2>1, <2>2
<1>4. CASE \E b \in Objects : TakeRestore(o, b)
  <2>1. PICK b \in Objects : Dequeue(o, b)
    BY <1>4 DEF TakeRestore
  <2>2. UNCHANGED <<strat, todo>>
    BY <2>1 DEF Dequeue
  <2>3. \/ UNCHANGED <<pc, key, obj>>
        \/ /\ pc' = [pc EXCEPT ![o] = "refs"] /\ key' = [key EXCEPT ![o] = b]
           /\ obj' = [obj EXCEPT ![o] = cache[o][b]]
           /\ cache[o][b].conds = NoConditions
    BY <2>1 DEF Dequeue, Unmarked
  <2>4. UNCHANGED <<pc, key, obj, strat, todo>> \/ Follows(o)'
    <3>1. ASSUME pc' = [pc EXCEPT ![o] = "refs"], cache[o][b].conds = NoConditions,
                 obj' = [obj EXCEPT ![o] = cache[o][b]]
          PROVE  Follows(o)'
      <4>1. todo[o] \subseteq strat[o].opts
        BY <1>0 DEF Follows
      <4>2. pc'[o] = "refs" /\ obj'[o].conds = NoConditions
        BY <1>0, <3>1 DEF SkeletonTypeOK
      <4> QED
        BY <2>2, <4>1, <4>2, WorkerEarly DEF Early
    <3> QED
      BY <2>2, <2>3, <3>1
  <2>5. \A q \in Operators \ {o} :
          /\ pc'[q] = pc[q] /\ key'[q] = key[q] /\ obj'[q] = obj[q]
          /\ strat'[q] = strat[q] /\ todo'[q] = todo[q]
    BY <1>0, <2>2, <2>3 DEF SkeletonTypeOK
  <2> QED
    BY <1>1, <2>4, <2>5, CalmReports
<1>5. CASE Crash(o)
  BY <1>2, <1>5 DEF Crash, Restart
<1> QED
  BY <1>3, <1>4, <1>5

LEMMA CreateReports ==
  ASSUME ReportInv, NEW b \in Objects, CreateRestore(b)
  PROVE  InOrder /\ LoopInv'
<1>1. /\ SkeletonTypeOK /\ SkeletonInv
      /\ execs \in [Objects -> [Command -> Nat]] /\ plan \in [Objects -> Strategy]
  BY DEF ReportInv, Inv, RestoresOnceInv, TypeOK
<1>2. /\ UNCHANGED <<pc, key, obj, strat, todo>>
      /\ api'[b].conds = NoConditions /\ api'[b].uid = api[b].uid + 1
      /\ \A a \in Objects \ {b} :
           api'[a] = api[a] /\ execs'[a] = execs[a] /\ plan'[a] = plan[a]
      /\ execs'[b] = [c \in Command |-> 0]
  BY <1>1 DEF CreateRestore, Create, localVars, Revision, SkeletonTypeOK
<1>3. InOrder
  BY <1>1, <1>2 DEF InOrder
<1>4. \A a \in Objects \ {b} : Kept(a)
  BY <1>1, <1>2 DEF Kept
<1>5. StatusReportsRun'
  BY <1>2, <1>4, StatusStays DEF StatusReportsRun
<1>6. ASSUME NEW q \in Operators PROVE Follows(q)'
  <2>1. ASSUME Claimed(q), Current(q)'
        PROVE  Current(q) /\ Kept(key[q]) /\ api'[key[q]].conds = api[key[q]].conds
    <3>1. key[q] \in Objects /\ obj[q].uid <= api[key[q]].uid
      BY <1>1, <2>1 DEF SkeletonInv, HeldBehind, Claimed, Early
    <3>2. obj[q].uid \in Nat /\ api[b].uid \in Nat
      BY <1>1 DEF SkeletonTypeOK, Object
    <3>3. key[q] # b
      BY <1>2, <2>1, <3>1, <3>2 DEF Current
    <3> QED
      BY <1>2, <1>4, <2>1, <3>1, <3>3 DEF Current
  <2> QED
    BY <1>2, <2>1, WorkerStays
<1> QED
  BY <1>3, <1>5, <1>6 DEF LoopInv

LEMMA StepReports ==
  ASSUME ReportInv, [Next]_vars
  PROVE  InOrder /\ LoopInv'
<1>0. SkeletonTypeOK
  BY DEF ReportInv, Inv, RestoresOnceInv, TypeOK
<1>1. ASSUME UNCHANGED <<pc, key, obj, strat, todo, execs, plan>>,
             \A b \in Objects : api'[b].conds \in {api[b].conds, NoConditions},
             \A b \in Objects : api'[b].live => /\ api[b].live /\ api'[b].uid = api[b].uid
                                                 /\ api'[b].conds = api[b].conds
      PROVE  InOrder /\ LoopInv'
  <2>1. CASE Operators = {}
    BY <1>1, <2>1, NothingRuns, StatusStays DEF ReportInv, LoopInv, StatusReportsRun
  <2>2. CASE Operators # {}
    BY <1>1, <2>2, CalmReports
  <2> QED
    BY <2>1, <2>2
<1>2. CASE World
  <2>1. UNCHANGED <<execs, plan>>
    BY <1>2 DEF World
  <2>2. CASE \/ \E o \in Operators, b \in Objects : Deliver(o, b)
             \/ \E o \in Operators : Resync(o)
    BY <1>1, <2>1, <2>2 DEF Deliver, Resync, localVars
  <2>3. CASE \E b \in Objects : Delete(b) \/ Touch(b)
    <3>1. PICK b \in Objects : Delete(b) \/ Touch(b)
      BY <2>3
    <3>2. /\ UNCHANGED <<pc, key, obj, strat, todo>>
          /\ \A a \in Objects \ {b} : api'[a] = api[a]
          /\ api'[b].conds \in {api[b].conds, NoConditions}
          /\ api'[b].live => /\ api[b].live /\ api'[b].uid = api[b].uid
                              /\ api'[b].conds = api[b].conds
      BY <1>0, <3>1 DEF Delete, Touch, Revision, localVars, SkeletonTypeOK
    <3> QED
      BY <1>1, <2>1, <3>2
  <2> QED
    BY <1>2, <2>1, <2>2, <2>3, WorkerReports DEF World
<1>3. CASE UNCHANGED vars
  BY <1>1, <1>3 DEF vars, skeletonVars, localVars
<1>4. ASSUME NEW o \in Operators, Work(o) PROVE InOrder /\ LoopInv'
  BY <1>4, WorkerReports, InitializeReports, LocationReports, SaveReports DEF Work
<1> QED
  BY <1>2, <1>3, <1>4, WorkerReports, RestartReports, CreateReports DEF Next

LEMMA InitReports == Init => LoopInv
<1> SUFFICES ASSUME Init PROVE LoopInv
  OBVIOUS
<1>1. StatusReportsRun
  BY ConditionsAssumption DEF Init, SkeletonInit, StatusReportsRun, Reports, Blank,
     NoConditions
<1>2. \A o \in Operators : Follows(o)
  BY DEF Init, SkeletonInit, Follows, Claimed, Early, Blank
<1> QED
  BY <1>1, <1>2 DEF LoopInv

\* What the status of a Restore says ran, ran (restore_controller.go:210-302),
\* with stale caches, lost answers and other operators.
THEOREM StatusIsTrue == Spec => []StatusReportsRun
<1>1. Init => Inv /\ LoopInv
  BY InitInv, InitReports
<1>2. Inv /\ LoopInv /\ [Next]_vars => (Inv /\ LoopInv)'
  BY NextInv, StepReports DEF ReportInv
<1>3. Inv /\ LoopInv => StatusReportsRun
  BY DEF LoopInv
<1> QED
  BY <1>1, <1>2, <1>3, PTL DEF Spec

\* A location is copied after every earlier one of the strategy, and Jenkins is
\* restarted, as the strategy names it, only when all were copied or the status
\* says that they were not (restore_controller.go:188-200, 267-302).
THEOREM CopiesInOrder == Spec => RestoredInOrder
<1>1. Init => Inv /\ LoopInv
  BY InitInv, InitReports
<1>2. Inv /\ LoopInv /\ [Next]_vars => (Inv /\ LoopInv)' /\ InOrder
  BY NextInv, StepReports DEF ReportInv
<1>3. InOrder <=>
  \A r \in Objects, c \in Command :
    execs'[r][c] > execs[r][c] =>
      IF c \in Location
      THEN /\ c \in plan[r].opts
           /\ \A d \in plan[r].opts : Before[d] < Before[c] => execs[r][d] = 1
           /\ execs[r]["restart"] = 0 /\ execs[r]["safeRestart"] = 0
      ELSE /\ plan[r].restart # "no" /\ c = RestartOf(plan[r].restart)
           /\ \/ \A d \in plan[r].opts : execs[r][d] = 1
              \/ api[r].conds["RestoreCompleted"] = "False"
  BY DEF InOrder
<1> QED
  BY <1>1, <1>2, <1>3, PTL DEF Spec, RestoredInOrder

=============================================================================
