--------------------------- MODULE BackupProofs ---------------------------
(***************************************************************************)
(* A Backup is run once: the type invariant and RunsOnce hold of every     *)
(* behaviour of BackupController, for every set of operators, of objects   *)
(* and of strategies and whatever the bounds; a Backup implements the      *)
(* one-shot task, its scripts run in order, its status reports what ran,   *)
(* and with one operator every quiet-down left behind is accounted for.    *)
(***************************************************************************)
EXTENDS BackupController, OneShotProofs

Inv == TypeOK /\ RunsOnceInv

---------------------------------------------------------------------------
(* How execs may change.                                                   *)

\* Executing a command that lies ahead of a worker.
LEMMA ExecKeeps ==
  ASSUME Inv, SkeletonInv', api' = api, key' = key, NEW o \in Operators, Claimed(o),
         NEW c \in Ahead(o), c \in Command, NEW ran \in BOOLEAN,
         Record(o, c, ran), obj'[o].uid = obj[o].uid,
         Ahead(o)' \subseteq Ahead(o) \ {c},
         \A q \in Operators \ {o} :
           pc'[q] = pc[q] /\ obj'[q] = obj[q] /\ todo'[q] = todo[q]
  PROVE  /\ execs' \in [Objects -> [Command -> Nat]]
         /\ RunsOnce' /\ FreshUnrun' /\ AheadUnrun'
<1> DEFINE b == key[o]
<1>1. b \in Objects
  BY DEF Inv, RunsOnceInv, SkeletonInv, HeldBehind, Claimed, Early
<1>2. execs \in [Objects -> [Command -> Nat]]
  BY DEF Inv, TypeOK
<1>3. execs' \in [Objects -> [Command -> Nat]]
  BY <1>1, <1>2 DEF Record
<1>4. CASE ~ (ran /\ Current(o))
  <2>1. execs' = execs
    BY <1>4 DEF Record
  <2>2. \A q \in Operators : Claimed(q)' /\ Current(q)' =>
          Claimed(q) /\ Current(q) /\ Ahead(q)' \subseteq Ahead(q)
    BY DEF Claimed, Current, Ahead
  <2>3. QED
    BY <1>3, <2>1, <2>2
    DEF Inv, RunsOnceInv, RunsOnce, FreshUnrun, AheadUnrun, SkeletonInv, ClaimsMarked
<1>5. CASE ran /\ Current(o)
  <2>1. execs' = [execs EXCEPT ![b][c] = @ + 1]
    BY <1>5 DEF Record
  <2>2. execs[b][c] = 0
    BY <1>5 DEF Inv, RunsOnceInv, AheadUnrun
  <2>3. /\ execs'[b][c] = 1
        /\ \A d \in Command \ {c} : execs'[b][d] = execs[b][d]
        /\ \A a \in Objects \ {b} : execs'[a] = execs[a]
    BY <1>1, <1>2, <2>1, <2>2
  <2>4. RunsOnce'
    BY <1>1, <2>3 DEF Inv, RunsOnceInv, RunsOnce, SkeletonInv, ClaimsMarked
  <2>5. FreshUnrun'
    <3>1. ~ (api[b].live /\ api[b].conds = NoConditions)
      BY <1>5 DEF Inv, RunsOnceInv, SkeletonInv, OneClaimant
    <3>2. QED
      BY <2>3, <3>1 DEF Inv, RunsOnceInv, FreshUnrun
  <2>6. AheadUnrun'
    <3> SUFFICES ASSUME NEW q \in Operators, Claimed(q)', Current(q)',
                        NEW d \in Ahead(q)'
                 PROVE  execs'[key[q]][d] = 0
      BY DEF AheadUnrun
    <3>1. d \in Ahead(q) /\ Claimed(q) /\ Current(q) /\ execs[key[q]][d] = 0
      BY DEF Claimed, Current, Ahead, Inv, RunsOnceInv, AheadUnrun
    <3>2. d \in Command
      BY <3>1 DEF Ahead, Inv, TypeOK, SkeletonTypeOK, Command
    <3>3. q = o \/ key[q] # b
      BY <1>5, <3>1 DEF Inv, RunsOnceInv, SkeletonInv, OneClaimant
    <3>4. key[q] \in Objects
      BY <3>1 DEF Inv, RunsOnceInv, SkeletonInv, HeldBehind, Claimed, Early
    <3>5. CASE q = o
      BY <2>3, <3>1, <3>2, <3>5
    <3>6. CASE key[q] # b
      BY <2>3, <3>1, <3>4, <3>6
    <3>7. QED
      BY <3>3, <3>5, <3>6
  <2>7. QED
    BY <1>3, <2>4, <2>5, <2>6
<1>6. QED
  BY <1>4, <1>5

\* Steps that execute nothing: whoever is past its first write was there
\* before with as much ahead of it, or has just taken an unmarked object.
LEMMA NoExecKeeps ==
  ASSUME Inv, SkeletonInv', execs' = execs,
         \A b \in Objects : api'[b].live /\ api'[b].conds = NoConditions =>
           api[b].live /\ api[b].conds = NoConditions,
         \A q \in Operators : Claimed(q)' /\ Current(q)' =>
           \/ /\ Claimed(q) /\ Current(q) /\ key'[q] = key[q]
              /\ Ahead(q)' \subseteq Ahead(q)
           \/ /\ key'[q] \in Objects /\ Ahead(q)' \subseteq Command
              /\ api[key'[q]].live /\ api[key'[q]].conds = NoConditions
  PROVE  RunsOnce' /\ FreshUnrun' /\ AheadUnrun'
<1>1. RunsOnce' /\ FreshUnrun'
  BY DEF Inv, RunsOnceInv, RunsOnce, FreshUnrun, SkeletonInv, ClaimsMarked
<1>2. AheadUnrun'
  BY DEF Inv, RunsOnceInv, AheadUnrun, FreshUnrun
<1>3. QED
  BY <1>1, <1>2

---------------------------------------------------------------------------
(* One lemma per kind of step.                                             *)

\* The types of what a step that only writes the status leaves alone.
LEMMA RestTyped ==
  ASSUME TypeOK, SkeletonTypeOK', pc' \in [Operators -> Early \cup BackupStages],
         UNCHANGED <<podVars, execs, plan>>
  PROVE  TypeOK'
BY DEF TypeOK, podVars

\* Writing a marked object at the API server, then going on or returning.
LEMMA SaveKeeps ==
  ASSUME Inv, NEW o \in Operators, Claimed(o),
         NEW m \in Object, m.rv = obj[o].rv, m.conds # NoConditions,
         NEW next \in BackupStages \cup {"idle"}, Update(o, m, next),
         UNCHANGED <<claims, podVars, execs, plan>>,
         pc'[o] = next /\ todo'[o] = todo[o] => Ahead(o)' \subseteq Ahead(o)
  PROVE  Inv'
<1>1. /\ pc[o] # "idle" /\ key[o] \in Objects /\ next \in Stage
      /\ next = "idle" \/ next \notin Early
  BY DEF Inv, RunsOnceInv, SkeletonInv, HeldBehind, Claimed, Early, Stage, BackupStages
<1>2. SkeletonTypeOK' /\ SkeletonInv'
  BY <1>1, UpdateKeeps DEF Inv, RunsOnceInv, TypeOK, SkeletonTypeOK
<1> DEFINE b == key[o]
<1>3. \/ /\ Accepts(b, m) /\ api' = [api EXCEPT ![b] = Stored(b, m)]
         /\ next # "idle" /\ Go(o, next, Stored(b, m)) /\ UNCHANGED <<strat, todo>>
      \/ Accepts(b, m) /\ api' = [api EXCEPT ![b] = Stored(b, m)] /\ Return(o)
      \/ api' = api /\ Return(o)
  BY <1>1, UpdateOutcomes DEF Inv, TypeOK
<1>4. TypeOK'
  <2>1. pc' \in [Operators -> Early \cup BackupStages]
    BY <1>3 DEF Go, Return, Inv, TypeOK, Early
  <2>2. QED
    BY <1>2, <2>1, RestTyped DEF Inv
<1>5. ASSUME NEW a \in Objects, api'[a].live, api'[a].conds = NoConditions
      PROVE  api[a].live /\ api[a].conds = NoConditions
  <2>1. Accepts(b, m) => Stored(b, m).conds = m.conds
    BY <1>1, StoredTyped DEF Inv, TypeOK, SkeletonTypeOK
  <2>2. QED
    BY <1>1, <1>3, <1>5, <2>1 DEF Inv, TypeOK, SkeletonTypeOK
<1>6. ASSUME NEW q \in Operators, Claimed(q)', Current(q)'
      PROVE  /\ Claimed(q) /\ Current(q) /\ key'[q] = key[q]
             /\ Ahead(q)' \subseteq Ahead(q)
  <2>1. Accepts(b, m) => /\ Stored(b, m).uid = api[b].uid /\ api[b].live
                        /\ obj[o].rv = api[b].rv
    BY <1>1, StoredTyped DEF Inv, TypeOK, SkeletonTypeOK, Accepts
  <2>2. Accepts(b, m) => Current(o)
    BY <1>1, <2>1 DEF Inv, RunsOnceInv, SkeletonInv, HeldBehind
  <2>3. CASE q = o
    <3>1. Go(o, next, Stored(b, m)) /\ Accepts(b, m) /\ todo' = todo
      BY <1>3, <1>6, <2>3 DEF Return, Claimed, Early, Inv, TypeOK, SkeletonTypeOK
    <3>2. QED
      BY <2>2, <2>3, <3>1 DEF Go, Inv, TypeOK, SkeletonTypeOK
  <2>4. CASE q # o
    <3>1. /\ pc'[q] = pc[q] /\ key'[q] = key[q] /\ obj'[q] = obj[q]
          /\ todo'[q] = todo[q]
      BY <1>3, <2>4 DEF Go, Return, Inv, TypeOK, SkeletonTypeOK
    <3>2. Claimed(q) /\ key[q] \in Objects
      BY <1>6, <3>1 DEF Claimed, Early, Inv, RunsOnceInv, SkeletonInv, HeldBehind
    <3>3. Current(q)
      <4>1. api \in [Objects -> Object] /\ b \in Objects
        BY <1>1 DEF Inv, TypeOK, SkeletonTypeOK
      <4>2. \/ api' = api
            \/ Accepts(b, m) /\ api' = [api EXCEPT ![b] = Stored(b, m)]
        BY <1>3
      <4>3. api'[key[q]].uid = api[key[q]].uid /\ (api'[key[q]].live => api[key[q]].live)
        BY <2>1, <3>2, <4>1, <4>2
      <4>4. QED
        BY <1>6, <3>1, <4>3 DEF Current
    <3>4. Ahead(q)' = Ahead(q)
      BY <3>1 DEF Ahead
    <3>5. QED
      BY <3>1, <3>2, <3>3, <3>4
  <2>5. QED
    BY <2>3, <2>4
<1>7. RunsOnce' /\ FreshUnrun' /\ AheadUnrun'
  BY <1>2, <1>5, <1>6, NoExecKeeps DEF podVars
<1>8. QED
  BY <1>2, <1>4, <1>7 DEF Inv, RunsOnceInv

\* The saves of the script: the object in memory is marked.
LEMMA SavesKeep ==
  ASSUME Inv, NEW o \in Operators,
         \/ SaveQuietDown(o)   \/ SaveMakeDirectory(o) \/ SaveCopyFailure(o)
         \/ SaveCopies(o)      \/ SaveCancel(o)
  PROVE  Inv'
<1>1. PICK at, next \in BackupStages :
        /\ SaveStatus(o, at, next)
        /\ pc'[o] = next /\ todo'[o] = todo[o] => Ahead(o)' \subseteq Ahead(o)
  BY DEF SaveQuietDown, SaveMakeDirectory, SaveCopyFailure, SaveCopies,
         SaveCancel, SaveStatus, Save, Ahead, AfterBackup, BackupStages, Command, Location
<1>2. Claimed(o)
  BY <1>1 DEF SaveStatus, Save, Claimed, Early, BackupStages
<1>3. obj[o] \in Object /\ obj[o].conds # NoConditions
  BY <1>2 DEF Inv, TypeOK, SkeletonTypeOK, RunsOnceInv, SkeletonInv, HeldBehind,
              Claimed, Early
<1>4. QED
  BY <1>1, <1>2, <1>3, SaveKeeps DEF SaveStatus, Save

LEMMA CompleteKeeps ==
  ASSUME Inv, NEW o \in Operators, Complete(o)
  PROVE  Inv'
<1>1. Claimed(o) /\ obj[o] \in Object /\ "BackupCompleted" \in Conditions
  BY ConditionsAssumption DEF Complete, Claimed, Early, Inv, TypeOK, SkeletonTypeOK
<1> DEFINE m == SetCondition(obj[o], "BackupCompleted", "True")
<1>2. m \in Object /\ m.conds # NoConditions /\ m.rv = obj[o].rv
  BY <1>1, SetConditionMarks
<1>3. pc'[o] = "idle" => Ahead(o)' = {}
  BY DEF Ahead
<1> HIDE DEF m
<1>4. Update(o, m, "idle") /\ UNCHANGED <<claims, podVars, execs, plan>>
  BY DEF Complete, m
<1>5. QED
  BY <1>1, <1>2, <1>3, <1>4, SaveKeeps

\* A step of the script that executes command c and notes its outcome.
LEMMA CommandKeeps ==
  ASSUME Inv, NEW o \in Operators, Claimed(o),
         NEW c \in Ahead(o), c \in Command, NEW ran \in BOOLEAN,
         Record(o, c, ran), faults' \in Nat,
         NEW next \in BackupStages, NEW m \in Object, Go(o, next, m),
         m.uid = obj[o].uid, m.rv = obj[o].rv, m.conds # NoConditions,
         UNCHANGED <<serverVars, strat, plan>>,
         todo' \in [Operators -> SUBSET Location],
         \A q \in Operators \ {o} : todo'[q] = todo[q],
         quieted' \in SUBSET Objects,
         volume' \in [Objects -> [made : BOOLEAN, holds : SUBSET Location]],
         Ahead(o)' \subseteq Ahead(o) \ {c}
  PROVE  Inv'
<1>1. SkeletonTypeOK /\ SkeletonInv
  BY DEF Inv, TypeOK, RunsOnceInv
<1>2. next \in Stage /\ next \notin Early /\ key[o] \in Objects
  BY <1>1 DEF Stage, BackupStages, Early, SkeletonInv, HeldBehind, Claimed
<1>3. Moves(o, next, key[o], m)
  BY <1>2 DEF Moves
<1>4. key' = [key EXCEPT ![o] = key[o]]
  BY <1>1 DEF Go, SkeletonTypeOK
<1>5. SkeletonInv'
  BY <1>1, <1>2, <1>3, <1>4, MoveKeepsInv DEF Go, serverVars
<1>6. SkeletonTypeOK'
  BY <1>1, <1>2 DEF SkeletonTypeOK, Go, serverVars
<1>7. execs' \in [Objects -> [Command -> Nat]] /\ RunsOnce' /\ FreshUnrun' /\ AheadUnrun'
  <2>1. obj'[o].uid = obj[o].uid /\ api' = api /\ key' = key
    BY <1>1 DEF Go, SkeletonTypeOK, serverVars
  <2>2. \A q \in Operators \ {o} :
          pc'[q] = pc[q] /\ obj'[q] = obj[q] /\ todo'[q] = todo[q]
    BY <1>1 DEF Go, SkeletonTypeOK
  <2>3. QED
    BY <1>5, <2>1, <2>2, ExecKeeps
<1>8. TypeOK'
  <2>1. pc' \in [Operators -> Early \cup BackupStages]
    BY DEF Go, Inv, TypeOK
  <2>2. QED
    BY <1>6, <1>7, <2>1 DEF TypeOK, Inv
<1>9. QED
  BY <1>5, <1>7, <1>8 DEF Inv, RunsOnceInv

LEMMA ExecTyped ==
  ASSUME Inv, NEW ran \in BOOLEAN, NEW ok \in BOOLEAN, Exec(ran, ok)
  PROVE  faults' \in Nat
BY DEF Exec, Inv, TypeOK, SkeletonTypeOK

\* What a worker past its first write holds.
LEMMA HeldMarked ==
  ASSUME Inv, NEW o \in Operators, Claimed(o)
  PROVE  /\ key[o] \in Objects
         /\ obj[o] \in Object
         /\ obj[o].conds # NoConditions
         /\ \A t \in Conditions, v \in {"True", "False"} :
              LET m == SetCondition(obj[o], t, v)
              IN  /\ m \in Object /\ m.conds # NoConditions
                  /\ m.uid = obj[o].uid /\ m.rv = obj[o].rv
<1>1. obj[o] \in Object
  BY DEF Inv, TypeOK, SkeletonTypeOK
<1>2. key[o] \in Objects /\ obj[o].conds # NoConditions
  BY DEF Inv, RunsOnceInv, SkeletonInv, HeldBehind, Claimed, Early
<1>3. QED
  BY <1>1, <1>2, SetConditionMarks

\* Quieting down Jenkins, and cancelling it.
LEMMA QuietKeeps ==
  ASSUME Inv, NEW o \in Operators, QuietDown(o) \/ CancelQuietDown(o)
  PROVE  Inv'
<1>1. Claimed(o)
  BY DEF QuietDown, CancelQuietDown, Claimed, Early
<1>2. CASE QuietDown(o)
  <2>1. PICK ran, ok, done \in BOOLEAN :
          /\ Exec(ran, ok)
          /\ quieted' = IF done THEN quieted \cup {key[o]} ELSE quieted
          /\ Record(o, "quietDown", ran)
          /\ Go(o, "saveQuietDown",
                   SetCondition(obj[o], "QuietDownStarted",
                                IF ok THEN "True" ELSE "False"))
    BY <1>2 DEF QuietDown
  <2> DEFINE m == SetCondition(obj[o], "QuietDownStarted",
                               IF ok THEN "True" ELSE "False")
  <2>2. /\ m \in Object /\ m.conds # NoConditions
        /\ m.uid = obj[o].uid /\ m.rv = obj[o].rv
    <3>1. (IF ok THEN "True" ELSE "False") \in {"True", "False"}
      OBVIOUS
    <3>2. QED
      BY <1>1, <3>1, HeldMarked, ConditionsAssumption
  <2>3. faults' \in Nat /\ key[o] \in Objects
    BY <1>1, <2>1, ExecTyped, HeldMarked
  <2>4. "quietDown" \in Ahead(o) /\ "quietDown" \in Command
    BY <1>2 DEF QuietDown, Ahead, Command
  <2>5. UNCHANGED <<serverVars, strat, todo, volume, plan>> /\ pc[o] = "quietDown"
    BY <1>2 DEF QuietDown
  <2>6. pc'[o] = "saveQuietDown"
    BY <2>1 DEF Go, Inv, TypeOK, SkeletonTypeOK
  <2>7. Ahead(o)' \subseteq Ahead(o) \ {"quietDown"}
    BY <2>5, <2>6 DEF Ahead
  <2>8. quieted' \in SUBSET Objects
    BY <2>1, <2>3 DEF Inv, TypeOK
  <2> HIDE DEF m
  <2>9. Go(o, "saveQuietDown", m) /\ "saveQuietDown" \in BackupStages
    BY <2>1 DEF m, BackupStages
  <2>10. QED
    BY <1>1, <2>1, <2>2, <2>3, <2>4, <2>5, <2>7, <2>8, <2>9, CommandKeeps
       DEF Inv, TypeOK, SkeletonTypeOK
<1>3. CASE CancelQuietDown(o)
  <2>1. PICK ran, ok, done \in BOOLEAN :
          /\ Exec(ran, ok)
          /\ quieted' = IF done THEN {} ELSE quieted
          /\ Record(o, "cancelQuietDown", ran)
          /\ Go(o, "saveCancel",
                   SetCondition(obj[o], "QuietDownCancelled",
                                IF ok THEN "True" ELSE "False"))
    BY <1>3 DEF CancelQuietDown
  <2> DEFINE m == SetCondition(obj[o], "QuietDownCancelled",
                               IF ok THEN "True" ELSE "False")
  <2>2. /\ m \in Object /\ m.conds # NoConditions
        /\ m.uid = obj[o].uid /\ m.rv = obj[o].rv
    <3>1. (IF ok THEN "True" ELSE "False") \in {"True", "False"}
      OBVIOUS
    <3>2. QED
      BY <1>1, <3>1, HeldMarked, ConditionsAssumption
  <2>3. faults' \in Nat /\ key[o] \in Objects
    BY <1>1, <2>1, ExecTyped, HeldMarked
  <2>4. "cancelQuietDown" \in Ahead(o) /\ "cancelQuietDown" \in Command
    BY <1>3 DEF CancelQuietDown, Ahead, Command
  <2>5. UNCHANGED <<serverVars, strat, todo, volume, plan>> /\ pc[o] = "cancel"
    BY <1>3 DEF CancelQuietDown
  <2>6. pc'[o] = "saveCancel"
    BY <2>1 DEF Go, Inv, TypeOK, SkeletonTypeOK
  <2>7. Ahead(o)' \subseteq Ahead(o) \ {"cancelQuietDown"}
    BY <2>5, <2>6 DEF Ahead
  <2>8. quieted' \in SUBSET Objects
    BY <2>1, <2>3 DEF Inv, TypeOK
  <2> HIDE DEF m
  <2>9. Go(o, "saveCancel", m) /\ "saveCancel" \in BackupStages
    BY <2>1 DEF m, BackupStages
  <2>10. QED
    BY <1>1, <2>1, <2>2, <2>3, <2>4, <2>5, <2>7, <2>8, <2>9, CommandKeeps
       DEF Inv, TypeOK, SkeletonTypeOK
<1>4. QED
  BY <1>2, <1>3

LEMMA MakeDirectoryKeeps ==
  ASSUME Inv, NEW o \in Operators, MakeDirectory(o)
  PROVE  Inv'
<1>1. Claimed(o) /\ pc[o] = "mkdir" /\ UNCHANGED <<serverVars, strat, todo, quieted, plan>>
  BY DEF MakeDirectory, Claimed, Early
<1>2. PICK ran, ok \in BOOLEAN :
        /\ Exec(ran, ok)
        /\ volume' = IF ran THEN [volume EXCEPT ![key[o]].made = TRUE] ELSE volume
        /\ Record(o, "mkdir", ran)
        /\ IF ok
           THEN Go(o, IF todo[o] = {} THEN AfterBackup(o) ELSE "copy", obj[o])
           ELSE Go(o, "saveMkdir",
                      SetCondition(obj[o], "BackupCompleted", "False"))
  BY DEF MakeDirectory
<1>3. /\ key[o] \in Objects /\ obj[o] \in Object /\ obj[o].conds # NoConditions
      /\ todo[o] \in SUBSET Location /\ faults' \in Nat
  BY <1>1, <1>2, HeldMarked, ExecTyped DEF Inv, TypeOK, SkeletonTypeOK
<1>4. volume' \in [Objects -> [made : BOOLEAN, holds : SUBSET Location]]
  BY <1>2, <1>3 DEF Inv, TypeOK
<1>5. PICK next \in BackupStages, m \in Object :
        /\ Go(o, next, m)
        /\ m.uid = obj[o].uid /\ m.rv = obj[o].rv /\ m.conds # NoConditions
        /\ next \in {"copy", "cancel", "complete", "saveMkdir"}
  <2>1. CASE ok
    BY <1>2, <1>3, <2>1 DEF AfterBackup, BackupStages
  <2>2. CASE ~ ok
    BY <1>1, <1>2, <2>2, HeldMarked, ConditionsAssumption DEF BackupStages
  <2>3. QED
    BY <2>1, <2>2
<1>6. /\ todo' \in [Operators -> SUBSET Location]
      /\ \A q \in Operators \ {o} : todo'[q] = todo[q]
  BY <1>1 DEF Inv, TypeOK, SkeletonTypeOK
<1>7. Ahead(o) = Command \ {"quietDown"}
  BY <1>1 DEF Ahead
<1>8. pc'[o] = next
  BY <1>5 DEF Go, Inv, TypeOK, SkeletonTypeOK
<1>9. Ahead(o)' \subseteq Ahead(o) \ {"mkdir"}
  <2>1. CASE next = "copy"
    <3>1. todo'[o] = todo[o]
      BY <1>1
    <3>2. Ahead(o)' = todo'[o] \cup {"cancelQuietDown"}
      BY <1>8, <2>1 DEF Ahead
    <3>3. QED
      BY <1>3, <1>7, <3>1, <3>2 DEF Command, Location
  <2>2. CASE next \in {"cancel", "complete", "saveMkdir"}
    BY <1>7, <1>8, <2>2 DEF Ahead, Command
  <2>3. QED
    BY <1>5, <2>1, <2>2
<1>10. "mkdir" \in Ahead(o) /\ "mkdir" \in Command
  BY <1>7 DEF Command
<1>11. quieted' \in SUBSET Objects
  BY <1>1 DEF Inv, TypeOK
<1>12. QED
  BY <1>1, <1>2, <1>3, <1>4, <1>5, <1>6, <1>9, <1>10, <1>11, CommandKeeps

LEMMA CopyLocationKeeps ==
  ASSUME Inv, NEW o \in Operators, CopyLocation(o)
  PROVE  Inv'
<1>1. Claimed(o) /\ pc[o] = "copy" /\ UNCHANGED <<serverVars, strat, quieted, plan>>
  BY DEF CopyLocation, Claimed, Early
<1>2. PICK l \in todo[o], ran, ok \in BOOLEAN :
        /\ todo' = [todo EXCEPT ![o] = @ \ {l}]
        /\ Exec(ran, ok)
        /\ volume' = IF ran THEN [volume EXCEPT ![key[o]].holds = @ \cup {l}]
                     ELSE volume
        /\ Record(o, l, ran)
        /\ IF ok THEN Go(o, "copy", obj[o])
           ELSE Go(o, "saveCopy",
                      SetCondition(obj[o], "BackupCompleted", "False"))
  BY DEF CopyLocation
<1>3. /\ key[o] \in Objects /\ obj[o] \in Object /\ obj[o].conds # NoConditions
      /\ todo[o] \in SUBSET Location /\ faults' \in Nat
  BY <1>1, <1>2, HeldMarked, ExecTyped DEF Inv, TypeOK, SkeletonTypeOK
<1>4. volume' \in [Objects -> [made : BOOLEAN, holds : SUBSET Location]]
  BY <1>2, <1>3 DEF Inv, TypeOK
<1>5. PICK next \in {"copy", "saveCopy"}, m \in Object :
        /\ Go(o, next, m)
        /\ m.uid = obj[o].uid /\ m.rv = obj[o].rv /\ m.conds # NoConditions
  <2>1. CASE ok
    BY <1>2, <1>3, <2>1
  <2>2. CASE ~ ok
    BY <1>1, <1>2, <2>2, HeldMarked, ConditionsAssumption
  <2>3. QED
    BY <2>1, <2>2
<1>6. /\ todo' \in [Operators -> SUBSET Location]
      /\ todo'[o] = todo[o] \ {l}
      /\ \A q \in Operators \ {o} : todo'[q] = todo[q]
  BY <1>2, <1>3 DEF Inv, TypeOK, SkeletonTypeOK
<1>7. pc'[o] = next
  BY <1>5 DEF Go, Inv, TypeOK, SkeletonTypeOK
<1>8. l \in Ahead(o) /\ l \in Command /\ l # "cancelQuietDown"
  BY <1>1, <1>2, <1>3 DEF Ahead, Command, Location
<1>9. Ahead(o)' \subseteq Ahead(o) \ {l}
  <2>1. Ahead(o) = todo[o] \cup {"cancelQuietDown"}
    BY <1>1 DEF Ahead
  <2>2. Ahead(o)' = todo'[o] \cup {"cancelQuietDown"}
    BY <1>5, <1>7 DEF Ahead
  <2>3. QED
    BY <1>6, <1>8, <2>1, <2>2
<1>10. quieted' \in SUBSET Objects /\ next \in BackupStages
  BY <1>1, <1>5 DEF Inv, TypeOK, BackupStages
<1>11. QED
  BY <1>1, <1>2, <1>3, <1>4, <1>5, <1>6, <1>8, <1>9, <1>10, CommandKeeps

---------------------------------------------------------------------------
(* Steps before the first write, and those of users and watches.           *)

\* A worker comes to a stage before its first write.
LEMMA EarlyKeeps ==
  ASSUME Inv, SkeletonTypeOK', SkeletonInv', api' = api,
         NEW o \in Operators, pc'[o] \in Early,
         \A q \in Operators \ {o} :
           /\ pc'[q] = pc[q] /\ key'[q] = key[q] /\ obj'[q] = obj[q]
           /\ todo'[q] = todo[q],
         UNCHANGED <<podVars, execs, plan>>
  PROVE  Inv'
<1>1. TypeOK'
  <2>1. pc' \in [Operators -> Early \cup BackupStages]
    BY DEF SkeletonTypeOK, Inv, TypeOK
  <2>2. QED
    BY <2>1, RestTyped DEF Inv
<1>2. ASSUME NEW q \in Operators, Claimed(q)', Current(q)'
      PROVE  /\ Claimed(q) /\ Current(q) /\ key'[q] = key[q]
             /\ Ahead(q)' \subseteq Ahead(q)
  <2>1. q # o
    BY <1>2 DEF Claimed
  <2>2. QED
    BY <1>2, <2>1 DEF Claimed, Current, Ahead
<1>3. RunsOnce' /\ FreshUnrun' /\ AheadUnrun'
  BY <1>2, NoExecKeeps
<1>4. QED
  BY <1>1, <1>3 DEF Inv, RunsOnceInv

LEMMA FetchRefsKeeps ==
  ASSUME Inv, NEW o \in Operators, NEW found, FetchRefs(o, found)
  PROVE  Inv'
<1>1. /\ SkeletonTypeOK' /\ SkeletonInv' /\ api' = api /\ pc'[o] \in Early
      /\ \A q \in Operators \ {o} :
           /\ pc'[q] = pc[q] /\ key'[q] = key[q] /\ obj'[q] = obj[q]
           /\ todo'[q] = todo[q]
  BY FetchKeeps DEF FetchRefs, Inv, TypeOK, RunsOnceInv
<1>2. QED
  BY <1>1, EarlyKeeps DEF FetchRefs

LEMMA TakeBackupKeeps ==
  ASSUME Inv, NEW o \in Operators, NEW b \in Objects, TakeBackup(o, b)
  PROVE  Inv'
<1>1. SkeletonTypeOK' /\ SkeletonInv'
  BY DequeueKeeps DEF TakeBackup, Inv, TypeOK, RunsOnceInv
<1>2. /\ api' = api /\ pc'[o] \in Early
      /\ \A q \in Operators \ {o} :
           /\ pc'[q] = pc[q] /\ key'[q] = key[q] /\ obj'[q] = obj[q]
           /\ todo'[q] = todo[q]
  BY DEF TakeBackup, Dequeue, Unmarked, Inv, TypeOK, SkeletonTypeOK, Early
<1>3. QED
  BY <1>1, <1>2, EarlyKeeps DEF TakeBackup

\* A step of a user or of a watch at the objects leaves the workers alone.
LEMMA OutsideKeeps ==
  ASSUME Inv, SkeletonTypeOK', SkeletonInv', UNCHANGED localVars,
         \A b \in Objects : api'[b].live =>
           api[b].live /\ api'[b].uid = api[b].uid /\ api'[b].conds = api[b].conds,
         UNCHANGED <<podVars, execs, plan>>
  PROVE  Inv'
<1>1. TypeOK'
  <2>1. pc' \in [Operators -> Early \cup BackupStages]
    BY DEF localVars, Inv, TypeOK
  <2>2. QED
    BY <2>1, RestTyped DEF Inv
<1>2. ASSUME NEW q \in Operators, Claimed(q)', Current(q)'
      PROVE  /\ Claimed(q) /\ Current(q) /\ key'[q] = key[q]
             /\ Ahead(q)' \subseteq Ahead(q)
  <2>1. Claimed(q) /\ key'[q] = key[q] /\ Ahead(q)' \subseteq Ahead(q)
    BY <1>2 DEF Claimed, Ahead, localVars
  <2>2. key[q] \in Objects
    BY <2>1 DEF Claimed, Early, Inv, RunsOnceInv, SkeletonInv, HeldBehind
  <2>3. QED
    BY <1>2, <2>1, <2>2 DEF Current, localVars
<1>3. RunsOnce' /\ FreshUnrun' /\ AheadUnrun'
  BY <1>2, NoExecKeeps
<1>4. QED
  BY <1>1, <1>3 DEF Inv, RunsOnceInv

LEMMA WorldKeeps ==
  ASSUME Inv, World
  PROVE  Inv'
<1>1. SkeletonTypeOK /\ SkeletonInv /\ UNCHANGED <<podVars, execs, plan>>
  BY DEF Inv, TypeOK, RunsOnceInv, World
<1>2. ASSUME NEW o \in Operators, NEW b \in Objects, Deliver(o, b)
      PROVE  Inv'
  <2>1. SkeletonTypeOK' /\ SkeletonInv'
    BY <1>1, <1>2, DeliverKeeps
  <2>2. QED
    BY <1>1, <1>2, <2>1, OutsideKeeps DEF Deliver
<1>3. ASSUME NEW o \in Operators, Resync(o)
      PROVE  Inv'
  <2>1. SkeletonTypeOK' /\ SkeletonInv'
    BY <1>1, <1>3, ResyncKeeps
  <2>2. QED
    BY <1>1, <1>3, <2>1, OutsideKeeps DEF Resync
<1>4. ASSUME NEW o \in Operators, Crash(o)
      PROVE  Inv'
  <2>1. faults' \in Nat /\ Restart(o)
    BY <1>1, <1>4 DEF Crash, SkeletonTypeOK
  <2>2. SkeletonTypeOK' /\ SkeletonInv'
    BY <1>1, <2>1, RestartKeeps
  <2>3. /\ api' = api /\ pc'[o] \in Early
        /\ \A q \in Operators \ {o} :
             /\ pc'[q] = pc[q] /\ key'[q] = key[q] /\ obj'[q] = obj[q]
             /\ todo'[q] = todo[q]
    BY <1>1, <2>1 DEF Restart, Return, SkeletonTypeOK, Early
  <2>4. QED
    BY <1>1, <2>2, <2>3, EarlyKeeps
<1>5. ASSUME NEW b \in Objects, Delete(b) \/ Touch(b)
      PROVE  Inv'
  <2>1. SkeletonTypeOK' /\ SkeletonInv'
    BY <1>1, <1>5, UserStepKeeps
  <2>2. \A a \in Objects : api'[a].live =>
          api[a].live /\ api'[a].uid = api[a].uid /\ api'[a].conds = api[a].conds
    BY <1>1, <1>5 DEF Delete, Touch, Revision, SkeletonTypeOK
  <2>3. QED
    BY <1>1, <1>5, <2>1, <2>2, OutsideKeeps DEF Delete, Touch
<1>6. QED
  BY <1>2, <1>3, <1>4, <1>5 DEF World

\* The successor of a deleted object starts with an empty history; a worker
\* still holding the deleted one no longer counts.
LEMMA CreateKeeps ==
  ASSUME Inv, NEW b \in Objects, CreateBackup(b)
  PROVE  Inv'
<1>1. SkeletonTypeOK /\ SkeletonInv /\ Create(b)
  BY DEF Inv, TypeOK, RunsOnceInv, CreateBackup
<1>2. SkeletonTypeOK' /\ SkeletonInv'
  BY <1>1, UserStepKeeps
<1>3. UNCHANGED <<localVars, podVars>>
  BY <1>1 DEF Create, CreateBackup
<1> DEFINE zero == [c \in Command |-> 0]
<1>4. execs' = [execs EXCEPT ![b] = zero] /\ plan' = [plan EXCEPT ![b] = NoStrategy]
  BY DEF CreateBackup
<1>5. zero \in [Command -> Nat] /\ \A c \in Command : zero[c] = 0
  OBVIOUS
<1> HIDE DEF zero
<1>6. TypeOK'
  <2>1. pc' \in [Operators -> Early \cup BackupStages]
    BY <1>3 DEF localVars, Inv, TypeOK
  <2>2. execs' \in [Objects -> [Command -> Nat]] /\ plan' \in [Objects -> Strategy]
    BY <1>4, <1>5, BlankTyped DEF Inv, TypeOK
  <2>3. QED
    BY <1>2, <1>3, <2>1, <2>2 DEF Inv, TypeOK, podVars
<1>7. \A a \in Objects : execs'[a] = IF a = b THEN zero ELSE execs[a]
  BY <1>4 DEF Inv, TypeOK
<1>8. RunsOnce'
  BY <1>2, <1>5, <1>7 DEF Inv, RunsOnceInv, RunsOnce, SkeletonInv, ClaimsMarked
<1>9. \A a \in Objects \ {b} : api'[a] = api[a]
  BY <1>1 DEF Create, SkeletonTypeOK
<1>10. FreshUnrun'
  BY <1>5, <1>7, <1>9 DEF Inv, RunsOnceInv, FreshUnrun
<1>11. AheadUnrun'
  <2> SUFFICES ASSUME NEW q \in Operators, Claimed(q)', Current(q)',
                      NEW c \in Ahead(q)'
               PROVE  execs'[key'[q]][c] = 0
    BY DEF AheadUnrun
  <2>1. /\ key'[q] = key[q] /\ obj'[q] = obj[q] /\ Claimed(q) /\ c \in Ahead(q)
    BY <1>3 DEF localVars, Claimed, Ahead
  <2>2. key[q] \in Objects /\ obj[q].uid <= api[key[q]].uid
    BY <2>1 DEF Claimed, Early, Inv, RunsOnceInv, SkeletonInv, HeldBehind
  <2>3. key[q] # b
    <3>1. api'[b].uid = api[b].uid + 1 /\ api[b].uid \in Nat
      BY <1>1 DEF Create, Revision, SkeletonTypeOK, Object
    <3>2. obj[q].uid \in Nat
      BY <1>1 DEF SkeletonTypeOK, Object
    <3>3. api'[key[q]].uid = obj[q].uid
      BY <2>1 DEF Current
    <3>4. QED
      BY <2>2, <3>1, <3>2, <3>3
  <2>4. Current(q)
    BY <1>9, <2>1, <2>2, <2>3 DEF Current
  <2>5. QED
    BY <1>7, <2>1, <2>2, <2>3, <2>4 DEF Inv, RunsOnceInv, AheadUnrun
<1>12. QED
  BY <1>2, <1>6, <1>8, <1>10, <1>11 DEF Inv, RunsOnceInv

\* The first status write: whoever comes through it holds an object that
\* carried no mark.
LEMMA InitializeBackupKeeps ==
  ASSUME Inv, NEW o \in Operators, InitializeBackup(o)
  PROVE  Inv'
<1> DEFINE next == IF strat[o].quiet THEN "quietDown" ELSE "mkdir"
           b    == key[o]
<1>1. /\ next \in Stage \ Early /\ next \in {"quietDown", "mkdir"}
      /\ "BackupInitialized" \in Conditions
  BY ConditionsAssumption DEF Stage, BackupStages, Early
<1> HIDE DEF next
<1>2. /\ Initialize(o, "BackupInitialized", next)
      /\ plan' = [plan EXCEPT ![b] =
                    IF claims'[b] # claims[b] THEN strat[o] ELSE @]
      /\ UNCHANGED <<podVars, execs>>
  BY DEF InitializeBackup, next
<1>3. SkeletonTypeOK /\ SkeletonInv /\ pc[o] = "init"
  BY <1>2 DEF Initialize, Inv, TypeOK, RunsOnceInv
<1>4. b \in Objects /\ obj[o] \in Object /\ ~ Claimed(o)
  BY <1>3 DEF SkeletonInv, HeldBehind, SkeletonTypeOK, Claimed, Early
<1>5. SkeletonTypeOK' /\ SkeletonInv'
  BY <1>1, <1>2, <1>3, InitializeKeeps
<1>6. PICK v \in {"True", "False"}, n \in {next, "idle"} :
        Update(o, SetCondition(obj[o], "BackupInitialized", v), n)
  BY <1>2 DEF Initialize
<1> DEFINE m == SetCondition(obj[o], "BackupInitialized", v)
<1>7. m \in Object /\ m.conds # NoConditions /\ m.rv = obj[o].rv
  BY <1>1, <1>4, SetConditionMarks
<1> HIDE DEF m
<1>8. \/ /\ Accepts(b, m) /\ api' = [api EXCEPT ![b] = Stored(b, m)]
         /\ n # "idle" /\ Go(o, n, Stored(b, m)) /\ UNCHANGED <<strat, todo>>
      \/ Accepts(b, m) /\ api' = [api EXCEPT ![b] = Stored(b, m)] /\ Return(o)
      \/ api' = api /\ Return(o)
  <2>1. n \in Stage
    BY <1>1, <1>6 DEF Stage, Early
  <2>2. Update(o, m, n)
    BY <1>6 DEF m
  <2>3. QED
    BY <1>3, <1>4, <1>7, <2>1, <2>2, UpdateOutcomes
<1>9. Accepts(b, m) => /\ Stored(b, m).uid = api[b].uid /\ api[b].live
                      /\ Stored(b, m).conds = m.conds
                      /\ api[b].conds = NoConditions
  <2>1. Accepts(b, m) => obj[o].rv = api[b].rv /\ api[b].live
    BY <1>7 DEF Accepts
  <2>2. Accepts(b, m) => api[b].conds = NoConditions
    BY <1>3, <1>4, <2>1 DEF SkeletonInv, HeldBehind
  <2>3. QED
    BY <1>3, <1>4, <1>7, <2>1, <2>2, StoredTyped DEF SkeletonTypeOK
<1>10. TypeOK'
  <2>1. pc' \in [Operators -> Early \cup BackupStages]
    BY <1>1, <1>6, <1>8 DEF Go, Return, Inv, TypeOK, Early, BackupStages
  <2>2. plan' \in [Objects -> Strategy]
    BY <1>2, <1>3, <1>4 DEF Inv, TypeOK, SkeletonTypeOK
  <2>3. QED
    BY <1>2, <1>5, <2>1, <2>2 DEF Inv, TypeOK, podVars
<1>11. ASSUME NEW a \in Objects, api'[a].live, api'[a].conds = NoConditions
       PROVE  api[a].live /\ api[a].conds = NoConditions
  BY <1>3, <1>4, <1>7, <1>8, <1>9, <1>11 DEF SkeletonTypeOK
<1>12. ASSUME NEW q \in Operators, Claimed(q)', Current(q)'
       PROVE  \/ /\ Claimed(q) /\ Current(q) /\ key'[q] = key[q]
                 /\ Ahead(q)' \subseteq Ahead(q)
              \/ /\ key'[q] \in Objects /\ Ahead(q)' \subseteq Command
                 /\ api[key'[q]].live /\ api[key'[q]].conds = NoConditions
  <2>1. CASE q = o
    <3>1. Go(o, n, Stored(b, m)) /\ Accepts(b, m) /\ n # "idle"
      BY <1>3, <1>8, <1>12, <2>1 DEF Return, Claimed, Early, SkeletonTypeOK
    <3>2. key'[q] = b /\ pc'[q] \in {"quietDown", "mkdir"}
      BY <1>1, <1>3, <1>6, <2>1, <3>1 DEF Go, SkeletonTypeOK
    <3>3. Ahead(q)' \subseteq Command
      BY <3>2 DEF Ahead
    <3>4. QED
      BY <1>4, <1>9, <3>1, <3>2, <3>3
  <2>2. CASE q # o
    <3>1. /\ pc'[q] = pc[q] /\ key'[q] = key[q] /\ obj'[q] = obj[q]
          /\ todo'[q] = todo[q]
      BY <1>3, <1>8, <2>2 DEF Go, Return, SkeletonTypeOK
    <3>2. Claimed(q) /\ key[q] \in Objects
      BY <1>3, <1>12, <3>1 DEF Claimed, Early, SkeletonInv, HeldBehind
    <3>3. Current(q)
      BY <1>3, <1>4, <1>8, <1>9, <1>12, <3>1, <3>2 DEF Current, SkeletonTypeOK
    <3>4. Ahead(q)' = Ahead(q)
      BY <3>1 DEF Ahead
    <3>5. QED
      BY <3>1, <3>2, <3>3, <3>4
  <2>3. QED
    BY <2>1, <2>2
<1>13. RunsOnce' /\ FreshUnrun' /\ AheadUnrun'
  BY <1>2, <1>5, <1>11, <1>12, NoExecKeeps
<1>14. QED
  BY <1>5, <1>10, <1>13 DEF Inv, RunsOnceInv

---------------------------------------------------------------------------
(* The theorems.                                                           *)

LEMMA InitInv == Init => Inv
<1> SUFFICES ASSUME Init PROVE Inv
  OBVIOUS
<1>1. SkeletonInit
  BY DEF Init
<1>2. SkeletonTypeOK
  <2>1. "idle" \in Stage
    BY DEF Stage, Early
  <2>2. QED
    BY <1>1, <2>1, BlankTyped DEF SkeletonInit, SkeletonTypeOK
<1>3. SkeletonInv
  BY <1>1 DEF SkeletonInit, SkeletonInv, CacheBehind, HeldBehind, ClaimsMarked,
     OneClaimant, Claimed, Early, Blank
<1>4. TypeOK
  BY <1>1, <1>2, BlankTyped DEF Init, SkeletonInit, TypeOK, Early
<1>5. RunsOnce /\ FreshUnrun /\ AheadUnrun
  BY <1>1 DEF Init, SkeletonInit, RunsOnce, FreshUnrun, AheadUnrun, Claimed, Early
<1>6. QED
  BY <1>3, <1>4, <1>5 DEF Inv, RunsOnceInv

LEMMA NextInv == Inv /\ [Next]_vars => Inv'
<1> SUFFICES ASSUME Inv, [Next]_vars PROVE Inv'
  OBVIOUS
<1>1. ASSUME NEW o \in Operators, Work(o) PROVE Inv'
  <2>1. CASE \E found \in Lookup : FetchRefs(o, found)
    BY <2>1, FetchRefsKeeps
  <2>2. CASE InitializeBackup(o)
    BY <2>2, InitializeBackupKeeps
  <2>3. CASE QuietDown(o) \/ CancelQuietDown(o)
    BY <2>3, QuietKeeps
  <2>4. CASE MakeDirectory(o)
    BY <2>4, MakeDirectoryKeeps
  <2>5. CASE CopyLocation(o)
    BY <2>5, CopyLocationKeeps
  <2>6. CASE \/ SaveQuietDown(o) \/ SaveMakeDirectory(o) \/ SaveCopyFailure(o)
             \/ SaveCopies(o)    \/ SaveCancel(o)
    BY <2>6, SavesKeep
  <2>7. CASE Complete(o)
    BY <2>7, CompleteKeeps
  <2>8. QED
    BY <1>1, <2>1, <2>2, <2>3, <2>4, <2>5, <2>6, <2>7 DEF Work
<1>2. ASSUME NEW o \in Operators, NEW b \in Objects, TakeBackup(o, b) PROVE Inv'
  BY <1>2, TakeBackupKeeps
<1>3. ASSUME NEW b \in Objects, CreateBackup(b) PROVE Inv'
  BY <1>3, CreateKeeps
<1>4. CASE World
  BY <1>4, WorldKeeps
<1>5. CASE UNCHANGED vars
  BY <1>5 DEF vars, skeletonVars, localVars, podVars, Inv, TypeOK, SkeletonTypeOK,
     RunsOnceInv, SkeletonInv, CacheBehind, HeldBehind, ClaimsMarked, OneClaimant,
     RunsOnce, FreshUnrun, AheadUnrun, Current, Claimed, Ahead
<1>6. QED
  BY <1>1, <1>2, <1>3, <1>4, <1>5 DEF Next

\* The variables keep their types, and with them the order of the stages of
\* Reconcile (backup_controller.go:70-193), in every behaviour.
THEOREM TypeCorrect == Spec => []TypeOK
<1>1. Inv => TypeOK
  BY DEF Inv
<1>2. QED
  BY <1>1, InitInv, NextInv, PTL DEF Spec

\* The guard of backup_controller.go:88 and the versioned write of
\* BackupInitialized (:149-156) let one worker run a Backup, and each command
\* at most once, for any number of operators, objects, faults and restarts.
THEOREM BackupRunsOnce == Spec => []RunsOnce
<1>1. Inv => RunsOnce
  BY DEF Inv, RunsOnceInv
<1>2. QED
  BY <1>1, InitInv, NextInv, PTL DEF Spec

\* The inductive invariant those results rest on, which a run checks too.
THEOREM BackupInductive == Spec => []RunsOnceInv
<1>1. Inv => RunsOnceInv
  BY DEF Inv
<1>2. QED
  BY <1>1, InitInv, NextInv, PTL DEF Spec

---------------------------------------------------------------------------
(* Every step of BackupController is a step of OneShotTask, or none, under *)
(* its refinement mapping.                                                 *)

USE ConditionsAssumption

Phases == [b \in Objects |-> Phase(b)]

\* A worker past the first status write has it in its copy, and the object it
\* works for says so too.
AcceptedInv ==
  \A o \in Operators : Claimed(o) =>
    /\ obj[o].conds["BackupInitialized"] = "True"
    /\ Current(o) => api[key[o]].conds["BackupInitialized"] = "True"

RefInv == Inv /\ AcceptedInv

\* What becomes of the workers in most steps: whoever is past the first write
\* was there before, with the same object.
Settled(q) ==
  Claimed(q)' => /\ Claimed(q) /\ key'[q] = key[q] /\ obj'[q].uid = obj[q].uid
                 /\ obj'[q].conds["BackupInitialized"] = "True"

Unmoved(b) ==
  /\ api'[b].live = api[b].live /\ api'[b].uid = api[b].uid
  /\ api'[b].conds["BackupInitialized"] = api[b].conds["BackupInitialized"]

LEMMA CalmSteps ==
  ASSUME RefInv, \A b \in Objects : Unmoved(b), \A q \in Operators : Settled(q)
  PROVE  AcceptedInv' /\ Phases' = Phases
<1>1. \A b \in Objects : Phase(b)' = Phase(b)
  BY DEF Unmoved, Phase
<1>2. Phases' = Phases
  BY <1>1 DEF Phases
<1>3. ASSUME NEW q \in Operators, Claimed(q)'
      PROVE  /\ obj'[q].conds["BackupInitialized"] = "True"
             /\ Current(q)' => api'[key'[q]].conds["BackupInitialized"] = "True"
  <2>1. key[q] \in Objects /\ Claimed(q)
    BY <1>3, HeldMarked DEF Settled, RefInv
  <2> QED
    BY <1>3, <2>1 DEF Settled, Unmoved, Current, RefInv, AcceptedInv
<1> QED
  BY <1>2, <1>3 DEF AcceptedInv

---------------------------------------------------------------------------
(* Steps that execute a command.                                           *)

LEMMA RunsOneCommand ==
  ASSUME RefInv, NEW o \in Operators, Claimed(o), api' = api,
         NEW c \in Ahead(o), c \in Command, NEW ran \in BOOLEAN, Record(o, c, ran),
         NEW next, NEW m \in Object, Go(o, next, m), m.uid = obj[o].uid,
         m.conds["BackupInitialized"] = "True"
  PROVE  AcceptedInv' /\ [Task!TaskNext]_Task!taskVars
<1>1. \A q \in Operators : Settled(q)
  BY DEF Settled, Go, RefInv, AcceptedInv, Inv, TypeOK, SkeletonTypeOK, Claimed
<1>2. AcceptedInv' /\ Phases' = Phases
  BY <1>1, CalmSteps DEF Unmoved
<1>3. key[o] \in Objects
  BY HeldMarked DEF RefInv
<1>4. CASE ~ (ran /\ Current(o))
  BY <1>2, <1>4 DEF Record, Phases, Task!taskVars
<1>5. CASE ran /\ Current(o)
  <2>1. execs[key[o]][c] = 0
    BY <1>5 DEF RefInv, Inv, RunsOnceInv, AheadUnrun
  <2>2. Phase(key[o]) = "accepted"
    BY <1>5 DEF RefInv, AcceptedInv, Phase, Current
  <2>3. execs' = [execs EXCEPT ![key[o]] = [@ EXCEPT ![c] = 1]]
    BY <1>3, <1>5, <2>1 DEF Record, RefInv, Inv, TypeOK
  <2>4. Task!RunCommand(key[o], c)
    BY <1>2, <1>3, <2>1, <2>2, <2>3 DEF Task!RunCommand, Phases
  <2> QED
    BY <1>2, <1>3, <2>4 DEF Task!TaskNext
<1> QED
  BY <1>4, <1>5

\* What the script notes does not touch the condition of the first write.
LEMMA Notes ==
  ASSUME RefInv, NEW o \in Operators, Claimed(o),
         NEW t \in Conditions \ {"BackupInitialized"}, NEW v \in {"True", "False"}
  PROVE  LET m == SetCondition(obj[o], t, v)
         IN  /\ m \in Object /\ m.uid = obj[o].uid /\ m.rv = obj[o].rv
             /\ m.conds # NoConditions /\ m.conds["BackupInitialized"] = "True"
<1>1. obj[o] \in Object /\ obj[o].conds["BackupInitialized"] = "True"
  BY HeldMarked DEF RefInv, AcceptedInv
<1> QED
  BY <1>1, SetConditionMarks

LEMMA QuietSteps ==
  ASSUME RefInv, NEW o \in Operators, QuietDown(o) \/ CancelQuietDown(o)
  PROVE  AcceptedInv' /\ [Task!TaskNext]_Task!taskVars
<1>1. Claimed(o) /\ api' = api
  BY DEF QuietDown, CancelQuietDown, Claimed, Early, serverVars
<1>2. CASE QuietDown(o)
  <2>1. PICK ran, ok \in BOOLEAN :
          /\ Record(o, "quietDown", ran)
          /\ Go(o, "saveQuietDown",
                   SetCondition(obj[o], "QuietDownStarted",
                                IF ok THEN "True" ELSE "False"))
    BY <1>2 DEF QuietDown
  <2>2. "quietDown" \in Ahead(o) /\ "quietDown" \in Command
    BY <1>2 DEF QuietDown, Ahead, Command
  <2>3. (IF ok THEN "True" ELSE "False") \in {"True", "False"}
    OBVIOUS
  <2> QED
    BY <1>1, <2>1, <2>2, <2>3, Notes, RunsOneCommand
<1>3. CASE CancelQuietDown(o)
  <2>1. PICK ran, ok \in BOOLEAN :
          /\ Record(o, "cancelQuietDown", ran)
          /\ Go(o, "saveCancel",
                   SetCondition(obj[o], "QuietDownCancelled",
                                IF ok THEN "True" ELSE "False"))
    BY <1>3 DEF CancelQuietDown
  <2>2. "cancelQuietDown" \in Ahead(o) /\ "cancelQuietDown" \in Command
    BY <1>3 DEF CancelQuietDown, Ahead, Command
  <2>3. (IF ok THEN "True" ELSE "False") \in {"True", "False"}
    OBVIOUS
  <2> QED
    BY <1>1, <2>1, <2>2, <2>3, Notes, RunsOneCommand
<1> QED
  BY <1>2, <1>3

LEMMA FileSteps ==
  ASSUME RefInv, NEW o \in Operators, MakeDirectory(o) \/ CopyLocation(o)
  PROVE  AcceptedInv' /\ [Task!TaskNext]_Task!taskVars
<1> DEFINE failed == SetCondition(obj[o], "BackupCompleted", "False")
<1>1. Claimed(o) /\ api' = api
  BY DEF MakeDirectory, CopyLocation, Claimed, Early, serverVars
<1>2. ASSUME NEW c \in Ahead(o), c \in Command, NEW ran \in BOOLEAN, Record(o, c, ran),
             NEW next, NEW m \in {obj[o], failed}, Go(o, next, m)
      PROVE  AcceptedInv' /\ [Task!TaskNext]_Task!taskVars
  <2>1. /\ m \in Object /\ m.uid = obj[o].uid
        /\ m.conds["BackupInitialized"] = "True"
    <3>1. CASE m = obj[o]
      BY <1>1, <3>1, HeldMarked DEF RefInv, AcceptedInv
    <3>2. CASE m = failed
      BY <1>1, <3>2, Notes
    <3> QED
      BY <1>2, <3>1, <3>2
  <2> QED
    BY <1>1, <1>2, <2>1, RunsOneCommand
<1>3. CASE MakeDirectory(o)
  <2>1. PICK ran, ok \in BOOLEAN :
          /\ Record(o, "mkdir", ran)
          /\ IF ok
             THEN Go(o, IF todo[o] = {} THEN AfterBackup(o) ELSE "copy", obj[o])
             ELSE Go(o, "saveMkdir", failed)
    BY <1>3 DEF MakeDirectory
  <2>2. "mkdir" \in Ahead(o) /\ "mkdir" \in Command
    BY <1>3 DEF MakeDirectory, Ahead, Command
  <2> HIDE DEF failed
  <2> QED
    BY <1>2, <2>1, <2>2
<1>4. CASE CopyLocation(o)
  <2>1. PICK l \in todo[o], ran, ok \in BOOLEAN :
          /\ Record(o, l, ran)
          /\ IF ok THEN Go(o, "copy", obj[o]) ELSE Go(o, "saveCopy", failed)
    BY <1>4 DEF CopyLocation
  <2>2. l \in Ahead(o) /\ l \in Command
    BY <1>4 DEF CopyLocation, Ahead, Command, RefInv, Inv, TypeOK, SkeletonTypeOK
  <2> HIDE DEF failed
  <2> QED
    BY <1>2, <2>1, <2>2
<1> QED
  BY <1>3, <1>4

---------------------------------------------------------------------------
(* Steps that write the status.                                            *)

LEMMA StatusStep ==
  ASSUME RefInv, NEW o \in Operators, Claimed(o),
         NEW m \in Object, m.rv = obj[o].rv, m.uid = obj[o].uid,
         m.conds["BackupInitialized"] = "True",
         NEW next \in Stage, Update(o, m, next), execs' = execs
  PROVE  AcceptedInv' /\ [Task!TaskNext]_Task!taskVars
<1> DEFINE k == key[o]
<1>0. SkeletonTypeOK /\ SkeletonInv
  BY DEF RefInv, Inv, TypeOK, RunsOnceInv
<1>1. k \in Objects /\ pc[o] # "idle"
  BY HeldMarked DEF RefInv, Claimed, Early
<1>2. \/ /\ Accepts(k, m) /\ api' = [api EXCEPT ![k] = Stored(k, m)]
         /\ Go(o, next, Stored(k, m))
      \/ Accepts(k, m) /\ api' = [api EXCEPT ![k] = Stored(k, m)] /\ Return(o)
      \/ api' = api /\ Return(o)
  BY <1>0, <1>1, UpdateOutcomes
<1>3. ASSUME Accepts(k, m)
      PROVE  /\ Stored(k, m).live = api[k].live /\ Stored(k, m).uid = api[k].uid
             /\ Stored(k, m).conds["BackupInitialized"] = "True"
             /\ api[k].conds["BackupInitialized"] = "True"
             /\ obj[o].uid = api[k].uid
  <2>1. /\ Stored(k, m).live /\ Stored(k, m).uid = api[k].uid
        /\ Stored(k, m).conds = m.conds
    BY <1>0, <1>1, <1>3, StoredTyped DEF SkeletonTypeOK
  <2>2. Current(o) /\ api[k].live
    BY <1>0, <1>1, <1>3 DEF SkeletonInv, HeldBehind, Accepts
  <2>3. api[k].live = TRUE /\ Stored(k, m).live = TRUE
    BY <2>1, <2>2, <1>0, <1>1, <1>3, StoredTyped DEF SkeletonTypeOK, Object
  <2> QED
    BY <2>1, <2>2, <2>3 DEF RefInv, AcceptedInv, Current
<1>4. \A b \in Objects : Unmoved(b)
  BY <1>0, <1>1, <1>2, <1>3 DEF Unmoved, SkeletonTypeOK
<1>5. \A q \in Operators : Settled(q)
  BY <1>0, <1>2, <1>3 DEF Settled, Go, Return, RefInv, AcceptedInv, Claimed, Early,
     SkeletonTypeOK
<1> QED
  BY <1>4, <1>5, CalmSteps DEF Phases, Task!taskVars

LEMMA SaveSteps ==
  ASSUME RefInv, NEW o \in Operators,
         \/ SaveQuietDown(o)   \/ SaveMakeDirectory(o) \/ SaveCopyFailure(o)
         \/ SaveCopies(o)      \/ SaveCancel(o)        \/ Complete(o)
  PROVE  AcceptedInv' /\ [Task!TaskNext]_Task!taskVars
<1>1. CASE Complete(o)
  <2>1. Claimed(o) /\ "idle" \in Stage
    BY <1>1 DEF Complete, Claimed, Early, Stage
  <2> QED
    BY <1>1, <2>1, Notes, StatusStep DEF Complete
<1>2. CASE \/ SaveQuietDown(o)   \/ SaveMakeDirectory(o) \/ SaveCopyFailure(o)
           \/ SaveCopies(o)      \/ SaveCancel(o)
  <2>1. PICK at, next \in BackupStages : SaveStatus(o, at, next)
    BY <1>2 DEF SaveQuietDown, SaveMakeDirectory, SaveCopyFailure, SaveCopies,
       SaveCancel, AfterBackup, BackupStages
  <2>2. Claimed(o) /\ next \in Stage
    BY <2>1 DEF SaveStatus, Save, Claimed, Early, BackupStages, Stage
  <2>3. obj[o] \in Object /\ obj[o].conds["BackupInitialized"] = "True"
    BY <2>2, HeldMarked DEF RefInv, AcceptedInv
  <2> QED
    BY <2>1, <2>2, <2>3, StatusStep DEF SaveStatus, Save
<1> QED
  BY <1>1, <1>2

\* The first write decides on the task.
LEMMA DecidingStep ==
  ASSUME RefInv, NEW o \in Operators, InitializeBackup(o)
  PROVE  AcceptedInv' /\ [Task!TaskNext]_Task!taskVars
<1>0. SkeletonTypeOK /\ SkeletonInv
  BY DEF RefInv, Inv, TypeOK, RunsOnceInv
<1>k. PICK k \in Objects : k = key[o]
  BY <1>0 DEF InitializeBackup, Initialize, SkeletonInv, HeldBehind
<1>1. pc[o] = "init" /\ ~ Claimed(o) /\ k \in Objects /\ obj[o] \in Object
      /\ execs' = execs
  BY <1>0 DEF InitializeBackup, Initialize, Claimed, Early, SkeletonInv, HeldBehind,
     SkeletonTypeOK
<1>2. PICK v \in {"True", "False"}, next \in Stage :
        /\ Update(o, SetCondition(obj[o], "BackupInitialized", v), next)
        /\ v = "False" => next = "idle"
  BY DEF InitializeBackup, Initialize, Stage, Early, BackupStages
<1> DEFINE m == SetCondition(obj[o], "BackupInitialized", v)
<1>3. /\ m \in Object /\ m.rv = obj[o].rv /\ m.uid = obj[o].uid
      /\ m.conds["BackupInitialized"] = v
  BY <1>1, SetConditionMarks
<1> HIDE DEF m
<1>4. \/ /\ Accepts(k, m) /\ api' = [api EXCEPT ![k] = Stored(k, m)]
         /\ next # "idle" /\ Go(o, next, Stored(k, m))
      \/ Accepts(k, m) /\ api' = [api EXCEPT ![k] = Stored(k, m)] /\ Return(o)
      \/ api' = api /\ Return(o)
  BY <1>0, <1>k, <1>1, <1>2, <1>3, UpdateOutcomes DEF m
<1>5. \A q \in Operators \ {o} :
        pc'[q] = pc[q] /\ key'[q] = key[q] /\ obj'[q] = obj[q]
  BY <1>0, <1>4 DEF Go, Return, SkeletonTypeOK
<1>6. CASE api' = api /\ Return(o)
  <2>1. \A q \in Operators : Settled(q)
    BY <1>0, <1>5, <1>6 DEF Settled, Return, RefInv, AcceptedInv, Claimed, Early,
       SkeletonTypeOK
  <2> QED
    BY <1>1, <1>6, <2>1, CalmSteps DEF Unmoved, Phases, Task!taskVars
<1>7. CASE Accepts(k, m) /\ api' = [api EXCEPT ![k] = Stored(k, m)]
  <2>1. /\ Stored(k, m).live /\ Stored(k, m).uid = api[k].uid
        /\ Stored(k, m).conds["BackupInitialized"] = v
    BY <1>0, <1>1, <1>3, <1>7, StoredTyped DEF SkeletonTypeOK
  <2>2. Current(o) /\ api[k].live /\ api[k].conds = NoConditions
    BY <1>0, <1>k, <1>1, <1>3, <1>7 DEF SkeletonInv, HeldBehind, Accepts
  <2>3. api[k].conds["BackupInitialized"] = "unset"
    BY <2>2 DEF NoConditions
  <2>4. /\ api'[k] = Stored(k, m)
        /\ \A b \in Objects \ {k} : api'[b] = api[b]
    BY <1>0, <1>1, <1>7 DEF SkeletonTypeOK
  <2>5. /\ Phase(k) = "pending"
        /\ Phase(k)' = IF v = "True" THEN "accepted" ELSE "refused"
        /\ \A b \in Objects \ {k} : Phase(b)' = Phase(b)
    BY <2>1, <2>2, <2>3, <2>4 DEF Phase
  <2>6. Phases' = [Phases EXCEPT ![k] = IF v = "True" THEN "accepted" ELSE "refused"]
    BY <1>1, <2>5 DEF Phases
  <2>7. Task!Decide(k)
    BY <1>1, <2>5, <2>6 DEF Task!Decide, Phases
  <2>8. ASSUME NEW q \in Operators, Claimed(q)'
        PROVE  /\ obj'[q].conds["BackupInitialized"] = "True"
               /\ Current(q)' => api'[key'[q]].conds["BackupInitialized"] = "True"
    <3>1. CASE q = o
      <4>1. next # "idle" /\ Go(o, next, Stored(k, m)) /\ v = "True"
        BY <1>0, <1>2, <1>4, <1>7, <2>8, <3>1 DEF Return, Claimed, Early, SkeletonTypeOK
      <4> QED
        BY <1>0, <1>k, <1>1, <2>1, <2>4, <3>1, <4>1 DEF Go, SkeletonTypeOK
    <3>2. CASE q # o
      <4>1. Claimed(q) /\ key[q] \in Objects
        BY <1>5, <2>8, <3>2, HeldMarked DEF Claimed, RefInv
      <4>2. CASE key[q] = k
        <5>1. Current(q)' => Current(q)
          BY <1>5, <2>1, <2>2, <2>4, <3>2, <4>2 DEF Current
        <5>2. ~ Current(q)
          BY <2>3, <4>1, <4>2 DEF RefInv, AcceptedInv
        <5> QED
          BY <1>5, <3>2, <4>1, <5>1, <5>2 DEF RefInv, AcceptedInv
      <4>3. CASE key[q] # k
        BY <1>5, <2>4, <3>2, <4>1, <4>3 DEF RefInv, AcceptedInv, Current
      <4> QED
        BY <4>2, <4>3
    <3> QED
      BY <3>1, <3>2
  <2> QED
    BY <1>1, <2>7, <2>8 DEF AcceptedInv, Task!TaskNext
<1> QED
  BY <1>4, <1>6, <1>7

---------------------------------------------------------------------------
(* Everything else.                                                        *)

LEMMA OtherSteps ==
  ASSUME RefInv, api' = api, execs' = execs, NEW o \in Operators,
         pc'[o] \in Early,
         \A q \in Operators \ {o} :
           pc'[q] = pc[q] /\ key'[q] = key[q] /\ obj'[q] = obj[q]
  PROVE  AcceptedInv' /\ [Task!TaskNext]_Task!taskVars
<1>1. \A q \in Operators : Settled(q)
  BY DEF Settled, RefInv, AcceptedInv, Claimed
<1> QED
  BY <1>1, CalmSteps DEF Unmoved, Phases, Task!taskVars

\* Users create and delete tasks.
LEMMA UserSteps ==
  ASSUME RefInv, NEW b \in Objects,
         CreateBackup(b) \/ (UNCHANGED execs /\ (Delete(b) \/ Touch(b)))
  PROVE  AcceptedInv' /\ [Task!TaskNext]_Task!taskVars
<1>0. SkeletonTypeOK /\ SkeletonInv
  BY DEF RefInv, Inv, TypeOK, RunsOnceInv
<1>1. /\ UNCHANGED <<pc, key, obj>> /\ api[b].uid \in Nat
      /\ \A a \in Objects \ {b} : api'[a] = api[a]
  BY <1>0 DEF CreateBackup, Create, Delete, Touch, localVars, SkeletonTypeOK, Object
<1>2. CASE Touch(b)
  <2>1. api[b].live \in BOOLEAN /\ api[b].live
    BY <1>0, <1>2 DEF SkeletonTypeOK, Object, Touch
  <2>2. /\ api'[b].live = TRUE /\ api'[b].uid = api[b].uid
        /\ api'[b].conds = api[b].conds
    BY <1>0, <1>2 DEF Touch, Revision, SkeletonTypeOK
  <2>3. \A a \in Objects : Unmoved(a)
    BY <1>1, <2>1, <2>2 DEF Unmoved
  <2>4. \A q \in Operators : Settled(q)
    BY <1>1 DEF Settled, RefInv, AcceptedInv, Claimed
  <2>5. execs' = execs
    BY <1>2 DEF Touch, CreateBackup, Create
  <2> QED
    BY <2>3, <2>4, <2>5, CalmSteps DEF Phases, Task!taskVars
<1>3. ASSUME NEW q \in Operators, Claimed(q), Current(q)', ~ Touch(b)
      PROVE  Current(q) /\ key[q] \in Objects \ {b}
  <2>1. /\ key[q] \in Objects /\ obj[q].uid <= api[key[q]].uid /\ obj[q].uid \in Nat
    BY <1>0, <1>3 DEF SkeletonInv, HeldBehind, Claimed, Early, SkeletonTypeOK, Object
  <2>2. CASE key[q] = b
    <3>1. api'[b].live /\ api'[b].uid = obj[q].uid
      BY <1>1, <1>3, <2>2 DEF Current
    <3>2. ~ api'[b].live \/ api'[b].uid = api[b].uid + 1
      BY <1>0, <1>3 DEF CreateBackup, Create, Delete, Revision, SkeletonTypeOK
    <3> QED
      BY <1>1, <2>1, <2>2, <3>1, <3>2
  <2>3. CASE key[q] # b
    BY <1>1, <1>3, <2>1, <2>3 DEF Current
  <2> QED
    BY <2>1, <2>2, <2>3
<1>4. ~ Touch(b) => AcceptedInv'
  BY <1>1, <1>3 DEF RefInv, AcceptedInv, Claimed
<1>5. \A a \in Objects \ {b} : Phase(a)' = Phase(a)
  BY <1>1 DEF Phase
<1>6. CASE CreateBackup(b) /\ ~ Touch(b)
  <2>1. Phase(b) = "absent" /\ Phase(b)' = "pending"
    BY <1>0, <1>6 DEF CreateBackup, Create, Revision, Phase, SkeletonTypeOK, NoConditions
  <2>2. Phases' = [Phases EXCEPT ![b] = "pending"]
    BY <1>5, <2>1 DEF Phases
  <2>3. Task!Submit(b)
    BY <1>6, <2>1, <2>2 DEF Task!Submit, Phases, CreateBackup
  <2> QED
    BY <1>4, <1>6, <2>3 DEF Task!TaskNext
<1>7. CASE Delete(b) /\ execs' = execs /\ ~ Touch(b)
  <2>1. Phase(b) # "absent" /\ Phase(b)' = "absent"
    BY <1>0, <1>7 DEF Delete, Revision, Phase, SkeletonTypeOK
  <2>2. Phases' = [Phases EXCEPT ![b] = "absent"]
    BY <1>5, <2>1 DEF Phases
  <2>3. Task!Withdraw(b)
    BY <1>7, <2>1, <2>2 DEF Task!Withdraw, Phases
  <2> QED
    BY <1>4, <1>7, <2>3 DEF Task!TaskNext
<1> QED
  BY <1>2, <1>6, <1>7

LEMMA WorldSteps ==
  ASSUME RefInv, World
  PROVE  AcceptedInv' /\ [Task!TaskNext]_Task!taskVars
<1>0. SkeletonTypeOK
  BY DEF RefInv, Inv, TypeOK
<1>1. ASSUME UNCHANGED <<api, pc, key, obj, execs>>
      PROVE  AcceptedInv' /\ [Task!TaskNext]_Task!taskVars
  <2>1. \A q \in Operators : Settled(q)
    BY <1>1 DEF Settled, RefInv, AcceptedInv, Claimed
  <2> QED
    BY <1>1, <2>1, CalmSteps DEF Unmoved, Phases, Task!taskVars
<1>2. ASSUME NEW o \in Operators, NEW b \in Objects, Deliver(o, b)
      PROVE  UNCHANGED <<api, pc, key, obj>>
  BY <1>2 DEF Deliver, localVars
<1>3. ASSUME NEW o \in Operators, Resync(o)
      PROVE  UNCHANGED <<api, pc, key, obj>>
  BY <1>3 DEF Resync, localVars
<1>4. ASSUME NEW o \in Operators, Crash(o)
      PROVE  AcceptedInv' /\ [Task!TaskNext]_Task!taskVars
  <2>1. api' = api /\ execs' = execs /\ pc'[o] \in Early
        /\ \A q \in Operators \ {o} :
             pc'[q] = pc[q] /\ key'[q] = key[q] /\ obj'[q] = obj[q]
    BY <1>0, <1>4 DEF World, Crash, Restart, Return, SkeletonTypeOK, Early
  <2> QED
    BY <2>1, OtherSteps
<1>5. execs' = execs
  BY DEF World
<1> QED
  BY <1>1, <1>2, <1>3, <1>4, <1>5, UserSteps DEF World

LEMMA StepRefines ==
  ASSUME RefInv, [Next]_vars
  PROVE  AcceptedInv' /\ [Task!TaskNext]_Task!taskVars
<1>0. SkeletonTypeOK /\ SkeletonInv
  BY DEF RefInv, Inv, TypeOK, RunsOnceInv
<1>1. ASSUME NEW o \in Operators, Work(o)
      PROVE  AcceptedInv' /\ [Task!TaskNext]_Task!taskVars
  <2>1. ASSUME NEW found \in Lookup, FetchRefs(o, found)
        PROVE  AcceptedInv' /\ [Task!TaskNext]_Task!taskVars
    BY <1>0, <2>1, FetchKeeps, OtherSteps DEF FetchRefs
  <2> QED
    BY <1>1, <2>1, DecidingStep, QuietSteps, FileSteps, SaveSteps DEF Work
<1>2. ASSUME NEW o \in Operators, NEW b \in Objects, TakeBackup(o, b)
      PROVE  AcceptedInv' /\ [Task!TaskNext]_Task!taskVars
  <2>1. api' = api /\ execs' = execs /\ pc'[o] \in Early
        /\ \A q \in Operators \ {o} :
             pc'[q] = pc[q] /\ key'[q] = key[q] /\ obj'[q] = obj[q]
    BY <1>0, <1>2 DEF TakeBackup, Dequeue, SkeletonTypeOK, Early
  <2> QED
    BY <2>1, OtherSteps
<1>3. CASE UNCHANGED vars
  <2>1. \A q \in Operators : Settled(q)
    BY <1>3 DEF Settled, RefInv, AcceptedInv, Claimed, vars, skeletonVars, localVars
  <2> QED
    BY <1>3, <2>1, CalmSteps DEF Unmoved, Phases, Task!taskVars, vars, skeletonVars
<1> QED
  BY <1>1, <1>2, <1>3, UserSteps, WorldSteps DEF Next

LEMMA InitRefines == Init => AcceptedInv /\ Task!TaskInit
<1> SUFFICES ASSUME Init PROVE AcceptedInv /\ Task!TaskInit
  OBVIOUS
<1>1. AcceptedInv
  BY DEF Init, SkeletonInit, AcceptedInv, Claimed, Early
<1>2. \A b \in Objects : Phase(b) = "absent"
  BY DEF Init, SkeletonInit, Phase, Blank
<1> QED
  BY <1>1, <1>2 DEF Init, Task!TaskInit

\* A Backup is a one-shot task: pending until the first status write decides on
\* it (backup_controller.go:149-156), then its commands run at most once each,
\* with any number of operators, restarts and lost answers.
THEOREM BackupIsTask == Spec => ImplementsTask
<1>1. Init => RefInv /\ Task!TaskInit
  BY InitInv, InitRefines DEF RefInv
<1>2. RefInv /\ [Next]_vars => RefInv' /\ [Task!TaskNext]_Task!taskVars
  BY NextInv, StepRefines DEF RefInv
<1> QED
  BY <1>1, <1>2, PTL DEF Spec, ImplementsTask, Task!TaskSpec

---------------------------------------------------------------------------
(* What the status says ran, and the order in which it did.                *)

\* Every step keeps these, and what each lemma below is about.
ReportInv == Inv /\ Inv' /\ ScriptInv

\* A step that runs a command ran nothing twice, and nothing out of order.
InOrder ==
  \A b \in Objects, c \in Command :
    execs'[b][c] > execs[b][c] =>
      /\ execs[b]["cancelQuietDown"] = 0
      /\ c = "quietDown" => \A d \in Command \ {c} : execs[b][d] = 0
      /\ c = "mkdir" => \A l \in Location : execs[b][l] = 0
      /\ c \in Location =>
           /\ c \in plan[b].opts
           /\ execs[b]["mkdir"] = 1
           /\ \A l \in Location : Before[l] >= Before[c] => execs[b][l] = 0
      /\ c = "cancelQuietDown" => plan[b].quiet

\* No command of the object is taken back, and it keeps its strategy.
Kept(b) == plan'[b] = plan[b] /\ \A c \in Command : execs'[b][c] >= execs[b][c]

\* The step is not about the object.
Untouched(b) == plan'[b] = plan[b] /\ execs'[b] = execs[b]

\* After the step, conds is true of the object.
Reported(b, conds) ==
  /\ conds["QuietDownStarted"] = "True" => execs'[b]["quietDown"] = 1
  /\ conds["QuietDownCancelled"] = "True" => execs'[b]["cancelQuietDown"] = 1
  /\ conds["BackupCompleted"] = "True" /\ plan'[b].quiet =>
       conds["QuietDownCancelled"] # "unset"

LEMMA ReportsStay ==
  ASSUME ReportInv, NEW b \in Objects, Kept(b), NEW conds, Reports(b, conds)
  PROVE  Reported(b, conds)
<1>1. \A c \in Command : execs[b][c] = 1 => execs'[b][c] = 1
  <2>1. \A c \in Command : execs'[b][c] \in Nat /\ execs'[b][c] <= 1
    BY DEF ReportInv, Inv, TypeOK, RunsOnceInv, RunsOnce
  <2> QED
    BY <2>1 DEF Kept
<1> QED
  BY <1>1 DEF Reports, Reported, Kept, Command

\* An object whose status was not written, or emptied.
LEMMA StatusStays ==
  ASSUME ReportInv, NEW b \in Objects,
         \/ api'[b].conds = NoConditions
         \/ api'[b].conds = api[b].conds /\ Kept(b)
  PROVE  Reports(b, api[b].conds)'
<1>1. CASE api'[b].conds = NoConditions
  BY <1>1, ConditionsAssumption DEF NoConditions, Reports
<1>2. CASE api'[b].conds = api[b].conds /\ Kept(b)
  <2>1. Reports(b, api[b].conds)
    BY DEF ReportInv, ScriptInv, StatusReportsRun
  <2> QED
    BY <1>2, <2>1 DEF Reports, Kept, ReportInv, Inv, TypeOK, RunsOnceInv, RunsOnce, Command
<1> QED
  BY <1>1, <1>2

\* A worker that did not take part.
LEMMA WorkerStays ==
  ASSUME ReportInv, NEW q \in Operators,
         pc'[q] = pc[q], key'[q] = key[q], obj'[q] = obj[q],
         strat'[q] = strat[q], todo'[q] = todo[q],
         Claimed(q) /\ Current(q)' => Current(q) /\ Untouched(key[q])
  PROVE  Follows(q)'
<1>1. Follows(q)
  BY DEF ReportInv, ScriptInv
<1>2. ASSUME Claimed(q), Current(q)'
      PROVE  /\ (plan[key[q]] = strat[q] /\ Reports(key[q], obj[q].conds))'
             /\ CopiesInOrder(q)'
  <2>1. Untouched(key[q]) /\ plan[key[q]] = strat[q]
        /\ Reports(key[q], obj[q].conds) /\ CopiesInOrder(q)
    BY <1>1, <1>2 DEF Follows
  <2> QED
    BY <2>1 DEF Reports, Untouched, CopiesInOrder
<1> QED
  BY <1>1, <1>2 DEF Follows, Claimed

\* A worker before its first write, or without a task.
LEMMA WorkerEarly ==
  ASSUME NEW q, pc'[q] \in Early, todo'[q] \subseteq strat'[q].opts,
         obj'[q].conds = NoConditions
  PROVE  Follows(q)'
BY DEF Follows, Claimed, Early

LEMMA ReturnFollows ==
  ASSUME Inv, NEW o \in Operators, Return(o)
  PROVE  /\ Follows(o)'
         /\ \A q \in Operators \ {o} :
              /\ pc'[q] = pc[q] /\ key'[q] = key[q] /\ obj'[q] = obj[q]
              /\ strat'[q] = strat[q] /\ todo'[q] = todo[q]
<1>1. /\ pc'[o] \in Early /\ todo'[o] \subseteq strat'[o].opts
      /\ obj'[o].conds = NoConditions
  BY DEF Return, Blank, Early, Inv, TypeOK, SkeletonTypeOK
<1>2. \A q \in Operators \ {o} :
        /\ pc'[q] = pc[q] /\ key'[q] = key[q] /\ obj'[q] = obj[q]
        /\ strat'[q] = strat[q] /\ todo'[q] = todo[q]
  BY DEF Return
<1> QED
  BY <1>1, <1>2, WorkerEarly

\* Steps that execute no command keep the history of every object.
LEMMA NothingRuns ==
  ASSUME Inv, execs' = execs
  PROVE  InOrder /\ \A b \in Objects : plan'[b] = plan[b] => Kept(b) /\ Untouched(b)
BY DEF InOrder, Kept, Untouched, Inv, TypeOK

\* Executing a command that lies ahead.
LEMMA CommandRuns ==
  ASSUME ReportInv, NEW o \in Operators, Claimed(o), NEW c \in Ahead(o), c \in Command,
         NEW ran \in BOOLEAN, Record(o, c, ran), UNCHANGED <<api, key, plan>>,
         c \in Location => c \in todo[o] /\ pc[o] = "copy",
         c = "mkdir" => pc[o] = "mkdir",
         c = "quietDown" => pc[o] = "quietDown", c = "cancelQuietDown" => pc[o] = "cancel",
         \A m \in todo[o] : c \in Location => Before[c] <= Before[m]
  PROVE  /\ InOrder /\ \A b \in Objects : Kept(b)
         /\ ran /\ Current(o) =>
              \A d \in Command : execs'[key[o]][d] = IF d = c THEN 1 ELSE execs[key[o]][d]
<1>1. key[o] \in Objects
  BY HeldMarked DEF ReportInv
<1>2. execs \in [Objects -> [Command -> Nat]] /\ Follows(o)
  BY DEF ReportInv, Inv, TypeOK, ScriptInv
<1>3. CASE ~ (ran /\ Current(o))
  <2>1. execs' = execs
    BY <1>3 DEF Record
  <2> QED
    BY <1>3, <2>1, NothingRuns DEF ReportInv
<1>4. CASE ran /\ Current(o)
  <2>1. \A d \in Ahead(o) : execs[key[o]][d] = 0
    BY <1>4 DEF ReportInv, Inv, RunsOnceInv, AheadUnrun
  <2>2. execs' = [execs EXCEPT ![key[o]] = [@ EXCEPT ![c] = 1]]
    <3>1. execs[key[o]][c] = 0
      BY <2>1
    <3> QED
      BY <1>1, <1>2, <1>4, <3>1 DEF Record
  <2>3. /\ execs'[key[o]][c] = 1
        /\ \A b \in Objects, d \in Command :
             execs'[b][d] = IF b = key[o] /\ d = c THEN 1 ELSE execs[b][d]
    BY <1>1, <1>2, <2>1, <2>2
  <2>4. \A b \in Objects : Kept(b)
    BY <1>2, <2>1, <2>3 DEF Kept
  <2>5. "cancelQuietDown" \in Ahead(o) /\ (pc[o] = "quietDown" => Ahead(o) = Command)
    BY DEF Ahead, Command, Location
  <2>6. plan[key[o]] = strat[o]
    BY <1>2, <1>4 DEF Follows
  <2>7. CopiesInOrder(o)
    BY <1>2, <1>4 DEF Follows
  <2>8. InOrder
    <3> SUFFICES ASSUME NEW b \in Objects, NEW d \in Command, execs'[b][d] > execs[b][d]
                 PROVE  /\ execs[b]["cancelQuietDown"] = 0
                        /\ d = "quietDown" => \A e \in Command \ {d} : execs[b][e] = 0
                        /\ d = "mkdir" => \A l \in Location : execs[b][l] = 0
                        /\ d \in Location =>
                             /\ d \in plan[b].opts
                             /\ execs[b]["mkdir"] = 1
                             /\ \A l \in Location :
                                  Before[l] >= Before[d] => execs[b][l] = 0
                        /\ d = "cancelQuietDown" => plan[b].quiet
      BY DEF InOrder
    <3>1. b = key[o] /\ d = c
      BY <1>2, <2>3
    <3>2. d = "mkdir" => \A l \in Location : execs[b][l] = 0
      BY <2>1, <3>1 DEF Ahead, Command, Location
    <3>3. ASSUME d \in Location
          PROVE  /\ d \in plan[b].opts
                 /\ execs[b]["mkdir"] = 1
                 /\ \A l \in Location : Before[l] >= Before[d] => execs[b][l] = 0
      <4>1. d \in todo[o] /\ pc[o] = "copy" /\ d \in plan[b].opts
        BY <1>2, <2>6, <3>1, <3>3 DEF Follows
      <4>2. execs[b]["mkdir"] = 1
        BY <2>7, <3>1, <4>1 DEF CopiesInOrder
      <4>3. ASSUME NEW l \in Location, execs[b][l] # 0 PROVE Before[l] < Before[d]
        BY <2>7, <3>1, <4>1, <4>3 DEF CopiesInOrder
      <4>4. \A l \in Location : ~ (Before[l] >= Before[d] /\ Before[l] < Before[d])
        BY <3>3 DEF Before, Location
      <4> QED
        BY <4>1, <4>2, <4>3, <4>4
    <3> QED
      BY <1>2, <2>1, <2>5, <2>6, <3>1, <3>2, <3>3 DEF Follows
  <2> QED
    BY <1>1, <2>3, <2>4, <2>8
<1> QED
  BY <1>3, <1>4

\* What is left to show of a step that executes a command.
LEMMA RunReports ==
  ASSUME ReportInv, NEW o \in Operators, Claimed(o), \A b \in Objects : Kept(b),
         NEW c \in Command, NEW ran \in BOOLEAN, Record(o, c, ran),
         UNCHANGED <<api, strat, plan>>, NEW next, NEW m \in Object, Go(o, next, m),
         next \notin Early, m.uid = obj[o].uid, m.conds["BackupCompleted"] # "True",
         todo'[o] \subseteq todo[o], \A q \in Operators \ {o} : todo'[q] = todo[q],
         next \in {"cancel", "saveCancel"} => strat[o].quiet,
         next = "saveCancel" \/ (next = "complete" /\ strat[o].quiet) =>
           m.conds["QuietDownCancelled"] # "unset",
         Current(o) => Reported(key[o], m.conds),
         Current(o) /\ next \in {"copy", "saveCopy"} =>
           /\ execs'[key[o]]["mkdir"] = 1
           /\ \A l \in Location, n \in todo'[o] :
                execs'[key[o]][l] # 0 => Before[l] < Before[n]
  PROVE  ScriptInv'
<1>1. SkeletonTypeOK /\ Follows(o) /\ key[o] \in Objects
  BY HeldMarked DEF ReportInv, Inv, TypeOK, ScriptInv
<1>2. StatusReportsRun'
  BY StatusStays DEF StatusReportsRun
<1>3. ASSUME NEW q \in Operators \ {o} PROVE Follows(q)'
  <2>1. /\ pc'[q] = pc[q] /\ key'[q] = key[q] /\ obj'[q] = obj[q]
        /\ strat'[q] = strat[q] /\ todo'[q] = todo[q]
    BY <1>1 DEF Go, SkeletonTypeOK
  <2>2. ASSUME Claimed(q), Current(q)' PROVE Current(q) /\ Untouched(key[q])
    <3>1. Current(q) /\ key[q] \in Objects
      BY <2>1, <2>2, HeldMarked DEF Current, ReportInv
    <3>2. Current(o) => key[q] # key[o]
      BY <2>2, <3>1 DEF ReportInv, Inv, RunsOnceInv, SkeletonInv, OneClaimant
    <3>3. execs'[key[q]] = execs[key[q]]
      BY <3>1, <3>2 DEF Record, ReportInv, Inv, TypeOK
    <3> QED
      BY <3>1, <3>3 DEF Untouched
  <2> QED
    BY <2>1, <2>2, WorkerStays
<1>4. Follows(o)'
  <2>1. /\ pc'[o] = next /\ key'[o] = key[o] /\ obj'[o] = m /\ strat'[o] = strat[o]
        /\ Current(o)' = Current(o) /\ plan'[key[o]] = plan[key[o]]
    BY <1>1 DEF Go, SkeletonTypeOK, Current, Kept
  <2>2. Current(o)' => (plan[key[o]] = strat[o] /\ Reports(key[o], obj[o].conds))'
    BY <1>1, <2>1 DEF Follows, Reports, Reported
  <2>3. Current(o)' => CopiesInOrder(o)'
    BY <2>1 DEF CopiesInOrder
  <2> QED
    BY <1>1, <2>1, <2>2, <2>3 DEF Follows, Claimed
<1> QED
  BY <1>2, <1>3, <1>4 DEF ScriptInv

LEMMA QuietReports ==
  ASSUME ReportInv, NEW o \in Operators, QuietDown(o) \/ CancelQuietDown(o)
  PROVE  InOrder /\ ScriptInv'
<1>1. Claimed(o) /\ UNCHANGED <<api, strat, todo, plan>>
  BY DEF QuietDown, CancelQuietDown, Claimed, Early, serverVars
<1>2. Follows(o) /\ obj[o] \in Object /\ key[o] \in Objects
  BY <1>1, HeldMarked DEF ReportInv, ScriptInv
<1>3. ASSUME NEW c, NEW t, NEW next, NEW ran \in BOOLEAN, NEW ok \in BOOLEAN,
             ok => ran, Record(o, c, ran),
             Go(o, next, SetCondition(obj[o], t, IF ok THEN "True" ELSE "False")),
             \/ /\ c = "quietDown" /\ t = "QuietDownStarted" /\ next = "saveQuietDown"
                /\ pc[o] = "quietDown"
             \/ /\ c = "cancelQuietDown" /\ t = "QuietDownCancelled" /\ next = "saveCancel"
                /\ pc[o] = "cancel"
      PROVE  InOrder /\ ScriptInv'
  <2> DEFINE v == IF ok THEN "True" ELSE "False"
             m == SetCondition(obj[o], t, v)
  <2>1. c \in Ahead(o) /\ c \in Command /\ c \notin Location /\ c # "mkdir"
    BY <1>3 DEF Ahead, Command, Location
  <2>2. /\ InOrder /\ \A b \in Objects : Kept(b)
        /\ ran /\ Current(o) => execs'[key[o]][c] = 1
    BY <1>1, <1>3, <2>1, CommandRuns DEF Go
  <2>3. /\ m \in Object /\ m.uid = obj[o].uid /\ m.conds[t] = v
        /\ \A u \in Conditions \ {t} : m.conds[u] = obj[o].conds[u]
    <3>1. t \in Conditions /\ v \in {"True", "False"}
      BY <1>3, ConditionsAssumption
    <3> QED
      BY <1>2, <3>1, SetConditionMarks
  <2>4. m.conds["BackupCompleted"] # "True"
    BY <1>1, <1>2, <1>3, <2>3, ConditionsAssumption DEF Follows
  <2>5. next = "saveCancel" => m.conds["QuietDownCancelled"] # "unset" /\ strat[o].quiet
    BY <1>2, <1>3, <2>3 DEF Follows
  <2>6. Current(o) => Reported(key[o], m.conds)
    <3> SUFFICES ASSUME Current(o) PROVE Reported(key[o], m.conds)
      OBVIOUS
    <3>1. Reported(key[o], obj[o].conds)
      BY <1>1, <1>2, <2>2, ReportsStay DEF Follows
    <3>2. m.conds[t] = "True" => execs'[key[o]][c] = 1
      BY <1>3, <2>2, <2>3
    <3> QED
      BY <1>3, <2>3, <2>4, <3>1, <3>2, ConditionsAssumption DEF Reported
  <2> HIDE DEF m
  <2>7. /\ next \notin Early /\ next \notin {"cancel", "complete", "copy", "saveCopy"}
        /\ Go(o, next, m)
    BY <1>3 DEF Early, m
  <2>8. todo'[o] \subseteq todo[o] /\ \A q \in Operators \ {o} : todo'[q] = todo[q]
    BY <1>1
  <2> QED
    BY <1>1, <1>3, <2>1, <2>2, <2>3, <2>4, <2>5, <2>6, <2>7, <2>8, RunReports
<1>4. CASE QuietDown(o)
  BY <1>3, <1>4 DEF QuietDown, Exec
<1>5. CASE CancelQuietDown(o)
  BY <1>3, <1>5 DEF CancelQuietDown, Exec
<1> QED
  BY <1>4, <1>5

LEMMA FileReports ==
  ASSUME ReportInv, NEW o \in Operators, MakeDirectory(o) \/ CopyLocation(o)
  PROVE  InOrder /\ ScriptInv'
<1> DEFINE failed == SetCondition(obj[o], "BackupCompleted", "False")
<1>1. Claimed(o) /\ UNCHANGED <<api, strat, plan>> /\ SkeletonTypeOK
  BY DEF MakeDirectory, CopyLocation, Claimed, Early, serverVars, ReportInv, Inv, TypeOK
<1>2. Follows(o) /\ obj[o] \in Object /\ key[o] \in Objects
  BY <1>1, HeldMarked DEF ReportInv, ScriptInv
<1>3. /\ failed \in Object /\ failed.uid = obj[o].uid
      /\ failed.conds["BackupCompleted"] = "False"
      /\ \A u \in Conditions \ {"BackupCompleted"} : failed.conds[u] = obj[o].conds[u]
  BY <1>2, SetConditionMarks, ConditionsAssumption
<1> HIDE DEF failed
<1>4. ASSUME NEW c \in Ahead(o), c \in Command, c \notin {"quietDown", "cancelQuietDown"},
             c \in Location => c \in todo[o] /\ pc[o] = "copy", c = "mkdir" => pc[o] = "mkdir",
             \A l \in todo[o] : c \in Location => Before[c] <= Before[l],
             NEW ran \in BOOLEAN, Record(o, c, ran),
             NEW next, NEW m \in {obj[o], failed}, Go(o, next, m),
             next \notin Early, next # "saveCancel",
             next = "cancel" => strat[o].quiet, next = "complete" => ~ strat[o].quiet,
             next \in {"copy", "saveCopy"} =>
               c \in Location \/ (c = "mkdir" /\ ran /\ next = "copy"),
             todo'[o] \subseteq todo[o] \ {c}, \A q \in Operators \ {o} : todo'[q] = todo[q]
      PROVE  InOrder /\ ScriptInv'
  <2>1. /\ InOrder /\ \A b \in Objects : Kept(b)
        /\ ran /\ Current(o) =>
             \A d \in Command : execs'[key[o]][d] = IF d = c THEN 1 ELSE execs[key[o]][d]
    BY <1>1, <1>4, CommandRuns DEF Go
  <2>2. /\ m \in Object /\ m.uid = obj[o].uid /\ m.conds["BackupCompleted"] # "True"
        /\ \A u \in Conditions \ {"BackupCompleted"} : m.conds[u] = obj[o].conds[u]
    BY <1>1, <1>2, <1>3, <1>4 DEF Follows
  <2>3. Current(o) => Reported(key[o], m.conds)
    <3> SUFFICES ASSUME Current(o) PROVE Reported(key[o], m.conds)
      OBVIOUS
    <3>1. Reported(key[o], obj[o].conds)
      BY <1>1, <1>2, <2>1, ReportsStay DEF Follows
    <3> QED
      BY <2>2, <3>1, ConditionsAssumption DEF Reported
  <2>4. ASSUME Current(o), next \in {"copy", "saveCopy"}
        PROVE  /\ execs'[key[o]]["mkdir"] = 1
               /\ \A l \in Location, n \in todo'[o] :
                    execs'[key[o]][l] # 0 => Before[l] < Before[n]
    <3>1. CASE c = "mkdir" /\ ran
      <4>1. \A l \in Location : execs[key[o]][l] = 0
        BY <1>1, <1>4, <2>4, <3>1
           DEF ReportInv, Inv, RunsOnceInv, AheadUnrun, Ahead, Command, Location
      <4> QED
        BY <2>1, <2>4, <3>1, <4>1 DEF Command, Location
    <3>2. CASE c \in Location
      <4>1. CopiesInOrder(o) /\ pc[o] = "copy" /\ c # "mkdir"
        BY <1>1, <1>2, <1>4, <2>4, <3>2 DEF Follows, Location
      <4>2. \A d \in Command : d # c => execs'[key[o]][d] = execs[key[o]][d]
        BY <1>4, <2>1, <2>4 DEF Record
      <4>3. execs'[key[o]]["mkdir"] = 1
        BY <4>1, <4>2 DEF CopiesInOrder, Command
      <4>4. ASSUME NEW l \in Location, NEW n \in todo'[o], execs'[key[o]][l] # 0
            PROVE  Before[l] < Before[n]
        <5>1. n \in todo[o] /\ n # c /\ n \in Location
          BY <1>1, <1>4 DEF SkeletonTypeOK
        <5>2. CASE l = c
          <6>1. Before[c] <= Before[n]
            BY <1>4, <3>2, <5>1
          <6> QED
            BY <3>2, <5>1, <5>2, <6>1 DEF Before, Location
        <5>3. CASE l # c
          BY <4>1, <4>2, <4>4, <5>1, <5>3 DEF CopiesInOrder, Command
        <5> QED
          BY <5>2, <5>3
      <4> QED
        BY <4>3, <4>4
    <3> QED
      BY <1>4, <2>4, <3>1, <3>2
  <2> QED
    BY <1>1, <1>4, <2>1, <2>2, <2>3, <2>4, RunReports
<1>5. AfterBackup(o) \notin Early \cup {"saveCancel"}
      /\ (AfterBackup(o) = "cancel" => strat[o].quiet)
      /\ (AfterBackup(o) = "complete" => ~ strat[o].quiet)
  BY DEF AfterBackup, Early
<1>6. CASE MakeDirectory(o)
  <2>1. PICK ran, ok \in BOOLEAN :
          /\ Record(o, "mkdir", ran)
          /\ ok => ran
          /\ IF ok
             THEN Go(o, IF todo[o] = {} THEN AfterBackup(o) ELSE "copy", obj[o])
             ELSE Go(o, "saveMkdir", failed)
    BY <1>6 DEF MakeDirectory, Exec, failed
  <2>2. "mkdir" \in Ahead(o) /\ "mkdir" \in Command /\ "mkdir" \notin Location
    BY <1>6 DEF MakeDirectory, Ahead, Command, Location
  <2>3. /\ pc[o] = "mkdir" /\ todo'[o] \subseteq todo[o] \ {"mkdir"}
        /\ \A q \in Operators \ {o} : todo'[q] = todo[q]
    BY <1>1, <1>6 DEF MakeDirectory, SkeletonTypeOK, Location
  <2>4. ASSUME NEW next \in {AfterBackup(o), "copy", "saveMkdir"},
               NEW m \in {obj[o], failed}, Go(o, next, m), next = "copy" => ran
        PROVE  InOrder /\ ScriptInv'
    <3>1. next \notin Early /\ next # "saveCancel" /\ (next = "cancel" => strat[o].quiet)
          /\ (next = "complete" => ~ strat[o].quiet)
      BY <1>5 DEF Early
    <3>2. next \in {"copy", "saveCopy"} => ran /\ next = "copy"
      BY <2>4 DEF AfterBackup
    <3> QED
      BY <1>4, <2>1, <2>2, <2>3, <2>4, <3>1, <3>2
  <2> QED
    BY <2>1, <2>4 DEF AfterBackup
<1>7. CASE CopyLocation(o)
  <2>1. PICK l \in todo[o], ran, ok \in BOOLEAN :
          /\ \A m \in todo[o] : Before[l] <= Before[m]
          /\ todo' = [todo EXCEPT ![o] = @ \ {l}]
          /\ Record(o, l, ran)
          /\ IF ok THEN Go(o, "copy", obj[o]) ELSE Go(o, "saveCopy", failed)
    BY <1>7 DEF CopyLocation, failed
  <2>2. /\ l \in Ahead(o) /\ l \in Command /\ pc[o] = "copy"
        /\ l \in Location /\ l \notin {"mkdir", "quietDown", "cancelQuietDown"}
    BY <1>1, <1>7 DEF CopyLocation, Ahead, Command, Location, SkeletonTypeOK
  <2>3. todo'[o] \subseteq todo[o] \ {l} /\ \A q \in Operators \ {o} : todo'[q] = todo[q]
    BY <1>1, <2>1 DEF SkeletonTypeOK
  <2>4. ASSUME NEW next \in {"copy", "saveCopy"}, NEW m \in {obj[o], failed},
               Go(o, next, m)
        PROVE  InOrder /\ ScriptInv'
    BY <1>4, <2>1, <2>2, <2>3, <2>4 DEF Early
  <2> QED
    BY <2>1, <2>4
<1> QED
  BY <1>6, <1>7

\* A status write after the first one, of what the worker holds or a mark more.
LEMMA WriteReports ==
  ASSUME ReportInv, NEW o \in Operators, Claimed(o), UNCHANGED <<execs, plan>>,
         NEW m \in Object, m.rv = obj[o].rv, NEW next \in Stage, Update(o, m, next),
         Current(o) => Reports(key[o], m.conds),
         next # "idle" =>
           /\ next \notin Early \cup {"saveCancel"}
           /\ m.conds["BackupCompleted"] # "True"
           /\ next = "cancel" => strat[o].quiet
           /\ next = "complete" /\ strat[o].quiet =>
                m.conds["QuietDownCancelled"] # "unset"
           /\ next \in {"copy", "saveCopy"} => pc[o] \in {"copy", "saveCopy"}
  PROVE  InOrder /\ ScriptInv'
<1> DEFINE k == key[o]
           n == Stored(k, m)
<1>1. /\ SkeletonTypeOK /\ SkeletonInv /\ Follows(o)
      /\ k \in Objects /\ pc[o] # "idle"
  BY HeldMarked DEF ReportInv, Inv, TypeOK, RunsOnceInv, ScriptInv, Claimed, Early
<1>2. InOrder /\ \A b \in Objects : Kept(b) /\ Untouched(b)
  BY NothingRuns DEF ReportInv
<1>3. \/ /\ Accepts(k, m) /\ api' = [api EXCEPT ![k] = n] /\ next # "idle"
         /\ Go(o, next, n) /\ UNCHANGED <<strat, todo>>
      \/ Accepts(k, m) /\ api' = [api EXCEPT ![k] = n] /\ Return(o)
      \/ api' = api /\ Return(o)
  BY <1>1, UpdateOutcomes
<1>4. ASSUME Accepts(k, m)
      PROVE  /\ n.live /\ n.uid = api[k].uid /\ n.conds = m.conds
             /\ api[k].live /\ Current(o)
  <2>1. n.live /\ n.uid = api[k].uid /\ n.conds = m.conds
    BY <1>1, <1>4, StoredTyped DEF SkeletonTypeOK
  <2>2. Current(o) /\ api[k].live
    BY <1>1, <1>4 DEF SkeletonInv, HeldBehind, Accepts
  <2> QED
    BY <2>1, <2>2
<1> HIDE DEF n
<1>5. ASSUME NEW b \in Objects PROVE Reports(b, api[b].conds)'
  <2>1. CASE api'[b] = api[b]
    BY <1>2, <2>1, StatusStays
  <2>2. CASE b = k /\ Accepts(k, m) /\ api'[k] = n
    BY <1>4, <2>2 DEF Reports
  <2> QED
    BY <1>1, <1>3, <2>1, <2>2 DEF SkeletonTypeOK
<1>6. ASSUME NEW q \in Operators \ {o} PROVE Follows(q)'
  <2>1. /\ pc'[q] = pc[q] /\ key'[q] = key[q] /\ obj'[q] = obj[q]
        /\ strat'[q] = strat[q] /\ todo'[q] = todo[q]
    BY <1>1, <1>3, ReturnFollows DEF Go, SkeletonTypeOK, ReportInv
  <2>2. ASSUME Claimed(q), Current(q)' PROVE Current(q) /\ Untouched(key[q])
    <3>1. key[q] \in Objects
      BY <2>2, HeldMarked DEF ReportInv
    <3>2. api'[key[q]] = api[key[q]] \/ (key[q] = k /\ Accepts(k, m) /\ api'[k] = n)
      BY <1>1, <1>3, <3>1 DEF SkeletonTypeOK
    <3> QED
      BY <1>2, <1>4, <2>1, <2>2, <3>1, <3>2 DEF Current
  <2> QED
    BY <2>1, <2>2, WorkerStays
<1>7. Follows(o)'
  <2>1. CASE Return(o)
    BY <2>1, ReturnFollows DEF ReportInv
  <2>2. CASE /\ Accepts(k, m) /\ api' = [api EXCEPT ![k] = n] /\ next # "idle"
             /\ Go(o, next, n) /\ UNCHANGED <<strat, todo>>
    <3>1. /\ pc'[o] = next /\ key'[o] = k /\ obj'[o] = n /\ strat'[o] = strat[o]
          /\ todo'[o] = todo[o]
      BY <1>1, <2>2 DEF Go, SkeletonTypeOK
    <3>2. (plan[key[o]] = strat[o] /\ Reports(key[o], obj[o].conds))'
      BY <1>1, <1>4, <2>2, <3>1 DEF Follows, Reports
    <3>3. CopiesInOrder(o)'
      <4>1. next \in {"copy", "saveCopy"} => CopiesInOrder(o) /\ pc[o] \in {"copy", "saveCopy"}
        BY <1>1, <1>4, <2>2 DEF Follows
      <4> QED
        BY <3>1, <4>1 DEF CopiesInOrder
    <3> QED
      BY <1>1, <1>4, <2>2, <3>1, <3>2, <3>3 DEF Follows, Claimed
  <2> QED
    BY <1>3, <2>1, <2>2
<1> QED
  BY <1>2, <1>5, <1>6, <1>7 DEF ScriptInv, StatusReportsRun

LEMMA SaveReports ==
  ASSUME ReportInv, NEW o \in Operators,
         \/ SaveQuietDown(o)   \/ SaveMakeDirectory(o) \/ SaveCopyFailure(o)
         \/ SaveCopies(o)      \/ SaveCancel(o)        \/ Complete(o)
  PROVE  InOrder /\ ScriptInv'
<1>0. Follows(o)
  BY DEF ReportInv, ScriptInv
<1>1. CASE Complete(o)
  <2> DEFINE m == SetCondition(obj[o], "BackupCompleted", "True")
  <2>1. Claimed(o) /\ "idle" \in Stage /\ pc[o] = "complete"
    BY <1>1 DEF Complete, Claimed, Early, Stage
  <2>2. /\ m \in Object /\ m.rv = obj[o].rv /\ obj[o] \in Object
        /\ \A u \in Conditions \ {"BackupCompleted"} : m.conds[u] = obj[o].conds[u]
    BY <2>1, HeldMarked, SetConditionMarks, ConditionsAssumption DEF ReportInv
  <2>3. Update(o, m, "idle") /\ UNCHANGED <<execs, plan>>
    BY <1>1 DEF Complete
  <2> HIDE DEF m
  <2>4. Current(o) => Reports(key[o], m.conds)
    BY <1>0, <2>1, <2>2, ConditionsAssumption DEF Follows, Reports
  <2> QED
    BY <2>1, <2>2, <2>3, <2>4, WriteReports
<1>2. CASE \/ SaveQuietDown(o)   \/ SaveMakeDirectory(o) \/ SaveCopyFailure(o)
           \/ SaveCopies(o)      \/ SaveCancel(o)
  <2>1. PICK at, next \in BackupStages :
          /\ SaveStatus(o, at, next)
          /\ next # "saveCancel"
          /\ next = "cancel" => strat[o].quiet
          /\ next = "complete" => at = "saveCancel" \/ ~ strat[o].quiet
          /\ next \in {"copy", "saveCopy"} => at = "saveCopy"
    BY <1>2 DEF SaveQuietDown, SaveMakeDirectory, SaveCopyFailure, SaveCopies,
       SaveCancel, AfterBackup, BackupStages
  <2>2. /\ Claimed(o) /\ next \in Stage /\ next \notin Early /\ pc[o] = at
        /\ Update(o, obj[o], next) /\ UNCHANGED <<execs, plan>>
    BY <2>1 DEF SaveStatus, Save, Claimed, Early, BackupStages, Stage
  <2>3. obj[o] \in Object
    BY <2>2, HeldMarked DEF ReportInv
  <2> QED
    BY <1>0, <2>1, <2>2, <2>3, WriteReports DEF Follows
<1> QED
  BY <1>1, <1>2

\* The first write: what it says of the script is that nothing ran yet, and
\* only a worker that goes on with the strategy it fetched sets the plan.
LEMMA InitializeReports ==
  ASSUME ReportInv, NEW o \in Operators, InitializeBackup(o)
  PROVE  InOrder /\ ScriptInv'
<1> DEFINE k == key[o]
<1>1. /\ SkeletonTypeOK /\ SkeletonInv /\ Follows(o) /\ pc[o] = "init" /\ k \in Objects
      /\ ~ Claimed(o) /\ obj[o] \in Object /\ obj[o].conds = NoConditions
      /\ execs' = execs /\ plan \in [Objects -> Strategy]
  BY DEF InitializeBackup, Initialize, ReportInv, Inv, TypeOK, RunsOnceInv, ScriptInv,
     SkeletonInv, HeldBehind, SkeletonTypeOK, Claimed, Early, Follows
<1>2. PICK v \in {"True", "False"}, next \in {"quietDown", "mkdir", "idle"} :
        /\ Update(o, SetCondition(obj[o], "BackupInitialized", v), next)
        /\ claims' = claims \/ (pc'[o] = next /\ next # "idle")
        /\ next # "idle" => claims' = [claims EXCEPT ![k] =
                              IF Current(o) /\ pc'[o] = next THEN @ + 1 ELSE @]
        /\ plan' = [plan EXCEPT ![k] = IF claims'[k] # claims[k] THEN strat[o] ELSE @]
  <2>1. plan' = [plan EXCEPT ![k] = IF claims'[k] # claims[k] THEN strat[o] ELSE @]
    BY DEF InitializeBackup
  <2>2. claims \in [Objects -> Nat]
    BY <1>1 DEF SkeletonTypeOK
  <2>3. ASSUME NEW next \in {"quietDown", "mkdir"},
               Update(o, SetCondition(obj[o], "BackupInitialized", "True"), next),
               claims' = [claims EXCEPT ![k] =
                            IF Current(o) /\ pc'[o] = next THEN @ + 1 ELSE @]
        PROVE  claims' = claims \/ (pc'[o] = next /\ next # "idle")
    BY <1>1, <2>2, <2>3
  <2> QED
    BY <2>1, <2>3 DEF InitializeBackup, Initialize
<1> DEFINE m == SetCondition(obj[o], "BackupInitialized", v)
           n == Stored(k, m)
<1>3. /\ m \in Object /\ m.rv = obj[o].rv
      /\ \A u \in Conditions \ {"BackupInitialized"} : m.conds[u] = "unset"
  <2>1. "BackupInitialized" \in Conditions
    BY ConditionsAssumption
  <2> QED
    BY <1>1, <2>1, SetConditionMarks DEF NoConditions
<1>4. \/ /\ Accepts(k, m) /\ api' = [api EXCEPT ![k] = n] /\ next # "idle"
         /\ Go(o, next, n) /\ UNCHANGED <<strat, todo>>
      \/ Accepts(k, m) /\ api' = [api EXCEPT ![k] = n] /\ Return(o)
      \/ api' = api /\ Return(o)
  <2>1. next \in Stage
    BY DEF Stage, BackupStages, Early
  <2> QED
    BY <1>1, <1>2, <1>3, <2>1, UpdateOutcomes
<1> HIDE DEF m
<1>5. ASSUME Accepts(k, m)
      PROVE  /\ n.live /\ n.uid = api[k].uid /\ n.conds = m.conds
             /\ api[k].live /\ Current(o) /\ api[k].conds = NoConditions
  <2>1. n.live /\ n.uid = api[k].uid /\ n.conds = m.conds
    BY <1>1, <1>3, <1>5, StoredTyped DEF SkeletonTypeOK
  <2>2. Current(o) /\ api[k].live /\ api[k].conds = NoConditions
    BY <1>1, <1>3, <1>5 DEF SkeletonInv, HeldBehind, Accepts
  <2> QED
    BY <2>1, <2>2
<1> HIDE DEF n
<1>6. InOrder
  BY <1>1, NothingRuns DEF ReportInv
<1>7. \A b \in Objects : b # k \/ Return(o) => Kept(b) /\ Untouched(b)
  <2>1. Return(o) => claims' = claims
    BY <1>1, <1>2 DEF Return, SkeletonTypeOK
  <2>2. \A b \in Objects : b # k \/ Return(o) => plan'[b] = plan[b]
    BY <1>1, <1>2, <2>1
  <2> QED
    BY <1>1, <2>2, NothingRuns DEF ReportInv
<1>8. ASSUME NEW b \in Objects PROVE Reports(b, api[b].conds)'
  <2>1. CASE b # k \/ (api' = api /\ Return(o))
    <3>1. api'[b] = api[b] /\ Kept(b)
      BY <1>1, <1>4, <1>7, <1>5, <2>1 DEF SkeletonTypeOK
    <3> QED
      BY <3>1, StatusStays
  <2>2. CASE b = k /\ Accepts(k, m) /\ api' = [api EXCEPT ![k] = n]
    <3>1. api'[b].conds = m.conds
      BY <1>1, <1>5, <2>2 DEF SkeletonTypeOK
    <3> QED
      BY <1>3, <3>1, ConditionsAssumption DEF Reports
  <2> QED
    BY <1>4, <2>1, <2>2
<1>9. ASSUME NEW q \in Operators \ {o} PROVE Follows(q)'
  <2>1. /\ pc'[q] = pc[q] /\ key'[q] = key[q] /\ obj'[q] = obj[q]
        /\ strat'[q] = strat[q] /\ todo'[q] = todo[q]
    BY <1>1, <1>4, ReturnFollows DEF Go, SkeletonTypeOK, ReportInv
  <2>2. ASSUME Claimed(q), Current(q)' PROVE Current(q) /\ Untouched(key[q])
    <3>1. key[q] \in Objects
      BY <2>2, HeldMarked DEF ReportInv
    <3>2. CASE key[q] # k \/ (api' = api /\ Return(o))
      <4>1. api'[key[q]] = api[key[q]] /\ Untouched(key[q])
        BY <1>1, <1>4, <1>7, <3>1, <3>2 DEF SkeletonTypeOK
      <4> QED
        BY <2>1, <2>2, <4>1 DEF Current
    <3>3. CASE key[q] = k /\ Accepts(k, m) /\ api' = [api EXCEPT ![k] = n]
      <4>1. Current(q)
        BY <1>1, <1>5, <2>1, <2>2, <3>3 DEF Current, SkeletonTypeOK
      <4> QED
        BY <1>1, <1>5, <2>2, <3>3, <4>1 DEF SkeletonInv, OneClaimant
    <3> QED
      BY <1>4, <3>2, <3>3
  <2> QED
    BY <2>1, <2>2, WorkerStays
<1>10. Follows(o)'
  <2>1. CASE Return(o)
    BY <2>1, ReturnFollows DEF ReportInv
  <2>2. CASE /\ Accepts(k, m) /\ api' = [api EXCEPT ![k] = n] /\ next # "idle"
             /\ Go(o, next, n) /\ UNCHANGED <<strat, todo>>
    <3>1. /\ pc'[o] = next /\ key'[o] = k /\ obj'[o] = n /\ strat'[o] = strat[o]
          /\ todo'[o] = todo[o]
      BY <1>1, <2>2 DEF Go, SkeletonTypeOK
    <3>2. plan'[k] = strat[o]
      BY <1>1, <1>2, <1>5, <2>2, <3>1 DEF SkeletonTypeOK
    <3>3. (plan[key[o]] = strat[o] /\ Reports(key[o], obj[o].conds))'
      BY <1>3, <1>5, <2>2, <3>1, <3>2, ConditionsAssumption DEF Reports
    <3>4. obj'[o].conds["BackupCompleted"] = "unset"
      BY <1>3, <1>5, <2>2, <3>1, ConditionsAssumption
    <3>5. CopiesInOrder(o)'
      BY <2>2, <3>1 DEF CopiesInOrder
    <3> QED
      BY <1>1, <2>2, <3>1, <3>3, <3>4, <3>5 DEF Follows, Claimed, Early
  <2> QED
    BY <1>4, <2>1, <2>2
<1> QED
  BY <1>6, <1>8, <1>9, <1>10 DEF ScriptInv, StatusReportsRun

\* Steps of the skeleton that write no status: one worker at most takes part,
\* and it has not written, or has returned.
LEMMA CalmReports ==
  ASSUME ReportInv, UNCHANGED <<execs, plan>>,
         \A b \in Objects : api'[b].conds \in {api[b].conds, NoConditions},
         \A b \in Objects : api'[b].live => api[b].live /\ api'[b].uid = api[b].uid,
         NEW o \in Operators,
         \/ UNCHANGED <<pc, key, obj, strat, todo>>
         \/ Follows(o)',
         \A q \in Operators \ {o} :
           /\ pc'[q] = pc[q] /\ key'[q] = key[q] /\ obj'[q] = obj[q]
           /\ strat'[q] = strat[q] /\ todo'[q] = todo[q]
  PROVE  InOrder /\ ScriptInv'
<1>1. InOrder /\ \A b \in Objects : Kept(b) /\ Untouched(b)
  BY NothingRuns DEF ReportInv
<1>2. StatusReportsRun'
  BY <1>1, StatusStays DEF StatusReportsRun
<1>3. ASSUME NEW q \in Operators, pc'[q] = pc[q], key'[q] = key[q], obj'[q] = obj[q],
             strat'[q] = strat[q], todo'[q] = todo[q]
      PROVE  Follows(q)'
  <2>1. ASSUME Claimed(q), Current(q)' PROVE Current(q) /\ Untouched(key[q])
    BY <1>1, <1>3, <2>1, HeldMarked DEF Current, ReportInv
  <2> QED
    BY <1>3, <2>1, WorkerStays
<1> QED
  BY <1>1, <1>2, <1>3 DEF ScriptInv

LEMMA WorkerReports ==
  ASSUME ReportInv, NEW o \in Operators,
         \/ \E found \in Lookup : FetchRefs(o, found)
         \/ \E b \in Objects : TakeBackup(o, b)
         \/ Crash(o) /\ UNCHANGED <<execs, plan>>
  PROVE  InOrder /\ ScriptInv'
<1>0. SkeletonTypeOK /\ Follows(o)
  BY DEF ReportInv, Inv, TypeOK, ScriptInv
<1>1. UNCHANGED <<api, execs, plan>>
  BY DEF FetchRefs, Fetch, GiveUp, Restart, TakeBackup, Dequeue, Crash, serverVars
<1>2. CASE Return(o)
  BY <1>1, <1>2, CalmReports, ReturnFollows DEF ReportInv
<1>3. CASE \E found \in Lookup : FetchRefs(o, found)
  <2>1. Return(o) \/ (Go(o, "init", obj[o]) /\ pc[o] = "refs" /\ \E s \in Strategies :
             /\ strat' = [strat EXCEPT ![o] = s]
             /\ todo'  = [todo EXCEPT ![o] = s.opts])
    BY <1>3 DEF FetchRefs, Fetch, GiveUp, Restart
  <2>2. CASE Go(o, "init", obj[o]) /\ pc[o] = "refs" /\ \E s \in Strategies :
             /\ strat' = [strat EXCEPT ![o] = s]
             /\ todo'  = [todo EXCEPT ![o] = s.opts]
    <3>1. /\ pc'[o] = "init" /\ obj'[o] = obj[o] /\ todo'[o] \subseteq strat'[o].opts
          /\ obj[o].conds = NoConditions
      BY <1>0, <2>2 DEF Go, SkeletonTypeOK, Follows, Claimed, Early
    <3>2. Follows(o)'
      BY <3>1, WorkerEarly DEF Early
    <3>3. \A q \in Operators \ {o} :
            /\ pc'[q] = pc[q] /\ key'[q] = key[q] /\ obj'[q] = obj[q]
            /\ strat'[q] = strat[q] /\ todo'[q] = todo[q]
      BY <1>0, <2>2 DEF Go, SkeletonTypeOK
    <3> QED
      BY <1>1, <3>2, <3>3, CalmReports
  <2> QED
    BY <1>2, <2>1, <2>2
<1>4. CASE \E b \in Objects : TakeBackup(o, b)
  <2>1. PICK b \in Objects : Dequeue(o, b)
    BY <1>4 DEF TakeBackup
  <2>2. UNCHANGED <<strat, todo>>
    BY <2>1 DEF Dequeue
  <2>3. \/ UNCHANGED <<pc, key, obj>>
        \/ /\ pc' = [pc EXCEPT ![o] = "refs"] /\ key' = [key EXCEPT ![o] = b]
           /\ obj' = [obj EXCEPT ![o] = cache[o][b]]
           /\ cache[o][b].conds = NoConditions
    BY <2>1 DEF Dequeue, Unmarked
  <2>4. UNCHANGED <<pc, key, obj, strat, todo>> \/ Follows(o)'
    <3>1. ASSUME pc' = [pc EXCEPT ![o] = "refs"], cache[o][b].conds = NoConditions,
                 obj' = [obj EXCEPT ![o] = cache[o][b]]
          PROVE  Follows(o)'
      BY <1>0, <2>2, <3>1, WorkerEarly DEF SkeletonTypeOK, Follows, Early
    <3> QED
      BY <2>2, <2>3, <3>1
  <2>5. \A q \in Operators \ {o} :
          /\ pc'[q] = pc[q] /\ key'[q] = key[q] /\ obj'[q] = obj[q]
          /\ strat'[q] = strat[q] /\ todo'[q] = todo[q]
    BY <1>0, <2>2, <2>3 DEF SkeletonTypeOK
  <2> QED
    BY <1>1, <2>4, <2>5, CalmReports
<1>5. CASE Crash(o)
  BY <1>2, <1>5 DEF Crash, Restart
<1> QED
  BY <1>3, <1>4, <1>5

LEMMA CreateReports ==
  ASSUME ReportInv, NEW b \in Objects, CreateBackup(b)
  PROVE  InOrder /\ ScriptInv'
<1>1. /\ SkeletonTypeOK /\ SkeletonInv
      /\ execs \in [Objects -> [Command -> Nat]] /\ plan \in [Objects -> Strategy]
  BY DEF ReportInv, Inv, TypeOK, RunsOnceInv
<1>2. /\ UNCHANGED <<pc, key, obj, strat, todo>>
      /\ api'[b].conds = NoConditions /\ api'[b].uid = api[b].uid + 1
      /\ \A a \in Objects \ {b} :
           api'[a] = api[a] /\ execs'[a] = execs[a] /\ plan'[a] = plan[a]
      /\ execs'[b] = [c \in Command |-> 0]
  BY <1>1 DEF CreateBackup, Create, localVars, Revision, SkeletonTypeOK
<1>3. InOrder
  BY <1>1, <1>2 DEF InOrder
<1>4. \A a \in Objects \ {b} : Kept(a) /\ Untouched(a)
  BY <1>1, <1>2 DEF Kept, Untouched
<1>5. StatusReportsRun'
  BY <1>2, <1>4, StatusStays DEF StatusReportsRun
<1>6. ASSUME NEW q \in Operators PROVE Follows(q)'
  <2>1. ASSUME Claimed(q), Current(q)' PROVE Current(q) /\ Untouched(key[q])
    <3>1. key[q] \in Objects /\ obj[q].uid <= api[key[q]].uid
      BY <1>1, <2>1 DEF SkeletonInv, HeldBehind, Claimed, Early
    <3>2. obj[q].uid \in Nat /\ api[b].uid \in Nat
      BY <1>1 DEF SkeletonTypeOK, Object
    <3>3. key[q] # b
      BY <1>2, <2>1, <3>1, <3>2 DEF Current
    <3> QED
      BY <1>2, <1>4, <2>1, <3>1, <3>3 DEF Current
  <2> QED
    BY <1>2, <2>1, WorkerStays
<1> QED
  BY <1>3, <1>5, <1>6 DEF ScriptInv

LEMMA StepReports ==
  ASSUME ReportInv, [Next]_vars
  PROVE  InOrder /\ ScriptInv'
<1>0. SkeletonTypeOK
  BY DEF ReportInv, Inv, TypeOK
<1>1. ASSUME UNCHANGED <<pc, key, obj, strat, todo, execs, plan>>,
             \A b \in Objects : api'[b].conds \in {api[b].conds, NoConditions},
             \A b \in Objects : api'[b].live => api[b].live /\ api'[b].uid = api[b].uid
      PROVE  InOrder /\ ScriptInv'
  <2>1. CASE Operators = {}
    BY <1>1, <2>1, NothingRuns, StatusStays DEF ReportInv, ScriptInv, StatusReportsRun
  <2>2. CASE Operators # {}
    BY <1>1, <2>2, CalmReports
  <2> QED
    BY <2>1, <2>2
<1>2. CASE World
  <2>1. UNCHANGED <<execs, plan>>
    BY <1>2 DEF World
  <2>2. CASE \/ \E o \in Operators, b \in Objects : Deliver(o, b)
             \/ \E o \in Operators : Resync(o)
    BY <1>1, <2>1, <2>2 DEF Deliver, Resync, localVars
  <2>3. CASE \E b \in Objects : Delete(b) \/ Touch(b)
    <3>1. PICK b \in Objects : Delete(b) \/ Touch(b)
      BY <2>3
    <3>2. /\ UNCHANGED <<pc, key, obj, strat, todo>>
          /\ \A a \in Objects \ {b} : api'[a] = api[a]
          /\ api'[b].conds \in {api[b].conds, NoConditions}
          /\ api'[b].live => api[b].live /\ api'[b].uid = api[b].uid
      BY <1>0, <3>1 DEF Delete, Touch, Revision, localVars, SkeletonTypeOK
    <3> QED
      BY <1>1, <2>1, <3>2
  <2> QED
    BY <1>2, <2>1, <2>2, <2>3, WorkerReports DEF World
<1>3. CASE UNCHANGED vars
  BY <1>1, <1>3 DEF vars, skeletonVars, localVars
<1>4. ASSUME NEW o \in Operators, Work(o) PROVE InOrder /\ ScriptInv'
  BY <1>4, WorkerReports, InitializeReports, QuietReports, FileReports, SaveReports
     DEF Work
<1> QED
  BY <1>2, <1>3, <1>4, WorkerReports, CreateReports DEF Next

LEMMA InitReports == Init => ScriptInv
<1> SUFFICES ASSUME Init PROVE ScriptInv
  OBVIOUS
<1>1. StatusReportsRun
  BY ConditionsAssumption DEF Init, SkeletonInit, StatusReportsRun, Reports, Blank,
     NoConditions
<1>2. \A o \in Operators : Follows(o)
  BY DEF Init, SkeletonInit, Follows, Claimed, Early, Blank
<1> QED
  BY <1>1, <1>2 DEF ScriptInv

\* What the status of a Backup says ran, ran (backup_controller.go:200-297),
\* with stale caches, lost answers, other operators and other Backups.
THEOREM StatusIsTrue == Spec => []StatusReportsRun
<1>1. Init => Inv /\ ScriptInv
  BY InitInv, InitReports
<1>2. Inv /\ ScriptInv /\ [Next]_vars => (Inv /\ ScriptInv)'
  BY NextInv, StepReports DEF ReportInv
<1>3. Inv /\ ScriptInv => StatusReportsRun
  BY DEF ScriptInv
<1> QED
  BY <1>1, <1>2, <1>3, PTL DEF Spec

\* The commands of a Backup run in the order of its script: the quiet-down before
\* all others, mkdir before the copies, which come in the order of
\* performJenkinsBackup, nothing after the cancel; and only those its strategy
\* asks for (backup_controller.go:158-181, 221-273).
THEOREM StepsInOrder == Spec => ScriptInOrder
<1>1. Init => Inv /\ ScriptInv
  BY InitInv, InitReports
<1>2. Inv /\ ScriptInv /\ [Next]_vars => (Inv /\ ScriptInv)' /\ InOrder
  BY NextInv, StepReports DEF ReportInv
<1>3. InOrder <=>
        \A b \in Objects, c \in Command :
          execs'[b][c] > execs[b][c] =>
            /\ execs[b]["cancelQuietDown"] = 0
            /\ c = "quietDown" => \A d \in Command \ {c} : execs[b][d] = 0
            /\ c = "mkdir" => \A l \in Location : execs[b][l] = 0
            /\ c \in Location =>
                 /\ c \in plan[b].opts
                 /\ execs[b]["mkdir"] = 1
                 /\ \A l \in Location : Before[l] >= Before[c] => execs[b][l] = 0
            /\ c = "cancelQuietDown" => plan[b].quiet
  BY DEF InOrder
<1> QED
  BY <1>1, <1>2, <1>3, PTL DEF Spec, ScriptInOrder

---------------------------------------------------------------------------
(* Who leaves Jenkins in quiet-down, with one operator.                    *)

QuietHyp == Inv /\ Inv' /\ QuietInv /\ OneOperator /\ ~ JenkinsMayRefuse

\* One worker there is, so what it does is all that happens to ownership.
LEMMA QuietWorker ==
  ASSUME QuietHyp, NEW o \in Operators,
         \A b \in quieted' : Excused(b)' \/ Owns(o, b)',
         pc'[o] = "quietDown" => strat'[o].quiet,
         \A b \in quieted' : Owns(o, b)' /\ execs'[b]["quietDown"] # 0 => Cancels(o)',
         (Claimed(o) /\ api[key[o]].live /\ ~ Current(o))' =>
           api'[key'[o]].conds = NoConditions
  PROVE  QuietInv'
BY DEF QuietInv, QuietHyp, OneOperator

\* The worker returns, or has not got beyond its first write.
LEMMA QuietEnds ==
  ASSUME QuietHyp, NEW o \in Operators, pc'[o] \in Early, UNCHANGED quieted,
         \A b \in quieted :
           IF Owns(o, b) THEN Excused(b)' ELSE Excused(b) => Excused(b)'
  PROVE  QuietInv'
<1>1. ~ Claimed(o)' /\ pc'[o] # "quietDown"
  BY DEF Claimed, Early
<1>2. \A b \in quieted : Excused(b)'
  BY DEF QuietHyp, QuietInv, OneOperator
<1> QED
  BY <1>1, <1>2, QuietWorker DEF Owns

\* The world moves on without the worker.
LEMMA QuietWorld ==
  ASSUME QuietHyp, UNCHANGED <<localVars, quieted, execs, abandoned>>,
         \A b \in Objects : api'[b].live =>
           /\ api[b].live /\ api'[b].uid = api[b].uid /\ api'[b].conds = api[b].conds
  PROVE  QuietInv'
<1>1. UNCHANGED <<pc, key, obj, strat>>
  BY DEF localVars
<1>2. quieted \subseteq Objects
  BY DEF QuietHyp, Inv, TypeOK
<1>3. ASSUME NEW b \in quieted PROVE Excused(b)' \/ \E o \in Operators : Owns(o, b)'
  <2>1. CASE Excused(b) \/ ~ api'[b].live
    BY <1>2, <2>1 DEF Excused
  <2>2. CASE api'[b].live /\ \E o \in Operators : Owns(o, b)
    BY <1>1, <1>2, <2>2 DEF Owns, Claimed, Current
  <2> QED
    BY <2>1, <2>2 DEF QuietHyp, QuietInv
<1>4. ASSUME NEW o \in Operators, NEW b \in quieted, Owns(o, b)',
             execs'[b]["quietDown"] # 0
      PROVE  Cancels(o)'
  <2>1. Owns(o, b) /\ execs[b]["quietDown"] # 0
    BY <1>1, <1>2, <1>4 DEF Owns, Claimed, Current
  <2>2. Cancels(o)
    BY <2>1 DEF QuietHyp, QuietInv
  <2> QED
    BY <1>1, <2>2 DEF Cancels
<1>5. ASSUME NEW o \in Operators, (Claimed(o) /\ api[key[o]].live /\ ~ Current(o))'
      PROVE  api'[key'[o]].conds = NoConditions
  <2>1. Claimed(o) /\ key'[o] = key[o]
    BY <1>1, <1>5 DEF Claimed
  <2>2. key[o] \in Objects
    BY <2>1, HeldMarked DEF QuietHyp
  <2>3. api[key[o]].live /\ ~ Current(o) /\ api'[key[o]].conds = api[key[o]].conds
    BY <1>1, <1>5, <2>1, <2>2 DEF Current
  <2> QED
    BY <2>1, <2>3 DEF QuietHyp, QuietInv
<1>6. \A o \in Operators : pc'[o] = "quietDown" => strat'[o].quiet
  BY <1>1 DEF QuietHyp, QuietInv
<1> QED
  BY <1>3, <1>4, <1>5, <1>6 DEF QuietInv

LEMMA QuietCreate ==
  ASSUME QuietHyp, NEW a \in Objects, CreateBackup(a)
  PROVE  QuietInv'
<1>1. /\ SkeletonTypeOK /\ SkeletonInv /\ quieted \subseteq Objects
      /\ execs \in [Objects -> [Command -> Nat]]
  BY DEF QuietHyp, Inv, TypeOK, RunsOnceInv
<1>2. /\ UNCHANGED <<pc, key, obj, strat, quieted>>
      /\ api'[a].conds = NoConditions /\ api'[a].uid = api[a].uid + 1
      /\ execs'[a]["quietDown"] = 0
      /\ \A b \in Objects \ {a} :
           api'[b] = api[b] /\ execs'[b] = execs[b] /\ abandoned'[b] = abandoned[b]
  BY <1>1 DEF CreateBackup, Create, localVars, podVars, Revision, SkeletonTypeOK, Command
<1>3. ASSUME NEW o \in Operators, Claimed(o)'
      PROVE  /\ Claimed(o) /\ key[o] \in Objects
             /\ key[o] # a => Current(o)' = Current(o)
  <2>1. Claimed(o)
    BY <1>2, <1>3 DEF Claimed
  <2> QED
    BY <1>2, <2>1, HeldMarked DEF QuietHyp, Current
<1>4. ASSUME NEW b \in quieted PROVE Excused(b)' \/ \E o \in Operators : Owns(o, b)'
  <2>1. CASE b = a
    BY <1>2, <2>1 DEF Excused
  <2>2. CASE b # a /\ Excused(b)
    BY <1>1, <1>2, <2>2 DEF Excused
  <2>3. CASE b # a /\ \E o \in Operators : Owns(o, b)
    BY <1>1, <1>2, <2>3 DEF Owns, Claimed, Current
  <2> QED
    BY <2>1, <2>2, <2>3 DEF QuietHyp, QuietInv
<1>5. ASSUME NEW o \in Operators, NEW b \in quieted, Owns(o, b)',
             execs'[b]["quietDown"] # 0
      PROVE  Cancels(o)'
  <2>1. Owns(o, b) /\ execs[b]["quietDown"] # 0
    BY <1>1, <1>2, <1>3, <1>5 DEF Owns
  <2>2. Cancels(o)
    BY <2>1 DEF QuietHyp, QuietInv
  <2> QED
    BY <1>2, <2>2 DEF Cancels
<1>6. ASSUME NEW o \in Operators, (Claimed(o) /\ api[key[o]].live /\ ~ Current(o))'
      PROVE  api'[key'[o]].conds = NoConditions
  BY <1>2, <1>3, <1>6 DEF QuietHyp, QuietInv
<1>7. \A o \in Operators : pc'[o] = "quietDown" => strat'[o].quiet
  BY <1>2 DEF QuietHyp, QuietInv
<1> QED
  BY <1>2, <1>4, <1>5, <1>6, <1>7 DEF QuietInv

\* Before the first write: fetching, giving up, and taking the next object.
LEMMA QuietEarly ==
  ASSUME QuietHyp, NEW o \in Operators,
         \/ \E found \in Lookup : FetchRefs(o, found)
         \/ \E b \in Objects : TakeBackup(o, b)
         \/ Crash(o) /\ UNCHANGED <<podVars, execs, plan>>
  PROVE  QuietInv'
<1>0. SkeletonTypeOK /\ quieted \subseteq Objects
  BY DEF QuietHyp, Inv, TypeOK
<1>1. UNCHANGED <<api, quieted, execs>>
  BY DEF FetchRefs, Fetch, GiveUp, Restart, TakeBackup, Dequeue, Crash, serverVars, podVars
<1>2. \A b \in Objects : abandoned[b] => abandoned'[b]
  BY <1>0 DEF FetchRefs, Fetch, GiveUp, Restart, TakeBackup, Dequeue, Crash, serverVars,
     SkeletonTypeOK
<1>3. \A b \in quieted : Excused(b) => Excused(b)'
  BY <1>0, <1>1, <1>2 DEF Excused
<1>4. CASE Crash(o)
  <2>1. pc'[o] \in Early
    BY <1>0, <1>4 DEF Crash, Restart, Return, SkeletonTypeOK, Early
  <2>2. \A b \in quieted : Owns(o, b) => abandoned'[b]
    BY <1>0, <1>4 DEF Crash, Restart, Owns
  <2> QED
    BY <1>1, <1>3, <2>1, <2>2, QuietEnds DEF Excused
<1>5. CASE ~ Crash(o)
  <2>1. pc'[o] \in Early /\ ~ Claimed(o)
    BY <1>0, <1>5 DEF FetchRefs, Fetch, GiveUp, Restart, Return, Go, TakeBackup, Dequeue,
       SkeletonTypeOK, Claimed, Early
  <2> QED
    BY <1>1, <1>3, <2>1, QuietEnds DEF Owns
<1> QED
  BY <1>4, <1>5

\* A status write that goes wrong, after the first, is one given up.
LEMMA UpdateQuits ==
  ASSUME SkeletonTypeOK, NEW o \in Operators, key[o] \in Objects, NEW m, NEW next,
         Update(o, m, next)
  PROVE  /\ \A b \in Objects : abandoned[b] => abandoned'[b]
         /\ \/ /\ Accepts(key[o], m)
               /\ api' = [api EXCEPT ![key[o]] = Stored(key[o], m)]
               /\ \/ next = "idle" /\ Return(o)
                  \/ /\ next # "idle" /\ Go(o, next, Stored(key[o], m))
                     /\ UNCHANGED <<strat, todo>>
            \/ /\ Return(o) /\ (Claimed(o) /\ Current(o) => abandoned'[key[o]])
               /\ \/ api' = api
                  \/ /\ Accepts(key[o], m)
                     /\ api' = [api EXCEPT ![key[o]] = Stored(key[o], m)]
<1>1. CASE UpdateTaken(o, m, next)
  BY <1>1 DEF UpdateTaken
<1>2. CASE UpdateRefused(o, m)
  BY <1>2 DEF UpdateRefused, GiveUp, SkeletonTypeOK
<1>3. CASE UpdateLost(o, m)
  BY <1>3 DEF UpdateLost, GiveUp, SkeletonTypeOK
<1> QED
  BY <1>1, <1>2, <1>3 DEF Update

\* A status write after the first one.
LEMMA QuietWrite ==
  ASSUME QuietHyp, NEW o \in Operators, Claimed(o), UNCHANGED <<execs, podVars>>,
         NEW m \in Object, m.rv = obj[o].rv, NEW next, Update(o, m, next),
         next \notin {"refs", "init", "quietDown"},
         Cancels(o) /\ next \in {"idle", "saveCancel", "complete"} =>
           m.conds["QuietDownCancelled"] = "False"
  PROVE  QuietInv'
<1> DEFINE k == key[o]
           n == Stored(k, m)
<1>1. /\ SkeletonTypeOK /\ SkeletonInv /\ k \in Objects /\ pc[o] # "idle"
      /\ quieted \subseteq Objects /\ UNCHANGED <<execs, quieted>>
  BY HeldMarked DEF QuietHyp, Inv, TypeOK, RunsOnceInv, Claimed, Early, podVars
<1>2. /\ \A b \in Objects : abandoned[b] => abandoned'[b]
      /\ \/ /\ Accepts(k, m) /\ api' = [api EXCEPT ![k] = n]
            /\ \/ next = "idle" /\ Return(o)
               \/ next # "idle" /\ Go(o, next, n) /\ UNCHANGED <<strat, todo>>
         \/ /\ Return(o) /\ (Claimed(o) /\ Current(o) => abandoned'[k])
            /\ api' = api \/ (Accepts(k, m) /\ api' = [api EXCEPT ![k] = n])
  BY <1>1, UpdateQuits
<1>3. ASSUME Accepts(k, m)
      PROVE  n.live /\ n.uid = api[k].uid /\ n.conds = m.conds /\ Current(o)
  <2>1. n.live /\ n.uid = api[k].uid /\ n.conds = m.conds
    BY <1>1, <1>3, StoredTyped DEF SkeletonTypeOK
  <2>2. Current(o)
    BY <1>1, <1>3 DEF SkeletonInv, HeldBehind, Accepts
  <2> QED
    BY <2>1, <2>2
<1> HIDE DEF n
<1>4. \A b \in Objects : ~ Owns(o, b) => api'[b] = api[b]
  BY <1>1, <1>2, <1>3 DEF Owns, SkeletonTypeOK
<1>5. \A b \in quieted : Excused(b) /\ ~ Owns(o, b) => Excused(b)'
  BY <1>1, <1>2, <1>4 DEF Excused
<1>6. CASE Return(o)
  <2>1. pc'[o] \in Early
    BY <1>1, <1>6 DEF Return, SkeletonTypeOK, Early
  <2>2. ASSUME NEW b \in quieted, Owns(o, b) PROVE Excused(b)'
    <3>1. b = k /\ Claimed(o) /\ Current(o)
      BY <2>2 DEF Owns
    <3>2. CASE abandoned'[k] \/ execs[b]["quietDown"] = 0
      BY <1>1, <3>1, <3>2 DEF Excused
    <3>3. CASE ~ abandoned'[k] /\ execs[b]["quietDown"] # 0
      <4>1. Cancels(o)
        BY <2>2, <3>3 DEF QuietHyp, QuietInv
      <4>2. Accepts(k, m) /\ api'[k] = n /\ next = "idle"
        BY <1>1, <1>2, <1>6, <3>1, <3>3 DEF SkeletonTypeOK, Return, Go
      <4> QED
        BY <1>3, <3>1, <4>1, <4>2 DEF Excused
    <3> QED
      BY <3>2, <3>3
  <2> QED
    BY <1>1, <1>5, <2>1, <2>2, QuietEnds
<1>7. CASE /\ Accepts(k, m) /\ api' = [api EXCEPT ![k] = n]
           /\ next # "idle" /\ Go(o, next, n) /\ UNCHANGED <<strat, todo>>
  <2>1. /\ pc'[o] = next /\ key'[o] = k /\ obj'[o] = n /\ strat'[o] = strat[o]
        /\ api'[k] = n
    BY <1>1, <1>7 DEF Go, SkeletonTypeOK
  <2>2. /\ Current(o) /\ Current(o)' /\ Claimed(o)'
    BY <1>3, <1>7, <2>1 DEF Current, Claimed, Early
  <2>3. \A b \in quieted : Excused(b)' \/ Owns(o, b)'
    BY <1>5, <2>1, <2>2 DEF QuietHyp, QuietInv, OneOperator, Owns
  <2>4. ASSUME NEW b \in quieted, Owns(o, b)', execs'[b]["quietDown"] # 0
        PROVE  Cancels(o)'
    <3>1. Owns(o, b) /\ execs[b]["quietDown"] # 0
      BY <1>1, <2>1, <2>2, <2>4 DEF Owns
    <3>2. Cancels(o)
      BY <3>1 DEF QuietHyp, QuietInv
    <3> QED
      BY <1>3, <1>7, <2>1, <3>2 DEF Cancels
  <2> QED
    BY <1>1, <2>1, <2>2, <2>3, <2>4, QuietWorker
<1> QED
  BY <1>2, <1>6, <1>7

LEMMA QuietSaves ==
  ASSUME QuietHyp, NEW o \in Operators,
         \/ SaveQuietDown(o)   \/ SaveMakeDirectory(o) \/ SaveCopyFailure(o)
         \/ SaveCopies(o)      \/ SaveCancel(o)        \/ Complete(o)
  PROVE  QuietInv'
<1>1. CASE Complete(o)
  <2> DEFINE m == SetCondition(obj[o], "BackupCompleted", "True")
  <2>1. Claimed(o) /\ pc[o] = "complete"
    BY <1>1 DEF Complete, Claimed, Early
  <2>2. /\ m \in Object /\ m.rv = obj[o].rv
        /\ m.conds["QuietDownCancelled"] = obj[o].conds["QuietDownCancelled"]
    BY <2>1, HeldMarked, SetConditionMarks, ConditionsAssumption DEF QuietHyp
  <2>3. Update(o, m, "idle") /\ UNCHANGED <<execs, podVars>>
    BY <1>1 DEF Complete
  <2> HIDE DEF m
  <2> QED
    BY <2>1, <2>2, <2>3, QuietWrite DEF Cancels
<1>2. CASE \/ SaveQuietDown(o)   \/ SaveMakeDirectory(o) \/ SaveCopyFailure(o)
           \/ SaveCopies(o)      \/ SaveCancel(o)
  <2>1. PICK at \in BackupStages, next \in {"mkdir", "copy", "cancel", "complete"} :
          /\ SaveStatus(o, at, next)
          /\ next = "complete" => at = "saveCancel" \/ ~ strat[o].quiet
    BY <1>2 DEF SaveQuietDown, SaveMakeDirectory, SaveCopyFailure, SaveCopies,
       SaveCancel, AfterBackup, BackupStages
  <2>2. /\ Claimed(o) /\ pc[o] = at /\ Update(o, obj[o], next)
        /\ UNCHANGED <<execs, podVars>>
    BY <2>1 DEF SaveStatus, Save, Claimed, Early, BackupStages
  <2>3. obj[o] \in Object
    BY <2>2, HeldMarked DEF QuietHyp
  <2> QED
    BY <2>1, <2>2, <2>3, QuietWrite DEF Cancels
<1> QED
  BY <1>1, <1>2

\* The first write: of an object without conditions nothing was executed yet.
LEMMA QuietInitialize ==
  ASSUME QuietHyp, NEW o \in Operators, InitializeBackup(o)
  PROVE  QuietInv'
<1> DEFINE k == key[o]
<1>1. /\ SkeletonTypeOK /\ SkeletonInv /\ k \in Objects /\ pc[o] = "init"
      /\ ~ Claimed(o) /\ obj[o] \in Object
      /\ quieted \subseteq Objects /\ UNCHANGED <<execs, quieted>>
  BY DEF QuietHyp, Inv, TypeOK, RunsOnceInv, InitializeBackup, Initialize, SkeletonInv,
     SkeletonTypeOK, HeldBehind, Claimed, Early, podVars
<1>2. PICK v \in {"True", "False"}, next \in {"quietDown", "mkdir", "idle"} :
        /\ Update(o, SetCondition(obj[o], "BackupInitialized", v), next)
        /\ next = "quietDown" => strat[o].quiet
  BY DEF InitializeBackup, Initialize
<1> DEFINE m == SetCondition(obj[o], "BackupInitialized", v)
           n == Stored(k, m)
<1>3. m \in Object /\ m.rv = obj[o].rv
  BY <1>1, SetConditionMarks, ConditionsAssumption
<1>4. /\ \A b \in Objects : abandoned[b] => abandoned'[b]
      /\ \/ /\ Accepts(k, m) /\ api' = [api EXCEPT ![k] = n]
            /\ \/ next = "idle" /\ Return(o)
               \/ next # "idle" /\ Go(o, next, n) /\ UNCHANGED <<strat, todo>>
         \/ /\ Return(o)
            /\ api' = api \/ (Accepts(k, m) /\ api' = [api EXCEPT ![k] = n])
  BY <1>1, <1>2, UpdateQuits
<1> HIDE DEF m
<1>5. ASSUME Accepts(k, m)
      PROVE  n.live /\ n.uid = api[k].uid /\ Current(o) /\ execs[k]["quietDown"] = 0
  <2>1. n.live /\ n.uid = api[k].uid
    BY <1>1, <1>3, <1>5, StoredTyped DEF SkeletonTypeOK
  <2>2. Current(o) /\ api[k].live /\ api[k].conds = NoConditions
    BY <1>1, <1>3, <1>5 DEF SkeletonInv, HeldBehind, Accepts
  <2> QED
    BY <1>1, <2>1, <2>2 DEF QuietHyp, Inv, RunsOnceInv, FreshUnrun, Command
<1> HIDE DEF n
<1>6. \A b \in quieted : Excused(b)'
  <2>1. \A b \in quieted : Excused(b)
    BY <1>1 DEF QuietHyp, QuietInv, OneOperator, Owns
  <2>2. \A b \in quieted : api'[b] = api[b] \/ execs'[b]["quietDown"] = 0
    BY <1>1, <1>4, <1>5 DEF SkeletonTypeOK
  <2> QED
    BY <1>1, <1>4, <2>1, <2>2 DEF Excused
<1>7. CASE Return(o)
  <2>1. pc'[o] \in Early
    BY <1>1, <1>7 DEF Return, SkeletonTypeOK, Early
  <2> QED
    BY <1>1, <1>6, <2>1, QuietEnds
<1>8. CASE /\ Accepts(k, m) /\ api' = [api EXCEPT ![k] = n] /\ next # "idle"
           /\ Go(o, next, n) /\ UNCHANGED <<strat, todo>>
  <2>1. /\ pc'[o] = next /\ key'[o] = k /\ obj'[o] = n /\ strat'[o] = strat[o]
        /\ api'[k] = n
    BY <1>1, <1>8 DEF Go, SkeletonTypeOK
  <2>2. Current(o)'
    BY <1>5, <1>8, <2>1 DEF Current
  <2>3. \A b \in quieted' : Owns(o, b)' => execs'[b]["quietDown"] = 0
    BY <1>1, <1>5, <1>8, <2>1 DEF Owns
  <2> QED
    BY <1>1, <1>2, <1>6, <2>1, <2>2, <2>3, QuietWorker
<1> QED
  BY <1>4, <1>7, <1>8

\* A command of the worker at its object, which stays that of the worker.
LEMMA QuietCommand ==
  ASSUME QuietHyp, NEW o \in Operators, Claimed(o), UNCHANGED <<serverVars, strat>>,
         NEW next, NEW m, Go(o, next, m), next \notin Early \cup {"quietDown"},
         m.uid = obj[o].uid,
         \A b \in quieted' :
           \/ /\ b \in quieted /\ execs'[b]["quietDown"] = execs[b]["quietDown"]
              /\ next \in {"saveCancel", "complete"} /\ Cancels(o) =>
                   m.conds["QuietDownCancelled"] = "False"
           \/ b = key[o] /\ (Current(o) => next = "saveQuietDown" /\ strat[o].quiet)
              /\ (~ Current(o) /\ api[b].live => execs'[b]["quietDown"] = 0)
  PROVE  QuietInv'
<1>1. SkeletonTypeOK /\ UNCHANGED <<api, abandoned, strat>> /\ key[o] \in Objects
  BY HeldMarked DEF QuietHyp, Inv, TypeOK, serverVars
<1>2. pc'[o] = next /\ key' = key /\ obj'[o] = m /\ Claimed(o)'
  BY <1>1 DEF Go, SkeletonTypeOK, Claimed
<1>3. Current(o)' = Current(o) /\ \A b : Owns(o, b)' = Owns(o, b)
  BY <1>1, <1>2 DEF Current, Owns
<1>4. \A b \in quieted' : Excused(b)' \/ Owns(o, b)'
  <2> SUFFICES ASSUME NEW b \in quieted' PROVE Excused(b)' \/ Owns(o, b)
    BY <1>3
  <2>1. CASE b \in quieted /\ execs'[b]["quietDown"] = execs[b]["quietDown"]
    <3>1. Excused(b) \/ Owns(o, b)
      BY <2>1 DEF QuietHyp, QuietInv, OneOperator
    <3> QED
      BY <1>1, <2>1, <3>1 DEF Excused
  <2>2. CASE b = key[o] /\ (~ Current(o) /\ api[b].live => execs'[b]["quietDown"] = 0)
    BY <1>1, <2>2 DEF Excused, Owns
  <2> QED
    BY <2>1, <2>2
<1>5. ASSUME NEW b \in quieted', Owns(o, b)', execs'[b]["quietDown"] # 0
      PROVE  Cancels(o)'
  <2>1. CASE /\ b \in quieted /\ execs'[b]["quietDown"] = execs[b]["quietDown"]
             /\ next \in {"saveCancel", "complete"} /\ Cancels(o) =>
                  m.conds["QuietDownCancelled"] = "False"
    <3>1. Cancels(o)
      BY <1>3, <1>5, <2>1 DEF QuietHyp, QuietInv
    <3> QED
      BY <1>1, <1>2, <2>1, <3>1 DEF Cancels
  <2>2. CASE Current(o) /\ next = "saveQuietDown" /\ strat[o].quiet
    BY <1>1, <1>2, <2>2 DEF Cancels
  <2> QED
    BY <1>3, <1>5, <2>1, <2>2 DEF Owns
<1>6. (Claimed(o) /\ api[key[o]].live /\ ~ Current(o))' =>
        api'[key'[o]].conds = NoConditions
  BY <1>1, <1>2, <1>3 DEF QuietHyp, QuietInv
<1> QED
  BY <1>2, <1>4, <1>5, <1>6, QuietWorker

LEMMA QuietScripts ==
  ASSUME QuietHyp, NEW o \in Operators, QuietDown(o) \/ CancelQuietDown(o)
  PROVE  QuietInv'
<1>1. /\ Claimed(o) /\ UNCHANGED <<serverVars, strat>>
      /\ execs \in [Objects -> [Command -> Nat]]
  BY DEF QuietDown, CancelQuietDown, Claimed, Early, serverVars, QuietHyp, Inv, TypeOK
<1>2. obj[o] \in Object /\ key[o] \in Objects
  BY <1>1, HeldMarked DEF QuietHyp
<1>3. CASE QuietDown(o)
  <2>1. PICK ran, ok, done \in BOOLEAN :
          /\ Answered(ran, done) /\ Record(o, "quietDown", ran)
          /\ quieted' = IF done THEN quieted \cup {key[o]} ELSE quieted
          /\ Go(o, "saveQuietDown",
                   SetCondition(obj[o], "QuietDownStarted", IF ok THEN "True" ELSE "False"))
    BY <1>3 DEF QuietDown
  <2> DEFINE m == SetCondition(obj[o], "QuietDownStarted", IF ok THEN "True" ELSE "False")
  <2>2. m.uid = obj[o].uid /\ Go(o, "saveQuietDown", m)
    BY <2>1 DEF SetCondition
  <2> HIDE DEF m
  <2>3. strat[o].quiet
    BY <1>3 DEF QuietHyp, QuietInv, QuietDown
  <2>4. ran = done
    BY <2>1 DEF Answered, QuietHyp
  <2>5. ~ Current(o) /\ api[key[o]].live => execs'[key[o]]["quietDown"] = 0
    <3> SUFFICES ASSUME ~ Current(o), api[key[o]].live
                 PROVE  execs'[key[o]]["quietDown"] = 0
      OBVIOUS
    <3>1. api[key[o]].conds = NoConditions
      BY <1>1 DEF QuietHyp, QuietInv
    <3> QED
      BY <1>2, <2>1, <3>1
      DEF QuietHyp, Inv, RunsOnceInv, FreshUnrun, Record, Command
  <2>6. \A b \in quieted' :
          \/ b \in quieted /\ execs'[b]["quietDown"] = execs[b]["quietDown"]
          \/ b = key[o]
    BY <1>1, <1>2, <2>1 DEF Record, QuietHyp, Inv, TypeOK
  <2> QED
    BY <1>1, <2>2, <2>3, <2>5, <2>6, QuietCommand DEF Early
<1>4. CASE CancelQuietDown(o)
  <2>1. PICK ran, ok, done \in BOOLEAN :
          /\ Exec(ran, ok) /\ Answered(ran, done) /\ Record(o, "cancelQuietDown", ran)
          /\ quieted' = IF done THEN {} ELSE quieted
          /\ Go(o, "saveCancel",
                   SetCondition(obj[o], "QuietDownCancelled", IF ok THEN "True" ELSE "False"))
    BY <1>4 DEF CancelQuietDown
  <2> DEFINE m == SetCondition(obj[o], "QuietDownCancelled", IF ok THEN "True" ELSE "False")
  <2>2. m.uid = obj[o].uid /\ Go(o, "saveCancel", m)
    BY <2>1 DEF SetCondition
  <2>3. ~ ok => m.conds["QuietDownCancelled"] = "False"
    BY <1>2, SetConditionMarks, ConditionsAssumption
  <2> HIDE DEF m
  <2>4. quieted' # {} => ~ ran /\ ~ ok /\ quieted' = quieted /\ execs' = execs
    BY <2>1 DEF Answered, QuietHyp, Exec, Record
  <2> QED
    BY <1>1, <2>2, <2>3, <2>4, QuietCommand DEF Early
<1> QED
  BY <1>3, <1>4

LEMMA QuietFiles ==
  ASSUME QuietHyp, NEW o \in Operators, MakeDirectory(o) \/ CopyLocation(o)
  PROVE  QuietInv'
<1> DEFINE failed == SetCondition(obj[o], "BackupCompleted", "False")
<1>1. /\ Claimed(o) /\ UNCHANGED <<serverVars, strat, quieted>> /\ SkeletonTypeOK
      /\ execs \in [Objects -> [Command -> Nat]] /\ quieted \subseteq Objects
  BY DEF MakeDirectory, CopyLocation, Claimed, Early, serverVars, QuietHyp, Inv, TypeOK
<1>2. obj[o] \in Object /\ key[o] \in Objects /\ failed.uid = obj[o].uid
  BY <1>1, HeldMarked DEF QuietHyp, SetCondition
<1> HIDE DEF failed
<1>3. PICK c \in Location \cup {"mkdir"}, ran \in BOOLEAN,
           next \in {AfterBackup(o), "copy", "saveMkdir", "saveCopy"},
           m \in {obj[o], failed} :
        Record(o, c, ran) /\ Go(o, next, m)
  <2>1. CASE MakeDirectory(o)
    BY <2>1 DEF MakeDirectory, failed
  <2>2. CASE CopyLocation(o)
    BY <1>1, <2>2 DEF CopyLocation, failed, SkeletonTypeOK
  <2> QED
    BY <2>1, <2>2
<1>4. \A b \in quieted : execs'[b]["quietDown"] = execs[b]["quietDown"]
  <2>1. c # "quietDown" /\ c \in Command
    BY <1>3 DEF Location, Command
  <2> QED
    BY <1>1, <1>2, <1>3, <2>1 DEF Record
<1>5. /\ next \notin Early \cup {"quietDown"}
      /\ next \in {"saveCancel", "complete"} => ~ Cancels(o)
  BY <1>3 DEF AfterBackup, Early, Cancels
<1> QED
  BY <1>1, <1>2, <1>3, <1>4, <1>5, QuietCommand

LEMMA QuietNext == QuietHyp /\ [Next]_vars => QuietInv'
<1> SUFFICES ASSUME QuietHyp, [Next]_vars PROVE QuietInv'
  OBVIOUS
<1>0. SkeletonTypeOK
  BY DEF QuietHyp, Inv, TypeOK
<1>1. ASSUME NEW o \in Operators, Work(o) PROVE QuietInv'
  BY <1>1, QuietEarly, QuietInitialize, QuietScripts, QuietFiles, QuietSaves DEF Work
<1>2. CASE World
  <2>1. UNCHANGED <<quieted, execs>>
    BY <1>2 DEF World, podVars
  <2>2. ASSUME NEW o \in Operators, Crash(o) PROVE QuietInv'
    BY <1>2, <2>2, QuietEarly DEF World
  <2>3. CASE \/ \E o \in Operators, b \in Objects : Deliver(o, b)
             \/ \E o \in Operators : Resync(o)
    BY <2>1, <2>3, QuietWorld DEF Deliver, Resync
  <2>4. ASSUME NEW b \in Objects, Delete(b) \/ Touch(b) PROVE QuietInv'
    BY <1>0, <2>1, <2>4, QuietWorld DEF Delete, Touch, Revision, SkeletonTypeOK
  <2> QED
    BY <1>2, <2>2, <2>3, <2>4 DEF World
<1>3. CASE UNCHANGED vars
  BY <1>3, QuietWorld DEF vars, skeletonVars, podVars
<1> QED
  BY <1>1, <1>2, <1>3, QuietEarly, QuietCreate DEF Next

\* With one operator, and a Jenkins that does as it is told, a quiet-down is
\* left behind only where the status or the end of the reconcile accounts for
\* it (backup_controller.go:158-181, 195-219).
THEOREM QuietAccounted ==
  ASSUME OneOperator, ~ JenkinsMayRefuse
  PROVE  Spec => []QuietDownAccounted
<1>1. Init => Inv /\ QuietInv
  <2>1. Init => QuietInv
    BY DEF Init, SkeletonInit, QuietInv, Claimed, Early
  <2> QED
    BY <2>1, InitInv
<1>2. Inv /\ QuietInv /\ [Next]_vars => (Inv /\ QuietInv)'
  BY NextInv, QuietNext DEF QuietHyp
<1>3. QuietInv => QuietDownAccounted
  BY DEF QuietInv, QuietDownAccounted, Excused, Owns
<1> QED
  BY <1>1, <1>2, <1>3, PTL DEF Spec

===========================================================================
