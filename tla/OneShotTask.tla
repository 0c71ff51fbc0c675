---------------------------- MODULE OneShotTask ----------------------------
(***************************************************************************)
(* What a Backup or a Restore promises to whoever creates it: one object   *)
(* is one task.  The task is either refused for good or accepted once, and *)
(* an accepted task runs each of its commands in the Jenkins pod at most   *)
(* once, however often the operator reconciles, restarts or is doubled.    *)
(***************************************************************************)
EXTENDS Naturals

CONSTANTS Tasks, Commands

VARIABLES
  phase,  \* of the current object of each name
  runs    \* how often its commands were run

taskVars == <<phase, runs>>

TaskTypeOK ==
  /\ phase \in [Tasks -> {"absent", "pending", "accepted", "refused"}]
  /\ runs \in [Tasks -> [Commands -> {0, 1}]]

TaskInit ==
  /\ phase = [t \in Tasks |-> "absent"]
  /\ runs  = [t \in Tasks |-> [c \in Commands |-> 0]]

Submit(t) ==
  /\ phase[t] = "absent"
  /\ phase' = [phase EXCEPT ![t] = "pending"]
  /\ runs'  = [runs EXCEPT ![t] = [c \in Commands |-> 0]]

Decide(t) ==
  /\ phase[t] = "pending"
  /\ phase' \in {[phase EXCEPT ![t] = p] : p \in {"accepted", "refused"}}
  /\ UNCHANGED runs

RunCommand(t, c) ==
  /\ phase[t] = "accepted"
  /\ runs[t][c] = 0
  /\ runs' = [runs EXCEPT ![t] = [@ EXCEPT ![c] = 1]]
  /\ UNCHANGED phase

Withdraw(t) ==
  /\ phase[t] # "absent"
  /\ phase' = [phase EXCEPT ![t] = "absent"]
  /\ UNCHANGED runs

TaskNext ==
  \E t \in Tasks :
    \/ Submit(t) \/ Decide(t) \/ Withdraw(t)
    \/ \E c \in Commands : RunCommand(t, c)

TaskSpec == TaskInit /\ [][TaskNext]_taskVars

============================================================================
