--------------------------- MODULE OperatorWorkers ---------------------------
(***************************************************************************)
(* One worker in detail, that of Backup or Restore: its reconciles run     *)
(* commands with a client of their own (ExecClient) and send notifications *)
(* into the channel of their process (OperatorProcess), where the other    *)
(* controllers of the process send too.                                    *)
(***************************************************************************)
EXTENDS OperatorProcess, ExecClient

CONSTANTS
  Home,   \* the process of the worker
  Runner, \* its controller
  MaxSends \* bound: notifications of one reconcile

ASSUME WorkerAssumption ==
  Home \in Processes /\ Runner \in Controllers /\ MaxSends \in Nat

VARIABLES
  reconciling, \* whether the worker has an object in hand
  sent         \* the notifications of this reconcile

workerVars  == <<reconciling, sent>>
workersVars == <<processVars, clientVars, workerVars>>

Blocked == Runner \in sending[Home]

\* The worker is between two calls.
Free == reconciling /\ caller = "idle" /\ ~ Blocked

\* InitKubeGoClient.
NoClient ==
  /\ execComplete' = <<>> /\ execErr' = <<>>
  /\ err' = NoError /\ caller' = "idle"
  /\ streams' = <<>> /\ ended' = <<>> /\ answers' = <<>>

Take ==
  /\ At(Home, "running") /\ ~ reconciling
  /\ reconciling' = TRUE
  /\ UNCHANGED <<processVars, clientVars, sent>>

Command == Free /\ Start /\ UNCHANGED <<processVars, workerVars>>

Notify ==
  /\ Free /\ sent < MaxSends
  /\ Send(Home, Runner) /\ sent' = sent + 1
  /\ UNCHANGED <<clientVars, reconciling>>

\* The next reconcile makes a client and channels of its own.
Done ==
  /\ Free /\ reconciling' = FALSE /\ sent' = 0 /\ NoClient
  /\ UNCHANGED processVars

\* The other controllers of all processes.
Others ==
  \E p \in Processes, c \in Controllers :
    <<p, c>> # <<Home, Runner>> /\ Send(p, c) /\ UNCHANGED <<clientVars, workerVars>>

Client  == (Await \/ ReadErr) /\ UNCHANGED <<processVars, workerVars>>
Streams == Goroutine /\ UNCHANGED <<processVars, workerVars>>
Process == Proceed /\ UNCHANGED <<clientVars, workerVars>>

End(p) ==
  /\ ProcessEnds(p)
  /\ IF p = Home THEN reconciling' = FALSE /\ sent' = 0 /\ NoClient
                 ELSE UNCHANGED <<clientVars, workerVars>>

WorkersInit == ProcessInit /\ ClientInit /\ reconciling = FALSE /\ sent = 0

WorkersNext == Take \/ Command \/ Notify \/ Done \/ Others \/ Client \/ Streams
                 \/ Process \/ \E p \in Processes : End(p)

\* A reconcile has only so many steps (MaxRequests, MaxSends).
WorkersSpec ==
  /\ WorkersInit /\ [][WorkersNext]_workersVars /\ ProcessFairness
  /\ WF_workersVars(Command \/ Notify \/ Done) /\ WF_workersVars(Client) /\ WF_workersVars(Streams)

---------------------------------------------------------------------------
(* Properties.                                                             *)

\* A reconcile that runs commands and sends notifications ends, unless its
\* process does: neither the goroutine of a command (exec.go:125-133) nor the
\* one channel all controllers share (main.go:107, sender.go:21) keeps the only
\* worker of the controller for ever.
ReconcileReturns == reconciling ~> ~ reconciling

=============================================================================
