----------------------------- MODULE MCBackup -----------------------------
(* A small instance of BackupController for TLC.                           *)
EXTENDS BackupController, TLC

ConditionNames == {"BackupInitialized", "QuietDownStarted",
                   "BackupCompleted", "QuietDownCancelled"}

\* Two locations, with and without a quiet-down; no locations at all.
AllKinds == {NoStrategy} \cup
  {[quiet |-> q, opts |-> {"jobs", "plugins"}, restart |-> "no"] : q \in BOOLEAN}

===========================================================================
