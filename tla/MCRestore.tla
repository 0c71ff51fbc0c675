----------------------------- MODULE MCRestore -----------------------------
(* A small instance of RestoreController for TLC.                          *)
EXTENDS RestoreController, TLC

ConditionNames == {"RestoreInitialized", "RestoreCompleted",
                   "RestartStarted", "SafeRestartStarted"}

\* One location alone or with a restart, two and a safe restart.
AnyRestart == {[quiet |-> FALSE, opts |-> {"config"}, restart |-> "no"],
               [quiet |-> FALSE, opts |-> {"config"}, restart |-> "plain"],
               [quiet |-> FALSE, opts |-> {"jobs", "plugins"}, restart |-> "safe"]}

===========================================================================
