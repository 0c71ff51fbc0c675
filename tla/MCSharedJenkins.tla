-------------------------- MODULE MCSharedJenkins --------------------------
(* Small instances of SharedJenkins for TLC.                               *)
EXTENDS SharedJenkins

MCBackupConditions  == {"BackupInitialized", "QuietDownStarted",
                        "BackupCompleted", "QuietDownCancelled"}
MCRestoreConditions == {"RestoreInitialized", "RestoreCompleted",
                        "RestartStarted", "SafeRestartStarted"}

QuietAndRestart == {[quiet |-> TRUE, opts |-> {"config"}, restart |-> "safe"]}

===========================================================================
