\* One operator, one Backup with a quiet-down and one Restore with a restart.
CONSTANTS
  Operators = {o1}
  Backups = {b1}
  Restores = {r1}
  None = None
  MaxUid = 1
  JenkinsMayRefuse = FALSE
  BackupConditions <- MCBackupConditions
  RestoreConditions <- MCRestoreConditions
  Strategies <- QuietAndRestart
SPECIFICATION SharedSpec
INVARIANT QuietUnlessRestarted
