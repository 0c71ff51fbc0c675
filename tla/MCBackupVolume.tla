--------------------------- MODULE MCBackupVolume ---------------------------
(* A small instance of BackupVolume for TLC.                               *)
EXTENDS BackupVolume, TLC

CONSTANTS v, own, other

DefaultOfV == v :> own

=============================================================================
