--------------------------- MODULE MCBackupWorker ---------------------------
(***************************************************************************)
(* Instances of BackupWorker for TLC.                                      *)
(***************************************************************************)
EXTENDS BackupWorker
=============================================================================
