-------------------------- MODULE MCBackupListing --------------------------
(***************************************************************************)
(* Instances of BackupListing for TLC.                                     *)
(***************************************************************************)
EXTENDS BackupListing, TLC

CONSTANTS P1, P2
=============================================================================
