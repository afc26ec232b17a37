--------------------------- MODULE MCIngestStats ---------------------------
(***************************************************************************)
(* Instances of IngestStats for TLC.                                       *)
(***************************************************************************)
EXTENDS IngestStats

CONSTANTS R1, R2
=============================================================================
