----------------------------- MODULE MCLiveHub -----------------------------
(***************************************************************************)
(* Instances of LiveHub for TLC.                                           *)
(***************************************************************************)
EXTENDS LiveHub

CONSTANTS T1, Ingest, Pricing
=============================================================================
