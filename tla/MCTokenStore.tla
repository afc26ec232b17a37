---------------------------- MODULE MCTokenStore ----------------------------
(***************************************************************************)
(* Instances of TokenStore for TLC.                                        *)
(***************************************************************************)
EXTENDS TokenStore, TLC

CONSTANTS S1, S2, S3, SC

\* Generated secrets are interchangeable.
MCSymmetry == Permutations(Secrets \ {Configured})
=============================================================================
