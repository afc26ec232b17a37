------------------------ MODULE MCDashboardSession ------------------------
(* An instance of DashboardSession for TLC.                                *)
EXTENDS DashboardSession, TLC

CONSTANTS R1, R2

RequestsAlike == Permutations(Requests)
=============================================================================
