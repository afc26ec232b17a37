-------------------------- MODULE MCPricingWorker --------------------------
(***************************************************************************)
(* Instances of PricingWorker for TLC.                                     *)
(***************************************************************************)
EXTENDS PricingWorker

CONSTANTS Paid, Other, Gratis, In, Out, Cache, Ten, Reported, Corrected, E1, E2

MCModels   == {Paid, Other, Gratis}
MCCols     == {In, Out, Cache}
\* the second catalog adds a model the first does not list
MCListed   == [v \in 1..MaxVersion |-> IF v = 1 THEN {Paid} ELSE {Paid, Other}]

Full       == [c \in MCCols |-> Ten]
NoCacheCol == [Full EXCEPT ![Cache] = Nil]
NoOutput   == [Full EXCEPT ![Out] = Nil]
Harness(a) == [kind |-> "harness", amount |-> a]
Gen(i, t, m, k, c) == [id |-> i, ts |-> t, model |-> m, tok |-> k, cost |-> c]

\* One request told in pieces: without its cache column, with it but
\* earlier, with a cost, with another cost.  Another told without its model,
\* then with one only a later catalog lists.
MCTelemetry ==
  { Gen(1, 2, Paid, NoCacheCol, NoCost),
    Gen(1, 1, Paid, Full, NoCost),
    Gen(1, 2, Paid, NoOutput, Harness(Reported)),
    Gen(1, 2, Paid, Full, Harness(Corrected)),
    Gen(2, 2, Nil, Full, NoCost),
    Gen(2, 2, Other, NoOutput, NoCost) }
\* At midnight of day 1 the first catalog's conditional price is unreadable.
MCMalformed == {<<1, 1>>}

\* Two requests from before pricing, one of them sent again unchanged, and a
\* new one: told first without its model, as a free one, then with it, at the
\* time of the unreadable price.
MCHistorical == { Gen(1, 2, Paid, Full, NoCost), Gen(2, 2, Other, Full, NoCost) }
MCResent     == { Gen(1, 2, Paid, Full, NoCost), Gen(3, 1, Gratis, NoOutput, NoCost),
                  Gen(3, 1, Paid, Full, NoCost) }
=============================================================================
