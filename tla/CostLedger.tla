----------------------------- MODULE CostLedger -----------------------------
(***************************************************************************)
(* What cost enrichment promises: a request has no price, an estimate made *)
(* from what is known of it, or a reported cost for good.  It knows neither*)
(* pages and copies nor revisions, wakes, a worker or its cached catalog:  *)
(* every price is made and entered in one step.                            *)
(***************************************************************************)
EXTENDS Generations

VARIABLES
  entries,     \* [Ids -> Entry]
  published    \* catalog versions published so far

vars == <<entries, published>>

\* What is told of a request, what it costs, and whether a price is due.
Entry == [known : BOOLEAN, ts : Times \cup {0}, model : Models \cup {Nil}, tok : Tokens,
          cost : Costs, rates : Rates, due : BOOLEAN]

Final(e)       == e.cost.kind = "harness"
Kept(old, new) == old # Nil => new = old

\* What a price depends on has changed.
Outdated(old, new) ==
  \/ new.model # old.model \/ new.tok # old.tok
  \/ old.rates \in Versions /\ new.ts # old.ts

\* A request told, or told again: what was known of it stays, a reported cost
\* is final, and any other cost stands, due again when it is outdated.
Retold(old, new) ==
  \/ new = old
  \/ /\ ~old.known /\ new.known
     /\ new.rates = NoRates /\ new.cost.kind \in {"none", "harness"} /\ (new.due <=> ~Final(new))
  \/ /\ old.known /\ new.known
     /\ new.ts <= old.ts /\ Kept(old.model, new.model)
     /\ \A c \in Cols : Kept(old.tok[c], new.tok[c])
     /\ \/ Final(old) /\ new.cost = old.cost /\ new.rates = old.rates /\ new.due = old.due
        \/ ~Final(old) /\ Final(new) /\ new.rates = NoRates /\ ~new.due
        \/ /\ ~Final(old) /\ new.cost = old.cost /\ new.rates = old.rates
           /\ new.due <=> old.due \/ Outdated(old, new)

\* The rates a request is offered: for good those of its first price, else
\* those of a catalog version (0: of the price file alone).
Offer(e, version) == IF e.rates = NoRates THEN CatalogRates(e, version) ELSE e.rates

Prices(e, version) ==
  IF Offer(e, version) = NoRates THEN NoCost ELSE Estimate(e, Offer(e, version))

\* The entry with a cost entered and nothing due.
Settled(e, cost, rates) ==
  [known |-> e.known, ts |-> e.ts, model |-> e.model, tok |-> e.tok,
   cost |-> cost, rates |-> rates, due |-> FALSE]

Init ==
  /\ entries \in [Ids -> Entry]
  /\ \A i \in Ids : /\ entries[i].rates = NoRates /\ ~entries[i].due
                    /\ entries[i].cost.kind \in {"none", "harness"}
  /\ published \in Versions

Publish ==
  /\ published < MaxVersion /\ published' = published + 1
  /\ UNCHANGED entries

Tell ==
  /\ entries' \in [Ids -> Entry]
  /\ \A i \in Ids : Retold(entries[i], entries'[i])
  /\ UNCHANGED published

\* A request is priced as it stands, with a version already published.  It is
\* left without a cost only when such a version has no price for it.
Price(i, version) ==
  LET e == entries[i]
  IN  /\ e.known /\ ~Final(e)
      /\ \/ /\ e.model \in FreeModels
            /\ entries' = [entries EXCEPT ![i] = Settled(e, FreeCost, e.rates)]
         \/ /\ e.model \notin FreeModels /\ Prices(e, version) # NoCost
            /\ entries' = [entries EXCEPT ![i] = Settled(e, Prices(e, version), Offer(e, version))]
         \/ /\ e.model \notin FreeModels /\ Prices(e, version) = NoCost
            /\ version # 0 \/ HasCost(e)
            /\ entries' = [entries EXCEPT ![i] = Settled(e, e.cost, e.rates)]
      /\ UNCHANGED published

Next ==
  \/ Publish \/ Tell
  \/ \E i \in Ids, version \in 0..published : Price(i, version)

Spec == Init /\ [][Next]_vars
=============================================================================
