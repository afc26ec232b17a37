---------------------------- MODULE Generations ----------------------------
(***************************************************************************)
(* The rows of the generations table as cost enrichment sees them          *)
(* (src/internal/storage/usage.go, pricing.go), the merge of a re-delivered*)
(* record into a stored row, and the cost the pricing service computes for *)
(* a row (src/internal/pricing/service.go, catalog.go).                    *)
(*                                                                         *)
(* Columns that pricing never reads (provider, conversation, labels, ...)  *)
(* are left out.  Money is symbolic: an estimate is the record of every    *)
(* input it was computed from, so two estimates are equal exactly when     *)
(* they come from the same tokens, timestamp and rates.                    *)
(***************************************************************************)
EXTENDS Integers, FiniteSets

CONSTANTS
  Ids,             \* record IDs, ordered: the worker pages through them in key order
  Models,          \* model names
  FreeModels,      \* names ending in "free"
  ManualModels,    \* names the manual price file lists
  MaxVersion,      \* bound: versions of the OpenRouter catalog
  Listed,          \* [1..MaxVersion -> SUBSET Models], what catalog.match resolves
  Malformed,       \* <<version, ts>>: the matching override has an unusable price
  Cols,            \* token columns
  RequiredCols,    \* the columns without which no estimate is made (input, output)
  Counts,          \* token counts
  Times,           \* record timestamps
  Amounts,         \* costs a harness may report
  Nil              \* SQL NULL / a nil pointer

Versions == 1..MaxVersion

\* rates_json of a row's pricing snapshot: none, a manual price, or the
\* rates of the row's model in one catalog version.
NoRates     == 0
ManualRates == -1
Rates       == Versions \cup {NoRates, ManualRates}

ASSUME ConstantsAssumption ==
  /\ Ids \subseteq Nat \ {0} /\ IsFiniteSet(Ids)
  /\ Times \subseteq Nat \ {0}
  /\ MaxVersion \in Nat
  /\ FreeModels \subseteq Models /\ ManualModels \subseteq Models
  /\ Listed \in [Versions -> SUBSET Models]
  /\ Malformed \subseteq Versions \X Times
  /\ RequiredCols \subseteq Cols
  /\ Nil \notin Counts /\ Nil \notin Models

-----------------------------------------------------------------------------
Tokens == [Cols -> Counts \cup {Nil}]

\* `cost` and what it is: absent, reported, zero for a free model, estimated.
NoCost       == [kind |-> "none"]
FreeCost     == [kind |-> "free"]
HarnessCosts == [kind : {"harness"}, amount : Amounts]
Estimates    == [kind : {"estimate"}, tok : Tokens, ts : Times \cup {0}, rates : Rates]
Costs        == {NoCost, FreeCost} \cup HarnessCosts \cup Estimates

HasCost(g) == g.cost.kind # "none"

\* A normalized record: normalize.Generation on its way to InsertGenerations.
Generation ==
  [id : Ids, ts : Times, model : Models \cup {Nil}, tok : Tokens,
   cost : {NoCost} \cup HarnessCosts]

Row ==
  [stored : BOOLEAN, ts : Times \cup {0}, model : Models \cup {Nil}, tok : Tokens,
   cost : Costs, src : {"unknown", "harness", "openrouter", "manual", "free"},
   rates : Rates, reported : BOOLEAN, pending : BOOLEAN, rev : Nat]

BlankRow ==
  [stored |-> FALSE, ts |-> 0, model |-> Nil, tok |-> [c \in Cols |-> Nil],
   cost |-> NoCost, src |-> "unknown", rates |-> NoRates,
   reported |-> FALSE, pending |-> FALSE, rev |-> 0]

-----------------------------------------------------------------------------
(* InsertGenerations, one record.                                          *)

Coalesce(old, new) == IF old = Nil THEN new ELSE old
Earlier(s, t)      == IF s <= t THEN s ELSE t

NewRow(g) ==
  [stored |-> TRUE, ts |-> g.ts, model |-> g.model, tok |-> g.tok,
   cost |-> g.cost, src |-> IF HasCost(g) THEN "harness" ELSE "unknown",
   rates |-> NoRates, reported |-> HasCost(g), pending |-> ~HasCost(g), rev |-> 0]

\* The merge changes something an estimate depends on.
Requeues(r, g) ==
  \/ r.model = Nil /\ g.model # Nil
  \/ \E c \in Cols : r.tok[c] = Nil /\ g.tok[c] # Nil
  \/ r.src = "openrouter" /\ r.ts > g.ts

\* (The mutant lets any new report replace the cost.)
CostLatest(r, g) == IF HasCost(g) THEN g.cost ELSE r.cost
CostMerged(r, g) == IF ~r.reported /\ HasCost(g) THEN g.cost ELSE r.cost

\* A reported cost drops the snapshot.  (The mutant keeps it.)
RatesLeft(r, g)   == r.rates
RatesMerged(r, g) == IF HasCost(g) THEN NoRates ELSE r.rates

MergeRow(r, g) ==
  [stored   |-> TRUE,
   ts       |-> Earlier(r.ts, g.ts),
   model    |-> Coalesce(r.model, g.model),
   tok      |-> [c \in Cols |-> Coalesce(r.tok[c], g.tok[c])],
   cost     |-> CostMerged(r, g),
   src      |-> IF r.reported \/ HasCost(g) THEN "harness" ELSE r.src,
   rates    |-> RatesMerged(r, g),
   reported |-> r.reported \/ HasCost(g),
   pending  |-> ~r.reported /\ ~HasCost(g) /\ (Requeues(r, g) \/ r.pending),
   rev      |-> r.rev + 1]

InsertGeneration(rows, g) ==
  [rows EXCEPT ![g.id] = IF rows[g.id].stored THEN MergeRow(rows[g.id], g) ELSE NewRow(g)]

-----------------------------------------------------------------------------
(* pricing.Service.enrich, with the catalog version the worker holds       *)
(* (0: none).                                                              *)

\* The rates a row is priced with: its own once it has some, else the
\* catalog's, else a manual price.  (The mutant looks at the catalog first.)
CatalogRates(g, catalog) ==
  CASE catalog # 0 /\ g.model \in Listed[catalog] -> catalog
    [] OTHER -> IF g.model \in ManualModels THEN ManualRates ELSE NoRates

RatesFor(g, catalog) == IF g.rates # NoRates THEN g.rates ELSE CatalogRates(g, catalog)

\* estimate(): manual rates carry no conditional overrides, so the timestamp
\* plays no part in what they yield.
Estimate(g, r) ==
  IF (\E c \in RequiredCols : g.tok[c] = Nil) \/ <<r, g.ts>> \in Malformed
    THEN NoCost
    ELSE [kind |-> "estimate", tok |-> g.tok,
          ts |-> IF r = ManualRates THEN 0 ELSE g.ts, rates |-> r]

\* Where the rates come from, for a row that already has some and one that has none.
Origin(g, r) ==
  IF (g.rates # NoRates /\ g.src = "manual") \/ (g.rates = NoRates /\ r = ManualRates)
    THEN "manual" ELSE "openrouter"

Priced(g, r) == [g EXCEPT !.cost = Estimate(g, r), !.src = Origin(g, r), !.rates = r]

\* A row the service can give a cost to.
Priceable(g, catalog) ==
  \/ g.model \in FreeModels
  \/ /\ RatesFor(g, catalog) # NoRates
     /\ Estimate(g, RatesFor(g, catalog)).kind # "none"

Enrich(g, catalog) ==
  CASE g.reported                                          -> g
    [] ~g.reported /\ g.model \in FreeModels               -> [g EXCEPT !.cost = FreeCost, !.src = "free"]
    [] ~g.reported /\ g.model \notin FreeModels
         /\ Priceable(g, catalog)                          -> Priced(g, RatesFor(g, catalog))
    [] OTHER                                               -> g

\* ApplyPricing: the update lands only on the revision it was computed from.
\* (The mutant looks at the harness flag alone.)
LandsUnreported(row, e) == ~row.reported
Lands(row, e)           == row.rev = e.rev /\ ~row.reported

ApplyPricing(row, e) ==
  IF Lands(row, e)
    THEN [row EXCEPT !.cost = e.cost, !.src = e.src, !.rates = e.rates, !.pending = FALSE]
    ELSE row

-----------------------------------------------------------------------------
(* What must hold of a row.                                                *)

\* A row's cost and what the row says about where it came from never
\* disagree, whatever merges and price updates interleave: a reported cost
\* carries no snapshot and is not queued, an estimate names the rates it was
\* made with, and a row without either has neither (mergeSQL's CASE columns
\* against ApplyPricing's).
ProvenanceOf(r) ==
  /\ r.reported <=> r.src = "harness"
  /\ r.src = "harness" <=> r.cost.kind = "harness"
  /\ r.src = "unknown" <=> r.cost.kind = "none"
  /\ r.src = "free"    <=> r.cost.kind = "free"
  /\ r.cost.kind = "estimate" => r.cost.rates = r.rates
  /\ r.rates = ManualRates <=> r.src = "manual"
  /\ r.rates \in Versions  <=> r.src = "openrouter"
  /\ r.reported => ~r.pending

\* A row that is not queued holds the estimate its present tokens and
\* timestamp give at its saved rates: no estimate computed from a copy read
\* before a merge survives the merge (pricing_revision in ApplyPricing and
\* the re-queueing in mergeSQL together).  When those rates no longer yield
\* a price for the row, the last one stands.
UpToDate(r) ==
  r.rates # NoRates /\ ~r.pending => Estimate(r, r.rates) \in {r.cost, NoCost}
=============================================================================
