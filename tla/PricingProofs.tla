--------------------------- MODULE PricingProofs ---------------------------
(***************************************************************************)
(* Proofs about PricingWorker, for every number of records, exporters,     *)
(* catalog versions and every page size.                                   *)
(*                                                                         *)
(* The argument: merges and price updates keep every single row in order   *)
(* (RowInv), provided an update that lands was computed from the row as it *)
(* is.  That is what PageInv says of the copies the worker holds: a copy   *)
(* whose revision is still the row's is the row.                           *)
(*                                                                         *)
(* Two more invariants are about the walk over the rows.  WakeInv: what is *)
(* queued is ahead of the pass under way, or another pass is assured.      *)
(* BackfillInv: so is what the historical job has left to price.           *)
(***************************************************************************)
EXTENDS PricingWorker, FiniteSetTheorems, WellFoundedInduction, TLAPS

\* Rates belong to a known model that is not free: neither Nil nor a free
\* name is ever matched, and the model column is written once.
RatesOfPaidModel(r) == r.rates # NoRates => r.model \in Models \ FreeModels

RowInv(r) ==
  /\ r \in Row
  /\ ProvenanceOf(r)
  /\ UpToDate(r)
  /\ RatesOfPaidModel(r)
  /\ r.stored => r.ts \in Times
  /\ ~r.stored => r = BlankRow

PageInv ==
  \A i \in DOMAIN page :
    /\ rows[i].stored
    /\ page[i] \in Row
    /\ page[i].rev <= rows[i].rev
    /\ page[i].rev = rows[i].rev => page[i] = rows[i]

IInv ==
  /\ TypeOK
  /\ \A i \in Ids : RowInv(rows[i])
  /\ PageInv

\* The worker's next pass is assured.
Attended == wake \/ \E e \in Exporters : exporters[e] = "committed"

\* What the worker knows of the catalog; without one the cooldown has begun.
CatalogInv ==
  /\ loaded => catalog = saved
  /\ ~loaded => catalog = 0
  /\ fresh => saved # 0
  /\ pc = "fetch" => loaded /\ retryAt # "zero"
  /\ job = "backfill" => catalog # 0 /\ pc \in {"read", "apply", "rearm"}
  /\ pc \in {"read", "apply", "rearm"} /\ catalog = 0 /\ ~gaveUp => retryAt # "zero"

\* A pass that can price has every queued row still ahead of it, unless one
\* more pass is assured: past the cursor, and in the page as it is or past
\* the page's end.
AheadInv ==
  ~Attended /\ ~gaveUp =>
    /\ pc = "select" /\ ~armed => ~HasPending
    /\ catalog # 0 /\ (pc = "rearm" \/ job = "backfill") => ~HasPending
    /\ catalog # 0 /\ pc \in {"read", "apply"} =>
         \A i \in Ids : rows[i].pending =>
           /\ i > after
           /\ pc = "apply" => IF i \in DOMAIN page THEN page[i] = rows[i]
                                                   ELSE \A j \in DOMAIN page : j < i

WakeInv == CatalogInv /\ AheadInv

-----------------------------------------------------------------------------
(* Rows.                                                                   *)

\* The three kinds of rates are different.
LEMMA RatesDiffer ==
  /\ NoRates \notin Versions /\ ManualRates \notin Versions /\ NoRates # ManualRates
  /\ Versions \subseteq Rates
  BY ConstantsAssumption DEF NoRates, ManualRates, Versions, Rates

\* The empty slot of a record not stored yet is in order.
LEMMA BlankRowInv == RowInv(BlankRow)
  BY ConstantsAssumption
  DEF RowInv, BlankRow, Row, Tokens, Costs, NoCost, Rates, NoRates, ManualRates, Versions,
      ProvenanceOf, UpToDate, RatesOfPaidModel

\* An estimate is a cost, made with the rates it was asked for.
LEMMA EstimateType ==
  ASSUME NEW g \in Row, NEW r \in Rates
  PROVE  /\ Estimate(g, r) \in {NoCost} \cup Estimates
         /\ Estimate(g, r).kind \in {"none", "estimate"}
         /\ Estimate(g, r).kind = "none" => Estimate(g, r) = NoCost
         /\ Estimate(g, r).kind = "estimate" => Estimate(g, r).rates = r
  BY DEF Estimate, Estimates, NoCost, Row

\* A new row is queued unless it came with a cost.
LEMMA NewRowInv ==
  ASSUME NEW g \in Generation
  PROVE  RowInv(NewRow(g)) /\ NewRow(g).stored
<1>1. g.ts \in Times /\ g.model \in Models \cup {Nil} /\ g.tok \in Tokens
      /\ (g.cost = NoCost \/ g.cost \in HarnessCosts)
  BY DEF Generation
<1>2. g.cost \in Costs /\ g.cost.kind \in {"none", "harness"}
  BY <1>1 DEF Costs, HarnessCosts, NoCost
<1>3. NewRow(g) \in Row
  BY <1>1, <1>2 DEF NewRow, Row, HasCost, Rates, NoRates
<1>4. ProvenanceOf(NewRow(g))
  <2>1. CASE g.cost.kind = "none"
    BY <2>1, RatesDiffer DEF ProvenanceOf, NewRow, HasCost
  <2>2. CASE g.cost.kind = "harness"
    BY <2>2, RatesDiffer DEF ProvenanceOf, NewRow, HasCost
  <2> QED
    BY <1>2, <2>1, <2>2
<1> QED
  BY <1>1, <1>3, <1>4 DEF RowInv, UpToDate, RatesOfPaidModel, NewRow

\* A merge keeps a stored row in order and moves its revision.
LEMMA MergeRowInv ==
  ASSUME NEW r, RowInv(r), r.stored, NEW g \in Generation
  PROVE  /\ RowInv(MergeRow(r, g))
         /\ MergeRow(r, g).stored
         /\ MergeRow(r, g).rev = r.rev + 1
         /\ r.reported => MergeRow(r, g).reported /\ MergeRow(r, g).cost = r.cost
         /\ MergeRow(r, g).rates = r.rates \/ MergeRow(r, g).reported
<1> DEFINE m == MergeRow(r, g)
<1>1. g.ts \in Times /\ g.model \in Models \cup {Nil} /\ g.tok \in Tokens
      /\ (g.cost = NoCost \/ g.cost \in HarnessCosts)
  BY DEF Generation
<1>2. g.cost \in Costs /\ g.cost.kind \in {"none", "harness"}
  BY <1>1 DEF Costs, HarnessCosts, NoCost
<1>3. r \in Row /\ r.ts \in Times /\ ProvenanceOf(r)
  BY DEF RowInv
<1>4. m \in Row /\ m.ts \in Times /\ m.stored /\ m.rev = r.rev + 1
  <2>1. Earlier(r.ts, g.ts) \in Times
    BY <1>1, <1>3 DEF Earlier
  <2>2. [c \in Cols |-> Coalesce(r.tok[c], g.tok[c])] \in Tokens
    BY <1>1, <1>3 DEF Tokens, Coalesce, Row
  <2>3. Coalesce(r.model, g.model) \in Models \cup {Nil}
    BY <1>1, <1>3 DEF Coalesce, Row
  <2>4. CostMerged(r, g) \in Costs /\ RatesMerged(r, g) \in Rates
    BY <1>2, <1>3 DEF CostMerged, RatesMerged, Row, Rates
  <2> HIDE DEF CostMerged, RatesMerged, Earlier, Coalesce
  <2> QED
    BY <1>3, <2>1, <2>2, <2>3, <2>4 DEF MergeRow, Row
<1>5. ProvenanceOf(m)
  BY <1>2, <1>3
  DEF ProvenanceOf, MergeRow, CostMerged, RatesMerged, HasCost, Row, NoRates, ManualRates,
      Versions
<1>6. UpToDate(m)
  <2> SUFFICES ASSUME m.rates # NoRates, ~m.pending
               PROVE  Estimate(m, m.rates) \in {m.cost, NoCost}
    BY DEF UpToDate
  <2>1. ~HasCost(g) /\ m.rates = r.rates
    BY <1>3 DEF MergeRow, RatesMerged, Row
  <2>2. ~r.reported
    BY <2>1, <1>3 DEF ProvenanceOf, ManualRates, Versions, NoRates, Row, Rates
  <2>3. ~Requeues(r, g) /\ ~r.pending
    BY <2>1, <2>2, <1>3 DEF MergeRow, Row
  <2>4. m.cost = r.cost
    BY <2>1, <1>3 DEF MergeRow, CostMerged, Row
  <2>5. m.tok = r.tok
    <3>1. \A c \in Cols : Coalesce(r.tok[c], g.tok[c]) = r.tok[c]
      BY <2>3 DEF Requeues, Coalesce
    <3>2. m.tok = [c \in Cols |-> r.tok[c]]
      BY <3>1, <1>3 DEF MergeRow, Row
    <3> QED
      BY <3>2, <1>3 DEF Row, Tokens
  <2>6. Estimate(m, r.rates) = Estimate(r, r.rates)
    <3>1. CASE r.src = "openrouter"
      <4>1. ~(r.ts > g.ts) /\ r.ts \in Nat /\ g.ts \in Nat
        BY <3>1, <2>3, <1>1, <1>3, ConstantsAssumption DEF Requeues
      <4>2. Earlier(r.ts, g.ts) = r.ts
        BY <4>1 DEF Earlier
      <4>3. m.ts = r.ts
        BY <4>2 DEF MergeRow
      <4> QED
        BY <4>3, <2>5 DEF Estimate
    <3>2. CASE r.src # "openrouter"
      <4>1. r.rates = ManualRates
        BY <3>2, <2>1, <1>3 DEF ProvenanceOf, Row, Rates
      <4>2. \A t : <<ManualRates, t>> \notin Malformed
        BY ConstantsAssumption DEF ManualRates, Versions
      <4> QED
        BY <4>1, <4>2, <2>5 DEF Estimate
    <3> QED
      BY <3>1, <3>2
  <2> QED
    BY <2>1, <2>3, <2>4, <2>6 DEF RowInv, UpToDate
<1>7. RatesOfPaidModel(m)
  BY <1>3, ConstantsAssumption
  DEF RatesOfPaidModel, MergeRow, RatesMerged, Coalesce, Row, RowInv
<1>8. r.reported => m.reported /\ m.cost = r.cost
  <2> SUFFICES ASSUME r.reported = TRUE PROVE m.reported /\ m.cost = r.cost
    BY <1>3 DEF Row
  <2> QED
    BY DEF MergeRow, CostMerged
<1>9. m.rates = r.rates \/ m.reported
  <2>1. CASE HasCost(g)
    BY <2>1 DEF MergeRow
  <2>2. CASE ~HasCost(g)
    BY <2>2 DEF MergeRow, RatesMerged
  <2> QED
    BY <2>1, <2>2
<1> QED
  BY <1>4, <1>5, <1>6, <1>7, <1>8, <1>9 DEF RowInv

\* A price update keeps a row in order: it either lands on the row it was
\* computed from or changes nothing.
LEMMA ApplyRowInv ==
  ASSUME NEW r, RowInv(r), r.stored, NEW p \in Row, NEW k \in Versions \cup {0},
         p.rev = r.rev => p = r
  PROVE  LET a == ApplyPricing(r, Enrich(p, k))
         IN  /\ RowInv(a) /\ a.stored /\ a.rev = r.rev
             /\ r.reported => a = r
             /\ r.rates # NoRates => a.rates = r.rates
<1> DEFINE e == Enrich(p, k)
           a == ApplyPricing(r, e)
<1>1. r \in Row /\ ProvenanceOf(r)
  BY DEF RowInv
<1>2. e.rev = p.rev
  BY DEF Enrich, Priced, Row
<1>3. CASE ~Lands(r, e)
  BY <1>3 DEF ApplyPricing
<1>4. CASE Lands(r, e)
  <2>1. p = r /\ ~r.reported
    BY <1>2, <1>4 DEF Lands
  <2>2. a = [r EXCEPT !.cost = e.cost, !.src = e.src, !.rates = e.rates, !.pending = FALSE]
    BY <1>4 DEF ApplyPricing
  <2>3. CASE r.model \in FreeModels
    <3>1. e = [r EXCEPT !.cost = FreeCost, !.src = "free"]
      BY <2>1, <2>3 DEF Enrich
    <3>2. r.rates = NoRates
      BY <2>3 DEF RowInv, RatesOfPaidModel
    <3>3. a = [r EXCEPT !.cost = FreeCost, !.src = "free", !.rates = r.rates,
                        !.pending = FALSE]
      BY <1>1, <2>2, <3>1 DEF Row
    <3>4. a \in Row
      BY <1>1, <3>3 DEF Row, Costs
    <3>5. ProvenanceOf(a)
      BY <1>1, <2>1, <3>2, <3>3
      DEF ProvenanceOf, Row, FreeCost, ManualRates, Versions, NoRates
    <3>6. a.rates = NoRates /\ a.stored /\ a.rev = r.rev /\ a.ts = r.ts
      BY <1>1, <3>2, <3>3 DEF Row
    <3> QED
      BY <2>1, <3>2, <3>4, <3>5, <3>6 DEF RowInv, UpToDate, RatesOfPaidModel
  <2>4. CASE r.model \notin FreeModels /\ Priceable(r, k)
    <3> DEFINE q == RatesFor(r, k)
    <3>1. e = Priced(r, q)
      BY <2>1, <2>4 DEF Enrich
    <3>2. q \in Rates /\ q # NoRates /\ Estimate(r, q).kind # "none"
      BY <2>4, <1>1, ConstantsAssumption
      DEF Priceable, RatesFor, CatalogRates, Rates, Row, NoRates, ManualRates, Versions
    <3>3. r.model \in Models
      BY <2>4, <3>2, ConstantsAssumption
      DEF RowInv, RatesOfPaidModel, RatesFor, CatalogRates, NoRates, Versions
    <3>4. Estimate(r, q) \in Estimates /\ Estimate(r, q).kind = "estimate"
          /\ Estimate(r, q).rates = q
      BY <3>2, <1>1, EstimateType DEF NoCost
    <3>5. /\ q = ManualRates <=> Origin(r, q) = "manual"
          /\ q \in Versions  <=> Origin(r, q) = "openrouter"
          /\ Origin(r, q) \in {"manual", "openrouter"}
      BY <3>2, <1>1 DEF Origin, RatesFor, ProvenanceOf, Rates, NoRates, ManualRates, Versions, Row
    <3> HIDE DEF q
    <3>6. a = [r EXCEPT !.cost = Estimate(r, q), !.src = Origin(r, q), !.rates = q,
                        !.pending = FALSE]
      BY <2>2, <3>1, <1>1 DEF Priced, Row
    <3>7. a \in Row
      <4>1. Estimate(r, q) \in Costs
        BY <3>4 DEF Costs
      <4>2. Origin(r, q) \in {"unknown", "harness", "openrouter", "manual", "free"}
        BY <3>5
      <4> HIDE DEF a
      <4> QED BY <3>2, <3>6, <4>1, <4>2, <1>1 DEF Row
    <3>8. ProvenanceOf(a)
      BY <1>1, <2>1, <3>4, <3>5, <3>6 DEF ProvenanceOf, Row
    <3>9. Estimate(a, q) = Estimate(r, q)
      BY <3>6, <1>1 DEF Estimate, Row
    <3>10. UpToDate(a) /\ RatesOfPaidModel(a)
      BY <3>3, <3>6, <3>9, <2>4, <1>1 DEF UpToDate, RatesOfPaidModel, Row
    <3>11. r.rates # NoRates => q = r.rates
      BY DEF q, RatesFor
    <3> QED
      BY <3>6, <3>7, <3>8, <3>10, <3>11, <1>1, <2>1 DEF RowInv, Row
  <2>5. CASE r.model \notin FreeModels /\ ~Priceable(r, k)
    <3>1. e = r
      BY <2>1, <2>5 DEF Enrich
    <3>2. a = [r EXCEPT !.pending = FALSE]
      BY <2>2, <3>1, <1>1 DEF Row
    <3>3. r.rates # NoRates => Estimate(r, r.rates) = NoCost
      BY <2>5, <1>1, EstimateType DEF Priceable, RatesFor, Row
    <3>4. Estimate(a, r.rates) = Estimate(r, r.rates)
      BY <3>2, <1>1 DEF Estimate, Row
    <3> QED
      BY <1>1, <2>1, <3>2, <3>3, <3>4
      DEF RowInv, ProvenanceOf, UpToDate, RatesOfPaidModel, Row
  <2> QED
    BY <2>3, <2>4, <2>5
<1> QED
  BY <1>3, <1>4

-----------------------------------------------------------------------------
(* One row before and after a step of anyone.                              *)

RowStep(r, s) ==
  /\ RowInv(s)
  /\ r.stored => s.stored
  /\ r.reported => s.reported /\ s.cost = r.cost
  /\ r.rates # NoRates => s.rates = r.rates \/ s.reported

\* A merge also moves the revision.
MergeStep(r, s) == RowStep(r, s) /\ (r.stored => s = r \/ s.rev > r.rev)

\* An insert or a merge is such a step for every row.
LEMMA InsertStep ==
  ASSUME NEW rs \in [Ids -> Row], \A i \in Ids : RowInv(rs[i]), NEW g \in Generation
  PROVE  /\ InsertGeneration(rs, g) \in [Ids -> Row]
         /\ \A i \in Ids : MergeStep(rs[i], InsertGeneration(rs, g)[i])
<1> DEFINE n == InsertGeneration(rs, g)
<1>1. g.id \in Ids
  BY DEF Generation
<1>2. ASSUME NEW i \in Ids, i # g.id PROVE n[i] = rs[i]
  BY <1>2 DEF InsertGeneration
<1>3. CASE rs[g.id].stored
  <2>1. n[g.id] = MergeRow(rs[g.id], g)
    BY <1>1, <1>3 DEF InsertGeneration
  <2>2. /\ RowInv(n[g.id]) /\ n[g.id].stored /\ n[g.id].rev = rs[g.id].rev + 1
        /\ rs[g.id].reported => n[g.id].reported /\ n[g.id].cost = rs[g.id].cost
        /\ n[g.id].rates = rs[g.id].rates \/ n[g.id].reported
    BY <1>1, <1>3, <2>1, MergeRowInv
  <2>3. rs[g.id].rev \in Nat
    BY <1>1 DEF Row
  <2>4. MergeStep(rs[g.id], n[g.id])
    BY <2>2, <2>3 DEF MergeStep, RowStep
  <2> QED
    BY <1>2, <2>2, <2>4 DEF MergeStep, RowStep, RowInv, InsertGeneration
<1>4. CASE ~rs[g.id].stored
  <2>1. n[g.id] = NewRow(g)
    BY <1>1, <1>4 DEF InsertGeneration
  <2>2. RowInv(n[g.id]) /\ rs[g.id] = BlankRow
    BY <1>1, <1>4, <2>1, NewRowInv DEF RowInv
  <2>3. MergeStep(rs[g.id], n[g.id])
    BY <2>2 DEF MergeStep, RowStep, BlankRow
  <2> QED
    BY <1>2, <2>2, <2>3 DEF MergeStep, RowStep, RowInv, InsertGeneration
<1> QED
  BY <1>3, <1>4

\* So is a whole batch.
LEMMA BatchStep ==
  ASSUME rows \in [Ids -> Row], \A i \in Ids : RowInv(rows[i]), NEW b \in Batches
  PROVE  /\ InsertGenerations(b) \in [Ids -> Row]
         /\ \A i \in Ids : MergeStep(rows[i], InsertGenerations(b)[i])
<1>1. ASSUME NEW g \in Telemetry, b = <<g>>
      PROVE  /\ InsertGenerations(b) \in [Ids -> Row]
             /\ \A i \in Ids : MergeStep(rows[i], InsertGenerations(b)[i])
  <2>1. InsertGenerations(b) = InsertGeneration(rows, g)
    BY <1>1 DEF InsertGenerations
  <2> QED
    BY <2>1, InsertStep, WorkerAssumption
<1>2. ASSUME NEW g \in Telemetry, NEW h \in Telemetry, b = <<g, h>>
      PROVE  /\ InsertGenerations(b) \in [Ids -> Row]
             /\ \A i \in Ids : MergeStep(rows[i], InsertGenerations(b)[i])
  <2> DEFINE mid == InsertGeneration(rows, g)
             end == InsertGeneration(mid, h)
  <2>1. InsertGenerations(b) = end
    BY <1>2 DEF InsertGenerations
  <2>2. mid \in [Ids -> Row] /\ \A i \in Ids : MergeStep(rows[i], mid[i])
    BY InsertStep, WorkerAssumption
  <2> HIDE DEF mid
  <2>3. end \in [Ids -> Row] /\ \A i \in Ids : MergeStep(mid[i], end[i])
    BY <2>2, InsertStep, WorkerAssumption DEF MergeStep, RowStep
  <2> HIDE DEF end
  <2>4. ASSUME NEW i \in Ids PROVE MergeStep(rows[i], end[i])
    <3>1. rows[i].rev \in Nat /\ mid[i].rev \in Nat /\ end[i].rev \in Nat
      BY <2>2, <2>3 DEF Row
    <3> QED
      BY <2>2, <2>3, <3>1 DEF MergeStep, RowStep
  <2> QED
    BY <2>1, <2>3, <2>4
<1> QED
  BY <1>1, <1>2 DEF Batches

\* However merges move the rows, the copies in the page stay what they are.
LEMMA PageStep ==
  ASSUME TypeOK, PageInv, page' = page,
         \A i \in Ids : MergeStep(rows[i], rows'[i])
  PROVE  PageInv'
<1> SUFFICES ASSUME NEW i \in DOMAIN page
             PROVE  /\ rows'[i].stored
                    /\ page[i] \in Row
                    /\ page[i].rev <= rows'[i].rev
                    /\ page[i].rev = rows'[i].rev => page[i] = rows'[i]
  BY DEF PageInv
<1>1. i \in Ids
  BY DEF TypeOK
<1>2. page[i].rev \in Nat /\ rows[i].rev \in Nat /\ rows'[i].rev \in Nat
  BY <1>1 DEF TypeOK, Row, MergeStep, RowStep, RowInv
<1> QED
  BY <1>1, <1>2 DEF PageInv, MergeStep, RowStep

\* A page just read is made of the rows themselves.
LEMMA NextPageFacts ==
  ASSUME NEW which \in SUBSET Ids
  PROVE  /\ DOMAIN NextPage(which) \subseteq which
         /\ NextPage(which) = [i \in DOMAIN NextPage(which) |-> rows[i]]
  BY DEF NextPage

\* The empty page is well typed.
LEMMA NoPageType ==
  DOMAIN NoPage = {} /\ NoPage \in [DOMAIN NoPage -> Row]
  BY DEF NoPage

-----------------------------------------------------------------------------
(* The specification.                                                      *)

\* A historical row is in order: a reported cost is final, a missing one is
\* unknown, and neither is queued.
LEMMA HistoricalRowInv ==
  ASSUME NEW i \in Ids, InHistory(i)
  PROVE  RowInv(HistoricalRow(i))
<1> DEFINE g == CHOOSE h \in Historical : h.id = i
           n == NewRow(g)
<1>1. g \in Generation
  BY WorkerAssumption DEF InHistory
<1> HIDE DEF g
<1>2. RowInv(n) /\ n.stored /\ n.rates = NoRates
  BY <1>1, NewRowInv DEF NewRow
<1>3. HistoricalRow(i) = [n EXCEPT !.pending = FALSE]
  BY DEF HistoricalRow, g
<1> HIDE DEF n
<1> DEFINE m == [n EXCEPT !.pending = FALSE]
<1>4. n \in Row
  BY <1>2 DEF RowInv
<1>5. m \in Row /\ m.stored /\ m.rates = NoRates /\ m.ts \in Times
  BY <1>2, <1>4 DEF Row, RowInv
<1>6. ProvenanceOf(m)
  BY <1>2, <1>4 DEF RowInv, ProvenanceOf, Row
<1> HIDE DEF m
<1>7. RowInv(m)
  BY <1>5, <1>6 DEF RowInv, UpToDate, RatesOfPaidModel
<1> QED
  BY <1>3, <1>7 DEF m

\* The tables as migration 0005 leaves them satisfy the invariant.
LEMMA InitInv == Init => IInv
<1> SUFFICES ASSUME Init PROVE IInv
  OBVIOUS
<1>1. \A i \in Ids : RowInv(rows[i])
  BY HistoricalRowInv, BlankRowInv DEF Init
<1>2. TypeOK
  BY <1>1, NoPageType DEF Init, TypeOK, RowInv
<1>3. PageInv
  BY DEF Init, PageInv, NoPage
<1> QED
  BY <1>1, <1>2, <1>3 DEF IInv

\* A step keeps the invariant, and every row moves by RowStep.
LEMMA StepInv ==
  ASSUME IInv, [Next]_vars
  PROVE  IInv' /\ \A i \in Ids : RowStep(rows[i], rows'[i])
<1>1. /\ TypeOK /\ PageInv /\ \A i \in Ids : RowInv(rows[i])
      /\ rows \in [Ids -> Row] /\ DOMAIN page \subseteq Ids
  BY DEF TypeOK, IInv
<1>2. \A i \in Ids : RowStep(rows[i], rows[i])
  BY <1>1 DEF RowStep
\* Most steps leave the rows and the page alone.
<1>3. ASSUME rows' = rows, page' \in {page, NoPage}, TypeOK'
      PROVE  IInv' /\ \A i \in Ids : RowStep(rows[i], rows'[i])
  BY <1>1, <1>2, <1>3 DEF IInv, PageInv, NoPage
<1>4. ASSUME NEW e \in Exporters, StoreGenerations(e)
      PROVE  IInv' /\ \A i \in Ids : RowStep(rows[i], rows'[i])
  <2>1. PICK b \in Batches : rows' = InsertGenerations(b)
    BY <1>4 DEF StoreGenerations
  <2>2. rows' \in [Ids -> Row] /\ \A i \in Ids : MergeStep(rows[i], rows'[i])
    BY <1>1, <2>1, BatchStep
  <2>3. exporters' \in [Exporters -> {"idle", "committed"}]
    BY <1>1, <1>4 DEF StoreGenerations, TypeOK
  <2>4. TypeOK'
    BY <1>1, <1>4, <2>2, <2>3 DEF StoreGenerations, memory, bounds, TypeOK
  <2>5. PageInv'
    BY <1>1, <1>4, <2>2, PageStep DEF StoreGenerations, memory
  <2> QED
    BY <2>2, <2>4, <2>5 DEF IInv, MergeStep, RowStep
<1>5. ASSUME NEW e \in Exporters, AfterCommit(e)
      PROVE  IInv' /\ \A i \in Ids : RowStep(rows[i], rows'[i])
  <2>1. TypeOK'
    BY <1>1, <1>5 DEF AfterCommit, tables, bounds, TypeOK
  <2> QED
    BY <1>3, <1>5, <2>1 DEF AfterCommit, tables
<1>6. CASE Boot
  <2>1. rows' = rows /\ page' \in {page, NoPage}
    BY <1>6 DEF Boot, tables
  <2>2. TypeOK'
    <3>1. wake' \in BOOLEAN /\ gaveUp' \in BOOLEAN
      <4>1. (wake \/ HasPending) \in BOOLEAN
        OBVIOUS
      <4> QED
        BY <1>1, <1>6, <4>1, Zenon DEF Boot, TypeOK
    <3>2. outages' \in Nat /\ dbErrors' \in Nat /\ crashes' \in Nat
      <4>1. UNCHANGED bounds \/ DbFails
        BY <1>6 DEF Boot
      <4> QED
        BY <1>1, <4>1 DEF DbFails, bounds, TypeOK
    <3> QED
      BY <1>1, <1>6, <3>1, <3>2 DEF Boot, Goto, tables, TypeOK
  <2> QED
    BY <1>3, <2>1, <2>2
<1>7. CASE TimerFires
  <2>1. rows' = rows /\ page' \in {page, NoPage}
    BY <1>7 DEF TimerFires, tables
  <2>2. TypeOK'
    BY <1>1, <1>7, <2>1, NoPageType
    DEF TimerFires, tables, bounds, TypeOK
  <2> QED
    BY <1>3, <2>1, <2>2
<1>8. CASE Wake
  <2>1. rows' = rows /\ page' \in {page, NoPage}
    BY <1>8 DEF Wake, tables
  <2>2. TypeOK'
    BY <1>1, <1>8, <2>1, NoPageType
    DEF Wake, Goto, tables, bounds, TypeOK
  <2> QED
    BY <1>3, <2>1, <2>2
<1>9. CASE LoadFails
  <2>1. rows' = rows /\ page' \in {page, NoPage}
    BY <1>9 DEF LoadFails, tables, BeginWalk
  <2>2. TypeOK'
    BY <1>1, <1>9, <2>1, NoPageType
    DEF LoadFails, BeginWalk, DbFails, Goto, tables, bounds, TypeOK
  <2> QED
    BY <1>3, <2>1, <2>2
<1>10. CASE UseCached
  <2>1. rows' = rows /\ page' \in {page, NoPage}
    BY <1>10 DEF UseCached, tables, BeginWalk
  <2>2. TypeOK'
    BY <1>1, <1>10, <2>1, NoPageType
    DEF UseCached, Load, BeginWalk, Goto, tables, bounds, TypeOK
  <2> QED
    BY <1>3, <2>1, <2>2
<1>11. CASE StartFetch
  <2>1. rows' = rows /\ page' \in {page, NoPage}
    BY <1>11 DEF StartFetch, tables
  <2>2. TypeOK'
    BY <1>1, <1>11, <2>1, NoPageType
    DEF StartFetch, Load, Goto, tables, bounds, TypeOK
  <2> QED
    BY <1>3, <2>1, <2>2
<1>12. CASE FetchSucceeds
  <2>1. rows' = rows /\ page' \in {page, NoPage}
    BY <1>12 DEF FetchSucceeds, tables, BeginWalk
  <2>2. TypeOK'
    BY <1>1, <1>12, <2>1, NoPageType
    DEF FetchSucceeds, BeginWalk, Goto, tables, bounds, TypeOK
  <2> QED
    BY <1>3, <2>1, <2>2
<1>13. CASE FetchFails
  <2>1. rows' = rows /\ page' \in {page, NoPage}
    BY <1>13 DEF FetchFails, tables, BeginWalk
  <2>2. TypeOK'
    BY <1>1, <1>13, <2>1, NoPageType
    DEF FetchFails, BeginWalk, Goto, tables, bounds, TypeOK
  <2> QED
    BY <1>3, <2>1, <2>2
<1>14. CASE PassFails
  <2>1. rows' = rows /\ page' \in {page, NoPage}
    BY <1>14 DEF PassFails, tables
  <2>2. TypeOK'
    BY <1>1, <1>14, <2>1, NoPageType
    DEF PassFails, DbFails, Goto, tables, bounds, TypeOK
  <2> QED
    BY <1>3, <2>1, <2>2
<1>15. CASE PendingDone
  <2>1. rows' = rows /\ page' \in {page, NoPage}
    BY <1>15 DEF PendingDone, tables, BeginWalk
  <2>2. /\ pc' \in {"read", "rearm"} /\ job' \in {job, "backfill"} /\ after' \in {after, 0}
        /\ UNCHANGED <<saved, fresh, backfilled, upstream, exporters, wake, armed, retryAt,
                       loaded, catalog, gaveUp, outages, dbErrors, crashes>>
    BY <1>15 DEF PendingDone, BeginWalk, Goto, tables, bounds
  <2>3. TypeOK'
    <3>1. rows' \in [Ids -> Row] /\ DOMAIN page' \subseteq Ids /\ page' \in [DOMAIN page' -> Row]
      BY <1>1, <2>1, NoPageType DEF TypeOK
    <3>2. /\ pc' \in {"boot", "select", "refresh", "fetch", "read", "apply", "rearm"}
          /\ job' \in {"pending", "backfill"} /\ after' \in Ids \cup {0}
      BY <1>1, <2>2 DEF TypeOK
    <3> QED
      BY <1>1, <2>2, <3>1, <3>2 DEF TypeOK
  <2> QED
    BY <1>3, <2>1, <2>3
<1>16. CASE BackfillDone
  <2>1. rows' = rows /\ page' \in {page, NoPage}
    BY <1>16 DEF BackfillDone, tables
  <2>2. TypeOK'
    BY <1>1, <1>16, <2>1, NoPageType
    DEF BackfillDone, Goto, tables, bounds, TypeOK
  <2> QED
    BY <1>3, <2>1, <2>2
<1>17. CASE Rearm
  <2>1. rows' = rows /\ page' \in {page, NoPage}
    BY <1>17 DEF Rearm, tables
  <2>2. TypeOK'
    <3>1. armed' \in BOOLEAN /\ gaveUp' \in BOOLEAN
      <4>1. RetryWanted \in BOOLEAN
        BY DEF RetryWanted
      <4> QED
        BY <1>1, <1>17, <4>1, Zenon DEF Rearm, TypeOK
    <3>2. outages' \in Nat /\ dbErrors' \in Nat /\ crashes' \in Nat
      <4>1. UNCHANGED bounds \/ DbFails
        BY <1>17 DEF Rearm
      <4> QED
        BY <1>1, <4>1 DEF DbFails, bounds, TypeOK
    <3>3. page' = NoPage
      BY <1>17 DEF Rearm
    <3> QED
      BY <1>1, <1>17, <3>1, <3>2, <3>3, NoPageType DEF Rearm, Goto, tables, TypeOK
  <2> QED
    BY <1>3, <2>1, <2>2
<1>18. CASE CooldownEnds
  <2>1. rows' = rows /\ page' \in {page, NoPage}
    BY <1>18 DEF CooldownEnds, tables
  <2>2. TypeOK'
    BY <1>1, <1>18, <2>1, NoPageType
    DEF CooldownEnds, tables, bounds, TypeOK
  <2> QED
    BY <1>3, <2>1, <2>2
<1>19. CASE CatalogExpires
  <2>1. rows' = rows /\ page' \in {page, NoPage}
    BY <1>19 DEF CatalogExpires, tables, memory
  <2>2. TypeOK'
    <3>1. /\ fresh' \in BOOLEAN
          /\ UNCHANGED <<rows, saved, backfilled, upstream, exporters, memory, bounds>>
      BY <1>19 DEF CatalogExpires
    <3> QED
      BY <1>1, <3>1 DEF memory, bounds, TypeOK
  <2> QED
    BY <1>3, <2>1, <2>2
<1>20. CASE Publish
  <2>1. rows' = rows /\ page' \in {page, NoPage}
    BY <1>20 DEF Publish, tables, memory
  <2>2. TypeOK'
    BY <1>1, <1>20, <2>1, NoPageType, ConstantsAssumption
    DEF Publish, memory, Versions, tables, bounds, TypeOK
  <2> QED
    BY <1>3, <2>1, <2>2
<1>21. CASE Crash
  <2>1. rows' = rows /\ page' \in {page, NoPage}
    BY <1>21 DEF Crash, tables
  <2>2. TypeOK'
    <3>1. exporters' \in [Exporters -> {"idle", "committed"}]
      BY <1>21 DEF Crash
    <3>2. wake' \in BOOLEAN /\ armed' \in BOOLEAN /\ loaded' \in BOOLEAN /\ gaveUp' \in BOOLEAN
      BY <1>21 DEF Crash
    <3>3. page' = NoPage
      BY <1>21 DEF Crash
    <3>4. outages' \in Nat /\ dbErrors' \in Nat /\ crashes' \in Nat
      BY <1>1, <1>21 DEF Crash, TypeOK
    <3>5. UNCHANGED <<tables, upstream>>
      BY <1>21 DEF Crash
    <3>6. /\ retryAt' = "zero" /\ pc' = "boot" /\ catalog' = 0
          /\ job' = "pending" /\ after' = 0
      BY <1>21 DEF Crash
    <3> QED
      BY <1>1, <3>1, <3>2, <3>3, <3>4, <3>5, <3>6, NoPageType DEF tables, TypeOK
  <2> QED
    BY <1>3, <2>1, <2>2
<1>22. CASE ReadPage
  <2>1. /\ DOMAIN page' \subseteq {i \in Ids : rows[i].stored}
        /\ page' = [i \in DOMAIN page' |-> rows[i]]
    BY <1>22, NextPageFacts DEF ReadPage, Walked
  <2>2. \A i \in DOMAIN page' : i \in Ids /\ rows[i].stored /\ page'[i] = rows[i]
    BY <2>1
  <2>3. rows' = rows
    BY <1>22 DEF ReadPage, tables
  <2>4. page' \in [DOMAIN page' -> Row]
    BY <1>1, <2>1, <2>2
  <2>5. TypeOK'
    BY <1>1, <1>22, <2>2, <2>4 DEF ReadPage, Goto, tables, bounds, TypeOK
  <2>6. PageInv'
    <3>1. \A i \in DOMAIN page' : rows[i] \in Row /\ rows[i].rev \in Nat
      BY <1>1, <2>2 DEF Row
    <3> QED
      BY <2>2, <2>3, <3>1 DEF PageInv
  <2> QED
    BY <1>1, <1>2, <2>3, <2>5, <2>6 DEF IInv
<1>23. CASE PriceOne
  <2>1. PICK i \in DOMAIN page :
          LET e == Enrich(page[i], catalog)
              rest == DOMAIN page \ {i}
          IN  /\ rows' = IF Skips(e) THEN rows ELSE [rows EXCEPT ![i] = ApplyPricing(@, e)]
              /\ after' = i
              /\ page' = [j \in rest |-> page[j]]
              /\ pc' \in {"read", "apply"}
    BY <1>23 DEF PriceOne, Cursor, Goto
  <2> DEFINE a == ApplyPricing(rows[i], Enrich(page[i], catalog))
  <2>2. /\ i \in Ids /\ rows[i].stored /\ page[i] \in Row
        /\ page[i].rev = rows[i].rev => page[i] = rows[i]
    BY <1>1 DEF PageInv
  <2>3. /\ RowInv(a) /\ a.stored /\ a.rev = rows[i].rev
        /\ rows[i].reported => a = rows[i]
        /\ rows[i].rates # NoRates => a.rates = rows[i].rates
    BY <1>1, <2>2, ApplyRowInv DEF TypeOK
  <2>4. rows' = rows \/ rows' = [rows EXCEPT ![i] = a]
    BY <2>1, <2>2, <1>1
  <2> HIDE DEF a
  <2>5. /\ rows' \in [Ids -> Row]
        /\ \A j \in Ids : RowInv(rows'[j])
        /\ \A j \in Ids : j # i => rows'[j] = rows[j]
    BY <2>2, <2>3, <2>4, <1>1 DEF RowInv
  <2>6. /\ rows'[i].stored
        /\ rows[i].reported => rows'[i].reported /\ rows'[i].cost = rows[i].cost
        /\ rows[i].rates # NoRates => rows'[i].rates = rows[i].rates
    BY <2>2, <2>3, <2>4, <1>1
  <2>7. /\ DOMAIN page' = DOMAIN page \ {i}
        /\ \A j \in DOMAIN page' : page'[j] = page[j]
        /\ page' \in [DOMAIN page' -> Row]
    BY <1>1, <2>1 DEF TypeOK
  <2>8. TypeOK'
    <3>1. after' \in Ids \cup {0} /\ pc' \in {"read", "apply"}
      BY <2>1, <2>2
    <3>2. UNCHANGED <<saved, fresh, backfilled, upstream, exporters, wake, armed, retryAt,
                      loaded, catalog, job, gaveUp, bounds>>
      BY <1>23 DEF PriceOne
    <3> QED
      BY <1>1, <2>5, <2>7, <3>1, <3>2 DEF bounds, TypeOK
  <2>9. PageInv'
    BY <2>5, <2>7, <1>1 DEF PageInv
  <2>10. \A j \in Ids : /\ rows[j].stored => rows'[j].stored
                        /\ rows[j].reported => rows'[j].reported /\ rows'[j].cost = rows[j].cost
                        /\ rows[j].rates # NoRates => rows'[j].rates = rows[j].rates
    BY <2>5, <2>6
  <2> QED
    BY <2>5, <2>8, <2>9, <2>10 DEF IInv, RowStep
<1>24. CASE UNCHANGED vars
  <2>1. TypeOK'
    BY <1>1, <1>24 DEF vars, tables, memory, bounds, TypeOK
  <2> QED
    BY <1>3, <1>24, <2>1 DEF vars, tables, memory
<1> QED
  BY <1>4, <1>5, <1>6, <1>7, <1>8, <1>9, <1>10, <1>11, <1>12, <1>13,
     <1>14, <1>15, <1>16, <1>17, <1>18, <1>19, <1>20, <1>21, <1>22, <1>23, <1>24
  DEF Next, Worker

\* The conjunction holds of every reachable state, for any set of records,
\* rates, exporters and bounds.
THEOREM Invariance == Spec => []IInv
<1>1. IInv /\ [Next]_vars => IInv'
  BY StepInv
<1> QED
  BY InitInv, <1>1, PTL DEF Spec

\* Every variable of the pricing worker keeps its type.
THEOREM TypeCorrect == Spec => []TypeOK
<1>1. IInv => TypeOK
  BY DEF IInv
<1> QED
  BY Invariance, <1>1, PTL

\* However merges, re-deliveries, price updates and restarts interleave, a
\* row's cost agrees with the columns that say where it came from.
THEOREM ProvenanceHolds == Spec => []Provenance
<1>1. IInv => Provenance
  BY DEF IInv, RowInv, Provenance
<1> QED
  BY Invariance, <1>1, PTL

\* No estimate computed from a copy that a merge has overtaken ever stands in
\* a row outside the queue.
THEOREM NoStaleEstimates == Spec => []NoStaleEstimate
<1>1. IInv => NoStaleEstimate
  BY DEF IInv, RowInv, NoStaleEstimate
<1> QED
  BY Invariance, <1>1, PTL

\* No step changes a cost that a harness reported.
THEOREM HarnessFinal == Spec => HarnessCostIsFinal
<1> DEFINE A == \A i \in Ids : rows[i].reported =>
                  rows'[i].reported /\ rows'[i].cost = rows[i].cost
<1>1. IInv /\ [Next]_vars => [A]_vars
  BY StepInv DEF RowStep, A
<1> QED
  BY Invariance, <1>1, PTL DEF Spec, HarnessCostIsFinal, A

\* No step replaces the rates a row was first priced with, except by a
\* reported cost.
THEOREM RatesKept == Spec => RatesAreKept
<1> DEFINE A == \A i \in Ids : rows[i].rates # NoRates =>
                  rows'[i].rates = rows[i].rates \/ rows'[i].reported
<1>1. IInv /\ [Next]_vars => [A]_vars
  BY StepInv DEF RowStep, A
<1> QED
  BY Invariance, <1>1, PTL DEF Spec, RatesAreKept, A

-----------------------------------------------------------------------------
(* The queue and the worker's wake.                                        *)

\* A set of numbers that is not empty has a least one.
LEMMA Least ==
  ASSUME NEW S \in SUBSET Nat, S # {}
  PROVE  \E i \in S : \A j \in S : ~(j < i)
<1> DEFINE R == {p \in Nat \X Nat : p[1] < p[2]}
<1>1. OpToRel(<, Nat) = R
  BY Zenon DEF OpToRel
<1>2. IsWellFoundedOn(R, Nat)
  BY <1>1, NatLessThanWellFounded, Zenon
<1>3. \E i \in S : \A j \in S : ~(<<j, i>> \in R)
  BY <1>2, WFMin, Zenon
<1> QED
  BY <1>3

\* A page holds the first rows after the cursor: it is empty only when there
\* are none, and what it leaves out comes after it.
LEMMA NextPageOrder ==
  ASSUME NEW which \in SUBSET Ids, after \in Nat
  PROVE  LET next == NextPage(which)
         IN  /\ next = NoPage => \A i \in which : ~(i > after)
             /\ \A j \in DOMAIN next : j \in which /\ j > after /\ next[j] = rows[j]
             /\ \A i \in which : i > after /\ i \notin DOMAIN next =>
                  \A j \in DOMAIN next : j < i
<1> DEFINE found    == {i \in which : i > after}
           Below(j) == {k \in found : k < j}
           next     == NextPage(which)
           first    == {j \in found : Cardinality(Below(j)) < PageLimit}
<1>1. next = [i \in first |-> rows[i]] /\ DOMAIN next = first
  BY DEF NextPage
<1>2. found \subseteq Nat /\ \A j : IsFiniteSet(Below(j)) /\ Cardinality(Below(j)) \in Nat
  <2>1. found \subseteq Ids /\ \A j : Below(j) \subseteq Ids
    OBVIOUS
  <2>2. Ids \subseteq Nat /\ IsFiniteSet(Ids)
    BY ConstantsAssumption
  <2>3. \A j : IsFiniteSet(Below(j))
    BY <2>1, <2>2, FS_Subset
  <2> HIDE DEF Below, found
  <2> QED
    BY <2>1, <2>2, <2>3, FS_CardinalityType
<1>3. ASSUME next = NoPage, found # {}
      PROVE  FALSE
  <2>1. PICK m \in found : \A j \in found : ~(j < m)
    BY <1>2, <1>3, Least
  <2>2. Below(m) = {}
    BY <2>1
  <2>3. Cardinality(Below(m)) < PageLimit
    BY <2>2, FS_EmptySet, WorkerAssumption
  <2>4. first = {}
    BY <1>1, <1>3 DEF NoPage
  <2> QED
    BY <2>1, <2>3, <2>4
<1>4. ASSUME NEW i \in found, i \notin first, NEW j \in first
      PROVE  j < i
  <2> SUFFICES ASSUME ~(j < i) PROVE FALSE
    OBVIOUS
  <2>1. j \in found /\ i \in Nat /\ j \in Nat /\ PageLimit \in Nat
    BY <1>2, WorkerAssumption
  <2>2. Below(i) \subseteq Below(j)
    BY <1>2, <2>1
  <2>3. Cardinality(Below(i)) <= Cardinality(Below(j))
    BY <1>2, <2>2, FS_Subset
  <2>4. Cardinality(Below(j)) < PageLimit /\ ~(Cardinality(Below(i)) < PageLimit)
    BY <1>4
  <2> HIDE DEF Below
  <2> QED
    BY <1>2, <2>1, <2>3, <2>4
<1>5. \A j \in DOMAIN next : j \in which /\ j > after /\ next[j] = rows[j]
  BY <1>1
<1> QED
  BY <1>1, <1>3, <1>4, <1>5

\* A record that comes with a cost queues nothing, and changes no queued row
\* but by taking it off the queue.
LEMMA CostQueuesNothing ==
  ASSUME NEW rs \in [Ids -> Row], NEW g \in Generation, HasCost(g), NEW i \in Ids,
         InsertGeneration(rs, g)[i].pending
  PROVE  InsertGeneration(rs, g)[i] = rs[i]
<1>1. g.id \in Ids
  BY DEF Generation
<1>2. CASE i = g.id
  <2>1. ~NewRow(g).pending /\ ~MergeRow(rs[i], g).pending
    BY DEF NewRow, MergeRow
  <2> QED
    BY <1>1, <1>2, <2>1 DEF InsertGeneration
<1>3. CASE i # g.id
  BY <1>3 DEF InsertGeneration
<1> QED
  BY <1>2, <1>3

\* Nor does a batch of such records.
LEMMA CostsQueueNothing ==
  ASSUME IInv, NEW b \in Batches, ~NeedsPricing(b), NEW i \in Ids,
         InsertGenerations(b)[i].pending
  PROVE  InsertGenerations(b)[i] = rows[i]
<1>1. rows \in [Ids -> Row] /\ \A j \in Ids : RowInv(rows[j])
  BY DEF IInv, TypeOK
<1>2. ASSUME NEW g \in Telemetry, b = <<g>>
      PROVE  InsertGenerations(b)[i] = rows[i]
  <2>1. HasCost(g) /\ InsertGenerations(b) = InsertGeneration(rows, g)
    BY <1>2 DEF NeedsPricing, InsertGenerations
  <2> QED
    BY <1>1, <2>1, CostQueuesNothing, WorkerAssumption
<1>3. ASSUME NEW g \in Telemetry, NEW h \in Telemetry, b = <<g, h>>
      PROVE  InsertGenerations(b)[i] = rows[i]
  <2>1. /\ HasCost(g) /\ HasCost(h)
        /\ InsertGenerations(b) = InsertGeneration(InsertGeneration(rows, g), h)
    BY <1>3 DEF NeedsPricing, InsertGenerations
  <2>2. PICK mid : mid = InsertGeneration(rows, g)
    OBVIOUS
  <2>3. mid \in [Ids -> Row]
    BY <1>1, <2>2, InsertStep, WorkerAssumption
  <2>4. InsertGenerations(b) = InsertGeneration(mid, h)
    BY <2>1, <2>2
  <2>5. InsertGeneration(mid, h)[i] = mid[i]
    BY <2>1, <2>3, <2>4, CostQueuesNothing, WorkerAssumption
  <2>6. mid[i].pending
    BY <2>4, <2>5
  <2>7. mid[i] = rows[i]
    BY <1>1, <2>1, <2>2, <2>6, CostQueuesNothing, WorkerAssumption
  <2> QED
    BY <2>4, <2>5, <2>7
<1> QED
  BY <1>2, <1>3 DEF Batches

\* The tables as the migration leaves them, and the worker about to look.
LEMMA InitWake == Init => WakeInv
BY DEF Init, WakeInv, CatalogInv, AheadInv

\* A commit queues rows only together with the handler that will wake the
\* worker.
LEMMA StoreWake ==
  ASSUME IInv, WakeInv, NEW e \in Exporters, StoreGenerations(e)
  PROVE  WakeInv'
<1>1. PICK b \in Batches :
        /\ exporters[e] = "idle"
        /\ rows' = InsertGenerations(b)
        /\ exporters' = [exporters EXCEPT ![e] = IF NeedsPricing(b) THEN "committed" ELSE "idle"]
  BY DEF StoreGenerations
<1>2. /\ saved' = saved /\ fresh' = fresh /\ wake' = wake /\ armed' = armed
      /\ retryAt' = retryAt /\ pc' = pc /\ loaded' = loaded /\ catalog' = catalog /\ job' = job
      /\ after' = after /\ page' = page /\ gaveUp' = gaveUp
  BY DEF StoreGenerations, memory
<1>3. exporters \in [Exporters -> {"idle", "committed"}]
  BY DEF IInv, TypeOK
<1>4. CatalogInv'
  BY <1>2 DEF WakeInv, CatalogInv
<1>5. CASE NeedsPricing(b)
  <2>1. exporters'[e] = "committed"
    BY <1>1, <1>3, <1>5
  <2> QED
    BY <1>4, <2>1 DEF WakeInv, AheadInv, Attended
<1>6. CASE ~NeedsPricing(b)
  <2>1. exporters' = exporters
    BY <1>1, <1>3, <1>6
  <2>2. \A i \in Ids : rows'[i].pending => rows'[i] = rows[i]
    BY <1>1, <1>6, CostsQueueNothing
  <2>3. AheadInv'
    BY <1>2, <2>1, <2>2 DEF WakeInv, AheadInv, Attended, HasPending
  <2> QED
    BY <1>4, <2>3 DEF WakeInv
<1> QED
  BY <1>5, <1>6

\* The handler leaves the token.
LEMMA AfterCommitWake ==
  ASSUME WakeInv, NEW e \in Exporters, AfterCommit(e)
  PROVE  WakeInv'
BY DEF WakeInv, CatalogInv, AheadInv, Attended, AfterCommit, tables

\* The worker asleep, and what it does before its walk.
LEMMA SelectWake ==
  ASSUME IInv, WakeInv, Boot \/ TimerFires \/ Wake
  PROVE  WakeInv'
<1>1. CASE Boot
  <2>1. /\ pc = "boot" /\ pc' = "select" /\ UNCHANGED <<tables, exporters, armed, retryAt, loaded, catalog, job>>
        /\ wake' = (wake \/ HasPending) \/ gaveUp' = TRUE
    BY <1>1 DEF Boot, Goto
  <2>2. HasPending' = HasPending /\ job' = job /\ catalog' = catalog
    BY <2>1 DEF HasPending, tables
  <2>3. CatalogInv'
    BY <2>1 DEF WakeInv, CatalogInv, tables
  <2>4. HasPending => wake' \/ gaveUp'
    BY <2>1, Zenon
  <2>5. job # "backfill"
    BY <1>1 DEF Boot, WakeInv, CatalogInv
  <2> QED
    BY <2>1, <2>2, <2>3, <2>4, <2>5 DEF WakeInv, AheadInv, Attended
<1>2. CASE TimerFires
  <2>1. wake' = TRUE /\ pc' = pc
    BY <1>2 DEF TimerFires
  <2>2. CatalogInv'
    BY <1>2 DEF WakeInv, CatalogInv, TimerFires, tables
  <2> QED
    BY <2>1, <2>2 DEF WakeInv, AheadInv, Attended
<1>3. CASE Wake
  <2>1. CatalogInv'
    BY <1>3 DEF WakeInv, CatalogInv, Wake, Goto, tables
  <2>2. AheadInv'
    BY <1>3 DEF WakeInv, CatalogInv, AheadInv, Wake, Goto, tables
  <2> QED
    BY <2>1, <2>2 DEF WakeInv
<1> QED
  BY <1>1, <1>2, <1>3

\* A walk begins at the first row, with a catalog or with the cooldown begun.
LEMMA RefreshWake ==
  ASSUME IInv, WakeInv, LoadFails \/ UseCached \/ StartFetch \/ FetchSucceeds \/ FetchFails
  PROVE  WakeInv'
<1>1. \A i \in Ids : i > 0
  BY ConstantsAssumption
<1>2. upstream # 0
  BY DEF IInv, TypeOK, Versions
<1>4. job = "pending"
  BY DEF WakeInv, CatalogInv, IInv, TypeOK, LoadFails, UseCached, StartFetch, FetchSucceeds, FetchFails
<1>5. ASSUME pc' = "read", job' = "pending", after' = 0
      PROVE  AheadInv'
  BY <1>1, <1>5 DEF AheadInv
<1>6. CASE LoadFails
  <2>1. CatalogInv'
    BY <1>6 DEF WakeInv, CatalogInv, LoadFails, BeginWalk, Goto, tables
  <2> QED
    BY <1>5, <1>6, <2>1 DEF WakeInv, LoadFails, BeginWalk, Goto
<1>7. CASE UseCached
  <2>1. /\ loaded' = TRUE /\ catalog' = IF loaded THEN catalog ELSE saved
        /\ saved' = saved /\ fresh' = fresh /\ retryAt' = retryAt /\ gaveUp' = gaveUp
        /\ fresh \/ retryAt = "future"
        /\ pc' = "read" /\ job' = "pending" /\ after' = 0
    BY <1>7 DEF UseCached, Load, BeginWalk, Goto, tables
  <2>2. CatalogInv'
    BY <2>1 DEF WakeInv, CatalogInv
  <2> QED
    BY <1>5, <2>1, <2>2 DEF WakeInv
<1>8. CASE StartFetch
  <2>1. /\ loaded' = TRUE /\ catalog' = IF loaded THEN catalog ELSE saved
        /\ saved' = saved /\ fresh' = fresh /\ retryAt' = "future"
        /\ pc' = "fetch" /\ job' = "pending"
    BY <1>4, <1>8 DEF StartFetch, Load, Goto, tables
  <2>2. CatalogInv'
    BY <2>1 DEF WakeInv, CatalogInv
  <2>3. AheadInv'
    BY <2>1 DEF AheadInv
  <2> QED
    BY <2>2, <2>3 DEF WakeInv
<1>9. CASE FetchSucceeds
  <2>1. /\ loaded' = loaded /\ loaded /\ catalog' = upstream /\ saved' = upstream
        /\ pc' = "read" /\ job' = "pending" /\ after' = 0
    BY <1>9 DEF FetchSucceeds, BeginWalk, Goto, WakeInv, CatalogInv
  <2>2. CatalogInv'
    BY <1>2, <2>1 DEF CatalogInv
  <2> QED
    BY <1>5, <2>1, <2>2 DEF WakeInv
<1>10. CASE FetchFails
  <2>1. CatalogInv'
    BY <1>10 DEF WakeInv, CatalogInv, FetchFails, BeginWalk, Goto, tables
  <2> QED
    BY <1>5, <1>10, <2>1 DEF WakeInv, FetchFails, BeginWalk, Goto
<1> QED
  BY <1>6, <1>7, <1>8, <1>9, <1>10

\* The rows the pending walk looks for.
LEMMA WalkedIs ==
  ASSUME IInv
  PROVE  /\ Walked \in SUBSET Ids
         /\ job = "pending" => Walked = {i \in Ids : rows[i].pending}
<1>1. ASSUME NEW i \in Ids, rows[i].pending
      PROVE  rows[i].stored
  BY <1>1 DEF IInv, RowInv, BlankRow
<1> QED
  BY <1>1 DEF Walked

LEMMA ReadPageWake ==
  ASSUME IInv, WakeInv, ReadPage
  PROVE  WakeInv'
<1>1. /\ pc = "read" /\ pc' = "apply" /\ page' = NextPage(Walked)
      /\ rows' = rows /\ saved' = saved /\ fresh' = fresh /\ exporters' = exporters
      /\ wake' = wake /\ armed' = armed /\ retryAt' = retryAt /\ loaded' = loaded
      /\ catalog' = catalog /\ job' = job /\ after' = after /\ gaveUp' = gaveUp
  BY DEF ReadPage, Goto, tables
<1>2. CatalogInv'
  BY <1>1 DEF WakeInv, CatalogInv
<1>3. /\ \A j \in DOMAIN page' : page'[j] = rows[j]
      /\ \A i \in Walked : i > after /\ i \notin DOMAIN page' => \A j \in DOMAIN page' : j < i
  <2>1. after \in Nat
    BY ConstantsAssumption DEF IInv, TypeOK
  <2> QED
    BY <1>1, <2>1, NextPageOrder, WalkedIs
<1>4. job \in {"pending", "backfill"}
  BY DEF IInv, TypeOK
<1>5. ASSUME ~Attended, ~gaveUp, catalog # 0, NEW i \in Ids, rows[i].pending
      PROVE  i > after /\ IF i \in DOMAIN page' THEN page'[i] = rows[i]
                                                ELSE \A j \in DOMAIN page' : j < i
  <2>1. i > after
    BY <1>1, <1>5 DEF WakeInv, AheadInv
  <2>2. job = "pending"
    BY <1>4, <1>5 DEF WakeInv, AheadInv, HasPending
  <2>3. i \in Walked
    BY <1>5, <2>2, WalkedIs
  <2> QED
    BY <1>3, <2>1, <2>3
<1>6. AheadInv'
  BY <1>1, <1>5 DEF WakeInv, AheadInv, Attended, HasPending
<1> QED
  BY <1>2, <1>6 DEF WakeInv

\* A walk that finds no more rows has left none queued.
LEMMA WalkDoneWake ==
  ASSUME IInv, WakeInv, PendingDone \/ BackfillDone
  PROVE  WakeInv'
<1>1. /\ pc = "read" /\ NextPage(Walked) = NoPage
      /\ \/ pc' = "rearm" /\ job' = job
         \/ pc' = "read" /\ job' = "backfill" /\ catalog # 0 /\ job = "pending"
      /\ rows' = rows /\ saved' = saved /\ fresh' = fresh /\ exporters' = exporters
      /\ wake' = wake /\ armed' = armed /\ retryAt' = retryAt /\ loaded' = loaded
      /\ catalog' = catalog /\ gaveUp' = gaveUp
  BY DEF PendingDone, BackfillDone, BeginWalk, Goto, tables
<1>2. CatalogInv'
  BY <1>1 DEF WakeInv, CatalogInv
<1>3. ASSUME ~Attended, ~gaveUp, catalog # 0
      PROVE  ~HasPending
  <2>1. CASE job = "backfill"
    BY <1>3, <2>1 DEF WakeInv, AheadInv
  <2>2. CASE job = "pending"
    <3>1. after \in Nat
      BY ConstantsAssumption DEF IInv, TypeOK
    <3>2. \A i \in Walked : ~(i > after)
      BY <1>1, <3>1, NextPageOrder, WalkedIs
    <3>3. \A i \in Ids : rows[i].pending => i > after
      BY <1>1, <1>3 DEF WakeInv, AheadInv
    <3> QED
      BY <2>2, <3>2, <3>3, WalkedIs DEF HasPending
  <2> QED
    BY <2>1, <2>2 DEF IInv, TypeOK
<1>4. AheadInv'
  BY <1>1, <1>3 DEF AheadInv, Attended, HasPending
<1> QED
  BY <1>2, <1>4 DEF WakeInv

\* A queued row of which the copy is current leaves the queue.
LEMMA LandingClears ==
  ASSUME NEW r \in Row, ProvenanceOf(r), r.pending, NEW k \in Versions \cup {0}
  PROVE  ~ApplyPricing(r, Enrich(r, k)).pending
<1>1. ~r.reported
  BY DEF ProvenanceOf
<1>2. Enrich(r, k).rev = r.rev
  BY DEF Enrich, Priced, Row
<1>3. Lands(r, Enrich(r, k))
  BY <1>1, <1>2 DEF Lands
<1> QED
  BY <1>3 DEF ApplyPricing, Row

\* Handling a copy takes its row off the queue, or another pass is assured.
LEMMA PriceOneWake ==
  ASSUME IInv, WakeInv, PriceOne
  PROVE  WakeInv'
<1>1. PICK i \in DOMAIN page :
        LET e == Enrich(page[i], catalog)
            rest == DOMAIN page \ {i}
        IN  /\ \A j \in rest : i < j
            /\ rows' = IF Skips(e) THEN rows ELSE [rows EXCEPT ![i] = ApplyPricing(@, e)]
            /\ after' = i
            /\ page' = [j \in rest |-> page[j]]
            /\ pc' = IF rest = {} THEN "read" ELSE "apply"
  BY DEF PriceOne, Cursor, Goto
<1>2. /\ pc = "apply" /\ saved' = saved /\ fresh' = fresh /\ exporters' = exporters
      /\ wake' = wake /\ armed' = armed /\ retryAt' = retryAt /\ loaded' = loaded
      /\ catalog' = catalog /\ job' = job /\ gaveUp' = gaveUp
  BY DEF PriceOne
<1>3. /\ rows \in [Ids -> Row] /\ i \in Ids /\ DOMAIN page \subseteq Ids /\ after \in Nat
      /\ Ids \subseteq Nat /\ catalog \in Versions \cup {0}
      /\ \A j \in Ids : ProvenanceOf(rows[j])
  BY ConstantsAssumption DEF IInv, TypeOK, RowInv
<1>4. CatalogInv'
  BY <1>1, <1>2 DEF WakeInv, CatalogInv
<1>5. \A j \in Ids : rows'[j].pending => rows[j].pending /\ (j # i => rows'[j] = rows[j])
  <2>1. CASE rows' = rows
    BY <2>1
  <2>2. CASE rows' = [rows EXCEPT ![i] = ApplyPricing(rows[i], Enrich(page[i], catalog))]
    <3>1. ApplyPricing(rows[i], Enrich(page[i], catalog)).pending => rows[i].pending
      BY <1>3 DEF ApplyPricing, Row
    <3> QED
      BY <1>3, <2>2, <3>1
  <2> QED
    BY <1>1, <1>3, <2>1, <2>2
<1>6. ASSUME ~Attended, ~gaveUp, catalog # 0
      PROVE  ~rows'[i].pending
  <2>1. CASE ~rows[i].pending
    BY <1>3, <1>5, <2>1
  <2>2. CASE rows[i].pending
    <3>1. page[i] = rows[i]
      BY <1>2, <1>3, <1>6, <2>2 DEF WakeInv, AheadInv
    <3>2. rows' = [rows EXCEPT ![i] = ApplyPricing(rows[i], Enrich(rows[i], catalog))]
      BY <1>1, <1>6, <3>1 DEF Skips
    <3>3. ~ApplyPricing(rows[i], Enrich(rows[i], catalog)).pending
      BY <1>3, <2>2, LandingClears
    <3> QED
      BY <1>3, <3>2, <3>3
  <2> QED
    BY <2>1, <2>2
<1>7. ASSUME ~Attended, ~gaveUp, catalog # 0, NEW j \in Ids, rows'[j].pending
      PROVE  /\ j > i
             /\ pc' = "apply" => IF j \in DOMAIN page' THEN page'[j] = rows'[j]
                                                       ELSE \A k \in DOMAIN page' : k < j
  <2>1. j # i /\ rows'[j] = rows[j] /\ rows[j].pending
    BY <1>5, <1>6, <1>7
  <2>2. IF j \in DOMAIN page THEN page[j] = rows[j] ELSE \A k \in DOMAIN page : k < j
    BY <1>2, <1>7, <2>1 DEF WakeInv, AheadInv
  <2>3. DOMAIN page' = DOMAIN page \ {i} /\ \A k \in DOMAIN page' : page'[k] = page[k]
    BY <1>1
  <2> QED
    BY <1>1, <1>3, <2>1, <2>2, <2>3
<1>8. ~Attended /\ ~gaveUp /\ job = "backfill" => ~HasPending'
  BY <1>2, <1>5 DEF WakeInv, AheadInv, CatalogInv, HasPending
<1>9. AheadInv'
  <2>1. pc' \in {"read", "apply"} /\ after' = i
    BY <1>1
  <2> QED
    BY <1>2, <1>7, <1>8, <2>1 DEF AheadInv, Attended
<1> QED
  BY <1>4, <1>9 DEF WakeInv

\* A pass ends on an error, or with the retry timer set for what it had to
\* leave.
LEMMA PassEndsWake ==
  ASSUME IInv, WakeInv, PassFails \/ Rearm
  PROVE  WakeInv'
<1>1. CASE PassFails
  <2>1. CatalogInv'
    BY <1>1 DEF WakeInv, CatalogInv, PassFails, Goto, tables
  <2>2. gaveUp'
    BY <1>1 DEF PassFails
  <2> QED
    BY <2>1, <2>2 DEF WakeInv, AheadInv
<1>2. CASE Rearm
  <2>1. /\ pc = "rearm" /\ pc' = "select" /\ job' = "pending"
        /\ rows' = rows /\ saved' = saved /\ fresh' = fresh /\ exporters' = exporters
        /\ wake' = wake /\ retryAt' = retryAt /\ loaded' = loaded /\ catalog' = catalog
        /\ \/ armed' = RetryWanted /\ gaveUp' = gaveUp
           \/ gaveUp' = TRUE
    BY <1>2 DEF Rearm, Goto, tables
  <2>2. CatalogInv'
    BY <2>1 DEF WakeInv, CatalogInv
  <2>3. CASE gaveUp' = TRUE
    BY <2>2, <2>3 DEF WakeInv, AheadInv
  <2>4. CASE armed' = RetryWanted /\ gaveUp' = gaveUp
    <3>1. RetryWanted => armed'
      BY <2>4, Zenon
    <3>2. ASSUME ~Attended, ~gaveUp, HasPending
          PROVE  armed'
      <4>1. catalog = 0
        BY <2>1, <3>2 DEF WakeInv, AheadInv
      <4>2. retryAt # "zero"
        BY <2>1, <3>2, <4>1 DEF WakeInv, CatalogInv
      <4> QED
        BY <3>1, <3>2, <4>1, <4>2 DEF RetryWanted
    <3> QED
      BY <2>1, <2>2, <2>4, <3>2 DEF WakeInv, AheadInv, Attended, HasPending
  <2> QED
    BY <2>1, <2>3, <2>4
<1> QED
  BY <1>1, <1>2

\* Time passes, the upstream publishes, the process dies.
LEMMA OutsideWake ==
  ASSUME IInv, WakeInv, CooldownEnds \/ CatalogExpires \/ Publish \/ Crash \/ UNCHANGED vars
  PROVE  WakeInv'
<1>1. CASE Crash
  <2>1. CatalogInv'
    BY <1>1 DEF WakeInv, CatalogInv, Crash, tables
  <2>2. AheadInv'
    BY <1>1 DEF AheadInv, Crash
  <2> QED
    BY <2>1, <2>2 DEF WakeInv
<1>2. CASE CooldownEnds \/ CatalogExpires \/ Publish \/ UNCHANGED vars
  <2>1. /\ rows' = rows /\ saved' = saved /\ exporters' = exporters /\ wake' = wake
        /\ armed' = armed /\ pc' = pc /\ loaded' = loaded /\ catalog' = catalog /\ job' = job
        /\ after' = after /\ page' = page /\ gaveUp' = gaveUp
        /\ retryAt' = retryAt \/ retryAt' = "past"
        /\ fresh' = fresh \/ fresh' = FALSE
    BY <1>2 DEF CooldownEnds, CatalogExpires, Publish, vars, tables, memory
  <2>2. CatalogInv'
    BY <2>1 DEF WakeInv, CatalogInv
  <2>3. AheadInv'
    BY <2>1 DEF WakeInv, AheadInv, Attended, HasPending
  <2> QED
    BY <2>2, <2>3 DEF WakeInv
<1> QED
  BY <1>1, <1>2

LEMMA StepWake == IInv /\ WakeInv /\ [Next]_vars => WakeInv'
<1> SUFFICES ASSUME IInv, WakeInv, [Next]_vars PROVE WakeInv'
  OBVIOUS
<1>1. CASE \E e \in Exporters : StoreGenerations(e) \/ AfterCommit(e)
  BY <1>1, StoreWake, AfterCommitWake
<1>2. CASE Worker
  BY <1>2, SelectWake, RefreshWake, ReadPageWake, WalkDoneWake, PriceOneWake, PassEndsWake
  DEF Worker
<1>3. CASE CooldownEnds \/ CatalogExpires \/ Publish \/ Crash \/ UNCHANGED vars
  BY <1>3, OutsideWake
<1> QED
  BY <1>1, <1>2, <1>3 DEF Next

\* The worker never sleeps on queued rows with nothing left to wake it, but
\* after a database error: no wake is lost between commits, the pages of a
\* walk, price updates that do not land, failed fetches and restarts.
THEOREM QueueHasAWake == Spec => []PendingHasAWake
<1>1. Init => IInv /\ WakeInv
  BY InitInv, InitWake
<1>2. (IInv /\ WakeInv) /\ [Next]_vars => (IInv /\ WakeInv)'
  BY StepInv, StepWake
<1>3. IInv /\ WakeInv => PendingHasAWake
  BY DEF WakeInv, AheadInv, Attended, PendingHasAWake
<1> QED
  BY <1>1, <1>2, <1>3, PTL DEF Spec

-----------------------------------------------------------------------------
(* The historical job.                                                     *)

\* What the job must not leave behind.
Untouched(i) == Missed(i) /\ rows[i].rev = 0

\* The job has all of it still ahead: past the cursor, in the page or past its
\* end.
BackfillInv ==
  job = "backfill" /\ pc \in {"read", "apply"} =>
    \A i \in Ids : Untouched(i) =>
      /\ i > after
      /\ pc = "apply" /\ i \notin DOMAIN page => \A j \in DOMAIN page : j < i

\* A commit adds nothing to what the job has to do: a new row is queued or has
\* a cost, and a merge moves the revision.
LEMMA InsertNotMissed ==
  ASSUME NEW rs \in [Ids -> Row], NEW g \in Generation, NEW i \in Ids,
         LET n == InsertGeneration(rs, g)[i] IN n.rev = 0 /\ ~n.pending /\ ~HasCost(n)
  PROVE  InsertGeneration(rs, g)[i] = rs[i]
<1>1. g.id \in Ids
  BY DEF Generation
<1>2. ASSUME i = g.id
      PROVE  FALSE
  <2>1. NewRow(g).pending \/ HasCost(NewRow(g))
    BY DEF NewRow, HasCost
  <2>2. MergeRow(rs[i], g).rev # 0
    BY DEF MergeRow, Row
  <2> HIDE DEF NewRow, MergeRow, HasCost
  <2> QED
    BY <1>1, <1>2, <2>1, <2>2 DEF InsertGeneration
<1> QED
  BY <1>1, <1>2 DEF InsertGeneration

LEMMA InsertsNotMissed ==
  ASSUME IInv, NEW b \in Batches, NEW i \in Ids,
         LET n == InsertGenerations(b)[i] IN n.rev = 0 /\ ~n.pending /\ ~HasCost(n)
  PROVE  InsertGenerations(b)[i] = rows[i]
<1>1. rows \in [Ids -> Row] /\ \A j \in Ids : RowInv(rows[j])
  BY DEF IInv, TypeOK
<1>2. ASSUME NEW g \in Telemetry, b = <<g>>
      PROVE  InsertGenerations(b)[i] = rows[i]
  <2>1. InsertGenerations(b) = InsertGeneration(rows, g)
    BY <1>2 DEF InsertGenerations
  <2> QED
    BY <1>1, <2>1, InsertNotMissed, WorkerAssumption
<1>3. ASSUME NEW g \in Telemetry, NEW h \in Telemetry, b = <<g, h>>
      PROVE  InsertGenerations(b)[i] = rows[i]
  <2>1. PICK mid : mid = InsertGeneration(rows, g)
    OBVIOUS
  <2>2. InsertGenerations(b) = InsertGeneration(mid, h)
    BY <1>3, <2>1 DEF InsertGenerations
  <2>3. mid \in [Ids -> Row]
    BY <1>1, <2>1, InsertStep, WorkerAssumption
  <2>4. InsertGeneration(mid, h)[i] = mid[i]
    BY <2>2, <2>3, InsertNotMissed, WorkerAssumption
  <2>5. mid[i].rev = 0 /\ ~mid[i].pending /\ ~HasCost(mid[i])
    BY <2>2, <2>4
  <2>6. mid[i] = rows[i]
    BY <1>1, <2>1, <2>5, InsertNotMissed, WorkerAssumption
  <2> QED
    BY <2>2, <2>4, <2>6
<1> QED
  BY <1>2, <1>3 DEF Batches

\* A row that can be priced has a cost once its copy is handled, and one that
\* cannot be still cannot.
LEMMA LandingPrices ==
  ASSUME NEW r \in Row, ProvenanceOf(r), NEW k \in Versions \cup {0},
         LET a == ApplyPricing(r, Enrich(r, k)) IN ~HasCost(a) /\ Priceable(a, k)
  PROVE  FALSE
<1> DEFINE a == ApplyPricing(r, Enrich(r, k))
<1>1. CASE r.reported
  <2>1. a = r
    BY <1>1 DEF ApplyPricing, Lands
  <2>2. HasCost(r)
    BY <1>1 DEF ProvenanceOf, HasCost
  <2> QED
    BY <2>1, <2>2
<1>2. CASE ~r.reported
  <2>1. Enrich(r, k).rev = r.rev
    BY DEF Enrich, Priced, Row
  <2>2. a = [r EXCEPT !.cost = Enrich(r, k).cost, !.src = Enrich(r, k).src,
                      !.rates = Enrich(r, k).rates, !.pending = FALSE]
    BY <1>2, <2>1 DEF ApplyPricing, Lands
  <2>3. CASE r.model \in FreeModels
    <3>1. Enrich(r, k).cost = FreeCost
      BY <1>2, <2>3 DEF Enrich, Row
    <3>2. a.cost = FreeCost
      BY <2>2, <3>1 DEF Row
    <3> QED
      BY <3>2 DEF HasCost, FreeCost
  <2>4. CASE r.model \notin FreeModels /\ Priceable(r, k)
    <3>1. Enrich(r, k) = Priced(r, RatesFor(r, k))
      BY <1>2, <2>4 DEF Enrich
    <3>2. a.cost = Estimate(r, RatesFor(r, k))
      BY <2>2, <3>1 DEF Priced, Row
    <3> QED
      BY <2>4, <3>2 DEF HasCost, Priceable
  <2>5. CASE r.model \notin FreeModels /\ ~Priceable(r, k)
    <3>1. Enrich(r, k) = r
      BY <1>2, <2>5 DEF Enrich
    <3>2. a = [r EXCEPT !.pending = FALSE]
      BY <2>2, <3>1 DEF Row
    <3>3. a.model = r.model /\ a.rates = r.rates /\ a.tok = r.tok /\ a.ts = r.ts
      BY <3>2 DEF Row
    <3> HIDE DEF a
    <3>4. ~Priceable(a, k)
      BY <2>5, <3>3 DEF Priceable, RatesFor, CatalogRates, Estimate
    <3> QED
      BY <3>4 DEF a
  <2> QED
    BY <2>3, <2>4, <2>5
<1> QED
  BY <1>1, <1>2

\* Most steps leave the walk alone, or lead out of it.
LEMMA SameWalk ==
  ASSUME BackfillInv, rows' = rows, catalog' = catalog, job' = job, pc' = pc,
         after' = after, page' = page
  PROVE  BackfillInv'
BY DEF BackfillInv, Untouched, Missed

LEMMA StoreBackfill ==
  ASSUME IInv, BackfillInv, NEW e \in Exporters, StoreGenerations(e)
  PROVE  BackfillInv'
<1>1. PICK b \in Batches : rows' = InsertGenerations(b)
  BY DEF StoreGenerations
<1>2. catalog' = catalog /\ job' = job /\ pc' = pc /\ after' = after /\ page' = page
  BY DEF StoreGenerations, memory
<1>3. ASSUME NEW i \in Ids, Untouched(i)'
      PROVE  Untouched(i)
  <2>1. rows'[i].rev = 0 /\ ~rows'[i].pending /\ ~HasCost(rows'[i])
    BY <1>3 DEF Untouched, Missed
  <2>2. rows'[i] = rows[i]
    BY <1>1, <2>1, InsertsNotMissed
  <2> QED
    BY <1>2, <1>3, <2>2 DEF Untouched, Missed
<1> QED
  BY <1>2, <1>3 DEF BackfillInv

LEMMA ReadPageBackfill ==
  ASSUME IInv, BackfillInv, ReadPage
  PROVE  BackfillInv'
<1>1. /\ pc = "read" /\ page' = NextPage(Walked)
      /\ rows' = rows /\ catalog' = catalog /\ job' = job /\ after' = after
  BY DEF ReadPage, tables
<1>2. after \in Nat
  BY ConstantsAssumption DEF IInv, TypeOK
<1>3. \A i \in Walked : i > after /\ i \notin DOMAIN page' => \A j \in DOMAIN page' : j < i
  BY <1>1, <1>2, NextPageOrder, WalkedIs
<1>4. ASSUME job = "backfill", NEW i \in Ids, Untouched(i)
      PROVE  i \in Walked /\ i > after
  BY <1>1, <1>4 DEF BackfillInv, Walked, Untouched, Missed
<1>5. \A i \in Ids : Untouched(i)' => Untouched(i)
  BY <1>1 DEF Untouched, Missed
<1> QED
  BY <1>1, <1>3, <1>4, <1>5 DEF BackfillInv

\* Handling a copy of a row that no merge touched gives it a cost, if it can
\* be priced.
LEMMA PriceOneBackfill ==
  ASSUME IInv, BackfillInv, PriceOne
  PROVE  BackfillInv'
<1>1. PICK i \in DOMAIN page :
        LET e == Enrich(page[i], catalog)
            rest == DOMAIN page \ {i}
        IN  /\ \A j \in rest : i < j
            /\ rows' = IF Skips(e) THEN rows ELSE [rows EXCEPT ![i] = ApplyPricing(@, e)]
            /\ after' = i
            /\ page' = [j \in rest |-> page[j]]
            /\ pc' = IF rest = {} THEN "read" ELSE "apply"
  BY DEF PriceOne, Cursor, Goto
<1>2. pc = "apply" /\ catalog' = catalog /\ job' = job
  BY DEF PriceOne
<1>3. /\ rows \in [Ids -> Row] /\ i \in Ids /\ DOMAIN page \subseteq Ids /\ Ids \subseteq Nat
      /\ catalog \in Versions \cup {0}
      /\ \A j \in Ids : ProvenanceOf(rows[j])
      /\ page[i] \in Row /\ page[i].rev \in Nat /\ page[i].rev <= rows[i].rev
      /\ page[i].rev = rows[i].rev => page[i] = rows[i]
  BY ConstantsAssumption DEF IInv, TypeOK, RowInv, PageInv, Row
<1>. SUFFICES ASSUME job = "backfill", NEW j \in Ids, Untouched(j)'
              PROVE  /\ j > i
                     /\ pc' = "apply" /\ j \notin DOMAIN page' => \A k \in DOMAIN page' : k < j
  BY <1>1, <1>2 DEF BackfillInv
<1>4. rows' = [rows EXCEPT ![i] = ApplyPricing(rows[i], Enrich(page[i], catalog))]
  BY <1>1, <1>3 DEF Skips
<1>5. j # i
  <2> SUFFICES ASSUME j = i PROVE FALSE
    OBVIOUS
  <2>1. PICK a : a = ApplyPricing(rows[i], Enrich(page[i], catalog))
    OBVIOUS
  <2>2. a.rev = 0 /\ ~HasCost(a) /\ ~a.pending /\ a.stored /\ Priceable(a, catalog)
    BY <1>2, <1>3, <1>4, <2>1 DEF Untouched, Missed
  <2>3. a.rev = rows[i].rev
    BY <1>3, <2>1 DEF ApplyPricing, Row
  <2>4. page[i] = rows[i]
    BY <1>3, <2>2, <2>3
  <2> QED
    BY <1>3, <2>1, <2>2, <2>4, LandingPrices
<1>6. Untouched(j)
  <2>1. rows'[j] = rows[j]
    BY <1>3, <1>4, <1>5
  <2> QED
    BY <1>2, <2>1 DEF Untouched, Missed
<1>7. j \notin DOMAIN page => \A k \in DOMAIN page : k < j
  BY <1>2, <1>6 DEF BackfillInv
<1>8. DOMAIN page' = DOMAIN page \ {i}
  BY <1>1
<1> QED
  BY <1>1, <1>3, <1>5, <1>7, <1>8

LEMMA StepBackfill ==
  ASSUME IInv, BackfillInv, [Next]_vars
  PROVE  BackfillInv'
<1>1. CASE \E e \in Exporters : StoreGenerations(e)
  BY <1>1, StoreBackfill
<1>2. CASE ReadPage
  BY <1>2, ReadPageBackfill
<1>3. CASE PriceOne
  BY <1>3, PriceOneBackfill
<1>4. CASE PendingDone
  <2>1. \/ pc' = "rearm"
        \/ pc' = "read" /\ after' = 0
    BY <1>4 DEF PendingDone, BeginWalk, Goto
  <2>2. \A i \in Ids : i > 0
    BY ConstantsAssumption
  <2> QED
    BY <2>1, <2>2 DEF BackfillInv
<1>5. CASE \/ Boot \/ Wake \/ LoadFails \/ UseCached \/ StartFetch \/ FetchSucceeds
           \/ FetchFails \/ PassFails \/ BackfillDone \/ Rearm \/ Crash
  <2>1. job' = "pending" \/ pc' \notin {"read", "apply"}
    BY <1>5 DEF Boot, Wake, LoadFails, UseCached, StartFetch, FetchSucceeds, FetchFails,
       PassFails, BackfillDone, Rearm, Crash, BeginWalk, Goto
  <2> QED
    BY <2>1 DEF BackfillInv
<1>6. CASE \/ \E e \in Exporters : AfterCommit(e)
           \/ TimerFires \/ CooldownEnds \/ CatalogExpires \/ Publish \/ UNCHANGED vars
  <2>1. /\ rows' = rows /\ catalog' = catalog /\ job' = job /\ pc' = pc
        /\ after' = after /\ page' = page
    BY <1>6 DEF AfterCommit, TimerFires, CooldownEnds, CatalogExpires, Publish, vars, tables,
       memory
  <2> QED
    BY <2>1, SameWalk
<1> QED
  BY <1>1, <1>2, <1>3, <1>4, <1>5, <1>6 DEF Next, Worker

\* However often the historical job is interrupted and restarted, when it is
\* marked complete every row that no merge touched and that the catalog can
\* price has its cost.
THEOREM BackfillIsWhole == Spec => BackfillCoversUntouched
<1>1. Init => IInv /\ BackfillInv
  <2>1. Init => BackfillInv
    BY DEF Init, BackfillInv
  <2> QED
    BY <2>1, InitInv
<1>2. (IInv /\ BackfillInv) /\ [Next]_vars => (IInv /\ BackfillInv)'
  BY StepInv, StepBackfill
<1>3. ASSUME IInv, BackfillInv, [Next]_vars, ~backfilled, backfilled'
      PROVE  ~\E i \in Ids : Missed(i) /\ rows[i].rev = 0
  <2>1. BackfillDone
    BY <1>3 DEF Next, Worker, StoreGenerations, AfterCommit, Boot, TimerFires, Wake, LoadFails,
       UseCached, StartFetch, FetchSucceeds, FetchFails, ReadPage, PriceOne, PassFails,
       PendingDone, Rearm, CooldownEnds, CatalogExpires, Publish, Crash, vars, tables
  <2>2. pc = "read" /\ job = "backfill" /\ NextPage(Walked) = NoPage
    BY <2>1 DEF BackfillDone
  <2>3. after \in Nat
    BY <1>3, ConstantsAssumption DEF IInv, TypeOK
  <2>4. \A i \in Walked : ~(i > after)
    BY <1>3, <2>2, <2>3, NextPageOrder, WalkedIs
  <2>5. \A i \in Ids : Untouched(i) => i > after /\ i \in Walked
    BY <1>3, <2>2 DEF BackfillInv, Walked, Untouched, Missed
  <2> QED
    BY <2>4, <2>5 DEF Untouched
<1>4. (IInv /\ BackfillInv) /\ [Next]_vars =>
        [~backfilled /\ backfilled' => ~\E i \in Ids : Missed(i) /\ rows[i].rev = 0]_vars
  BY <1>3
<1> QED
  BY <1>1, <1>2, <1>4, PTL DEF Spec, BackfillCoversUntouched
-----------------------------------------------------------------------------
(* The abstract ledger of costs.                                           *)

\* It speaks of costs and rates as the worker does.
LEMMA LedgerWords ==
  /\ Ledger!Versions = Versions /\ Ledger!NoRates = NoRates /\ Ledger!Rates = Rates
  /\ Ledger!NoCost = NoCost /\ Ledger!FreeCost = FreeCost /\ Ledger!Tokens = Tokens
  /\ Ledger!Costs = Costs
  /\ \A g, k : Ledger!CatalogRates(g, k) = CatalogRates(g, k)
  /\ \A g, q : Ledger!Estimate(g, q) = Estimate(g, q)
  /\ \A g : Ledger!HasCost(g) <=> HasCost(g)
<1>1. /\ Ledger!Versions = Versions /\ Ledger!NoRates = NoRates /\ Ledger!ManualRates = ManualRates
      /\ Ledger!NoCost = NoCost /\ Ledger!FreeCost = FreeCost
      /\ Ledger!Tokens = Tokens /\ Ledger!HarnessCosts = HarnessCosts
  BY DEF Ledger!Versions, Versions, Ledger!NoRates, NoRates, Ledger!ManualRates, ManualRates,
     Ledger!NoCost, NoCost, Ledger!FreeCost, FreeCost, Ledger!Tokens, Tokens,
     Ledger!HarnessCosts, HarnessCosts
<1>2. Ledger!Rates = Rates
  BY <1>1 DEF Ledger!Rates, Rates
<1>3. Ledger!Costs = Costs
  BY <1>1, <1>2 DEF Ledger!Costs, Costs, Ledger!Estimates, Estimates
<1>4. \A g, k : Ledger!CatalogRates(g, k) = CatalogRates(g, k)
  BY <1>1 DEF Ledger!CatalogRates, CatalogRates
<1>5. \A g, q : Ledger!Estimate(g, q) = Estimate(g, q)
  BY <1>1 DEF Ledger!Estimate, Estimate
<1>6. \A g : Ledger!HasCost(g) <=> HasCost(g)
  BY DEF Ledger!HasCost, HasCost
<1> QED
  BY <1>1, <1>2, <1>3, <1>4, <1>5, <1>6

\* A row's entry; it is final when the row's cost was reported.
LEMMA EntryIs ==
  ASSUME NEW r \in Row
  PROVE  LET e == EntryOf(r)
         IN  /\ e \in Ledger!Entry
             /\ e.known = r.stored /\ e.ts = r.ts /\ e.model = r.model /\ e.tok = r.tok
             /\ e.cost = r.cost /\ e.rates = r.rates /\ e.due = r.pending
             /\ ProvenanceOf(r) => (Ledger!Final(e) <=> r.reported)
<1>1. EntryOf(r) \in Ledger!Entry
  BY LedgerWords DEF EntryOf, Ledger!Entry, Row
<1> QED
  BY <1>1 DEF EntryOf, Ledger!Final, ProvenanceOf

\* An entry's time is a number.
LEMMA EntryTimes ==
  ASSUME NEW e \in Ledger!Entry
  PROVE  e.ts \in Nat
<1>1. e.ts \in Times \cup {0}
  BY DEF Ledger!Entry
<1>2. \A t \in Times : t \in Nat
  BY ConstantsAssumption
<1>3. CASE e.ts \in Times
  BY <1>2, <1>3
<1>4. CASE e.ts = 0
  BY <1>4
<1> QED
  BY <1>1, <1>3, <1>4

\* Times and tokens only grow in one direction, so what two tellings outdate is
\* what either does.
LEMMA OutdatedTwice ==
  ASSUME NEW a \in Ledger!Entry, NEW b \in Ledger!Entry, NEW c \in Ledger!Entry,
         b.rates = a.rates, b.ts <= a.ts, c.ts <= b.ts,
         Ledger!Kept(a.model, b.model), Ledger!Kept(b.model, c.model),
         \A x \in Cols : Ledger!Kept(a.tok[x], b.tok[x]) /\ Ledger!Kept(b.tok[x], c.tok[x])
  PROVE  Ledger!Outdated(a, c) <=> Ledger!Outdated(a, b) \/ Ledger!Outdated(b, c)
<1>1. a.ts \in Nat /\ b.ts \in Nat /\ c.ts \in Nat
  BY EntryTimes
<1>2. a.tok \in Tokens /\ b.tok \in Tokens /\ c.tok \in Tokens
  BY LedgerWords DEF Ledger!Entry
<1>3. c.model # a.model <=> b.model # a.model \/ c.model # b.model
  BY DEF Ledger!Kept
<1>4. c.ts # a.ts <=> b.ts # a.ts \/ c.ts # b.ts
  BY <1>1
<1>5. c.tok # a.tok <=> b.tok # a.tok \/ c.tok # b.tok
  <2>1. ASSUME b.tok # a.tok PROVE c.tok # a.tok
    <3>1. PICK x \in Cols : b.tok[x] # a.tok[x]
      BY <1>2, <2>1 DEF Tokens
    <3>2. a.tok[x] = Nil /\ b.tok[x] # Nil /\ c.tok[x] = b.tok[x]
      BY <3>1 DEF Ledger!Kept
    <3> QED
      BY <3>2
  <2> QED
    BY <2>1
<1> QED
  BY <1>3, <1>4, <1>5 DEF Ledger!Outdated

\* A request told twice is a request told.
LEMMA RetoldTwice ==
  ASSUME NEW a \in Ledger!Entry, NEW b \in Ledger!Entry, NEW c \in Ledger!Entry,
         Ledger!Retold(a, b), Ledger!Retold(b, c)
  PROVE  Ledger!Retold(a, c)
<1>1. CASE a = b \/ b = c
  BY <1>1
<1>2. CASE a # b /\ b # c
  <2>1. /\ b.known /\ c.known /\ c.ts <= b.ts /\ Ledger!Kept(b.model, c.model)
        /\ \A x \in Cols : Ledger!Kept(b.tok[x], c.tok[x])
        /\ \/ Ledger!Final(b) /\ c.cost = b.cost /\ c.rates = b.rates /\ c.due = b.due
           \/ ~Ledger!Final(b) /\ Ledger!Final(c) /\ c.rates = NoRates /\ ~c.due
           \/ /\ ~Ledger!Final(b) /\ c.cost = b.cost /\ c.rates = b.rates
              /\ c.due <=> b.due \/ Ledger!Outdated(b, c)
    BY <1>2, LedgerWords DEF Ledger!Retold
  <2>2. CASE ~a.known
    <3>1. b.rates = NoRates /\ b.cost.kind \in {"none", "harness"} /\ (b.due <=> ~Ledger!Final(b))
      BY <1>2, <2>2, LedgerWords DEF Ledger!Retold
    <3>2. c.rates = NoRates /\ c.cost.kind \in {"none", "harness"} /\ (c.due <=> ~Ledger!Final(c))
      BY <2>1, <3>1 DEF Ledger!Final
    <3> QED
      BY <2>1, <2>2, <3>2, LedgerWords DEF Ledger!Retold
  <2>3. CASE a.known
    <3>1. /\ b.ts <= a.ts /\ Ledger!Kept(a.model, b.model)
          /\ \A x \in Cols : Ledger!Kept(a.tok[x], b.tok[x])
          /\ \/ Ledger!Final(a) /\ b.cost = a.cost /\ b.rates = a.rates /\ b.due = a.due
             \/ ~Ledger!Final(a) /\ Ledger!Final(b) /\ b.rates = NoRates /\ ~b.due
             \/ /\ ~Ledger!Final(a) /\ b.cost = a.cost /\ b.rates = a.rates
                /\ b.due <=> a.due \/ Ledger!Outdated(a, b)
      BY <1>2, <2>3, LedgerWords DEF Ledger!Retold
    <3>2. c.ts <= a.ts
      <4>1. a.ts \in Nat /\ b.ts \in Nat /\ c.ts \in Nat
        BY EntryTimes
      <4> QED
        BY <2>1, <3>1, <4>1
    <3>3. Ledger!Kept(a.model, c.model) /\ \A x \in Cols : Ledger!Kept(a.tok[x], c.tok[x])
      BY <2>1, <3>1 DEF Ledger!Kept
    <3>4. \/ Ledger!Final(a) /\ c.cost = a.cost /\ c.rates = a.rates /\ c.due = a.due
          \/ ~Ledger!Final(a) /\ Ledger!Final(c) /\ c.rates = NoRates /\ ~c.due
          \/ /\ ~Ledger!Final(a) /\ c.cost = a.cost /\ c.rates = a.rates
             /\ c.due <=> a.due \/ Ledger!Outdated(a, c)
      <4>1. CASE Ledger!Final(a)
        BY <2>1, <3>1, <4>1 DEF Ledger!Final
      <4>2. CASE ~Ledger!Final(a) /\ Ledger!Final(b)
        <5>1. b.rates = NoRates /\ ~b.due
          BY <3>1, <4>2 DEF Ledger!Final
        <5> QED
          BY <2>1, <4>2, <5>1 DEF Ledger!Final
      <4>3. CASE ~Ledger!Final(a) /\ ~Ledger!Final(b)
        <5>1. b.cost = a.cost /\ b.rates = a.rates /\ (b.due <=> a.due \/ Ledger!Outdated(a, b))
          BY <3>1, <4>3
        <5>2. Ledger!Outdated(a, c) <=> Ledger!Outdated(a, b) \/ Ledger!Outdated(b, c)
          BY <2>1, <3>1, <5>1, OutdatedTwice
        <5> QED
          BY <2>1, <4>3, <5>1, <5>2
      <4> QED
        BY <4>1, <4>2, <4>3
    <3> QED
      BY <2>1, <2>3, <3>2, <3>3, <3>4, LedgerWords DEF Ledger!Retold
  <2> QED
    BY <2>2, <2>3 DEF Ledger!Entry
<1> QED
  BY <1>1, <1>2
\* A new row is a request told, and so is a merge into a stored one.
LEMMA NewRowRetells ==
  ASSUME NEW g \in Generation
  PROVE  Ledger!Retold(EntryOf(BlankRow), EntryOf(NewRow(g)))
<1>1. BlankRow \in Row /\ NewRow(g) \in Row
  BY BlankRowInv, NewRowInv DEF RowInv
<1>2. g.cost.kind \in {"none", "harness"}
  BY DEF Generation, HarnessCosts, NoCost
<1>3. ~EntryOf(BlankRow).known /\ EntryOf(NewRow(g)).known
  BY DEF EntryOf, BlankRow, NewRow
<1>4. EntryOf(NewRow(g)).rates = NoRates /\ EntryOf(NewRow(g)).cost = g.cost
      /\ EntryOf(NewRow(g)).due = (g.cost.kind = "none")
  BY DEF EntryOf, NewRow, HasCost
<1> QED
  BY <1>2, <1>3, <1>4, LedgerWords DEF Ledger!Retold, Ledger!Final

LEMMA MergeRetells ==
  ASSUME NEW r, RowInv(r), r.stored, NEW g \in Generation
  PROVE  Ledger!Retold(EntryOf(r), EntryOf(MergeRow(r, g)))
<1> DEFINE m == MergeRow(r, g)
           a == EntryOf(r)
           b == EntryOf(m)
<1>1. r \in Row /\ ProvenanceOf(r) /\ m \in Row /\ ProvenanceOf(m) /\ m.stored
  BY MergeRowInv DEF RowInv
<1>2. /\ m.ts = Earlier(r.ts, g.ts) /\ m.model = Coalesce(r.model, g.model)
      /\ m.tok = [c \in Cols |-> Coalesce(r.tok[c], g.tok[c])]
      /\ m.cost = CostMerged(r, g) /\ m.rates = RatesMerged(r, g)
      /\ m.reported = (r.reported \/ HasCost(g))
      /\ m.pending = (~r.reported /\ ~HasCost(g) /\ (Requeues(r, g) \/ r.pending))
  BY DEF MergeRow
<1> HIDE DEF m
<1>3. /\ a.known = r.stored /\ a.ts = r.ts /\ a.model = r.model /\ a.tok = r.tok
      /\ a.cost = r.cost /\ a.rates = r.rates /\ a.due = r.pending
      /\ Ledger!Final(a) <=> r.reported
  BY <1>1, EntryIs
<1>4. /\ b.known = m.stored /\ b.ts = m.ts /\ b.model = m.model /\ b.tok = m.tok
      /\ b.cost = m.cost /\ b.rates = m.rates /\ b.due = m.pending
      /\ Ledger!Final(b) <=> m.reported
  BY <1>1, EntryIs
<1> SUFFICES Ledger!Retold(a, b)
  BY DEF m
<1> HIDE DEF a, b
<1>5. r.ts \in Nat /\ g.ts \in Nat /\ r.tok \in Tokens /\ g.tok \in Tokens
  <2>1. r.ts \in Times /\ g.ts \in Times
    BY DEF RowInv, Generation
  <2>2. r.tok \in Tokens /\ g.tok \in Tokens
    BY <1>1 DEF Row, Generation
  <2> QED
    BY <2>1, <2>2, ConstantsAssumption
<1>6. b.ts <= a.ts /\ Ledger!Kept(a.model, b.model)
  BY <1>2, <1>3, <1>4, <1>5 DEF Earlier, Coalesce, Ledger!Kept
<1>7. \A c \in Cols : Ledger!Kept(a.tok[c], b.tok[c])
  BY <1>2, <1>3, <1>4 DEF Coalesce, Ledger!Kept
<1>8. CASE r.reported
  <2>1. b.cost = a.cost
    BY <1>2, <1>3, <1>4, <1>8 DEF CostMerged
  <2>2. r.rates = NoRates /\ ~r.pending
    BY <1>1, <1>8 DEF ProvenanceOf, Row, Rates
  <2>3. b.rates = a.rates
    BY <1>2, <1>3, <1>4, <2>2 DEF RatesMerged
  <2>4. b.due = a.due
    BY <1>1, <1>2, <1>3, <1>4, <1>8, <2>2 DEF Row
  <2> QED
    BY <1>1, <1>3, <1>4, <1>6, <1>7, <1>8, <2>1, <2>3, <2>4 DEF Ledger!Retold
<1>9. CASE ~r.reported /\ HasCost(g)
  <2>1. b.rates = NoRates /\ ~b.due /\ Ledger!Final(b)
    BY <1>2, <1>4, <1>9 DEF RatesMerged
  <2> QED
    BY <1>1, <1>3, <1>4, <1>6, <1>7, <1>9, <2>1, LedgerWords DEF Ledger!Retold
<1>10. CASE ~r.reported /\ ~HasCost(g)
  <2>1. b.cost = a.cost /\ b.rates = a.rates
    BY <1>2, <1>3, <1>4, <1>10 DEF CostMerged, RatesMerged
  <2>2. Requeues(r, g) <=> Ledger!Outdated(a, b)
    <3>1. r.model = Nil /\ g.model # Nil <=> b.model # a.model
      BY <1>2, <1>3, <1>4 DEF Coalesce
    <3>2. (\E c \in Cols : r.tok[c] = Nil /\ g.tok[c] # Nil) <=> b.tok # a.tok
      <4>1. \A c \in Cols : b.tok[c] = Coalesce(a.tok[c], g.tok[c])
        BY <1>2, <1>3, <1>4
      <4>2. b.tok = a.tok <=> \A c \in Cols : b.tok[c] = a.tok[c]
        <5>1. a.tok = [c \in Cols |-> a.tok[c]] /\ b.tok = [c \in Cols |-> b.tok[c]]
          BY <1>2, <1>3, <1>4, <1>5 DEF Tokens
        <5>2. ASSUME \A c \in Cols : b.tok[c] = a.tok[c] PROVE b.tok = a.tok
          BY <5>1, <5>2
        <5> QED
          BY <5>2
      <4>3. \A c \in Cols : b.tok[c] # a.tok[c] <=> r.tok[c] = Nil /\ g.tok[c] # Nil
        BY <1>3, <4>1 DEF Coalesce
      <4> QED
        BY <4>2, <4>3
    <3>3. r.src = "openrouter" /\ r.ts > g.ts <=> a.rates \in Versions /\ b.ts # a.ts
      <4>1. r.src = "openrouter" <=> a.rates \in Versions
        BY <1>1, <1>3 DEF ProvenanceOf
      <4>2. r.ts > g.ts <=> b.ts # a.ts
        BY <1>2, <1>3, <1>4, <1>5 DEF Earlier
      <4> QED
        BY <4>1, <4>2
    <3> QED
      BY <3>1, <3>2, <3>3, LedgerWords DEF Requeues, Ledger!Outdated
  <2>3. b.due <=> a.due \/ Ledger!Outdated(a, b)
    BY <1>2, <1>3, <1>4, <1>10, <2>2
  <2> QED
    BY <1>1, <1>3, <1>4, <1>6, <1>7, <1>10, <2>1, <2>3 DEF Ledger!Retold
<1> QED
  BY <1>8, <1>9, <1>10

\* Told says it of every row.
AllRetold(old, new) == \A i \in Ids : Ledger!Retold(EntryOf(old[i]), EntryOf(new[i]))

LEMMA InsertRetells ==
  ASSUME NEW rs \in [Ids -> Row], \A i \in Ids : RowInv(rs[i]), NEW g \in Generation
  PROVE  AllRetold(rs, InsertGeneration(rs, g))
<1> DEFINE n == InsertGeneration(rs, g)
<1>1. g.id \in Ids
  BY DEF Generation
<1>2. ASSUME NEW i \in Ids, i # g.id PROVE n[i] = rs[i]
  BY <1>2 DEF InsertGeneration
<1>3. Ledger!Retold(EntryOf(rs[g.id]), EntryOf(n[g.id]))
  <2>1. CASE rs[g.id].stored
    <3>1. n[g.id] = MergeRow(rs[g.id], g)
      BY <1>1, <2>1 DEF InsertGeneration
    <3> HIDE DEF n
    <3> QED
      BY <1>1, <2>1, <3>1, MergeRetells
  <2>2. CASE ~rs[g.id].stored
    <3>1. n[g.id] = NewRow(g) /\ rs[g.id] = BlankRow
      BY <1>1, <2>2 DEF InsertGeneration, RowInv
    <3> HIDE DEF n
    <3> QED
      BY <3>1, NewRowRetells
  <2> QED
    BY <2>1, <2>2
<1> HIDE DEF n
<1>4. \A i \in Ids : Ledger!Retold(EntryOf(rs[i]), EntryOf(n[i]))
  BY <1>2, <1>3 DEF Ledger!Retold
<1> QED
  BY <1>4 DEF AllRetold, n

\* So a batch tells requests, also when two of its records are of one.
LEMMA BatchRetells ==
  ASSUME rows \in [Ids -> Row], \A i \in Ids : RowInv(rows[i]), NEW b \in Batches
  PROVE  AllRetold(rows, InsertGenerations(b))
<1>1. ASSUME NEW g \in Telemetry, b = <<g>>
      PROVE  AllRetold(rows, InsertGenerations(b))
  <2>1. InsertGenerations(b) = InsertGeneration(rows, g)
    BY <1>1 DEF InsertGenerations
  <2> QED
    BY <2>1, InsertRetells, WorkerAssumption
<1>2. ASSUME NEW g \in Telemetry, NEW h \in Telemetry, b = <<g, h>>
      PROVE  AllRetold(rows, InsertGenerations(b))
  <2>1. PICK mid : mid = InsertGeneration(rows, g)
    OBVIOUS
  <2>2. PICK end : end = InsertGeneration(mid, h)
    OBVIOUS
  <2>3. InsertGenerations(b) = end
    BY <1>2, <2>1, <2>2 DEF InsertGenerations
  <2>4. g \in Generation /\ h \in Generation
    BY WorkerAssumption
  <2>5. /\ mid \in [Ids -> Row] /\ \A i \in Ids : RowInv(mid[i])
        /\ AllRetold(rows, mid)
    BY <2>1, <2>4, InsertStep, InsertRetells DEF MergeStep, RowStep
  <2>6. end \in [Ids -> Row] /\ AllRetold(mid, end)
    BY <2>2, <2>4, <2>5, InsertStep, InsertRetells
  <2>7. ASSUME NEW i \in Ids PROVE Ledger!Retold(EntryOf(rows[i]), EntryOf(end[i]))
    <3>1. /\ EntryOf(rows[i]) \in Ledger!Entry /\ EntryOf(mid[i]) \in Ledger!Entry
          /\ EntryOf(end[i]) \in Ledger!Entry
      BY <2>5, <2>6, EntryIs
    <3>2. /\ Ledger!Retold(EntryOf(rows[i]), EntryOf(mid[i]))
          /\ Ledger!Retold(EntryOf(mid[i]), EntryOf(end[i]))
      BY <2>5, <2>6 DEF AllRetold
    <3> QED
      BY <3>1, <3>2, RetoldTwice
  <2> QED
    BY <2>3, <2>7 DEF AllRetold
<1> QED
  BY <1>1, <1>2 DEF Batches

\* What the ledger would ask for a request is what enrich computes.
LEMMA PricesAre ==
  ASSUME NEW r \in Row, NEW k
  PROVE  /\ Ledger!Offer(EntryOf(r), k) = RatesFor(r, k)
         /\ Ledger!Prices(EntryOf(r), k) =
              IF RatesFor(r, k) = NoRates THEN NoCost ELSE Estimate(r, RatesFor(r, k))
<1>1. CatalogRates(EntryOf(r), k) = CatalogRates(r, k)
  BY EntryIs DEF CatalogRates
<1>2. \A q : Estimate(EntryOf(r), q) = Estimate(r, q)
  BY EntryIs DEF Estimate
<1>3. Ledger!Offer(EntryOf(r), k) = RatesFor(r, k)
  BY <1>1, EntryIs, LedgerWords DEF Ledger!Offer, RatesFor
<1> QED
  BY <1>2, <1>3, LedgerWords DEF Ledger!Prices

\* An update that lands is a price for the row as it is.
LEMMA LandingIsPrice ==
  ASSUME NEW r, RowInv(r), r.stored, NEW p \in Row, NEW k \in Versions \cup {0},
         p.rev = r.rev => p = r, k # 0 \/ HasCost(Enrich(p, k))
  PROVE  LET a == ApplyPricing(r, Enrich(p, k))
             e == EntryOf(r)
         IN  \/ a = r
             \/ /\ e.known /\ ~Ledger!Final(e)
                /\ \/ /\ e.model \in FreeModels
                      /\ EntryOf(a) = Ledger!Settled(e, FreeCost, e.rates)
                   \/ /\ e.model \notin FreeModels /\ Ledger!Prices(e, k) # NoCost
                      /\ EntryOf(a) = Ledger!Settled(e, Ledger!Prices(e, k), Ledger!Offer(e, k))
                   \/ /\ e.model \notin FreeModels /\ Ledger!Prices(e, k) = NoCost
                      /\ k # 0 \/ HasCost(e)
                      /\ EntryOf(a) = Ledger!Settled(e, e.cost, e.rates)
<1> DEFINE n == Enrich(p, k)
           a == ApplyPricing(r, n)
           e == EntryOf(r)
<1>1. r \in Row /\ ProvenanceOf(r)
  BY DEF RowInv
<1>2. n.rev = p.rev
  BY DEF Enrich, Priced, Row
<1>3. CASE ~Lands(r, n)
  BY <1>3 DEF ApplyPricing
<1>4. CASE Lands(r, n)
  <2>1. p = r /\ ~r.reported
    BY <1>2, <1>4 DEF Lands
  <2>2. a = [r EXCEPT !.cost = n.cost, !.src = n.src, !.rates = n.rates, !.pending = FALSE]
    BY <1>4 DEF ApplyPricing
  <2>3. EntryOf(a) = Ledger!Settled(e, n.cost, n.rates)
    <3>1. /\ a.stored = r.stored /\ a.ts = r.ts /\ a.model = r.model /\ a.tok = r.tok
          /\ a.cost = n.cost /\ a.rates = n.rates /\ a.pending = FALSE
      <4> HIDE DEF a, n
      <4> QED
        BY <1>1, <2>2 DEF Row
    <3>2. e.known = r.stored /\ e.ts = r.ts /\ e.model = r.model /\ e.tok = r.tok
      BY <1>1, EntryIs
    <3> HIDE DEF a, n, e
    <3> QED
      BY <3>1, <3>2 DEF EntryOf, Ledger!Settled
  <2>4. /\ e.known /\ ~Ledger!Final(e) /\ e.model = r.model /\ e.cost = r.cost /\ e.rates = r.rates
        /\ HasCost(e) <=> HasCost(r)
    BY <1>1, <2>1, EntryIs DEF HasCost
  <2>5. /\ Ledger!Offer(e, k) = RatesFor(r, k)
        /\ Ledger!Prices(e, k) =
             IF RatesFor(r, k) = NoRates THEN NoCost ELSE Estimate(r, RatesFor(r, k))
    BY <1>1, PricesAre
  <2> HIDE DEF a, e
  <2>6. CASE r.model \in FreeModels
    <3>1. n.cost = FreeCost /\ n.rates = r.rates
      BY <1>1, <2>1, <2>6 DEF Enrich, Row
    <3>2. EntryOf(a) = Ledger!Settled(e, FreeCost, e.rates)
      BY <2>3, <2>4, <3>1
    <3> QED
      BY <2>4, <2>6, <3>2 DEF a, e
  <2>7. CASE r.model \notin FreeModels /\ Priceable(r, k)
    <3>1. n.cost = Estimate(r, RatesFor(r, k)) /\ n.rates = RatesFor(r, k)
      BY <1>1, <2>1, <2>7 DEF Enrich, Priced, Row
    <3>2. Ledger!Prices(e, k) = Estimate(r, RatesFor(r, k)) /\ Ledger!Prices(e, k) # NoCost
      BY <2>5, <2>7 DEF Priceable, NoCost
    <3>3. EntryOf(a) = Ledger!Settled(e, Ledger!Prices(e, k), Ledger!Offer(e, k))
      BY <2>3, <2>5, <3>1, <3>2
    <3> QED
      BY <2>4, <2>7, <3>2, <3>3 DEF a, e
  <2>8. CASE r.model \notin FreeModels /\ ~Priceable(r, k)
    <3>1. n = r
      BY <2>1, <2>8 DEF Enrich
    <3>2. Ledger!Prices(e, k) = NoCost
      <4>1. RatesFor(r, k) \in Rates
        BY <1>1, RatesDiffer DEF RatesFor, CatalogRates, Row, Rates, Versions, NoRates, ManualRates
      <4> QED
        BY <1>1, <2>5, <2>8, <4>1, EstimateType DEF Priceable
    <3>3. EntryOf(a) = Ledger!Settled(e, e.cost, e.rates)
      BY <2>3, <2>4, <3>1
    <3>4. k # 0 \/ HasCost(e)
      BY <2>4, <3>1
    <3> QED
      BY <2>4, <2>8, <3>2, <3>3, <3>4 DEF a, e
  <2> QED
    BY <2>6, <2>7, <2>8
<1> QED
  BY <1>3, <1>4

\* The catalog saved, and the one the worker holds, have been published.
PublishedInv == saved \in 0..upstream /\ catalog \in 0..upstream

LEMMA InitPublished == IInv /\ Init => PublishedInv
BY DEF Init, IInv, TypeOK, PublishedInv, Versions

\* openrouter.ai serves later versions only.
LEMMA StepPublished ==
  ASSUME IInv, PublishedInv, [Next]_vars
  PROVE  PublishedInv'
<1>1. upstream \in Nat /\ upstream # 0
  BY ConstantsAssumption DEF IInv, TypeOK, Versions
<1>2. CASE \E e \in Exporters : StoreGenerations(e) \/ AfterCommit(e)
  BY <1>2 DEF StoreGenerations, AfterCommit, memory, tables, PublishedInv
<1>3. CASE Boot \/ TimerFires \/ Wake \/ LoadFails \/ FetchFails
  BY <1>3 DEF Boot, TimerFires, Wake, LoadFails, FetchFails, tables, PublishedInv
<1>4. CASE UseCached \/ StartFetch
  BY <1>4 DEF UseCached, StartFetch, Load, tables, PublishedInv
<1>5. CASE FetchSucceeds
  BY <1>1, <1>5 DEF FetchSucceeds, PublishedInv
<1>6. CASE ReadPage \/ PriceOne \/ PassFails \/ PendingDone \/ BackfillDone \/ Rearm
  BY <1>6 DEF ReadPage, PriceOne, PassFails, PendingDone, BackfillDone, Rearm, tables, PublishedInv
<1>7. CASE CooldownEnds \/ CatalogExpires
  BY <1>7 DEF CooldownEnds, CatalogExpires, tables, memory, PublishedInv
<1>8. CASE Publish
  <2>1. upstream' = upstream + 1 /\ saved' = saved /\ catalog' = catalog
    BY <1>8 DEF Publish, tables, memory
  <2> QED
    BY <1>1, <2>1 DEF PublishedInv
<1>9. CASE Crash
  BY <1>1, <1>9 DEF Crash, tables, PublishedInv
<1>10. CASE UNCHANGED vars
  BY <1>10 DEF vars, tables, memory, PublishedInv
<1> QED
  BY <1>2, <1>3, <1>4, <1>5, <1>6, <1>7, <1>8, <1>9, <1>10 DEF Next, Worker

\* The ledger sees a step only where a row or upstream changes.
LEMMA LedgerStutters ==
  ASSUME rows' = rows, upstream' = upstream
  PROVE  UNCHANGED Ledger!vars
BY DEF Ledger!vars

\* The tables as the migration leaves them: nothing is priced or due.
LEMMA LedgerInit == IInv /\ Init => Ledger!Init
<1> SUFFICES ASSUME IInv, Init PROVE Ledger!Init
  OBVIOUS
<1>1. \A i \in Ids : rows[i] \in Row
  BY DEF IInv, TypeOK
<1>2. ASSUME NEW i \in Ids
      PROVE  /\ EntryOf(rows[i]) \in Ledger!Entry
             /\ EntryOf(rows[i]).rates = NoRates /\ ~EntryOf(rows[i]).due
             /\ EntryOf(rows[i]).cost.kind \in {"none", "harness"}
  <2>1. rows[i].rates = NoRates /\ ~rows[i].pending /\ rows[i].cost.kind \in {"none", "harness"}
    <3>1. CASE InHistory(i)
      <4> DEFINE g == CHOOSE h \in Historical : h.id = i
      <4>1. g \in Generation
        BY <3>1, WorkerAssumption DEF InHistory
      <4>2. rows[i] = [NewRow(g) EXCEPT !.pending = FALSE]
        BY <3>1 DEF Init, HistoricalRow
      <4> HIDE DEF g
      <4>3. g.cost.kind \in {"none", "harness"}
        BY <4>1 DEF Generation, HarnessCosts, NoCost
      <4> QED
        BY <4>2, <4>3 DEF NewRow
    <3>2. CASE ~InHistory(i)
      <4>1. rows[i] = BlankRow
        BY <3>2 DEF Init
      <4> QED
        BY <4>1 DEF BlankRow, NoCost
    <3> QED
      BY <3>1, <3>2
  <2> QED
    BY <1>1, <2>1, EntryIs
<1>3. upstream \in Versions
  BY DEF Init
<1> QED
  BY <1>2, <1>3, LedgerWords DEF Ledger!Init

\* A batch tells requests.
LEMMA StoreTells ==
  ASSUME IInv, IInv', NEW e \in Exporters, StoreGenerations(e)
  PROVE  Ledger!Tell
<1>1. PICK b \in Batches : rows' = InsertGenerations(b)
  BY DEF StoreGenerations
<1>2. upstream' = upstream
  BY DEF StoreGenerations
<1>3. AllRetold(rows, rows')
  BY <1>1, BatchRetells DEF IInv, TypeOK
<1>4. \A i \in Ids : EntryOf(rows'[i]) \in Ledger!Entry
  BY EntryIs DEF IInv, TypeOK
<1>5. \A i \in Ids : Ledger!Retold(EntryOf(rows[i]), EntryOf(rows'[i]))
  BY <1>3 DEF AllRetold
<1> QED
  BY <1>2, <1>4, <1>5 DEF Ledger!Tell

\* Pricing a copy prices the request, or does nothing.
LEMMA PriceOnePrices ==
  ASSUME IInv, WakeInv, PublishedInv, PriceOne
  PROVE  (\E i \in Ids, version \in 0..upstream : Ledger!Price(i, version)) \/ UNCHANGED Ledger!vars
<1>1. upstream' = upstream /\ catalog \in Versions \cup {0}
  BY DEF PriceOne, IInv, TypeOK
<1>2. PICK i \in DOMAIN page :
        rows' = IF Skips(Enrich(page[i], catalog)) THEN rows
                ELSE [rows EXCEPT ![i] = ApplyPricing(@, Enrich(page[i], catalog))]
  BY DEF PriceOne
<1>3. i \in Ids /\ rows \in [Ids -> Row]
  BY DEF IInv, TypeOK
<1>4. CASE Skips(Enrich(page[i], catalog))
  BY <1>1, <1>2, <1>4, LedgerStutters
<1>5. CASE ~Skips(Enrich(page[i], catalog))
  <2> DEFINE a == ApplyPricing(rows[i], Enrich(page[i], catalog))
             e == EntryOf(rows[i])
  <2>1. rows' = [rows EXCEPT ![i] = a]
    BY <1>2, <1>5
  <2>2. catalog # 0 \/ HasCost(Enrich(page[i], catalog))
    BY <1>5 DEF Skips, WakeInv, CatalogInv, IInv, TypeOK
  <2>3. RowInv(rows[i]) /\ rows[i].stored /\ page[i] \in Row
        /\ (page[i].rev = rows[i].rev => page[i] = rows[i])
    BY <1>3 DEF IInv, PageInv
  <2>4. \/ a = rows[i]
        \/ /\ e.known /\ ~Ledger!Final(e)
           /\ \/ /\ e.model \in FreeModels
                 /\ EntryOf(a) = Ledger!Settled(e, FreeCost, e.rates)
              \/ /\ e.model \notin FreeModels /\ Ledger!Prices(e, catalog) # NoCost
                 /\ EntryOf(a) = Ledger!Settled(e, Ledger!Prices(e, catalog),
                                                Ledger!Offer(e, catalog))
              \/ /\ e.model \notin FreeModels /\ Ledger!Prices(e, catalog) = NoCost
                 /\ catalog # 0 \/ HasCost(e)
                 /\ EntryOf(a) = Ledger!Settled(e, e.cost, e.rates)
    BY <1>1, <2>2, <2>3, LandingIsPrice
  <2> HIDE DEF a
  <2>5. CASE a = rows[i]
    BY <1>1, <1>3, <2>1, <2>5, LedgerStutters
  <2>6. CASE a # rows[i]
    <3>1. [j \in Ids |-> EntryOf(rows'[j])]
            = [[j \in Ids |-> EntryOf(rows[j])] EXCEPT ![i] = EntryOf(a)]
      BY <1>3, <2>1
    <3>2. [j \in Ids |-> EntryOf(rows[j])][i] = e
      BY <1>3
    <3> HIDE DEF e
    <3>3. Ledger!Price(i, catalog)
      BY <1>1, <2>4, <2>6, <3>1, <3>2, LedgerWords DEF Ledger!Price
    <3> QED
      BY <1>3, <3>3 DEF PublishedInv
  <2> QED
    BY <2>5, <2>6
<1> QED
  BY <1>4, <1>5

\* Every step of ingestion, of the worker and of its surroundings is one of
\* the ledger or none.
LEMMA LedgerStep ==
  ASSUME IInv, IInv', WakeInv, PublishedInv, [Next]_vars
  PROVE  [Ledger!Next]_(Ledger!vars)
<1>1. CASE \E e \in Exporters : StoreGenerations(e)
  BY <1>1, StoreTells DEF Ledger!Next
<1>2. CASE PriceOne
  BY <1>2, PriceOnePrices DEF Ledger!Next
<1>3. CASE Publish
  <2>1. rows' = rows /\ upstream < MaxVersion /\ upstream' = upstream + 1
    BY <1>3 DEF Publish, tables
  <2> QED
    BY <2>1 DEF Ledger!Next, Ledger!Publish
<1>4. CASE \E e \in Exporters : AfterCommit(e)
  BY <1>4, LedgerStutters DEF AfterCommit, tables
<1>5. CASE \/ Boot \/ TimerFires \/ Wake \/ LoadFails \/ UseCached \/ StartFetch \/ FetchSucceeds
           \/ FetchFails
  BY <1>5, LedgerStutters
  DEF Boot, TimerFires, Wake, LoadFails, UseCached, StartFetch, FetchSucceeds, FetchFails, tables
<1>6. CASE ReadPage \/ PassFails \/ PendingDone \/ BackfillDone \/ Rearm
  BY <1>6, LedgerStutters DEF ReadPage, PassFails, PendingDone, BackfillDone, Rearm, tables
<1>7. CASE CooldownEnds \/ CatalogExpires \/ Crash \/ UNCHANGED vars
  BY <1>7, LedgerStutters DEF CooldownEnds, CatalogExpires, Crash, vars, tables
<1> QED
  BY <1>1, <1>2, <1>3, <1>4, <1>5, <1>6, <1>7 DEF Next, Worker

\* Cost enrichment implements the ledger of costs: whatever pages, stale
\* copies, merges, fetches and restarts interleave, each update that lands is
\* the price of the request as it is, at its first rates or at those of a
\* published catalog, and a reported cost is final.
THEOREM CostLedgerImplemented == Spec => ImplementsCostLedger
<1>1. Init => IInv /\ WakeInv /\ PublishedInv /\ Ledger!Init
  BY InitInv, InitWake, InitPublished, LedgerInit
<1>2. (IInv /\ WakeInv /\ PublishedInv) /\ [Next]_vars => (IInv /\ WakeInv /\ PublishedInv)'
  BY StepInv, StepWake, StepPublished
<1>3. (IInv /\ IInv' /\ WakeInv /\ PublishedInv) /\ [Next]_vars => [Ledger!Next]_(Ledger!vars)
  BY LedgerStep
<1>4. Spec => Ledger!Spec
  BY <1>1, <1>2, <1>3, PTL DEF Spec, Ledger!Spec
<1> QED
  BY <1>4 DEF ImplementsCostLedger
=============================================================================
