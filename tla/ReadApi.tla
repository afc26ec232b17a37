------------------------------ MODULE ReadApi ------------------------------
(***************************************************************************)
(* The JSON API over the storage queries (src/internal/api/server.go): the *)
(* query parameters it shares between endpoints, the bound on a page, and  *)
(* the token classes of a single request, which the API computes in Go     *)
(* (src/internal/normalize/normalize.go) and the aggregates in SQL.        *)
(* Malformed parameters, which are refused before any query, are left out. *)
(***************************************************************************)
EXTENDS UsageQueries

CONSTANTS
  DefaultGenerationLimit,  \* 50
  MaxGenerationLimit       \* 500

FilterParam(q) ==
  [from |-> q.from, to |-> q.to, source |-> q.source, model |-> q.model, token |-> q.token,
   group |-> q.group, ungrouped |-> q.ungrouped, conv |-> q.conv]

\* A range that is refused with 400, and one that only the query refuses: an
\* open range that begins after now ends as an internal error.
Refused(q)     == q.from # Nil /\ q.to # Nil /\ q.to < q.from
Failed(q, now) == ~Refused(q) /\ ~Valid(FilterParam(q), now)

Limit(q) ==
  CASE q.limit = Nil                                   -> DefaultGenerationLimit
    [] q.limit # Nil /\ q.limit > MaxGenerationLimit -> MaxGenerationLimit
    [] OTHER                                           -> q.limit

-----------------------------------------------------------------------------
(* A stored request as JSON.  A count that was not reported stays null.    *)

ReportedUncached(row) ==
  LET cached == Coalesce(row.tok["cache_read"], 0) + Coalesce(row.tok["cache_creation"], 0)
  IN  CASE row.tok["input"] = Nil             -> Nil
        [] row.source \notin InclusiveSources -> row.tok["input"]
        [] OTHER                              -> Positive(row.tok["input"] - cached)

NonReasoningOutput(row) ==
  IF row.source \in InclusiveSources /\ Nil \notin {row.tok["output"], row.tok["reasoning"]}
    THEN Positive(row.tok["output"] - row.tok["reasoning"])
    ELSE row.tok["output"]

GenerationJSON(i, row) ==
  [id |-> i, timestamp |-> row.ts, source |-> row.source, model |-> Coalesce(row.model, ""),
   inputTokens |-> ReportedUncached(row), outputTokens |-> NonReasoningOutput(row),
   cacheReadTokens |-> row.tok["cache_read"], cacheCreationTokens |-> row.tok["cache_creation"],
   reasoningTokens |-> row.tok["reasoning"],
   cost |-> row.cost, costSource |-> row.costSource, tokenId |-> row.token]

-----------------------------------------------------------------------------
(* The endpoints.                                                          *)

TokenFields ==
  {"inputTokens", "outputTokens", "cacheReadTokens", "cacheCreationTokens", "reasoningTokens"}

\* The counts and sums of a summary, a point or a breakdown's row.
TotalsJSON(total) ==
  LET facts == DOMAIN total.sums
      costs(sources) == Measure(total, [x \in facts |-> IF x.costSource \in sources THEN 1 ELSE 0])
  IN
  [requests            |-> total.requests,
   inputTokens         |-> Measure(total, [x \in facts |-> x.input]),
   outputTokens        |-> Measure(total, [x \in facts |-> x.output]),
   cacheReadTokens     |-> Measure(total, [x \in facts |-> x.cache_read]),
   cacheCreationTokens |-> Measure(total, [x \in facts |-> x.cache_creation]),
   reasoningTokens     |-> Measure(total, [x \in facts |-> x.reasoning]),
   costReportedCount   |-> costs({"harness"}),
   costEstimatedCount  |-> costs({"openrouter", "manual"}),
   costFreeCount       |-> costs({"free"}),
   costKnownCount      |-> CostKnown(total),
   costUnknownCount    |-> total.requests - CostKnown(total),
   costTotal           |-> CostTotal(total)]

GetSummary(release, d, q, now) == TotalsJSON(Summary(release, d, Normalized(FilterParam(q), now)))

GetTimeseries(release, d, q, bucket, now) ==
  LET points == Timeseries(release, d, Normalized(FilterParam(q), now), bucket)
  IN  [n \in DOMAIN points |-> [bucketStart |-> points[n].start, totals |-> TotalsJSON(points[n].total)]]

BreakdownOf(release, d, q, column, now) ==
  LET rows == Breakdown(release, d, Normalized(FilterParam(q), now), column)
  IN  [k \in DOMAIN rows |-> TotalsJSON(rows[k])]

GetGenerations(d, q, now) ==
  LET page == RecentGenerations(d, Normalized(FilterParam(q), now), q.order, Limit(q), q.offset)
  IN  [n \in DOMAIN page |-> GenerationJSON(page[n], d.rows[page[n]])]

\* A client that goes on behind what it was given until it is given nothing.
GenerationsFrom(d, q, now) ==
  LET list[offset \in Nat] ==
        LET page == GetGenerations(d, [q EXCEPT !.offset = offset], now)
        IN  IF page = <<>> THEN <<>> ELSE page \o list[offset + Len(page)]
  IN  list[q.offset]
=============================================================================
