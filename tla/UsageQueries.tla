---------------------------- MODULE UsageQueries ----------------------------
(***************************************************************************)
(* The queries behind the dashboard and the JSON API                       *)
(* (src/internal/storage/usage.go, rollup.go, queries.go, conversations.go,*)
(* model_rank.go) over a database d = [rows, tables].                      *)
(*                                                                         *)
(* A filter keeps Nil where the code has a zero time or an empty string.   *)
(* `unbounded`, which only steers the query planner, is left out, and so   *)
(* are the limits of 1000 breakdown rows and dropdown values.              *)
(***************************************************************************)
EXTENDS UsageFacts, SequencesExt

CONSTANTS
  HourLength,      \* an hour, in the units of DayLength
  MonthStarts,     \* the times at which months begin, in order of the calendar
  TokenGroup,      \* [Tokens -> labels]: group_name; "" for none
  Bare(_),         \* a model's name without its creator's prefix
  StringRank(_)    \* how SQLite orders conversation keys

NoToken == 0       \* storage.TokenNone, and a rollup's missing token

\* The conversation filters that are not ids.
Sentinel(kind) == <<kind>>
Sentinels == {Sentinel("none"), Sentinel("autocomplete"), Sentinel("titleprogress")}

-----------------------------------------------------------------------------
(* Filter.                                                                 *)

Normalized(f, now) == [f EXCEPT !.to = Coalesce(@, now)]
Valid(f, now)      == f.from # Nil => f.from <= Coalesce(f.to, now)

\* dimSQL, over a row's or a group's key.
InDims(f, key) ==
  /\ f.source # Nil => key.source = f.source
  /\ f.model # Nil  => key.model = f.model
  /\ f.token # Nil  => key.token = f.token
  /\ f.group # Nil  => key.token \in Tokens /\ TokenGroup[key.token] = f.group
  /\ f.ungrouped    => key.token \in Tokens /\ TokenGroup[key.token] = ""

InConversation(f, row) ==
  CASE f.conv = Nil                        -> TRUE
    [] f.conv = Sentinel("none")           -> row.conv = Nil \/ IsHelper(row)
    [] f.conv = Sentinel("autocomplete")   -> IsAutocomplete(row)
    [] f.conv = Sentinel("titleprogress")  -> IsTitle(row)
    [] OTHER                               -> row.conv = f.conv /\ ~IsHelper(row)

\* whereSQL.
Selects(f, row) ==
  /\ f.from # Nil => row.ts >= f.from
  /\ row.ts < f.to
  /\ InConversation(f, row)
  /\ InDims(f, KeyOf("usage_daily", row))

Selected(d, f) == {i \in Stored(d.rows) : Selects(f, d.rows[i])}

-----------------------------------------------------------------------------
(* factsSQL.  A fact carries the rows it came straight from in `of`; those *)
(* of a rollup have none.                                                  *)

Hour(t) == (t \div HourLength) * HourLength

RawFacts(release, d, r, rows, hourly) ==
  { LET row == d.rows[i]
    IN  [of |-> {i}, bucket |-> IF hourly THEN Hour(row.ts) ELSE Day(row.ts),
         key |-> KeyOf(r, row), requests |-> 1, sums |-> [f \in {Facts(release, row)} |-> 1],
         first |-> row.ts, last |-> row.ts] : i \in rows }

\* The first whole day of the range, and the end of its last one.  (The
\* mutant counts the day that the range begins in as whole.)
BegunDay(f)  == IF f.from = Nil THEN 0 ELSE f.from - (f.from % DayLength)
WholeFrom(f) == IF f.from = Nil THEN 0 ELSE f.from + ((DayLength - (f.from % DayLength)) % DayLength)
WholeTo(f)   == f.to - (f.to % DayLength)

RolledFacts(d, r, f) ==
  { LET group == d.tables[r][key]
    IN  [of |-> {}, bucket |-> key.day, key |-> key, requests |-> group.requests,
         sums |-> group.sums, first |-> group.first, last |-> group.last]
      : key \in {k \in DOMAIN d.tables[r] : WholeFrom(f) <= k.day /\ k.day < WholeTo(f) /\ InDims(f, k)} }

\* Whole days come from the rollup and the rest from the requests; everything
\* does by the hour or for one conversation.
QueryFacts(release, d, r, f, hourly) ==
  LET rolled   == ~hourly /\ f.conv = Nil
      whole(t) == rolled /\ WholeFrom(f) <= t /\ t < WholeTo(f)
  IN  RawFacts(release, d, r, {i \in Selected(d, f) : ~whole(d.rows[i].ts)}, hourly)
      \cup (IF rolled THEN RolledFacts(d, r, f) ELSE {})

-----------------------------------------------------------------------------
(* Sums.                                                                   *)

SumOf(facts, measure(_)) == MapThenSumSet(measure, facts)

\* factSumsSQL, factCostSQL: what a group of facts adds up to.
Totals(facts) ==
  [requests |-> SumOf(facts, LAMBDA f : f.requests),
   sums     |-> [x \in UNION {DOMAIN f.sums : f \in facts} |-> SumOf(facts, LAMBDA f : Multiplicity(f.sums, x))]]

NoTotals == [requests |-> 0, sums |-> [x \in {} |-> 0]]

Added(a, b) ==
  [requests |-> a.requests + b.requests,
   sums     |-> [x \in DOMAIN a.sums \cup DOMAIN b.sums |-> Multiplicity(a.sums, x) + Multiplicity(b.sums, x)]]

\* What each fact counts for, times its multiplicity.
Measure(total, weight) == SumFunction([x \in DOMAIN total.sums |-> total.sums[x] * weight[x]])

TokensOf(x) == x.input + x.output + x.cache_read + x.cache_creation + x.reasoning

TotalTokens(total) == Measure(total, [x \in DOMAIN total.sums |-> TokensOf(x)])
CostKnown(total)   == Measure(total, [x \in DOMAIN total.sums |-> IF x.known THEN 1 ELSE 0])

\* "No cost data" never surfaces as zero.
CostTotal(total) ==
  IF CostKnown(total) > 0 THEN Measure(total, [x \in DOMAIN total.sums |-> x.cost]) ELSE Nil

-----------------------------------------------------------------------------
(* Summary, Earliest, Timeseries, breakdown, distinct, TopModels.          *)

Summary(release, d, f) == Totals(QueryFacts(release, d, "usage_daily", f, FALSE))

Earliest(d, f) ==
  LET times == {d.rows[i].ts : i \in Selected(d, [f EXCEPT !.from = Nil])}
  IN  IF times = {} THEN Nil ELSE Least(times)

Buckets == {"hour", "day", "week", "month"}

\* 1970-01-01 was a Thursday.
Weekday(day) == (4 + (day \div DayLength)) % 7

\* bucketStart.  (The mutant's week begins on Sunday.)
SundayStart(day, bucket) ==
  IF bucket = "week" THEN day - Weekday(day) * DayLength ELSE day
BucketStart(day, bucket) ==
  CASE bucket = "week"  -> day - ((Weekday(day) + 6) % 7) * DayLength
    [] bucket = "month" -> Greatest({m \in MonthStarts : m <= day})
    [] OTHER            -> day

\* ORDER BY: the n-th is the one with n - 1 of the others ahead of it.
Sorted(ahead) ==
  [n \in 1..Cardinality(DOMAIN ahead) |-> CHOOSE x \in DOMAIN ahead : Cardinality(ahead[x]) = n - 1]

Ordered(S) == Sorted([a \in S |-> {b \in S : b < a}])

\* The points that SQL returns, in order.
BucketRows(facts) ==
  [n \in DOMAIN Ordered({f.bucket : f \in facts}) |->
     LET start == Ordered({f.bucket : f \in facts})[n]
     IN  [start |-> start, total |-> Totals({f \in facts : f.bucket = start})]]

\* mergeDays: days come in order; a day of another bucket begins a point.
\* (The mutant compares it with the day before instead of the point.)
MergeDayApart(points, day, bucket) ==
  IF points # <<>> /\ Last(points).start = day.start
    THEN [points EXCEPT ![Len(points)].total = Added(@, day.total)]
    ELSE Append(points, [start |-> BucketStart(day.start, bucket), total |-> day.total])
MergeDay(points, day, bucket) ==
  LET start == BucketStart(day.start, bucket)
  IN  IF points # <<>> /\ Last(points).start = start
        THEN [points EXCEPT ![Len(points)].total = Added(@, day.total)]
        ELSE Append(points, [start |-> start, total |-> day.total])

MergeDays(days, bucket) ==
  IF bucket \in {"hour", "day"}
    THEN days
    ELSE FoldLeft(LAMBDA points, day : MergeDay(points, day, bucket), <<>>, days)

Timeseries(release, d, f, bucket) ==
  MergeDays(BucketRows(QueryFacts(release, d, "usage_daily", f, bucket = "hour")), bucket)

\* mergeSourceDays looks its point up by bucket and source, so the order of
\* the days plays no part.
BySource(facts) ==
  { [start |-> p[1], source |-> p[2], total |-> Totals({x \in facts : x.bucket = p[1] /\ x.key.source = p[2]})]
      : p \in {<<x.bucket, x.key.source>> : x \in facts} }
TimeseriesBySource(release, d, f, bucket) ==
  BySource({[x EXCEPT !.bucket = BucketStart(@, bucket)] :
              x \in QueryFacts(release, d, "usage_daily", f, bucket = "hour")})

\* tokenGroupKeySQL: requests without a token and tokens without a group share a key.
GroupKey(column, key) ==
  CASE column = "source" -> key.source
    [] column = "model"  -> Bare(key.model)
    [] column = "group"  -> IF key.token \in Tokens THEN TokenGroup[key.token] ELSE ""
    [] column = "token"  -> key.token

ByGroupKey(facts, column) ==
  [k \in {GroupKey(column, x.key) : x \in facts} |-> Totals({x \in facts : GroupKey(column, x.key) = k})]
Breakdown(release, d, f, column) == ByGroupKey(QueryFacts(release, d, "usage_daily", f, FALSE), column)

\* The dropdowns read generations.
Distinct(d, f, column) == {d.rows[i][column] : i \in Selected(d, f)} \ {Nil}

\* TopModels before its LIMIT: the models that are ranked, and by what.
Rank(total, days) == [tokens |-> TotalTokens(total), days |-> Cardinality(days), cost |-> CostTotal(total)]
RankedOf(facts) ==
  [m \in {Bare(x.key.model) : x \in facts} |->
     Rank(Totals({x \in facts : Bare(x.key.model) = m}), {x.bucket : x \in {y \in facts : Bare(y.key.model) = m}})]
Costed(all)     == [m \in {n \in DOMAIN all : all[n].cost # Nil} |-> all[m]]
Ranked(release, d, f, metric) ==
  LET all == RankedOf({x \in QueryFacts(release, d, "usage_daily", f, FALSE) :
                         x.key.model # "" /\ (metric = "days" => ~x.key.helper)})
  IN  IF metric = "cost" THEN Costed(all) ELSE all

\* ORDER BY: the metric, then the tokens, then the name.
Outranks(ranked, metric, m, n) ==
  LET lead(x) == ranked[x][metric]
  IN  \/ lead(m) > lead(n)
      \/ lead(m) = lead(n) /\ ranked[m].tokens > ranked[n].tokens
      \/ lead(m) = lead(n) /\ ranked[m].tokens = ranked[n].tokens /\ StringRank(m) < StringRank(n)

TopThree(ranked, metric) ==
  LET order == Sorted([m \in DOMAIN ranked |-> {n \in DOMAIN ranked : Outranks(ranked, metric, n, m)}])
  IN  [n \in DOMAIN order \cap 1..3 |-> [model |-> order[n], rank |-> ranked[order[n]]]]
TopModels(release, d, f, metric) == TopThree(Ranked(release, d, f, metric), metric)

-----------------------------------------------------------------------------
(* Conversations, RecentGenerations.                                       *)

\* ORDER BY time alone: SQLite's sorter leaves equals as they came.
Ahead(time, rank, order, a) ==
  {b \in DOMAIN time : \/ IF order = "desc" THEN time[b] > time[a] ELSE time[b] < time[a]
                       \/ time[b] = time[a] /\ rank[b] < rank[a]}
InOrder(time, rank, order) == Sorted([a \in DOMAIN time |-> Ahead(time, rank, order, a)])

Page(seq, limit, offset) ==
  SubSeq(seq, offset + 1, IF offset + limit < Len(seq) THEN offset + limit ELSE Len(seq))

Card(c, facts) ==
  [conversation |-> c, total |-> Totals(facts),
   first |-> Least({x.first : x \in facts}), last |-> Greatest({x.last : x \in facts})]
CardsOf(facts) == {Card(c, {x \in facts : x.key.conversation = c}) : c \in {x.key.conversation : x \in facts}}
Sessions(release, d, f) == CardsOf(QueryFacts(release, d, "conversation_daily", f, FALSE))

\* The request a card takes its source and model from: any of the last ones.
\* (The mutant does not repeat the filter.)
LatestOfAll(d, f, card) ==
  {i \in Stored(d.rows) : d.rows[i].ts = card.last /\ Conversation(d.rows[i]) = card.conversation}
Latest(d, f, card) ==
  {i \in Selected(d, f) : d.rows[i].ts = card.last /\ Conversation(d.rows[i]) = card.conversation}

\* The number of cards comes with their rows, so a page past the end has none.
WithTotal(rows, n) == [rows |-> rows, total |-> IF rows = <<>> THEN 0 ELSE n]
PageOfCards(cards, order, limit, offset) ==
  WithTotal(Page(InOrder([c \in cards |-> c.last], [c \in cards |-> StringRank(c.conversation)], order),
                 limit, offset),
            Cardinality(cards))
Conversations(release, d, f, order, limit, offset) ==
  PageOfCards(Sessions(release, d, f), order, limit, offset)

RecentGenerations(d, f, order, limit, offset) ==
  LET rows == Selected(d, f)
  IN  Page(InOrder([i \in rows |-> d.rows[i].ts], [i \in rows |-> i], order), limit, offset)

\* A key that begins like a day's key is one, whoever made it.
IsKeyed(c, kind) == \E t \in Times : c = Keyed(kind, Day(t))

ConversationFilterForKey(c) ==
  CASE IsKeyed(c, "other")         -> Sentinel("none")
    [] IsKeyed(c, "autocomplete")  -> Sentinel("autocomplete")
    [] IsKeyed(c, "titleprogress") -> Sentinel("titleprogress")
    [] OTHER                       -> c
=============================================================================
