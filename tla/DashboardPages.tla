--------------------------- MODULE DashboardPages ---------------------------
(***************************************************************************)
(* What the dashboard makes of the queries (src/internal/web/web.go,       *)
(* filters.go): the range of a page, its cards, heatmap, charts and tables *)
(* and the links from a session's card.  Labels and layout are left out.   *)
(***************************************************************************)
EXTENDS UsageQueries

CONSTANTS
  HeatmapWeeks,    \* 53
  MaxBuckets,      \* the most buckets a chart is filled up to (1000)
  PageLimit        \* rows on a page: of sessions (60) or of requests (50)

-----------------------------------------------------------------------------
(* The query parameters: a range, explicit bounds, dimensions.             *)

Ranges == {Nil, "today", "7d", "30d", "month", "all"}

NoUi ==
  [range |-> Nil, from |-> Nil, to |-> Nil, source |-> Nil, model |-> Nil, token |-> Nil,
   group |-> Nil, ungrouped |-> FALSE, conv |-> Nil]

\* uiFilter.dims.
Dims(u, from, to) ==
  [from |-> from, to |-> to, source |-> u.source, model |-> u.model, token |-> u.token,
   group |-> u.group, ungrouped |-> u.ungrouped, conv |-> u.conv]

StartOfWeek(t)  == Day(t) - ((Weekday(Day(t)) + 6) % 7) * DayLength
StartOfMonth(t) == Greatest({m \in MonthStarts : m <= Day(t)})

RangeStart(range, now) ==
  CASE range = "all"              -> Nil
    [] range \in {Nil, "today"}   -> Day(now)
    [] range = "7d"               -> now - 7 * DayLength
    [] range = "30d"              -> now - 30 * DayLength
    [] range = "month"            -> StartOfMonth(now)

\* parseFilter: explicit bounds win over the range.
ParseFilter(u, now) ==
  Dims(u, IF u.from = Nil /\ u.to = Nil THEN RangeStart(u.range, now) ELSE u.from, u.to)

Accepted(u) == u.from # Nil /\ u.to # Nil => u.from <= u.to

\* trendBucketParam, with the 48 hours, 62 days and 2 years of the code.
TrendBucket(f, now) ==
  LET d == Coalesce(f.to, now) - f.from
  IN  CASE f.from = Nil                                              -> "month"
        [] f.from # Nil /\ d <= 2 * DayLength                        -> "hour"
        [] f.from # Nil /\ 2 * DayLength < d /\ d <= 62 * DayLength  -> "day"
        [] f.from # Nil /\ 62 * DayLength < d /\ d <= 730 * DayLength -> "week"
        [] OTHER                                                     -> "month"

-----------------------------------------------------------------------------
(* Dashboard: the cards and the heatmap.                                   *)

Periods == {"today", "week", "month", "all"}

PeriodStart(period, now, rolling) ==
  CASE period = "today" -> Day(now)
    [] period = "week"  -> IF rolling THEN now - 7 * DayLength ELSE StartOfWeek(now)
    [] period = "month" -> IF rolling THEN now - 30 * DayLength ELSE StartOfMonth(now)
    [] period = "all"   -> Nil

Cards(release, d, u, now, rolling) ==
  [p \in Periods |->
     [total |-> Summary(release, d, Normalized(Dims(u, PeriodStart(p, now, rolling), Nil), now)),
      since |-> IF p = "all" THEN Earliest(d, Normalized(Dims(u, Nil, Nil), now)) ELSE Nil]]

\* Whole weeks from a Sunday, the last of which has today.
HeatmapStart(now) ==
  LET back == Day(now) - (HeatmapWeeks - 1) * 7 * DayLength
  IN  back - Weekday(back) * DayLength
HeatmapEnd(now) == HeatmapStart(now) + HeatmapWeeks * 7 * DayLength

Level(tokens, most) ==
  LET level == (tokens * 4 + most - 1) \div most
  IN  IF level > 4 THEN 4 ELSE level

Heatmap(release, d, u, now) ==
  LET f      == Dims(u, HeatmapStart(now), HeatmapEnd(now))
      points == ToSet(Timeseries(release, d, f, "day"))
      tokens(day) == LET p == {q \in points : q.start = day}
                     IN  IF p = {} THEN 0 ELSE TotalTokens((CHOOSE q \in p : TRUE).total)
      days   == {HeatmapStart(now) + n * DayLength : n \in 0..(7 * HeatmapWeeks - 1)}
      most   == Greatest({tokens(day) : day \in days})
  IN  [day \in days |-> [tokens |-> tokens(day), future |-> day > Day(now),
                         level |-> IF tokens(day) = 0 THEN 0 ELSE Level(tokens(day), most)]]

-----------------------------------------------------------------------------
(* Trends: the charts and the leaderboard.                                 *)

ChartBucketStart(t, bucket) ==
  CASE bucket = "hour"  -> Hour(t)
    [] bucket = "day"   -> Day(t)
    [] bucket = "week"  -> StartOfWeek(t)
    [] bucket = "month" -> StartOfMonth(t)

NextChartBucket(t, bucket) ==
  CASE bucket = "hour"  -> t + HourLength
    [] bucket = "day"   -> t + DayLength
    [] bucket = "week"  -> t + 7 * DayLength
    [] bucket = "month" -> Least({m \in MonthStarts : m > t})

BucketsUpTo(t, last, bucket) ==
  LET line[u \in Int] == IF u > last THEN <<>> ELSE <<u>> \o line[NextChartBucket(u, bucket)]
  IN  line[t]

PointAt(points, start) ==
  LET p == {q \in ToSet(points) : q.start = start}
  IN  IF p = {} THEN [start |-> start, total |-> NoTotals] ELSE CHOOSE q \in p : TRUE

\* fillTimeseries over the page's filter, whose To may be open or ahead of now.
FillTimeseries(points, f, bucket, now) ==
  LET to    == IF f.to = Nil \/ f.to > now THEN now ELSE f.to
      start == ChartBucketStart(IF f.from = Nil THEN Head(points).start ELSE f.from, bucket)
      last  == ChartBucketStart(to - 1, bucket)
      line  == BucketsUpTo(start, last, bucket)
  IN  IF points = <<>> \/ last < start \/ Len(line) > MaxBuckets
        THEN points
        ELSE [n \in DOMAIN line |-> PointAt(points, line[n])]

\* buildCostChart: an idle bucket is a known zero, an unknown cost a gap.
CostChart(points) ==
  [n \in DOMAIN points |->
     IF points[n].total.requests = 0 THEN 0 ELSE CostTotal(points[n].total)]

\* buildSourceChart: a line of tokens for each source, over the other charts' buckets.
SourceChart(sourcePoints, points) ==
  [s \in {p.source : p \in sourcePoints} |->
     [n \in DOMAIN points |->
        SumOf({p \in sourcePoints : p.source = s /\ p.start = points[n].start},
              LAMBDA p : TotalTokens(p.total))]]

Trends(release, d, u, bucket, now) ==
  LET f      == ParseFilter(u, now)
      points == FillTimeseries(Timeseries(release, d, Normalized(f, now), bucket), f, bucket, now)
  IN  [points  |-> points,
       cost    |-> CostChart(points),
       sources |-> SourceChart(TimeseriesBySource(release, d, Normalized(f, now), bucket), points)]

\* totalBreakdown.
TotalBreakdown(rows) ==
  [requests |-> MapThenSumSet(LAMBDA k : rows[k].requests, DOMAIN rows),
   sums     |-> [x \in UNION {DOMAIN rows[k].sums : k \in DOMAIN rows} |->
                   MapThenSumSet(LAMBDA k : Multiplicity(rows[k].sums, x), DOMAIN rows)]]

-----------------------------------------------------------------------------
(* Sessions.                                                               *)

\* (The mutant counts rows from one.)
PastNextOffset(offset) == offset + PageLimit + 1
NextOffset(offset)     == offset + PageLimit

\* sessionsData: a page of one view, and whether it links to a next one.
SessionsPage(release, d, f, order, offset) ==
  LET page == Conversations(release, d, f, order, PageLimit, offset)
  IN  [items   |-> {page.rows[n].conversation : n \in DOMAIN page.rows},
       hasNext |-> offset + Len(page.rows) < page.total]

RequestsPage(d, f, order, offset) ==
  LET page == RecentGenerations(d, f, order, PageLimit, offset)
  IN  [items |-> ToSet(page), hasNext |-> Len(page) = PageLimit]

\* The link of a card: the current filters with another conversation.
ConversationURL(u, c) ==
  [NoUi EXCEPT !.range = u.range, !.source = u.source, !.model = u.model, !.token = u.token,
               !.group = u.group, !.ungrouped = u.ungrouped,
               !.conv = ConversationFilterForKey(c)]

\* The link back keeps explicit bounds.
WithoutConversationURL(u) == [u EXCEPT !.conv = Nil]
=============================================================================
