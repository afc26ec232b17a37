-------------------------- MODULE DashboardReader --------------------------
(***************************************************************************)
(* Readers of the dashboard beside the writes of UsageRollup: someone who  *)
(* pages through the sessions or the requests, newest first, while rows    *)
(* change between one page and the next (src/internal/web/web.go,          *)
(* sessionsData), and what every query returns in every database that the  *)
(* writes can leave.                                                       *)
(***************************************************************************)
EXTENDS UsageRollup, DashboardPages, ReadApi

CONSTANTS
  Now,             \* the readers' time
  Uis              \* the query parameters of the pages looked at

ConversationKeys ==
  ConversationIds \cup {Keyed(kind, Day(t)) : kind \in {"autocomplete", "titleprogress", "other"}, t \in Times}

\* Time 0, which begins 1970, begins a month.  A page has the parameters of
\* NoUi.  A conversation filter that is not set is none of the sentinels, and
\* no page begins at it.  Rows are numbered as they come, and conversation keys
\* in the order of the strings.
ASSUME ReaderAssumption ==
  /\ Now \in Nat /\ HourLength \in Nat \ {0}
  /\ IsFiniteSet(MonthStarts) /\ MonthStarts \subseteq Nat /\ 0 \in MonthStarts
  /\ \A u \in Uis : /\ u = [x \in DOMAIN NoUi |-> u[x]]
                    /\ u.range \in Ranges /\ {u.from, u.to} \subseteq Int \cup {Nil}
  /\ Nil \notin Sentinels /\ Nil \notin Int
  /\ PageLimit \in Nat \ {0}
  /\ Ids \subseteq Int
  /\ \A a, b \in ConversationKeys : StringRank(a) \in Int /\ (StringRank(a) = StringRank(b) => a = b)

\* Models are in the order of the strings too.  An empty one is stored as NULL
\* (nullableString), and no cost is negative.
ASSUME FigureAssumption ==
  /\ HeatmapWeeks \in Nat \ {0}
  /\ DefaultGenerationLimit \in Nat \ {0} /\ MaxGenerationLimit \in Nat \ {0}
  /\ "" \notin Models /\ Prices \subseteq Nat
  /\ \A m, n \in Models : /\ StringRank(Bare(m)) \in Int
                          /\ StringRank(Bare(m)) = StringRank(Bare(n)) => Bare(m) = Bare(n)

\* The calendar begins no later than a range does, and goes on past the present;
\* months begin with a day.  A chart has room for the buckets of a range at its
\* own resolution: 49 hours, 63 days, 106 weeks, or the months of the calendar.
ASSUME ChartAssumption ==
  /\ \A u \in Uis : u.from # Nil => u.from >= 0
  /\ Now >= 30 * DayLength /\ \E m \in MonthStarts : m > Now
  /\ \A m \in MonthStarts : Day(m) = m
  /\ MaxBuckets \in Nat /\ MaxBuckets >= 106 /\ MaxBuckets >= Cardinality(MonthStarts)
  /\ MaxBuckets * HourLength >= 2 * DayLength + HourLength

VARIABLES
  walk,            \* [view, offset, seen] of the pages read so far; view Nil when none is
  steady,          \* what was on the list at the first page and has not moved since
  receded          \* something fell back in the order, or off the list, since the first page

reader == <<walk, steady, receded>>

Views   == {"sessions", "requests"}
NoWalk  == [view |-> Nil, offset |-> 0, seen |-> {}]
NoFilter == Normalized(Dims(NoUi, Nil, Nil), Now)

TimesOf(cards) == [c \in {s.conversation : s \in cards} |-> (CHOOSE s \in cards : s.conversation = c).last]

\* What a view lists, and when each entry was last active.
LastActive(view, d) ==
  IF view = "sessions"
    THEN TimesOf(Sessions(release, d, NoFilter))
    ELSE [i \in Selected(d, NoFilter) |-> d.rows[i].ts]

PageOf(view, offset) ==
  IF view = "sessions"
    THEN SessionsPage(release, before, NoFilter, "desc", offset)
    ELSE RequestsPage(before, NoFilter, "desc", offset)

ReaderInit == Init /\ walk = NoWalk /\ steady = {} /\ receded = FALSE

\* A page that links to no next one ends the walk.
ReadOn(view, offset, seen, page) ==
  walk' = [view |-> view, seen |-> seen \cup page.items,
           offset |-> IF page.hasNext THEN NextOffset(offset) ELSE Nil]
ReadPage(view, offset, seen) == ReadOn(view, offset, seen, PageOf(view, offset))

FirstPage(view) ==
  /\ mode = "serving"
  /\ ReadPage(view, 0, {})
  /\ steady' = DOMAIN LastActive(view, before) /\ receded' = FALSE
  /\ UNCHANGED vars

NextPage ==
  /\ mode = "serving" /\ walk.view # Nil /\ walk.offset # Nil
  /\ ReadPage(walk.view, walk.offset, walk.seen)
  /\ UNCHANGED <<vars, steady, receded>>

Watch(then, now) ==
  /\ steady' = {c \in steady : c \in DOMAIN now /\ now[c] = then[c]}
  /\ receded' = (receded \/ \E c \in DOMAIN then : c \notin DOMAIN now \/ now[c] < then[c])

\* A write, or a restart, between two pages.
Meanwhile ==
  /\ Next
  /\ UNCHANGED walk
  /\ IF walk.view = Nil \/ walk.offset = Nil \/ before' = before
       THEN UNCHANGED <<steady, receded>>
       ELSE Watch(LastActive(walk.view, before), LastActive(walk.view, before'))

ReaderNext == Meanwhile \/ (\E view \in Views : FirstPage(view)) \/ NextPage

ReaderSpec == ReaderInit /\ [][ReaderNext]_<<vars, reader>>

-----------------------------------------------------------------------------
(* Properties.                                                             *)

\* A reader who follows the pager newest first is shown every entry that
\* stayed where it was, whatever requests arrive between the pages, unless an
\* entry falls back: offsets count from the newest, so additions only repeat
\* entries (sessionsData, HasNext and NextOffset).
WalkSkipsNone ==
  walk.view # Nil /\ walk.offset = Nil /\ ~receded => steady \subseteq walk.seen

Quiet == mode = "serving" /\ txn = "none" /\ walk = NoWalk

\* The pages that are answered.
Answered == {u \in Uis : Accepted(u) /\ Valid(ParseFilter(u, Now), Now)}
Filters  == {Normalized(ParseFilter(u, Now), Now) : u \in Answered}

\* The reference: straight from the requests that the filter selects.
Direct(f, r, S) == RawFacts(release, before, r, S, FALSE)

\* What a ranking or a card adds to the sums of a fact.
ByDay(facts) == [day \in {x.bucket : x \in facts} |-> Totals({x \in facts : x.bucket = day})]
ByKey(facts, of(_)) == [k \in {of(x) : x \in facts} |-> ByDay({x \in facts : of(x) = k})]

\* Joining whole days of a rollup to the requests of the partial days at the
\* ends of the range gives each request that the filter selects once, for
\* every range and filter: the same sums by day and by every dimension, and
\* the same first and last times of each session (factsSQL).
RangeSplitIsExact ==
  Quiet => \A f \in Filters :
    LET rows == Selected(before, f)
        split(r) == QueryFacts(release, before, r, f, FALSE)
        span(facts) == [c \in {x.key.conversation : x \in facts} |->
                          <<Least({x.first : x \in {y \in facts : y.key.conversation = c}}),
                            Greatest({x.last : x \in {y \in facts : y.key.conversation = c}})>>]
    IN  /\ \A r \in Rollups :
             ByKey(split(r), LAMBDA x : x.key) = ByKey(Direct(f, r, rows), LAMBDA x : x.key)
        /\ span(split("conversation_daily")) = span(Direct(f, "conversation_daily", rows))

\* For one filter, the API's list, read to its end with any limit, has every
\* request that is selected once, and its token classes and costs, worked out
\* one request at a time, add up to the API's summary, points and rows.
QueryOf(f, limit, order) ==
  [from |-> f.from, to |-> f.to, source |-> f.source, model |-> f.model, token |-> f.token, group |-> f.group,
   ungrouped |-> f.ungrouped, conv |-> f.conv, limit |-> limit, offset |-> 0, order |-> order]

ListAgrees(f, q) ==
  LET summary == GetSummary(release, before, q, Now)
      list    == GenerationsFrom(before, q, Now)
      ids     == {list[n].id : n \in DOMAIN list}
      of(field) == SumFunction([n \in DOMAIN list |-> Coalesce(list[n][field], 0)])
      costed  == {n \in DOMAIN list : list[n].cost # Nil}
  IN  /\ ~Refused(q) /\ ~Failed(q, Now)
      /\ ids = Selected(before, f) /\ Len(list) = Cardinality(ids)
      /\ \A field \in TokenFields : of(field) = summary[field]
      /\ summary.costUnknownCount = Cardinality(DOMAIN list \ costed)
      /\ summary.costReportedCount = Cardinality({n \in costed : list[n].costSource = "harness"})
      /\ summary.costTotal = IF costed = {} THEN Nil ELSE of("cost")

SumsAgree(q) ==
  LET summary == GetSummary(release, before, q, Now)
      points  == GetTimeseries(release, before, q, "week", Now)
      rows(column) == BreakdownOf(release, before, q, column, Now)
  IN  \A field \in TokenFields :
        /\ SumFunction([n \in DOMAIN points |-> points[n].totals[field]]) = summary[field]
        /\ \A column \in {"model", "token"} :
             SumFunction([k \in DOMAIN rows(column) |-> rows(column)[k][field]]) = summary[field]

ApiAgrees(f) ==
  \A limit \in {Nil, MaxGenerationLimit + 1}, order \in {"asc", "desc"} :
    ListAgrees(f, QueryOf(f, limit, order)) /\ SumsAgree(QueryOf(f, limit, order))

\* Every breakdown adds up to the summary, and the dropdown offers its sources.
RowsAddUp(f) ==
  /\ \A column \in {"source", "model", "group", "token"} :
       TotalBreakdown(Breakdown(release, before, f, column)) = Summary(release, before, f)
  /\ DOMAIN Breakdown(release, before, f, "source") = Distinct(before, f, "source")

\* So does every chart, whose points come in order.
SeriesAddUp(f) ==
  \A bucket \in Buckets :
    LET points == Timeseries(release, before, f, bucket)
    IN  /\ FoldLeft(LAMBDA a, p : Added(a, p.total), NoTotals, points) = Summary(release, before, f)
        /\ \A m, n \in DOMAIN points : m < n => points[m].start < points[n].start

\* The leaderboard has the tokens of the model breakdown, whose names the
\* dropdown offers, and is led by the most.  A name that is only a prefix reads
\* like none, and there the breakdown also has the requests without a model.
RankingAgrees(f) ==
  LET byModel == Breakdown(release, before, f, "model")
      ranked  == Ranked(release, before, f, "tokens")
  IN  /\ \A m \in DOMAIN ranked :
           /\ m # Bare("") => ranked[m].tokens = TotalTokens(byModel[m])
           /\ ranked[m].tokens <= TopModels(release, before, f, "tokens")[1].rank.tokens
      /\ DOMAIN ranked = {Bare(m) : m \in Distinct(before, f, "model")}

\* The heatmap has a cell for today, and its cells have its range's tokens.
HeatmapCovers(f) ==
  LET cells == Heatmap(release, before, f, Now)
  IN  /\ Day(Now) \in DOMAIN cells
      /\ SumFunction([day \in DOMAIN cells |-> cells[day].tokens])
           = TotalTokens(Summary(release, before, Dims(f, HeatmapStart(Now), HeatmapEnd(Now))))

\* The cards count what their period has, from the first request on.
CardsCount(f) ==
  LET rows == Selected(before, [f EXCEPT !.from = Nil, !.to = Now])
  IN  \A rolling \in BOOLEAN :
        LET cards == Cards(release, before, f, Now, rolling)
        IN  /\ \A p \in Periods :
                 LET since == PeriodStart(p, Now, rolling)
                 IN  cards[p].total.requests = Cardinality({i \in rows : since # Nil => before.rows[i].ts >= since})
            /\ \A i \in rows : cards["all"].since <= before.rows[i].ts

\* What a page shows adds up: every chart's points, and every breakdown's
\* rows, to the summary of the same filter; the leaderboard has the tokens of
\* the model breakdown, whose names and sources the dropdowns offer; and the
\* heatmap has a cell for today and for all of its range's tokens; the cards
\* count what their period has (mergeDays, breakdown, totalBreakdown,
\* TopModels, distinct, heatmap, cards).  The API agrees, whose token classes
\* are computed in Go for a request (UncachedInput, NonReasoningOutput) and in
\* SQL for the aggregates (factMeasuresSQL).
PagesAddUp ==
  Quiet => \A f \in Filters : /\ SeriesAddUp(f) /\ RowsAddUp(f) /\ RankingAgrees(f)
                              /\ HeatmapCovers(f) /\ CardsCount(f) /\ ApiAgrees(f)

\* A chart filled with idle buckets shows every request of a range that does
\* not reach past now, and each source's line adds up to the same tokens:
\* storage's buckets fall on the chart's (bucketStart and mergeDays against
\* chartBucketStart, nextChartBucket and buildSourceChart).  At the resolution
\* chosen for the range no bucket is left out (trendBucketParam, fillTimeseries).
ChartsShowAll ==
  Quiet => \A u \in {v \in Answered : v.to # Nil => v.to <= Now}, bucket \in Buckets :
    LET trends  == Trends(release, before, u, bucket, Now)
        summary == Summary(release, before, Normalized(ParseFilter(u, Now), Now))
        line(s) == SumFunction([n \in DOMAIN trends.points |-> trends.sources[s][n]])
        gapless == \A n \in 2..Len(trends.points) :
                     trends.points[n].start = NextChartBucket(trends.points[n - 1].start, bucket)
    IN  /\ SumFunction([n \in DOMAIN trends.points |-> trends.points[n].total.requests]) = summary.requests
        /\ bucket = TrendBucket(ParseFilter(u, Now), Now) => gapless
        /\ SumFunction([s \in DOMAIN trends.sources |-> line(s)]) = TotalTokens(summary)

\* A conversation id that reads like a day's key, or like a filter that is none.
Reserved(c) == LooksKeyed(c) \/ c \in Sentinels

\* Every card names one of the requests it counts, and its link leads to a
\* page with all of them: no others for a session of its own, and other days'
\* for the groups without one; the link back restores the filters
\* (Conversations, ConversationFilterForKey, conversationURL).  Reserved
\* ids are left aside.
CardsOpen ==
  Quiet => \A u \in {v \in Answered : v.from = Nil /\ v.to = Nil /\ v.conv = Nil} :
    LET f == Normalized(ParseFilter(u, Now), Now)
    IN  \A card \in Sessions(release, before, f) :
          LET counted == {i \in Selected(before, f) : Conversation(before.rows[i]) = card.conversation}
              linked  == Selected(before, Normalized(ParseFilter(ConversationURL(u, card.conversation), Now), Now))
              own     == ~Reserved(card.conversation)
          IN  /\ card.total.requests = Cardinality(counted)
              /\ Latest(before, f, card) # {} /\ Latest(before, f, card) \subseteq counted
              /\ {i \in counted : own \/ before.rows[i].conv # card.conversation} \subseteq linked
              /\ own => linked \subseteq counted
              /\ WithoutConversationURL(ConversationURL(u, card.conversation)) = u
=============================================================================
