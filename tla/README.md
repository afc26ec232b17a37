# ai-usage: a TLA+ model

ai-usage is one Go process beside one SQLite file. Coding harnesses export
OpenTelemetry to it; it keeps one row per model request, estimates what the
request cost, and shows the result on a dashboard that refreshes itself. This
directory models the parts of it where goroutines, retries, restarts, lost
messages or a clock meet, and the queries whose answers must agree with one
another; checks them with TLC on small instances; and proves, with TLAPS and
for every instance, all safety properties of eight of them and one refinement.

`PROJECT.json` lists the components, the runs, the source lines behind every
definition (`map`), a plausible bug per property that the run must notice
(`mutants`), the hazards with their lines, the findings and the theorems.

- [The system](#the-system) · [Modules](#modules) · [Runs](#runs) ·
  [Fairness](#fairness) · [Proofs](#proofs) · [Findings](#findings) ·
  [What is not modelled](#what-is-not-modelled) · [Plan](#plan)

To check a run: `tlc -config <run>.cfg MC<Module>.tla`. To check a proof:
`tlapm <Module>Proofs.tla`.

## The system

Paths are under `src/internal` unless they say otherwise.

| component | code | state | operations |
|---|---|---|---|
| OTLP receivers | `ingest/http.go`, `ingest/grpc.go` | none of their own | decode, limit, hand a request to the pipeline |
| Ingestion pipeline | `ingest/pipeline.go`, `storage/stats*.go` | session counters, base counters, day of the base; `stats_daily`, `stats_daily_reasons` | ConsumeTraces/Logs, Save (ticker, midnight, shutdown), RestoreBase |
| Normalization | `normalize/*` | none | source detection, token buckets, record ids |
| Generation storage | `storage/usage.go`, `storage/queries.go` | `generations` | insert or merge a record; read-only queries |
| Daily rollup | `storage/rollup.go` | `usage_daily`, `conversation_daily`, `rollup_state` | triggers on `generations`, rebuild after an upgrade |
| Cost enrichment | `pricing/*`, `storage/pricing*.go` | catalog (memory and `pricing_catalog`), wake token, retry timer, the row columns `pricing_*` and `cost*`, `pricing_jobs` | AfterCommit, Run, refresh, process, backfill |
| Live notifications | `live/live.go`, `web/sse.go` | subscribers, stream registry, one-signal channels | Notify, Subscribe, TrackStream, InterruptStreams |
| API tokens | `auth/tokens.go`, `storage/tokens.go` | `api_tokens`, `api_token_retired_hashes`, cache of hashes, last uses | Create, Revoke, Regenerate, Seed, Reload, Verify, Flush |
| Dashboard sessions | `auth/session.go`, `auth/dashboard.go`, `web/auth.go` | none on the server; a signed expiry in a cookie | Issue, Refresh, Valid, Clear |
| Backups | `backup/backup.go`, `storage/backup.go`, `web/settings.go` | `dashboard_settings`, `success.json`, `schedule.json`, status, wake token, cached listing | Run, Start, Reschedule, Backups |
| Migrations | `storage/migrations.go` | `schema_migrations` | Migrate at start |
| Process lifecycle | `src/cmd/ai-usage/main.go` | servers and workers | start, graceful shutdown |
| Read API, dashboard pages | `api/*`, `web/web.go`, `web/filters.go` | none | ranges, filters, pages, charts over the storage queries |
| Configuration, developer tools | `config/*`, `src/cmd/*` | none | read once at start; not part of the process |

How they meet:

- An export runs in its request's goroutine: counters, then a transaction
  that inserts or merges rows (the rollup triggers run inside it), then
  AfterCommit wakes the pricing worker and Notify signals the dashboard.
- The pricing worker reads *copies* of rows, prices them outside of any
  transaction, and writes a result back if the row's `pricing_revision` did
  not move. Its estimates signal the dashboard too.
- A dashboard tab reads the database when it is rendered and again, after a
  delay, when a signal reaches it over its SSE stream.
- The tokens page changes the table first and the cache that authenticates
  exports after it.
- The settings page commits a daily backup time and then tells the backup
  worker; the worker reads the table whenever it is woken.
- A shutdown stops the servers, interrupts the SSE streams, flushes the last
  uses of tokens, and saves the counters.

What is hard to get right, and what makes each part correct:

| component | hard behaviour | what must hold |
|---|---|---|
| Cost enrichment | a merge between the read of a copy and its update; costs, estimates and tokens arriving in any order, again and again; a wake lost to a crash, a failed fetch or a timer; a historical job interrupted half way | cost and provenance agree; no estimate of an older version of the row stands; a reported cost and the first rates are final; every queued row leaves the queue; the job completes only when it is done |
| Live notifications | a full channel; a stream that ends with a signal in it; a signal nobody hears; a batch that only merges and sends none; handlers that register and leave during the shutdown | a tab that hears a signal has a read coming, which shows all that was committed before, also what it missed or what was merged without a signal; a shutdown ends the registered streams |
| Ingestion counters | a save that reads counters one by one while calls add to them; midnight during a save; failed saves; restarts | no record is counted twice or vanishes unnoticed; rows never shrink; a clean shutdown keeps all |
| API tokens | a change committed and not yet published; a crash or a loss of power there; a configured token that comes back; uses that come during a flush | the cache is the table; a replaced secret never works again; one that was handed out does; no last use is forgotten or credited to the wrong secret |
| Backups | a change of time, a request and a timer at once; the wall clock; a lost answer of the bucket; pages sharing a listing | a run comes when it is due and not before; what is reported is stored; a listing is not behind the status |
| Daily rollup, migrations | updates that move a row between groups; the span of a group whose first or last row moves; an upgrade or downgrade of the expressions; a migration that drops the triggers; a crash between any two statements | the rollup equals the aggregate of the rows whenever the program serves |
| Queries, pages, API | ranges that begin or end within a day; weeks and months in three places; token classes in Go and in SQL; pages read while rows move | every view counts each selected request once and agrees with the others |
| Sessions | sliding expiry cut to seconds; answers that overtake each other; a lowered TTL | a login in use does not lapse; one out of use does; a logout is final |

## Modules

A step is what the code makes atomic: a transaction, a critical section, an
atomic operation, a channel operation. A goroutine is a program counter.

**Generations** – one row of `generations` and the two things that write it:
the merge of a repeated record (`storage/usage.go`, InsertGeneration: a field
is filled once, a reported cost wins and drops the estimate's provenance, a
change of what pricing reads queues the row and moves its revision) and a
price (`storage/pricing.go`, ApplyPricing, guarded by the revision). Rates
are symbolic: an estimate is a record of the tokens, the time and the rates it
was made with, so that an outdated estimate differs from a current one.

**PricingWorker** – extends it with exporters and the one worker goroutine:
`boot`, `select`, `refresh`, `fetch`, `read`, `apply`, `rearm` are the points
of Run, refresh, process and backfill at which something else can happen.
StoreGenerations and AfterCommit are two steps, as in the pipeline; pages are
copies. Crash keeps only the tables. `MCPricingWorker` gives the instances,
`PricingProofs` the proofs.

**CostLedger** – the abstract promise: an entry per request, which is told
(what was known stays, a reported cost is final, what an outdated price rests
on makes another due) and priced in one step, as it is, at its first rates or
at those of any catalog published so far. It has neither pages and copies nor
revisions, wakes or a cached catalog. PricingWorker implements it (`Ledger ==
INSTANCE CostLedger WITH entries <- ..., published <- upstream`): an entry is
the row without the columns that only keep the worker in step (`EntryOf`).

**LiveHub** – hub, handlers, tabs, writers and shutdown. What a tab shows is
reduced to what was committed since it last read: `stale` is what was
signalled or will be, `silent` what nobody signals. The pipeline notifies only
when a batch stored a *new* row (`ingest/pipeline.go:563`, `Commit`); one that
only merges into rows already there (late tokens, a reported cost, an earlier
time) changes what pages show and stays silent (`MergeSilently`, pinned by
`ingest/notify_test.go:76` and `:101`). `missed` is history: the last signal for
what is stale went out while nobody would hand it on. A signal that is heard
makes the tab read everything (`Told`), so it ends `missed`, and it covers the
silent merges before it. No counter is left to bound. `LiveHubProofs` has the
proofs.

**IngestStats** – the counters as *sets of the records they counted*, so that
a record counted twice, dropped or credited to two days is visible. Load and
Reset take one counter per step, in the order of the code. The three counters
of records that are no generation are one. `IngestStatsProofs` has the proofs.

**TokenStore** – table, cache, last uses, the operation under `opMu`, the
flush, the import at start. `survivable` is the set of states a loss of power
may leave of the database: an ordinary commit adds to it, a durable one
replaces it. `TokenStoreProofs` has the proofs.

**BackupWorker** – the schedule (settings, `success.json`, `schedule.json`),
the worker's wait, attempt and backoff, the dashboard's changes, the wall
clock, process stops. A day has `DayLength` positions. `BackupWorkerProofs` has the
proofs.

**BackupListing** – the shared, cached listing of the bucket.
`BackupListingProofs` has the proofs.

**UsageFacts** – what both sides of the rollup agree on: the facts of one row,
its group in each table, and the aggregate of a set of rows. A sum is kept as
the facts that were summed, each with its multiplicity, so that two groups are
equal only if every column is, whatever the numbers.

**UsageRollup** – the triggers (add, take out, prune, recompute the span) on
every write of a row, the transactions those run in, and the program's stop,
replacement by another release, migrations and `syncRollup`. `data` is what the
open transaction sees, `before` what readers, a rollback or a crash see.

**UsageLedger** – the abstract promise: a ledger of requests whose totals are
those of its requests, closed while the program does not serve. UsageRollup
implements it (`Ledger == INSTANCE UsageLedger WITH rows <- before.rows, view
<- before.tables ...`); `UsageRollupProofs` has the proof, and those of
WalkSkipsNone, RangeSplitIsExact, PagesAddUp and CardsOpen below.

**UsageQueries** – the filter and every query over a database: the split of a
range into whole days of the rollup and partial days of requests, totals,
series, breakdowns, rankings, cards of sessions, lists. **DashboardPages** is
what the pages make of them, **ReadApi** what the JSON API does.

**DashboardReader** – composes these with UsageRollup's writes: someone reads
page after page while rows arrive and move, and every query is compared with
the requests in every database that the writes can leave. The reader's pages
are one read each; where a page makes several queries (summary, charts,
breakdowns, cards), the code runs them one after the other outside of a
transaction, and the model answers all of them from **one** state of the
database. PagesAddUp, ChartsShowAll and CardsOpen say that the parts of a page
agree when nothing is written between its queries; what a page shows when a
batch commits between two of them is not modelled (its numbers may differ by
that batch until the next read).

**DashboardSession** – the signed cookie, the guard that refreshes it, login and
logout, a browser with several requests under way, restarts with another TTL or
key. Nothing is kept on the server, so the state is what the browser holds and
what is under way. `DashboardSessionProofs` has the proofs.

The components share little state, and where they do, the module of each has
the other's half: PricingWorker and LiveHub each have the pipeline's commit
followed by its notification, IngestStats and TokenStore each the shutdown's
last save.

## Runs

`token_store` uses symmetry over its generated secrets and `dashboard_session`
over its requests; neither has a liveness property. No run restricts the state
space but through the named bounds, which are guards in the modules.

| run | instance | what it shows |
|---|---|---|
| `pricing_worker` | 2 records told in 4 and 2 pieces (without the cache column, earlier, with a reported cost, with another one; without a model, with one only the second catalog lists), 2 catalog versions, one unreadable price, 1 outage, 1 database error, batches of up to two | types; **Provenance**; **NoStaleEstimate**; **PendingHasAWake** (a queued row has a wake, a timer, an exporter about to notify or a worker that has not looked yet); **ImplementsCostLedger** (what happens to costs is what the abstract ledger allows: a price is that of the request as it is, at its first rates or at those of a published catalog, and a reported cost is final) |
| `pricing_backfill` | 2 rows from before pricing and a new one, 2 exporters, pages of one row, an outage, a database error, a crash | **BackfillCoversUntouched**: the job is marked complete only when no row is left that it could price and nobody touched; **EventuallyPriced**: every queued row leaves the queue unless a database error ends the pass |
| `live_hub` | one tab, two writers (one signals every commit, one several at once), batches that only merge and send no signal, a shutdown at any moment | **SignalsCoalesce** (behind on what was signalled, and not missed: a read is coming); **SubscribedTabCatchesUp** (once telemetry pauses, a tab that heard the last signal shows *everything* committed before it, merged silently or missed earlier included); **TrackedStreamsEnd** |
| `ingest_stats` | one record, two midnights, two restarts, two failed saves | **CountedOnce**, **Conserved** (also: a shutdown that waited for its handlers and could write keeps all) |
| `token_store` | two tokens, two generated secrets and one that may be configured, two clock ticks, crashes and losses of power without bound | **CacheIsTable**, **ReplacedStaysOut**, **HandedOutWorks**, **LastUseIsTrue** |
| `backup_listing` | two page requests that ask again and again, three backups | **CacheHoldsNewest**, **WaitersAnswered** |
| `backup_worker` | days of three steps, five points of time, any three of: change, request, two failures, failed read or save of the schedule, clock set back, restart | **OnlyWhenDue**, **SuccessIsStored**, **CycleIsKept**, **RequestServed**, **MissedRunServed** |
| `usage_rollup` | three requests told in two to four pieces over two days (one changes its day, one has an id that reads like a made-up day key, one turns out to be an editor's helper), one token, two releases, a migration that rebuilds the table | **RollupIsAggregate**; **ImplementsLedger** (refinement) |
| `dashboard_reader` | three requests over three days around the beginning of a month and of a week, hours of one unit and days of two, about fifty ranges and filters, one of them of 66 days and so by the week, charts of up to 106 buckets, pages of one row | **WalkSkipsNone** (a reader of page after page misses nothing that stayed where it was), **RangeSplitIsExact**, **PagesAddUp** (charts, breakdowns, ranking, cards, heatmap and API against the summary), **ChartsShowAll**, **CardsOpen** |
| `dashboard_session` | two requests under way, seconds of two units, TTLs of 6 and 9, a restart with another TTL or key | **LoginInUseStays**, **IdleLapses**, **LogoutSticks** |
| `pricing_backfill_retry`, `backup_race` | the smallest instance that has the behaviour | violations, see [Findings](#findings) |

Why the bounds are enough:

- *pricing*: an update that must not land needs a read, a merge and an update
  of the same row; two more merges (`MaxRevision = 2`) let one record be
  merged again after an estimate. Rows only meet in pages and the queue, for
  which two rows and pages of one are the boundary cases (a page that is full,
  a page after it); the historical job has three. Two catalog versions are a
  stale and a fresh one.
- *live hub*: a tab's handler, channel and page never depend on another tab's,
  and signals are sets of subscribers, so one tab shows what can happen to any;
  for any number of tabs the safety property is proved. Two writers are what it
  takes to have one dirty while another signals.
- *counters*: every action treats each record alone (`Count` takes one, saves
  and resets act on whole sets elementwise), and so do the properties: the
  behaviours of one record are the projections of the behaviours of many. (The
  proof takes any set of records.) A midnight needs two days, a row continued after a rollover three.
- *tokens*: two rows let a secret move; a third secret is the configured one,
  which may return after it was replaced.
- *listing*: two pages share a listing and one leaves; three backups allow one
  before, one during and one after a listing.
- *backups*: a change to an earlier, a later and the same time of day need
  three positions; five points of time span a day and its successor.
  Each violation found while modelling took at most two of the events.
- *rollup*: a span needs a group with a first, a last and one that leaves; three
  rows let two share an end while the third stays, and one id is enough to
  mimic a key. The proof covers every number of rows, keys and releases.
- *reader*: three days have a whole day between two partial ones; the month and
  the week begin inside of them; pages of one row make every boundary of the
  pager happen. Queries only add rows up, so a third row per group shows no more.
- *sessions*: what an answer can do depends on one that was under way with it;
  the safety properties are proved for any number of requests, TTLs and times.

## Fairness

Assumed only where the Go scheduler, a timer or a timeout provides it:

- *PricingWorker*: the worker goroutine takes an enabled step (weak fairness of
  `Worker`: fetches have a timeout, statements end), the retry timer fires
  (`CooldownEnds`), and an exporter that committed calls AfterCommit. Nothing
  says that telemetry arrives, a catalog expires or a fetch succeeds: outages
  are bounded by `MaxOutages`, which is the assumption that they end.
- *LiveHub*: notifications follow commits, handlers run, a handler whose
  context is done leaves in the end (Go's `select` picks among ready cases at
  random, so it does not take the signal for ever), the tab's timer and fetch
  proceed, InterruptStreams proceeds. Nothing says that telemetry starts or
  stops, that a tab connects or leaves, or that the process is stopped.
- *BackupListing*: the detached listing runs under a timeout of 20 seconds and
  then publishes; a request whose channel was closed runs on.
- *BackupWorker*: Run's goroutine goes on, its backoff delays end, and a
  handler that has saved calls Reschedule. The clock need not move and the
  process need not be restarted.

IngestStats, TokenStore, UsageRollup, DashboardReader and DashboardSession have
no liveness property and no fairness.

Deadlock is checked in `usage_rollup` and `dashboard_reader`, where a process
can always be stopped and started. Elsewhere it is off: with its bounds used up
and no telemetry coming, each of these systems rests.

## Proofs

All for arbitrary constants, from the assumptions the modules name
(`ConstantsAssumption`, `WorkerAssumption`, `HubAssumption`, `StatsAssumption`,
`TokenAssumption`, `BackupAssumption`, `ListingAssumption`, `FactsAssumption`,
`RollupAssumption`, `SessionAssumption`, `ReaderAssumption`, `FigureAssumption`,
`ChartAssumption`), which the runs evaluate. They say that bounds and sizes are natural numbers and that
placeholders are not values, and that the agent which completes code is none of
those which write titles. Some say more: a day of the backup worker has at
least two positions (a day of one would have the next daily time at the present
moment), the calendar of the readers is a finite list of months, one of
which begins at time 0 (as January 1970 does), and rows are numbered and
conversation keys and models ranked by integers, different ones differently, as
strings are; no cost is negative; the calendar goes on past the present, its
months begin with a day and no page's range begins before it; and a chart may
have the 49 hours, 63 days or 106 weeks that the longest range of each
resolution needs, and as many months as the calendar (the code fills up to 1000
buckets, so this bounds the calendar at 83 years).
Each module proves `Invariance` (`IInv` in every reachable state) from one lemma
per action, and the properties from it.

**PricingProofs** (`TypeCorrect`, `ProvenanceHolds`, `NoStaleEstimates`,
`HarnessFinal`, `RatesKept`, `QueueHasAWake`, `BackfillIsWhole`,
`CostLedgerImplemented`; `HarnessCostIsFinal` and `RatesAreKept` are proved and
have no run of their own, and follow from the ledger that one checks). No property is inductive alone: a page holds
copies that may be outdated, and an update from such a copy would break both.
`IInv` adds what a copy still tells (`PageInv`): its revision is at most the
row's, and if they are equal the copy *is* the row. A merge that changes what
pricing reads moves the revision, so ApplyPricing's guard lets an update land
only on the row it was computed from. `RowInv` collects what a single row must
satisfy (its provenance, its currency, rates only for a model that is not
free); lemmas show that merge and price keep it. That no queued row waits for
nothing is another invariant (`WakeInv`): unless one more pass is assured, what
is queued lies ahead of the pass under way, past the cursor and in the page as
it is now, or behind the page's last row. A page is the least rows past the
cursor, so a walk that finds an empty page has seen them all; the lemma that a
nonempty set of numbers has a least one is what that rests on. The historical
job walks in the same way (`BackfillInv`): what nobody touched since the job was
created and the job could price is ahead of it, or not fetched yet.
That PricingWorker implements CostLedger rests on all of these. A batch tells
requests: one merge does (`MergeRetells`), and two of the same request do what
one telling does, since times and filled fields move one way only
(`RetoldTwice`). An update that lands was computed from the row as it is
(`PageInv`), so it is the ledger's price of it (`LandingIsPrice`), with a
catalog that was published (`PublishedInv`); one that does not land, and every
other step but a publication, leaves the ledger alone (`LedgerStep`).

**LiveHubProofs** (`TypeCorrect`, `NothingLost`). SignalsCoalesce fails to be
inductive where a token or a frame sits with a tab that has gone: taking it
hands nothing on. `GoneTab` says that such a tab, if it missed nothing, has its
next read in a writer's hand, its own timer or its fetch; `Registered` ties
tokens to subscribers and subscribers to the handler's place, so that a
handler that has left holds no signal. A silent merge owes nobody a read and
leaves the invariant alone (`MergeStep`); the signal after it makes it owed.

**IngestStatsProofs** (`TypeCorrect`, `NothingTwice`, `NothingVanishes`). Both
properties are suspended while a save is under way, so the invariant has to say
what a save does to them. A record is added to a counter at most once, because
its call moves on (`CallInv`). What a save has read the session keeps until the
counters are zeroed, one by one: until then the row to be replaced has no more
than base and session, and of a row just closed the counters not yet reached
still share exactly what the save read of them (`Saving`). What is counted
between the two readings of a counter is what `lost` collects. The clean exit
follows from the order of the shutdown: handlers are waited for before the last
save begins (`ProcessInv`), so that save reads everything.

**TokenStoreProofs** (`TypeCorrect`, `CacheAgrees`, `ReplacedNeverReturns`,
`HandedOutStays`, `LastUseStays`). A loss of power leaves any table of
`survivable`, so what was promised to the user must be true of each of them and
not of the current one only (`TableInv`): a dead secret is known to the table
and not active, a secret that was handed out is there. A change is durable
before it is published, so at the moment a promise is made one table is left
(`Committed`). What may be lost (a flush, the import of the configured token)
touches nothing that was promised. Between commit and publication the
cache still has a regenerated token's old secret (`Replacing`); its uses are
dropped at the publication, which is why `UseInv` excuses that token until then.

**BackupWorkerProofs** (`TypeCorrect`, `ReportedIsStored`, `CycleStays`,
`RunsOnlyWhenDue`). `due` is the history of the daily times that came. `DueInv`
says that since the last success, and since the last change that the worker or
schedule.json knows of, each time of day that came was recorded, because the
settings were the same all along; that a change the worker has not seen has left
a token in its channel or a handler about to put one there; and that the time
waited for is a daily time after the last success. So when it comes, it is in
`due`. Lemmas about remainders (`TimeComes`, `NextRunIs`) say what NextRun
returns: a later moment of the given time of day.
CycleIsKept needs `FirstInv`: before the schedule is saved for the first time,
nothing was backed up but by the releases before.

**BackupListingProofs** (`TypeCorrect`, `CacheIsCurrent`,
`AnswersAreCurrent`; the last is proved and has no run of its own).
`ListingInv` says that a listing was begun at a status no
later than the present one and holds at least what had succeeded when it began,
because the status is read before the bucket; and that the listing under way
began no earlier than the one in place. From that follows what a request that
goes on late finds (`RequestInv`): a listing at least as new as the one it
waited for.

**UsageRollupProofs** (`TypeCorrect`, `TablesAreAggregates`,
`LedgerImplemented`, `SpanHolds`, `RangesAreExact`, `QueriesAreExact`,
`CardsLeadToTheirRequests`, `PagerSkipsNone`, `PagesAgree`, `ChartsAreWhole`). Within a trigger no table is an aggregate:
a row has left and its group still ends at its time. So a group `Stands` for a
set of rows if its counts are theirs and its span covers them, each end at one
of them or at one stray time. Taking a row out, putting one in and pruning keep
that with the leaving row's time as the stray one; `SpanHolds` shows that
spanSQL ends it, and that its shortcut over the row's own conversation id
misses no row of the group, because a group under an id that reads like a
made-up key is exempt. A group that stands with no stray end is the group of
the aggregate (`StandsIsGroup`), which gives `FiredIsAggregate`: a statement
takes aggregates to aggregates. `IInv` adds what the start relies on: triggers
that stand were built by the release in `rollup_state`, and the serving program
is that release (`Trusted`). The refinement needs one more: inside a
transaction, the rows are those it found or told further (`Told`), so that a
commit is one step of the ledger. Finite sums are tallies of finite sets, whose
facts come from FiniteSetTheorems; no induction over data is needed.

The rest starts from TablesAreAggregates and is about the queries. A range that
begins or ends within a day is cut at multiples of the day, and a time is on the
same side of such a multiple as its day (`SameSide`). So a group of a whole day
has all its requests selected, and of any other group what is selected lies in
the partial days (`WholeSelected`). The notion that carries the argument is
`Accounts(facts, M, ...)`: each fact `SpeaksFor` some of the requests M, of one
key, with their counts and with two of their times as its ends; no request is
spoken for twice, and all are. What factsSQL joins accounts for the requests
selected (`JoinedAccounts`), and so do these requests themselves
(`RawAccounts`); and whatever accounts for M has the sums of M by any choice of
keys (`AccountedTotals`, `AccountedSums`) and the ends of M in any session
(`AccountedEnds`, `AccountedSpans`). From that follow `RangesAreExact`, the
summary, breakdowns and sessions for all filters (`QueriesAreExact`), what a
card and its link show (`CardIsOf`, `CardLinks`), and, once more by grouping,
that a breakdown's rows add up (`GroupsAddUp`).

`PagerSkipsNone` is about lists. ORDER BY only chooses some sequence without
repetition in which each entry comes before those it is ahead of. For an order
that is `Strict` (irreflexive, transitive, total on the entries) that is enough:
an entry's place is the number of those ahead of it (`Place`, `SortedIs`), so a
page with that many places behind its offset holds it or it comes later
(`PageIs`, `PageShows`). Times never recede (that is `~receded`), so whoever was
ahead of an entry that stayed is still ahead of it, and its place only grows
(`SpotsHold`). `WalkInv` says: such an entry was shown, or its place is at or
behind the offset that comes next. What a session's key and time are does not
depend on the release that serves, because they are columns and the rollup is an
aggregate (`SameActivity`); so an upgrade between two pages changes no list.

The sums are folds over finite sets. What such a fold is follows from its
equations: two functions that satisfy them and differ would have a least subset
on which they differ, and there they cannot (`OneSum`, on the well-foundedness
of strict subsets); and for parts that do not overlap, the size of what they
cover satisfies them (`SumOfParts`).

`PagesAgree` is PagesAddUp for every database and filter. What requests measure
is counted in `Units`, one for each token (or unit of cost) of each request, so
that a sum is a cardinality and a page adds up when its points, rows, days or
entries share the requests out, each to one (`SharedUnits`, `MeasureIs`). The
charts: SQL's points are the requests at each point of an axis, in order
(`Points`, `BucketRowsAre`), and mergeDays, a fold over days in order, keeps that
form from one day to the next because a later day falls into no earlier week or
month (`PointsGrow`, `MergedDays`, `BucketsRise`). The folds are over sequences;
their steps are compared with a function of the prefix (`OneFold`), again by the
least prefix where they could differ. The heatmap and the leaderboard are such
points and rows (`HeatmapIs`, `RankingIs`, `LeaderIs`). The API: a client's list
is one that reads on behind each page until one is empty (`ReadsOn`); there is
one, and no two that differ, since the last offset where they do would have a
page that takes both to an offset where they do not (`WholeIsRead`). So it is
the whole list in order, which has each request once (`RequestsListed`), and
Go's token classes of a request are SQL's (`SameClasses`).

`ChartsAreWhole` is ChartsShowAll. The buckets that fillTimeseries runs through,
each from the one before, are those of the range that lie a whole number of
hours, days or weeks, or some months, after the first (`LineIs`, by the least
length where it could differ), with none between two (`NoneBetween`,
`LineIsGapless`). The bucket of a request is on that line because storage's
buckets and the chart's begin at the same times (`LinesMeet`), so filling
shares the requests out as before (`FilledCharted`), and at the resolution of
its own range no line is too long to be filled (`LineIsShort`, `LineFits`). A
harness's points are shares of the same requests (`SourcePointsAre`), which
add up along a line and over the lines (`ChartLine`, `SourcesShown`).

**DashboardSessionProofs** (`TypeCorrect`, `UseKeepsLogin`, `DisuseEndsLogin`,
`LogoutIsFinal`). The promise of a page's answer that leaves the cookie alone
is about the cookie its *request* carried. `IInv` (`InFlight`, `Answered`,
`Carried`, `SignedOut`, `LoginInv`) says what the browser may hold by the time
the answer comes: the same, none, or one signed at most two flights before. So
a login lapses at the earliest a refresh interval before its TTL, or two
flights and the cut to a second if that is more (`Slack`).

Model-checked only:

- liveness (EventuallyPriced, SubscribedTabCatchesUp, TrackedStreamsEnd,
  WaitersAnswered, RequestServed, MissedRunServed): it rests on weak fairness,
  whose ENABLED the prover cannot handle. The invariants that these arguments
  start from (a wake is assured, a tab that heard a signal has a read coming) are
  proved;
- the two violations, which are traces.

## Findings

Each is a `violation` run whose trace shows the steps.

1. **A historical row sent again is left without a cost** (`pricing_backfill_retry`,
   `pricing/backfill.go:33`). The job ignores that its update did not land, and
   the merge that moved the revision did not queue the row. The run shows the
   job's marker written with such a row left; with rows nobody touches it is
   not (`BackfillCoversUntouched`).
2. **A default time overwrites the user's** (`backup_race`, `backup/backup.go:319`):
   the worker reads settings without a time, the user saves one, and the
   default is saved over it.

Also met while modelling, and true of the models, without a run of their own:

- A range without an end that begins after now passes the checks of the page and
  of the API, and the query refuses it, so it is answered with 500 and not with
  the 400 of `docs/api.md:51` (`api/server.go:387`, `web/filters.go:118` against
  `storage/usage.go:62`; `Failed` in ReadApi).
- A stream that registers after InterruptStreams has run is cancelled by nobody
  and holds `Shutdown` for the whole grace period (`live/live.go:66`).
- Rows of past days need not balance (`ingest/pipeline.go:408`) although
  `docs/api.md:263` gives the equation: a record under way at midnight is
  received on one day and normalized on the next, or in neither row.
- An earlier time of day may back up at once (`web/settings.go:41`): the settings
  are committed before Reschedule notes the change; a worker that reads them in
  between, or a process that stops there, takes the new time for a missed one.
- A card's link drops explicit bounds (`web/filters.go:295`) although the comment
  above says that it keeps the current filters: CardsOpen speaks of ranges.
- A session whose id reads like a made-up day key (`other:...`) shares its
  group with that day's session-less requests, and its card opens those only.
  One whose id is `none`, `autocomplete` or `titleprogress` opens what that
  filter selects (`storage/conversations.go:107`, `storage/usage.go:149`).
  CardsOpen leaves both aside (`Reserved`).
- Read oldest first, or while an entry falls back in the order, the pager may
  skip entries (WalkSkipsNone excuses both); ties in time are ordered only as
  SQLite's sorter happens to leave them (`StringRank`); a page past the end
  says that there are 0 sessions.
- A chart whose range ends after now stops at now; what is stored with a later
  time is not on it (ChartsShowAll excuses such ranges).
- The triggers add and subtract `cost_sum` as floating-point numbers, so a long
  history of updates may drift in the last digits (`storage/rollup.go:41`); the
  model's sums are exact.
- A page's answer that is under way when the user signs out may bring a cookie
  back; LogoutSticks speaks of a logout with nothing else under way.
- The cookie's expiry has 32 bits and wraps in 2106 (`auth/session.go:99`).
- With no catalog at all, a model with a manual price is priced with it at once
  and for good although OpenRouter lists it (`pricing/service.go:189`;
  `docs/configuration.md:275` says otherwise).
- A signal sent while a tab has no subscriber (before it subscribes, or while
  the page is hidden) is not replayed, and no fragment is fetched on reconnect.
  SignalsCoalesce and SubscribedTabCatchesUp excuse such a tab (`missed`) until
  the next signal that it hears, which they say brings it everything.
- A batch that stores no new row sends no signal, also when it fills tokens, a
  model or a reported cost of a row on display, or moves its time
  (`ingest/pipeline.go:563`; `web/sse.go:23` has the event mean that displayed
  data changed). A tab that missed nothing then shows the old values until the
  next new row, a landed estimate or a reload. The comment at
  `ingest/pipeline.go:560` speaks of retried exports only. The properties speak
  of such merges only where a signal follows (`silent`). The counters on the
  statistics page, which also count rejected and deduplicated records, are
  refreshed by the same signals only.
- A page that asks for backups right after one succeeded may join a listing
  begun before it and not show it; the next request lists again. So
  AnswerHoldsNewest counts from the beginning of the listing that was joined.
- After a database error the pricing worker waits for the next wake, and the
  backup worker, when it cannot read the settings, for the time of day of the
  last success.
- The fragments' two-second delay restarts with every signal, so steady
  telemetry postpones the refresh.
- The insert of a configured token at start is not durable; a loss of power
  undoes it, and the next start repeats it.
- The default backup time is that of the first schedule read.
- What a rollover loses is what is counted during the write of the old day's
  row, up to the database timeout and not only "sub-millisecond"
  (`ingest/pipeline.go:397`).

## What is not modelled

- Arithmetic of estimates and the parsing of catalogs (rates are symbolic);
  floating-point rounding; time zones and daylight saving in schedules;
  keepalives; compression, the snapshot itself, retention and downloads; names,
  groups and hints of tokens.
- The wall clock set back past midnight under the counters, and under the
  backup worker while it does not wait.
- What each migration does to the schema. That one rebuilds `generations` and
  so drops its triggers is assumed from the comment in `syncRollup` and the test
  beside it.
- In sessions: the two readings of the clock in one Refresh are one, nothing
  under way survives a restart, and an answer takes at most `MaxFlight`
  (main's WriteTimeout). The limiter of failed logins (`web/auth.go`).
- Provider, git, trace and effort columns; the limits of 1000 breakdown rows and
  dropdown values; malformed parameters; the API's statistics, token metadata,
  health and backup status; markup, labels and number formats.
- Receivers and configuration: a request at a time, no state.
- Normalization (`normalize/*`): below.
- Developer tools: not part of the running system.

## Plan

In order; each with its proof where the prover reaches it.

1. The proofs of TokenStore, IngestStats, BackupWorker, and of the wake and the
   historical job of PricingWorker: done.
2. **CostLedger**, the abstract promise of cost enrichment, and PricingWorker
   shown to implement it by TLC and, step by step, by TLAPS: done.
3. Sums: RangeSplitIsExact, CardsOpen, the breakdowns and the cards of PagesAddUp
   for every database: done. So are the sorted lists with WalkSkipsNone, the
   charts, ranking, heatmap and API of PagesAddUp, and the filling of charts
   with ChartsShowAll: every safety property that a run checks is a theorem.
4. **Attribution** (`auth/bearer.go`, `auth/grpc.go`, over TokenStore): the token
   an export is credited to when it is revoked during the export.
5. **Normalization** as pure operators over small records: source detection,
   token buckets, record ids; checked against reference definitions.

The number of runs is kept small: a component has one run for its passing
properties, a second only where liveness needs another instance.
