--------------------------- MODULE PricingWorker ---------------------------
(***************************************************************************)
(* Cost enrichment (src/internal/pricing) beside concurrent ingestion      *)
(* (src/internal/ingest/pipeline.go): exporters commit batches of records  *)
(* and wake the one worker, which refreshes the OpenRouter catalog, walks  *)
(* the pending rows page by page, prices each copy it read, and writes it  *)
(* back if the row was not merged in the meantime; once per database it    *)
(* also walks the rows that never had a cost.                              *)
(*                                                                         *)
(* A step is what SQLite or a channel makes atomic: a transaction, a read, *)
(* a fetch, a select.  Crash stops the process anywhere, graceful shutdown *)
(* included; only the tables survive it.                                   *)
(***************************************************************************)
EXTENDS Generations, Sequences

CONSTANTS
  Telemetry,       \* the records exporters send, again and again and in any order
  Historical,      \* rows without pricing columns when migration 0005 ran
  Exporters,       \* concurrent Consume calls
  PageLimit,       \* LIMIT of pricingRows
  MaxRevision,     \* bound: merges into one row
  MaxOutages,      \* bound: failed catalog fetches
  MaxDbErrors,     \* bound: failed statements of the worker
  MaxCrashes       \* bound: process restarts

ASSUME WorkerAssumption ==
  /\ Telemetry \subseteq Generation
  /\ Historical \subseteq Generation
  /\ \A g, h \in Historical : g.id = h.id => g = h
  /\ PageLimit \in Nat \ {0}
  /\ MaxRevision \in Nat /\ MaxOutages \in Nat /\ MaxDbErrors \in Nat /\ MaxCrashes \in Nat

VARIABLES
  rows,        \* generations
  saved,       \* pricing_catalog: version, 0 when the table is empty
  fresh,       \* fetched_at of `saved` is less than 24h ago
  backfilled,  \* pricing_jobs holds the historical job's marker
  upstream,    \* the version openrouter.ai serves
  exporters,   \* "idle", or "committed" with AfterCommit still to call
  wake,        \* Service.wake holds a token
  armed,       \* the retry timer is set
  retryAt,     \* Service.retryAt: "zero", in the "future" or in the "past"
  pc,          \* where the worker goroutine is
  loaded,      \* Service.loaded
  catalog,     \* Service.catalog: version, 0 when empty
  job,         \* the walk under way: "pending" or "backfill"
  after,       \* its keyset cursor
  page,        \* copies of the rows it read and has not handled
  gaveUp,      \* the last pass, or the check after it, ended on a database error
  outages, dbErrors, crashes

tables == <<rows, saved, fresh, backfilled>>
memory == <<wake, armed, retryAt, pc, loaded, catalog, job, after, page, gaveUp>>
bounds == <<outages, dbErrors, crashes>>
vars   == <<tables, upstream, exporters, memory, bounds>>

NoPage     == [i \in {} |-> BlankRow]
HasPending == \E i \in Ids : rows[i].pending

\* The first rows of `which` after the cursor, as PendingPricing and
\* MissingHistoricalCosts return them.
NextPage(which) ==
  LET found == {i \in which : i > after}
  IN  [i \in {j \in found : Cardinality({k \in found : k < j}) < PageLimit} |-> rows[i]]

InHistory(i) == \E g \in Historical : g.id = i
HistoricalRow(i) ==
  [NewRow(CHOOSE g \in Historical : g.id = i) EXCEPT !.pending = FALSE]

Init ==
  /\ rows = [i \in Ids |-> IF InHistory(i) THEN HistoricalRow(i) ELSE BlankRow]
  /\ saved = 0 /\ fresh = FALSE /\ backfilled = FALSE
  /\ upstream \in Versions
  /\ exporters = [e \in Exporters |-> "idle"]
  /\ wake = FALSE /\ armed = FALSE /\ retryAt = "zero"
  /\ pc = "boot" /\ loaded = FALSE /\ catalog = 0
  /\ job = "pending" /\ after = 0 /\ page = NoPage /\ gaveUp = FALSE
  /\ outages = 0 /\ dbErrors = 0 /\ crashes = 0

-----------------------------------------------------------------------------
(* Ingestion: storeGenerations.  A batch has at most two records, which is *)
(* enough for one to hit its own row twice; a batch that fails is rolled   *)
(* back and leaves no trace here.                                          *)

Batches == {<<g>> : g \in Telemetry} \cup {<<g, h>> : g \in Telemetry, h \in Telemetry}

InsertGenerations(b) ==
  IF Len(b) = 1 THEN InsertGeneration(rows, b[1])
                ELSE InsertGeneration(InsertGeneration(rows, b[1]), b[2])

\* (The mutant wakes the worker only for a batch without any cost.)
NeedsPricingAll(b) == \A k \in DOMAIN b : ~HasCost(b[k])
NeedsPricing(b)    == \E k \in DOMAIN b : ~HasCost(b[k])

StoreGenerations(e) ==
  \E b \in Batches :
    /\ exporters[e] = "idle"
    /\ \A k \in DOMAIN b : rows[b[k].id].rev + Len(b) <= MaxRevision
    /\ rows' = InsertGenerations(b)
    /\ exporters' = [exporters EXCEPT ![e] = IF NeedsPricing(b) THEN "committed" ELSE "idle"]
    /\ UNCHANGED <<saved, fresh, backfilled, upstream, memory, bounds>>

AfterCommit(e) ==
  /\ exporters[e] = "committed"
  /\ wake' = TRUE
  /\ exporters' = [exporters EXCEPT ![e] = "idle"]
  /\ UNCHANGED <<tables, upstream, armed, retryAt, pc, loaded, catalog, job, after, page,
                 gaveUp, bounds>>

-----------------------------------------------------------------------------
(* The worker: Run, refresh, process, backfill.                            *)

Goto(to) == pc' = to

DbFails ==
  /\ dbErrors < MaxDbErrors
  /\ dbErrors' = dbErrors + 1
  /\ UNCHANGED <<outages, crashes>>

\* Run: rows left pending by an earlier process are picked up.
Boot ==
  /\ pc = "boot"
  /\ \/ /\ wake' = (wake \/ HasPending)
        /\ UNCHANGED <<gaveUp, bounds>>
     \/ /\ DbFails
        /\ gaveUp' = TRUE
        /\ UNCHANGED wake
  /\ Goto("select")
  /\ UNCHANGED <<tables, upstream, exporters, armed, retryAt, loaded, catalog, job, after, page>>

TimerFires ==
  /\ pc = "select" /\ armed /\ retryAt # "future"
  /\ armed' = FALSE
  /\ wake' = TRUE
  /\ UNCHANGED <<tables, upstream, exporters, retryAt, pc, loaded, catalog, job, after, page,
                 gaveUp, bounds>>

Wake ==
  /\ pc = "select" /\ wake
  /\ wake' = FALSE
  /\ gaveUp' = FALSE
  /\ Goto("refresh")
  /\ UNCHANGED <<tables, upstream, exporters, armed, retryAt, loaded, catalog, job, after,
                 page, bounds>>

\* (The mutant starts the second walk where the first one ended.)
ContinueWalk(which) ==
  /\ job' = which /\ UNCHANGED after /\ page' = NoPage
  /\ Goto("read")

BeginWalk(which) ==
  /\ job' = which /\ after' = 0 /\ page' = NoPage
  /\ Goto("read")

\* refresh() failing to read the saved catalog: no cooldown is started.
LoadFails ==
  /\ pc = "refresh" /\ ~loaded
  /\ DbFails
  /\ gaveUp' = TRUE
  /\ BeginWalk("pending")
  /\ UNCHANGED <<tables, upstream, exporters, wake, armed, retryAt, loaded, catalog>>

Load ==
  /\ loaded' = TRUE
  /\ catalog' = IF loaded THEN catalog ELSE saved

UseCached ==
  /\ pc = "refresh"
  /\ fresh \/ retryAt = "future"
  /\ Load
  /\ BeginWalk("pending")
  /\ UNCHANGED <<tables, upstream, exporters, wake, armed, retryAt, gaveUp, bounds>>

StartFetch ==
  /\ pc = "refresh"
  /\ ~fresh /\ retryAt # "future"
  /\ Load
  /\ retryAt' = "future"
  /\ Goto("fetch")
  /\ UNCHANGED <<tables, upstream, exporters, wake, armed, job, after, page, gaveUp, bounds>>

FetchSucceeds ==
  /\ pc = "fetch"
  /\ saved' = upstream /\ fresh' = TRUE
  /\ catalog' = upstream /\ retryAt' = "zero"
  /\ BeginWalk("pending")
  /\ UNCHANGED <<rows, backfilled, upstream, exporters, wake, armed, loaded, gaveUp, bounds>>

FetchFails ==
  /\ pc = "fetch"
  /\ outages < MaxOutages /\ outages' = outages + 1
  /\ BeginWalk("pending")
  /\ UNCHANGED <<tables, upstream, exporters, wake, armed, retryAt, loaded, catalog, gaveUp,
                 dbErrors, crashes>>

\* Any statement of process() or backfill() failing ends the pass.
PassFails ==
  /\ pc \in {"read", "apply"}
  /\ DbFails
  /\ gaveUp' = TRUE
  /\ Goto("rearm")
  /\ UNCHANGED <<tables, upstream, exporters, wake, armed, retryAt, loaded, catalog, job,
                 after, page>>

Walked == {i \in Ids : rows[i].stored
                       /\ IF job = "pending" THEN rows[i].pending ELSE ~HasCost(rows[i])}

ReadPage ==
  /\ pc = "read"
  /\ NextPage(Walked) # NoPage
  /\ page' = NextPage(Walked)
  /\ Goto("apply")
  /\ UNCHANGED <<tables, upstream, exporters, wake, armed, retryAt, loaded, catalog, job,
                 after, gaveUp, bounds>>

\* The pending walk is over: the historical job runs on a fresh catalog only.
PendingDone ==
  /\ pc = "read" /\ job = "pending" /\ NextPage(Walked) = NoPage
  /\ IF fresh /\ catalog # 0 /\ ~backfilled
       THEN BeginWalk("backfill")
       ELSE Goto("rearm") /\ UNCHANGED <<job, after, page>>
  /\ UNCHANGED <<tables, upstream, exporters, wake, armed, retryAt, loaded, catalog, gaveUp,
                 bounds>>

BackfillDone ==
  /\ pc = "read" /\ job = "backfill" /\ NextPage(Walked) = NoPage
  /\ backfilled' = TRUE
  /\ Goto("rearm")
  /\ UNCHANGED <<rows, saved, fresh, upstream, exporters, wake, armed, retryAt, loaded, catalog,
                 job, after, page, gaveUp, bounds>>

\* `after = g.ID`.  (The mutant is one too far.)
CursorNext(i) == i + 1
Cursor(i)     == i

\* A paid row stays pending while there is no catalog at all.
Skips(e) == job = "pending" /\ catalog = 0 /\ ~HasCost(e)

PriceOne ==
  /\ pc = "apply"
  /\ \E i \in DOMAIN page :
       LET e == Enrich(page[i], catalog)
           rest == DOMAIN page \ {i}
       IN  /\ \A j \in rest : i < j
           /\ rows' = IF Skips(e) THEN rows ELSE [rows EXCEPT ![i] = ApplyPricing(@, e)]
           /\ after' = Cursor(i)
           /\ page' = [j \in rest |-> page[j]]
           /\ Goto(IF rest = {} THEN "read" ELSE "apply")
  /\ UNCHANGED <<saved, fresh, backfilled, upstream, exporters, wake, armed, retryAt, loaded,
                 catalog, job, gaveUp, bounds>>

\* Back in Run: without a catalog, wake again when the cooldown is over.
\* (The mutant takes the zero retryAt for the failed fetch.)
RetryUnfetched == catalog = 0 /\ retryAt = "zero" /\ HasPending
RetryWanted    == catalog = 0 /\ retryAt # "zero" /\ HasPending

Rearm ==
  /\ pc = "rearm"
  /\ \/ /\ armed' = RetryWanted
        /\ UNCHANGED <<gaveUp, bounds>>
     \/ /\ catalog = 0 /\ retryAt # "zero"
        /\ DbFails
        /\ armed' = FALSE
        /\ gaveUp' = TRUE
  /\ Goto("select")
  /\ page' = NoPage /\ job' = "pending" /\ after' = 0
  /\ UNCHANGED <<tables, upstream, exporters, wake, retryAt, loaded, catalog>>

Worker ==
  \/ Boot \/ TimerFires \/ Wake
  \/ LoadFails \/ UseCached \/ StartFetch \/ FetchSucceeds \/ FetchFails
  \/ ReadPage \/ PriceOne \/ PassFails \/ PendingDone \/ BackfillDone \/ Rearm

-----------------------------------------------------------------------------
(* Time, openrouter.ai and the process's end.                              *)

CooldownEnds ==
  /\ retryAt = "future"
  /\ retryAt' = "past"
  /\ UNCHANGED <<tables, upstream, exporters, wake, armed, pc, loaded, catalog, job, after, page,
                 gaveUp, bounds>>

CatalogExpires ==
  /\ fresh
  /\ fresh' = FALSE
  /\ UNCHANGED <<rows, saved, backfilled, upstream, exporters, memory, bounds>>

Publish ==
  /\ upstream < MaxVersion
  /\ upstream' = upstream + 1
  /\ UNCHANGED <<tables, exporters, memory, bounds>>

Crash ==
  /\ crashes < MaxCrashes
  /\ crashes' = crashes + 1
  /\ exporters' = [e \in Exporters |-> "idle"]
  /\ wake' = FALSE /\ armed' = FALSE /\ retryAt' = "zero"
  /\ pc' = "boot" /\ loaded' = FALSE /\ catalog' = 0
  /\ job' = "pending" /\ after' = 0 /\ page' = NoPage /\ gaveUp' = FALSE
  /\ UNCHANGED <<tables, upstream, outages, dbErrors>>

Next ==
  \/ \E e \in Exporters : StoreGenerations(e) \/ AfterCommit(e)
  \/ Worker
  \/ CooldownEnds \/ CatalogExpires \/ Publish \/ Crash

Spec == Init /\ [][Next]_vars

\* The goroutines are scheduled, a handler returns, the clock moves on.
\* Nothing says that telemetry arrives, a catalog expires or a fetch succeeds.
Fairness ==
  /\ WF_vars(Worker)
  /\ WF_vars(CooldownEnds)
  /\ \A e \in Exporters : WF_vars(AfterCommit(e))

FairSpec == Spec /\ Fairness

-----------------------------------------------------------------------------
(* Properties.                                                             *)

\* Every variable keeps its type; a copy in the page is a row.
TypeOK ==
  /\ rows \in [Ids -> Row]
  /\ saved \in Versions \cup {0} /\ fresh \in BOOLEAN /\ backfilled \in BOOLEAN
  /\ upstream \in Versions
  /\ exporters \in [Exporters -> {"idle", "committed"}]
  /\ wake \in BOOLEAN /\ armed \in BOOLEAN /\ retryAt \in {"zero", "future", "past"}
  /\ pc \in {"boot", "select", "refresh", "fetch", "read", "apply", "rearm"}
  /\ loaded \in BOOLEAN /\ catalog \in Versions \cup {0}
  /\ job \in {"pending", "backfill"} /\ after \in Ids \cup {0}
  /\ DOMAIN page \subseteq Ids /\ page \in [DOMAIN page -> Row]
  /\ gaveUp \in BOOLEAN
  /\ outages \in Nat /\ dbErrors \in Nat /\ crashes \in Nat

\* Every row's cost agrees with its provenance columns, see ProvenanceOf.
Provenance == \A i \in Ids : ProvenanceOf(rows[i])

\* No row outside the queue holds an estimate of anything but its present
\* contents, see UpToDate.
NoStaleEstimate == \A i \in Ids : UpToDate(rows[i])

\* When the worker goes to sleep with rows queued, something is left to wake
\* it: a token in the channel, the retry timer, or a handler that has
\* committed and is about to call AfterCommit.  The one exception the code
\* makes is a pass that ended on a database error.
PendingHasAWake ==
  pc = "select" /\ HasPending =>
    wake \/ armed \/ gaveUp \/ \E e \in Exporters : exporters[e] = "committed"

\* A cost a harness has reported is never changed again, by a later report
\* or by the worker ("existing harness costs are preserved").
HarnessCostIsFinal ==
  [][\A i \in Ids : rows[i].reported =>
       rows'[i].reported /\ rows'[i].cost = rows[i].cost]_vars

\* The rates an estimate was first made with stay with the row through every
\* catalog refresh, re-queueing and restart, until a reported cost replaces
\* the estimate ("the rate snapshot used for a request is retained").
RatesAreKept ==
  [][\A i \in Ids : rows[i].rates # NoRates =>
       rows'[i].rates = rows[i].rates \/ rows'[i].reported]_vars

\* What the tables say of a request, without the columns that only keep the
\* worker in step with them (provenance, revision).
EntryOf(r) ==
  [known |-> r.stored, ts |-> r.ts, model |-> r.model, tok |-> r.tok,
   cost |-> r.cost, rates |-> r.rates, due |-> r.pending]

Ledger == INSTANCE CostLedger WITH
            entries   <- [i \in Ids |-> EntryOf(rows[i])],
            published <- upstream

\* The worker's pages, stale copies, revision checks and restarts cannot be
\* told from prices made and entered in one step: every update that lands is
\* what the request, as it is at that moment, costs at its first rates or at
\* those of a published catalog, and a request leaves the queue unpriced
\* only when such a catalog has no price for it.
ImplementsCostLedger == Ledger!Spec

\* A row the historical job had to price: it can be priced with what the
\* worker knows, has no cost and is not queued.
Missed(i) ==
  /\ rows[i].stored /\ ~HasCost(rows[i]) /\ ~rows[i].pending
  /\ Priceable(rows[i], catalog)

\* When the historical job is marked complete, it has left no row behind that
\* no merge touched, however the job was interrupted and restarted ("the
\* marker is written only after all batches succeed").
BackfillCoversUntouched ==
  [][~backfilled /\ backfilled' => ~\E i \in Ids : Missed(i) /\ rows[i].rev = 0]_vars

\* The same of every row, which is what docs/configuration.md says of the job:
\* "Existing unpriced requests receive one historical backfill".
BackfillCoversAll ==
  [][~backfilled /\ backfilled' => ~\E i \in Ids : Missed(i)]_vars

\* Every queued row leaves the queue: no wake is lost between commits, pages,
\* failed fetches, the retry timer and restarts.  Assumes that fetches fail
\* finitely often, and speaks of behaviours in which the database serves every
\* statement of the worker: after an error it waits for the next wake.
EventuallyPriced ==
  \A i \in Ids : rows[i].pending ~> ~rows[i].pending \/ dbErrors > 0
=============================================================================
