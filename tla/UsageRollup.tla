---------------------------- MODULE UsageRollup ----------------------------
(***************************************************************************)
(* The rollup tables usage_daily and conversation_daily                    *)
(* (src/internal/storage/rollup.go) beside the writes that fire their      *)
(* triggers (usage.go, pricing.go, tokens.go), and the start that migrates *)
(* the schema and rebuilds them (migrations.go, syncRollup).               *)
(*                                                                         *)
(* `data` is what the open write transaction sees; readers, and a          *)
(* rollback or a crash, see `before` until it commits.  A release is known *)
(* by the expressions its triggers are made of.                            *)
(***************************************************************************)
EXTENDS UsageFacts

CONSTANTS
  Telemetry,       \* the records exporters send, again and again and in any order
  Historical,      \* the rows of a database from before the rollups
  Estimates,       \* what the pricing service may set: [cost, costSource]
  Releases,        \* releases that may be installed, from 1
  Schema,          \* [Releases -> Nat]: the last migration a release ships
  Rebuilding       \* migrations that rebuild generations: create, copy, drop, rename

\* insertArgs: the row of a record on its way to InsertGenerations.
NewRow(g) ==
  [ts |-> g.ts, source |-> g.source, model |-> g.model, token |-> g.token,
   agent |-> g.agent, conv |-> g.conv, tok |-> g.tok, cost |-> g.cost,
   costSource |-> IF g.cost = Nil THEN "unknown" ELSE "harness"]

ASSUME RollupAssumption ==
  /\ \A g \in Telemetry : g.id \in Ids /\ NewRow(g) \in Row
  /\ Historical \in Rows
  /\ Estimates \subseteq [cost : Prices, costSource : {"openrouter", "manual", "free"}]
  /\ Releases \subseteq Nat \ {0}
  /\ Schema \in [Releases -> Nat]

VARIABLES
  data,        \* [rows, tables]: generations, and each rollup table's groups by key
  before,      \* data as the open transaction found it
  txn,         \* "none", "batch" or "claim": unattributed rows are being given to the first token
  tokens,      \* rows of api_tokens: ids 1..tokens
  triggers,    \* the release whose triggers stand on generations, 0 if none
  built,       \* rollup_state: the release the tables were built by, 0 if none
  schema,      \* schema_migrations: the last one applied
  release,     \* the program on the host
  mode         \* "down", "migrating" or "serving"

definition == <<triggers, built, schema>>
program    == <<release, mode>>
vars       == <<data, before, txn, tokens, definition, program>>

NoTables == [r \in Rollups |-> [key \in {} |-> 0]]

Init ==
  /\ data = [rows |-> Historical, tables |-> NoTables] /\ before = data
  /\ txn = "none" /\ tokens = 0
  /\ triggers = 0 /\ built = 0 /\ schema = 0
  /\ release \in Releases /\ mode = "down"

-----------------------------------------------------------------------------
(* The statements of the triggers.                                         *)

Put(table, key, group) ==
  [k \in DOMAIN table \cup {key} |-> IF k = key THEN group ELSE table[k]]

Plus(sums, f, n) ==
  LET total == Multiplicity(sums, f) + n
  IN  [g \in (DOMAIN sums \cup {f}) \ (IF total = 0 THEN {f} ELSE {})
         |-> IF g = f THEN total ELSE sums[g]]

\* addSQL: the facts of a row enter ("+", 1) or leave ("-", -1) its group.
AddRow(r, table, row, sign) ==
  LET key   == KeyOf(r, row)
      fact  == Facts(triggers, row)
      ts    == IF HasSpan(r) THEN row.ts ELSE 0
      group == table[key]
  IN  IF key \notin DOMAIN table
        THEN Put(table, key, [requests |-> sign, sums |-> Plus([f \in {} |-> 0], fact, sign),
                              first |-> ts, last |-> ts])
        ELSE Put(table, key,
               [requests |-> group.requests + sign,
                sums     |-> Plus(group.sums, fact, sign),
                first    |-> IF sign = 1 /\ ts < group.first THEN ts ELSE group.first,
                last     |-> IF sign = 1 /\ ts > group.last THEN ts ELSE group.last])

\* pruneSQL.
Prune(r, table, row) ==
  LET key == KeyOf(r, row)
  IN  IF key \in DOMAIN table /\ table[key].requests = 0
        THEN [k \in DOMAIN table \ {key} |-> table[k]]
        ELSE table

\* spanScope: a group under its rows' own conversation id is looked for among
\* the rows with that id, unless the id reads like a key made up for a day.
\* (The mutant trusts every id.)
LooksKeyed(conv) == \E kind \in {"autocomplete", "titleprogress", "other"}, t \in Times :
                      conv = Keyed(kind, Day(t))
AnyId(row)    == Conversation(row) = row.conv
Narrowed(row) == Conversation(row) = row.conv /\ ~LooksKeyed(row.conv)

\* spanStmtSQL: the rows now in the group that `row` was in.
Remaining(now, row) ==
  {i \in Members(now, "conversation_daily", KeyOf("conversation_daily", row)) :
     Narrowed(row) => now[i].conv = row.conv}

NearestAfter(now, row) ==
  LET times == {now[i].ts : i \in {j \in Remaining(now, row) : now[j].ts >= row.ts}}
  IN  IF times = {} THEN Nil ELSE Least(times)

NearestBefore(now, row) ==
  LET times == {now[i].ts : i \in {j \in Remaining(now, row) : now[j].ts <= row.ts}}
  IN  IF times = {} THEN Nil ELSE Greatest(times)

Span(r, table, now, row) ==
  LET key   == KeyOf(r, row)
      group == table[key]
  IN  IF HasSpan(r) /\ key \in DOMAIN table /\ row.ts \in {group.first, group.last}
        THEN Put(table, key,
               [group EXCEPT !.first = IF @ = row.ts THEN NearestAfter(now, row) ELSE @,
                             !.last  = IF @ = row.ts THEN NearestBefore(now, row) ELSE @])
        ELSE table

Removed(r, table, now, row) == Span(r, Prune(r, AddRow(r, table, row, -1), row), now, row)

Moved(r, table, now, old, new) ==
  Span(r, Prune(r, AddRow(r, AddRow(r, table, old, -1), new, 1), old), now, old)

-----------------------------------------------------------------------------
(* A statement on one row: AFTER INSERT, AFTER UPDATE OF the columns the   *)
(* facts read WHEN one of them changed, AFTER DELETE.                      *)

Fired(i, now) ==
  LET old == data.rows[i]
      new == now[i]
  IN  [r \in Rollups |->
         CASE triggers = 0 \/ old = new -> data.tables[r]
           [] triggers # 0 /\ old # new /\ old = Absent -> AddRow(r, data.tables[r], new, 1)
           [] triggers # 0 /\ old # new /\ new = Absent -> Removed(r, data.tables[r], now, old)
           [] OTHER -> Moved(r, data.tables[r], now, old, new)]

Write(i, row) ==
  LET now == [data.rows EXCEPT ![i] = row]
  IN  data' = [rows |-> now, tables |-> Fired(i, now)]

\* A statement in the open transaction, and one that commits by itself.
WriteInside(i, row) ==
  /\ Write(i, row)
  /\ UNCHANGED <<before, txn, tokens, definition, program>>

WriteAlone(i, row) ==
  /\ txn = "none" /\ mode = "serving"
  /\ Write(i, row)
  /\ before' = data'
  /\ UNCHANGED <<txn, tokens, definition, program>>

-----------------------------------------------------------------------------
(* Transactions of the serving program.                                    *)

Earlier(s, t) == IF s <= t THEN s ELSE t

\* mergeSQL, the columns that the facts read.  (The mutant lets the last
\* report set the cost.)
CostLatest(old, g) == IF g.cost # Nil THEN g.cost ELSE old.cost
CostMerged(old, g) ==
  IF old.costSource = "harness" THEN old.cost ELSE Coalesce(g.cost, old.cost)

MergeRow(old, g) ==
  [ts         |-> Earlier(old.ts, g.ts),
   source     |-> old.source,
   model      |-> Coalesce(old.model, g.model),
   token      |-> Coalesce(old.token, g.token),
   agent      |-> Coalesce(old.agent, g.agent),
   conv       |-> Coalesce(old.conv, g.conv),
   tok        |-> [c \in Columns |-> Coalesce(old.tok[c], g.tok[c])],
   cost       |-> CostMerged(old, g),
   costSource |-> IF g.cost # Nil THEN "harness" ELSE old.costSource]

InsertGenerations ==
  /\ mode = "serving" /\ txn = "none"
  /\ txn' = "batch"
  /\ UNCHANGED <<data, before, tokens, definition, program>>

InsertGeneration(g) ==
  LET old == data.rows[g.id]
  IN  /\ txn = "batch"
      /\ g.token # Nil => g.token <= tokens
      /\ WriteInside(g.id, IF old = Absent THEN NewRow(g) ELSE MergeRow(old, g))

\* The price that the pricing service found for a request.
ApplyPricing(i, e) ==
  LET old == data.rows[i]
  IN  /\ old # Absent /\ old.costSource # "harness"
      /\ WriteAlone(i, [old EXCEPT !.cost = e.cost, !.costSource = e.costSource])

\* No code of the program deletes a request; an operator may.
Delete(i) ==
  /\ data.rows[i] # Absent
  /\ WriteAlone(i, Absent)

CreateToken ==
  /\ mode = "serving" /\ txn = "none" /\ tokens + 1 \in Tokens
  /\ tokens' = tokens + 1
  /\ UNCHANGED <<data, before, txn, definition, program>>

\* SeedTokenID: the first token of all takes over what came before it.
SeedToken ==
  /\ mode = "serving" /\ txn = "none" /\ tokens + 1 \in Tokens
  /\ tokens' = tokens + 1
  /\ txn' = IF tokens = 0 THEN "claim" ELSE "none"
  /\ UNCHANGED <<data, before, definition, program>>

Unattributed == {i \in Stored(data.rows) : data.rows[i].token = Nil}

ClaimRow(i) ==
  /\ txn = "claim" /\ i \in Unattributed
  /\ WriteInside(i, [data.rows[i] EXCEPT !.token = tokens])

Commit ==
  /\ txn # "none"
  /\ txn = "claim" => Unattributed = {}
  /\ txn' = "none" /\ before' = data
  /\ UNCHANGED <<data, tokens, definition, program>>

\* What an open transaction leaves behind when it fails or the process ends.
Undone ==
  /\ data' = before /\ txn' = "none"
  /\ tokens' = IF txn = "claim" THEN tokens - 1 ELSE tokens
  /\ UNCHANGED before

Rollback ==
  /\ txn # "none" /\ Undone
  /\ UNCHANGED <<definition, program>>

-----------------------------------------------------------------------------
(* The program stops, is replaced, and starts.                             *)

Stop ==
  /\ mode # "down" /\ Undone
  /\ mode' = "down"
  /\ UNCHANGED <<definition, release>>

\* An upgrade, or back.
Install(r) ==
  /\ mode = "down"
  /\ release' = r
  /\ UNCHANGED <<data, before, txn, tokens, definition, mode>>

Start ==
  /\ mode = "down"
  /\ mode' = "migrating"
  /\ UNCHANGED <<data, before, txn, tokens, definition, release>>

\* Migrate: each file in a transaction with its version.
ApplyMigration ==
  /\ mode = "migrating" /\ schema < Schema[release]
  /\ schema' = schema + 1
  /\ triggers' = IF schema + 1 \in Rebuilding THEN 0 ELSE triggers
  /\ UNCHANGED <<data, before, txn, tokens, built, program>>

\* (The mutant trusts the recorded definition alone.)
RecordedOnly == built = release
InSync       == built = release /\ triggers # 0

Rebuilt == [data EXCEPT !.tables = [r \in Rollups |-> Aggregate(release, data.rows, r)]]

\* syncRollup: one transaction, or nothing to do.
SyncRollup ==
  /\ mode = "migrating" /\ schema >= Schema[release]
  /\ mode' = "serving"
  /\ IF InSync
       THEN UNCHANGED <<data, before, triggers, built>>
       ELSE /\ data' = Rebuilt /\ before' = Rebuilt
            /\ triggers' = release /\ built' = release
  /\ UNCHANGED <<txn, tokens, schema, release>>

Next ==
  \/ InsertGenerations
  \/ \E g \in Telemetry : InsertGeneration(g)
  \/ \E i \in Ids, e \in Estimates : ApplyPricing(i, e)
  \/ \E i \in Ids : Delete(i)
  \/ CreateToken
  \/ SeedToken
  \/ \E i \in Ids : ClaimRow(i)
  \/ Commit
  \/ Rollback
  \/ Stop
  \/ \E r \in Releases : Install(r)
  \/ Start
  \/ ApplyMigration
  \/ SyncRollup

Spec == Init /\ [][Next]_vars

-----------------------------------------------------------------------------
(* Properties.                                                             *)

\* A group stands for at least one request and spans a time of its day, also
\* between the statements of a transaction (pruneSQL, spanSQL).
GroupOK(r, key, group) ==
  /\ group.requests \in Nat \ {0}
  /\ \A f \in DOMAIN group.sums : group.sums[f] \in 1..group.requests
  /\ HasSpan(r) => /\ {group.first, group.last} \subseteq Times
                   /\ group.first <= group.last
                   /\ Day(group.first) = key.day /\ Day(group.last) = key.day

DataOK(d) ==
  /\ d.rows \in Rows
  /\ DOMAIN d.tables = Rollups
  /\ \A r \in Rollups : \A key \in DOMAIN d.tables[r] : GroupOK(r, key, d.tables[r][key])

\* Types; the trigger chains leave no empty group and no span outside the
\* group's day.
TypeOK ==
  /\ DataOK(data) /\ DataOK(before)
  /\ txn \in {"none", "batch", "claim"} /\ tokens \in Tokens \cup {0}
  /\ triggers \in Releases \cup {0} /\ built \in Releases \cup {0}
  /\ schema \in Nat
  /\ release \in Releases /\ mode \in {"down", "migrating", "serving"}

InStep(d, r) == d.tables[r] = Aggregate(release, d.rows, r)

\* While the program serves, every rollup table is exactly what a GROUP BY
\* over generations would give with this release's expressions, after every
\* statement, commit, rollback, crash, upgrade and downgrade: sums, request
\* counts, the first and last time of each session, and no group more or less.
RollupIsAggregate ==
  mode = "serving" => \A r \in Rollups : InStep(data, r) /\ InStep(before, r)

\* The triggers and rollup_state as one ledger that is open or closed.
Ledger == INSTANCE UsageLedger WITH
  Editions <- Releases,
  rows <- before.rows, edition <- release,
  view <- IF mode = "serving" THEN before.tables ELSE [closed |-> TRUE]

\* A reader of the tables sees a ledger: requests only gain columns, move to
\* an earlier time and keep what a harness reported (mergeSQL, ApplyPricing),
\* none is lost to a crash or a new release, and the totals seen are at every
\* step those of the requests seen.
ImplementsLedger == Ledger!Spec
=============================================================================
