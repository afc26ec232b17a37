----------------------------- MODULE UsageFacts -----------------------------
(***************************************************************************)
(* What the aggregates are made of (src/internal/storage/rollup.go,        *)
(* queries.go, conversations.go): the facts of one stored request, the     *)
(* group of each rollup table it belongs to, and the aggregate of a table  *)
(* of requests.                                                            *)
(*                                                                         *)
(* A SUM over a group is kept as the facts that were summed, each with its *)
(* multiplicity: two groups have equal columns whatever the numbers are    *)
(* exactly when these agree.  The provider behaves as the model does and   *)
(* is left out; floating-point rounding is not modelled.                   *)
(***************************************************************************)
EXTENDS Integers, FiniteSets

CONSTANTS
  Ids,             \* record IDs
  Times,           \* timestamps, in units of which a day has DayLength
  DayLength,
  Sources,         \* harnesses ...
  InclusiveSources,\* ... of which these count cached tokens into the input (copilot, codex)
  Copilot,         \* the harness whose helpers have no session
  Models,
  Tokens,          \* ids of API tokens, from 1
  Agents,          \* agent names ...
  Autocomplete,    \* ... of which this one completes code ("XtabProvider")
  TitleAgents,     \* ... and these write titles and progress messages
  ConversationIds,   \* conversation ids; one may look like a key of Keyed
  Counts,          \* token counts
  Prices,          \* costs
  Nil              \* SQL NULL

Columns == {"input", "output", "cache_read", "cache_creation", "reasoning"}

ASSUME FactsAssumption ==
  /\ IsFiniteSet(Ids)
  /\ Times \subseteq Nat /\ DayLength \in Nat \ {0}
  /\ InclusiveSources \subseteq Sources
  /\ TitleAgents \subseteq Agents \ {Autocomplete}
  /\ Tokens \subseteq Nat \ {0} /\ Counts \subseteq Nat
  /\ Nil \notin Sources /\ Nil \notin ConversationIds /\ Nil \notin Models
  /\ Nil \notin Counts /\ Nil \notin Prices

-----------------------------------------------------------------------------
\* The columns of generations the facts are computed from.
CostSources == {"unknown", "harness", "openrouter", "manual", "free"}

Row ==
  [ts : Times, source : Sources, model : Models \cup {Nil}, token : Tokens \cup {Nil},
   agent : Agents \cup {Nil}, conv : ConversationIds \cup {Nil},
   tok : [Columns -> Counts \cup {Nil}], cost : Prices \cup {Nil}, costSource : CostSources]

Absent == [absent |-> TRUE]
Rows   == [Ids -> Row \cup {Absent}]

Stored(rows) == {i \in Ids : rows[i] # Absent}

-----------------------------------------------------------------------------
(* factDimsSQL, factHelperSQL, factMeasuresSQL, conversationKeySQL.        *)

Coalesce(a, b) == IF a = Nil THEN b ELSE a
Positive(n)    == IF n < 0 THEN 0 ELSE n

Day(t) == (t \div DayLength) * DayLength

IsAutocomplete(row) == row.source = Copilot /\ row.agent = Autocomplete
IsTitle(row)        == row.source = Copilot /\ row.agent \in TitleAgents
IsHelper(row)       == IsAutocomplete(row) \/ IsTitle(row)

\* Session-less requests are grouped by day under a key of their own.
Keyed(kind, day) == <<kind, day>>

Conversation(row) ==
  CASE IsAutocomplete(row)                                       -> Keyed("autocomplete", Day(row.ts))
    [] IsTitle(row)                                              -> Keyed("titleprogress", Day(row.ts))
    [] ~IsHelper(row) /\ row.conv = Nil                          -> Keyed("other", Day(row.ts))
    [] OTHER                                                     -> row.conv

\* Cached tokens, and reasoning, are taken out of the counts that include them.
UncachedInput(row) ==
  LET input == Coalesce(row.tok["input"], 0)
  IN  IF row.source \in InclusiveSources
        THEN Positive(input - Coalesce(row.tok["cache_read"], 0)
                            - Coalesce(row.tok["cache_creation"], 0))
        ELSE input

OutputOnly(row) ==
  LET output == Coalesce(row.tok["output"], 0)
  IN  IF row.source \in InclusiveSources
        THEN Positive(output - Coalesce(row.tok["reasoning"], 0))
        ELSE output

\* `release`: the release whose expressions these are.
Facts(release, row) ==
  [release        |-> release,
   input          |-> UncachedInput(row),
   output         |-> OutputOnly(row),
   cache_read     |-> Coalesce(row.tok["cache_read"], 0),
   cache_creation |-> Coalesce(row.tok["cache_creation"], 0),
   reasoning      |-> Coalesce(row.tok["reasoning"], 0),
   known          |-> row.cost # Nil,
   costSource     |-> IF row.cost # Nil THEN row.costSource ELSE "unknown",
   cost           |-> Coalesce(row.cost, 0)]

-----------------------------------------------------------------------------
(* The rollup tables: their keys and GROUP BY over the requests.           *)

Rollups == {"usage_daily", "conversation_daily"}

KeyOf(r, row) ==
  IF r = "usage_daily"
    THEN [day |-> Day(row.ts), source |-> row.source, model |-> Coalesce(row.model, ""),
          token |-> Coalesce(row.token, 0), helper |-> IsHelper(row)]
    ELSE [day |-> Day(row.ts), conversation |-> Conversation(row), source |-> row.source,
          model |-> Coalesce(row.model, ""), token |-> Coalesce(row.token, 0)]

Members(rows, r, key) == {i \in Stored(rows) : KeyOf(r, rows[i]) = key}

Least(S)    == CHOOSE t \in S : \A u \in S : t <= u
Greatest(S) == CHOOSE t \in S : \A u \in S : t >= u

\* Sums are kept without zeros.
Multiplicity(sums, f) == IF f \in DOMAIN sums THEN sums[f] ELSE 0

\* Only conversation_daily keeps first_ts and last_ts.
HasSpan(r) == r = "conversation_daily"

GroupOf(release, rows, r, key) ==
  LET members  == Members(rows, r, key)
      times    == {rows[i].ts : i \in members}
      factsOf  == [i \in members |-> Facts(release, rows[i])]
  IN  [requests |-> Cardinality(members),
       sums     |-> [f \in {factsOf[i] : i \in members} |-> Cardinality({i \in members : factsOf[i] = f})],
       first    |-> IF HasSpan(r) THEN Least(times) ELSE 0,
       last     |-> IF HasSpan(r) THEN Greatest(times) ELSE 0]

\* rollupSpec.groupSQL over rawFactsSQL: what the backfill writes.
Aggregate(release, rows, r) ==
  [key \in {KeyOf(r, rows[i]) : i \in Stored(rows)} |-> GroupOf(release, rows, r, key)]
=============================================================================
