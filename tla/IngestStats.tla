---------------------------- MODULE IngestStats ----------------------------
(***************************************************************************)
(* The ingestion counters of one UTC day (src/internal/ingest/pipeline.go):*)
(* concurrent Consume calls add to atomic counters; Save, from a ticker, a *)
(* midnight timer or the shutdown, writes base + session as the day's row, *)
(* and after midnight closes the old day's row and zeroes the counters one *)
(* by one; RestoreBase continues a row after a restart.                    *)
(*                                                                         *)
(* A counter is the set of the records it has counted, so a record counted *)
(* twice, dropped, or credited to two days is visible.  Sums are unions;   *)
(* CountedOnce says that no sum has a record on both sides.  Every step    *)
(* acts on each record alone, so an instance with one record shows what    *)
(* can happen to any record of any number of them.                         *)
(***************************************************************************)
EXTENDS Naturals, Sequences, FiniteSets

CONSTANTS
  Records,       \* records exporters send, each once; a retry is another record
  MaxDay,        \* bound: UTC midnights
  MaxRestarts,   \* bound: process starts after the first
  MaxDbErrors    \* bound: failed saves

ASSUME StatsAssumption ==
  MaxDay \in Nat /\ MaxRestarts \in Nat /\ MaxDbErrors \in Nat

\* The counters in the order atomicStats reads them, then the reasons map.
\* "rejected" stands for the three counters of records that are no generation
\* (rejected, ignored, normalization errors).
LoadOrder == <<"received", "normalized", "stored", "deduplicated", "rejected", "errors", "reasons">>
\* ... and in the order resetLocked zeroes them.
ResetOrder == <<"reasons", "received", "normalized", "stored", "deduplicated", "rejected", "errors">>

Cells == {LoadOrder[k] : k \in 1..Len(LoadOrder)}
Days  == 0..MaxDay
NoDay == MaxDay + 1   \* the empty day of a Pipeline before RestoreBase
Zero  == [c \in Cells |-> {}]

VARIABLES
  day,        \* the UTC date
  at,         \* where each record's Consume call is
  live,       \* the session counters: the atomics and the reasons map
  base,       \* Pipeline.base and baseReasons
  baseDay,    \* Pipeline.baseDay
  saved,      \* stats_daily and stats_daily_reasons
  save,       \* the Save under way: [at, k, seen, today, final]
  phase,      \* the process: "up", "draining", "down"
  clean,      \* the last shutdown waited for every call, and its save succeeded
  counted,    \* history: what each counter ever counted
  lost,       \* history: what a reset or an exit dropped
  restarts, dbErrors

records == <<at, live, counted>>
anchor  == <<base, baseDay>>
bounds  == <<restarts, dbErrors>>
vars    == <<day, records, anchor, saved, save, phase, clean, lost, bounds>>

NoSave == [at |-> "idle", k |-> 1, seen |-> Zero, today |-> 0, final |-> FALSE]

Init ==
  /\ day = 0 /\ at = [r \in Records |-> "new"]
  /\ live = Zero /\ base = Zero /\ baseDay = 0
  /\ saved = [d \in Days |-> Zero]
  /\ save = NoSave /\ phase = "up" /\ clean = FALSE
  /\ counted = Zero /\ lost = Zero
  /\ restarts = 0 /\ dbErrors = 0

-----------------------------------------------------------------------------
(* ConsumeTraces, ConsumeLogs: one atomic Add after another.               *)

Add(r, c) ==
  /\ live' = [live EXCEPT ![c] = @ \cup {r}]
  /\ counted' = [counted EXCEPT ![c] = @ \cup {r}]

Count(r, from, c, to) ==
  /\ phase # "down"
  /\ at[r] = from
  /\ Add(r, c)
  /\ at' = [at EXCEPT ![r] = to]
  /\ UNCHANGED <<day, anchor, saved, save, phase, clean, lost, bounds>>

Receive(r)   == phase = "up" /\ Count(r, "new", "received", "received")
Normalize(r) == Count(r, "received", "normalized", "normalized")
Reject(r)    == Count(r, "received", "rejected", "bump")
Store(r)     == Count(r, "normalized", "stored", "done")
StoreFails(r) == Count(r, "normalized", "errors", "done")
Deduplicate(r) == Count(r, "normalized", "deduplicated", "bump")

\* bumpReason: a count added to a map that a reset has just replaced is lost
\* as one added just before it.
BumpReason(r) == Count(r, "bump", "reasons", "done")

Consume(r) ==
  \/ Receive(r) \/ Normalize(r) \/ Reject(r)
  \/ Store(r) \/ StoreFails(r) \/ Deduplicate(r) \/ BumpReason(r)

-----------------------------------------------------------------------------
(* Save, under Pipeline.mu.                                                *)

Begin(final) ==
  /\ save.at = "idle"
  /\ save' = [NoSave EXCEPT !.at = "load", !.today = day, !.final = final]
  /\ UNCHANGED <<day, records, anchor, saved, phase, lost, bounds>>

Tick == phase # "down" /\ Begin(FALSE) /\ UNCHANGED clean

Load ==
  /\ save.at = "load"
  /\ LET c == LoadOrder[save.k]
         last == save.k = Len(LoadOrder)
     IN  save' = [save EXCEPT !.seen[c] = live[c], !.k = IF last THEN 1 ELSE @ + 1,
                              !.at = IF last THEN "write" ELSE "load"]
  /\ UNCHANGED <<day, records, anchor, saved, phase, clean, lost, bounds>>

Rollover == baseDay # NoDay /\ save.today # baseDay
Row      == IF Rollover THEN baseDay ELSE save.today

Snapshot == [c \in Cells |-> base[c] \cup save.seen[c]]

\* What follows a Save that is over: nothing, or the end of the process.
Finish == save' = NoSave /\ phase' = IF save.final THEN "down" ELSE phase

\* UpsertDailySnapshot commits.  A rollover writes the old day's row and goes
\* on to the reset.  (The mutant adds the snapshot to the base as well.)
WriteRebased ==
  /\ save.at = "write"
  /\ saved' = [saved EXCEPT ![Row] = Snapshot]
  /\ IF Rollover
       THEN /\ save' = [save EXCEPT !.at = "reset"] /\ base' = Snapshot
            /\ UNCHANGED <<phase, baseDay>>
       ELSE Finish /\ baseDay' = save.today /\ UNCHANGED base
  /\ UNCHANGED <<day, records, clean, lost, bounds>>

Write ==
  /\ save.at = "write"
  /\ saved' = [saved EXCEPT ![Row] = Snapshot]
  /\ IF Rollover
       THEN /\ save' = [save EXCEPT !.at = "reset"] /\ base' = Zero
            /\ UNCHANGED <<phase, baseDay>>
       ELSE Finish /\ baseDay' = save.today /\ UNCHANGED base
  /\ UNCHANGED <<day, records, clean, lost, bounds>>

\* The transaction fails: Save returns before any reset.
WriteFails ==
  /\ save.at = "write"
  /\ dbErrors < MaxDbErrors /\ dbErrors' = dbErrors + 1
  /\ clean' = FALSE
  /\ Finish
  /\ baseDay' = IF Rollover THEN baseDay ELSE save.today
  /\ UNCHANGED <<day, records, base, saved, lost, restarts>>

\* One counter is zeroed; what it counted since it was read is gone.
Reset ==
  /\ save.at = "reset"
  /\ LET c == ResetOrder[save.k]
     IN  /\ live' = [live EXCEPT ![c] = {}]
         /\ lost' = [lost EXCEPT ![c] = @ \cup (live[c] \ save.seen[c])]
  /\ IF save.k < Len(ResetOrder)
       THEN save' = [save EXCEPT !.k = @ + 1] /\ UNCHANGED <<phase, baseDay>>
       ELSE Finish /\ baseDay' = save.today
  /\ UNCHANGED <<day, at, base, saved, clean, counted, bounds>>

-----------------------------------------------------------------------------
(* The process and the clock.                                              *)

Quiet == \A r \in Records : at[r] \in {"new", "done"}

\* run() stops the servers, which wait for their handlers as long as the
\* grace period lasts, and saves for the last time.
ShutdownBegins ==
  /\ phase = "up" /\ ~save.final /\ phase' = "draining"
  /\ UNCHANGED <<day, records, anchor, saved, save, clean, lost, bounds>>

\* (The mutant saves before the servers have stopped.)
FinalSaveEarly ==
  /\ phase = "draining"
  /\ clean' = TRUE
  /\ Begin(TRUE)

FinalSave ==
  /\ phase = "draining"
  /\ clean' = Quiet
  /\ Begin(TRUE)

\* A listener dies: run() saves and returns with the other servers running.
ListenerDies ==
  /\ phase = "up"
  /\ clean' = FALSE
  /\ Begin(TRUE)

Crash ==
  /\ phase # "down" /\ phase' = "down"
  /\ clean' = FALSE
  /\ save' = NoSave
  /\ UNCHANGED <<day, records, anchor, saved, lost, bounds>>

InSomeRow(c) == UNION {saved[d][c] : d \in Days}

\* RestoreBase continues the row of the day, and knows the day also when it
\* has no row.  (The mutant does not.)
Restore(newBase, newDay) ==
  /\ phase = "down"
  /\ restarts < MaxRestarts /\ restarts' = restarts + 1
  /\ phase' = "up"
  /\ at' = [r \in Records |-> IF at[r] = "new" THEN "new" ELSE "done"]
  /\ live' = Zero
  /\ base' = newBase /\ baseDay' = newDay
  /\ lost' = [c \in Cells |-> counted[c] \ InSomeRow(c)]
  /\ UNCHANGED <<day, saved, save, clean, counted, dbErrors>>

StartWithoutDay == Restore(saved[day], IF saved[day] = Zero THEN NoDay ELSE day)
Start           == Restore(saved[day], day)

Midnight ==
  /\ day < MaxDay /\ day' = day + 1
  /\ UNCHANGED <<records, anchor, saved, save, phase, clean, lost, bounds>>

Next ==
  \/ \E r \in Records : Consume(r)
  \/ Tick \/ Load \/ Write \/ WriteFails \/ Reset
  \/ ShutdownBegins \/ FinalSave \/ ListenerDies \/ Crash \/ Start \/ Midnight

Spec == Init /\ [][Next]_vars

-----------------------------------------------------------------------------
(* Properties.                                                             *)

Counters == [Cells -> SUBSET Records]

\* Every variable keeps its type; the day of the base is always known
\* ("RestoreBase always records the startup day in baseDay (even when no row
\* exists yet)", pipeline.go).
TypeOK ==
  /\ day \in Days /\ baseDay \in Days
  /\ at \in [Records -> {"new", "received", "normalized", "bump", "done"}]
  /\ live \in Counters /\ base \in Counters /\ saved \in [Days -> Counters]
  /\ counted \in Counters /\ lost \in Counters
  /\ save \in [at : {"idle", "load", "write", "reset"}, k : 1..Len(LoadOrder),
               seen : Counters, today : Days, final : BOOLEAN]
  /\ phase \in {"up", "draining", "down"} /\ clean \in BOOLEAN
  /\ restarts \in Nat /\ dbErrors \in Nat

Settled == phase # "down" /\ save.at = "idle"

\* No record is counted twice: the rows of two days share none, and between
\* saves the session's counters share none with the base or with a closed
\* row, across rollovers, failed saves, crashes and restarts.
CountedOnce ==
  \A c \in Cells :
    /\ \A d, e \in Days : d # e => saved[d][c] \cap saved[e][c] = {}
    /\ Settled => /\ live[c] \cap base[c] = {}
                  /\ \A d \in Days \ {baseDay} : saved[d][c] \cap (live[c] \cup base[c]) = {}

\* No record vanishes: between saves each is in a row, in the base, in the
\* session, or is one of those that a reset or an exit dropped; and after a
\* shutdown that waited for its handlers and could write, the rows have all
\* but those.
Conserved ==
  \A c \in Cells :
    /\ Settled => counted[c] = InSomeRow(c) \cup base[c] \cup live[c] \cup lost[c]
    /\ phase = "down" /\ clean => counted[c] = InSomeRow(c) \cup lost[c]
=============================================================================
