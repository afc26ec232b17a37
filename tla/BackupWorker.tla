---------------------------- MODULE BackupWorker ----------------------------
(***************************************************************************)
(* The backup worker (Run and what it calls in                             *)
(* src/internal/backup/backup.go) beside the dashboard's Save of a new     *)
(* daily time, its "Back up now" and the wall clock: the schedule is read  *)
(* from the settings, the worker waits for the next run, a request or a    *)
(* change, uploads a snapshot and saves success.json; a failed attempt is  *)
(* retried after a delay; the process stops at any point and starts again. *)
(*                                                                         *)
(* A time is a number of steps of the wall clock, a day has DayLength of   *)
(* them, and the daily time is a position in the day.  Time zones and the  *)
(* changes of daylight saving are left out.                                *)
(***************************************************************************)
EXTENDS Integers, FiniteSetsExt

CONSTANTS
  DayLength,
  MaxNow,        \* bound: the wall clock
  MaxBack,       \* bound: times the wall clock is set back
  MaxChanges,    \* bound: daily times the user saves
  MaxRequests,   \* bound: manual backups
  MaxFailures,   \* bound: attempts, preparations and files that fail
  MaxDbFailures, \* bound: reads and saves of the schedule that fail
  MaxStops,      \* bound: times the process stops
  MaxEvents      \* bound: all of these together

\* A day has more than one minute; the clock starts a minute into the first.
ASSUME BackupAssumption ==
  /\ DayLength \in Nat \ {0, 1} /\ MaxNow # 0
  /\ {MaxNow, MaxBack, MaxChanges, MaxRequests, MaxFailures, MaxDbFailures,
      MaxStops, MaxEvents} \subseteq Nat

Times  == 0..MaxNow
Never  == -1              \* the zero time.Time
Clocks == 0..(DayLength - 1)
Unset  == -1              \* no valid time in the settings

VARIABLES
  now,
  settings,    \* dashboard_settings: the daily time, or Unset
  success,     \* success.json: the snapshot time of the last success, or Never
  changedAt,   \* schedule.json, or Never
  bucket,      \* snapshot times of the uploaded objects
  at,          \* where Run is, or "down"
  last,        \* Run's last
  daily,       \* the daily time waitDue works with
  next,        \* the run it waits for
  left,        \* what its timer has left
  snap,        \* the attempt's snapshot time
  requested,   \* Status.Requested
  rescheduled, \* Worker.rescheduled
  wake,        \* a token in the wake channel
  handler,     \* the Save of the settings page: "idle" or "saved"
  due,         \* history: when the daily time of the settings or of Run came
  torn,        \* history: a change of the time is lost to this process
  cycle,       \* history: the time of day of the cycle found at first
  used         \* how often each bounded thing has happened

files  == <<settings, success, changedAt, bucket>>
wait   == <<last, daily, next, left, snap>>
signals == <<requested, rescheduled, wake>>
rest   == <<handler, due, torn, cycle>>
vars   == <<now, files, at, wait, signals, rest, used>>

Kinds == {"back", "changes", "requests", "failures", "dbFailures", "stops"}
Bound == [k \in Kinds |->
  CASE k = "back" -> MaxBack [] k = "changes" -> MaxChanges [] k = "requests" -> MaxRequests
    [] k = "failures" -> MaxFailures [] k = "dbFailures" -> MaxDbFailures [] k = "stops" -> MaxStops]
Spend(k) ==
  /\ used[k] < Bound[k] /\ MapThenSumSet(LAMBDA j : used[j], Kinds) < MaxEvents
  /\ used' = [used EXCEPT ![k] = @ + 1]

\* A first start, or one after an upgrade from a version without a daily time.
Init ==
  /\ now = 1
  /\ settings = Unset /\ changedAt = Never
  /\ success \in {Never, 0} /\ bucket = {success} \ {Never}
  /\ at = "prepare"
  /\ last = Never /\ daily = 0 /\ next = 0 /\ left = 0 /\ snap = Never
  /\ requested = FALSE /\ rescheduled = Never /\ wake = FALSE
  /\ handler = "idle" /\ due = {} /\ torn = FALSE
  /\ cycle = IF success = Never THEN Unset ELSE success % DayLength
  /\ used = [k \in Kinds |-> 0]

Latest(a, b) == IF a > b THEN a ELSE b

\* nextRun: the first time the daily time comes after the last success and
\* the last change.  (The mutant counts from now.)
NextRunFromNow(s, d, r, n) ==
  IF s = Never THEN n
               ELSE CHOOSE t \in (n + 1)..(n + DayLength) : t % DayLength = d

NextRun(s, d, r, n) ==
  LET from == Latest(s, r)
  IN  IF s = Never THEN n
      ELSE CHOOSE t \in (from + 1)..(from + DayLength) : t % DayLength = d

-----------------------------------------------------------------------------
(* Run: prepare, waitDue, attempt, backoff.                                *)

\* The files are read; a time that lies in the future is ignored.
Past(t) == IF t > now THEN Never ELSE t

Prepare ==
  /\ at = "prepare" /\ at' = "read"
  /\ last' = Past(success)
  /\ rescheduled' = Latest(Past(changedAt), rescheduled)
  /\ torn' = (torn \/ changedAt > now)
  /\ UNCHANGED <<now, files, daily, next, left, snap, requested, wake, handler, due, cycle, used>>

PrepareFails ==
  /\ at = "prepare" /\ at' = "backoff unprepared"
  /\ requested' = FALSE
  /\ Spend("failures")
  /\ UNCHANGED <<now, files, wait, rescheduled, wake, rest>>

\* The time of day of the first backup, until the user chooses one.
FirstTime == (IF last # Never THEN last ELSE now) % DayLength

\* schedule: the settings are read, and ...  (The mutant honors a request
\* first.)
ReadScheduleLate ==
  /\ at = "read"
  /\ IF requested THEN at' = "begin" /\ UNCHANGED daily
     ELSE IF settings # Unset THEN at' = "check" /\ daily' = settings
                              ELSE at' = "default" /\ daily' = FirstTime
  /\ UNCHANGED <<now, files, last, next, left, snap, signals, rest, used>>

ReadSchedule ==
  /\ at = "read"
  /\ IF settings # Unset THEN at' = "check" /\ daily' = settings
                         ELSE at' = "default" /\ daily' = FirstTime
  /\ UNCHANGED <<now, files, last, next, left, snap, signals, rest, used>>

ReadScheduleFails ==
  /\ at = "read" /\ at' = "check"
  /\ daily' = FirstTime
  /\ Spend("dbFailures")
  /\ UNCHANGED <<now, files, last, next, left, snap, signals, rest>>

\* ... when they have none, the default is saved in a transaction of its own.
SaveDefault ==
  /\ at = "default" /\ at' = "check"
  /\ settings' = daily
  /\ UNCHANGED <<now, success, changedAt, bucket, wait, signals, rest, used>>

SaveDefaultFails ==
  /\ at = "default" /\ at' = "check"
  /\ Spend("dbFailures")
  /\ UNCHANGED <<now, files, wait, signals, rest>>

\* The next run is computed, then a manual request is looked for.
Check ==
  /\ at = "check"
  /\ LET n == NextRun(last, daily, rescheduled, now)
     IN  IF requested THEN at' = "begin" /\ UNCHANGED <<next, left>>
                      ELSE at' = "wait" /\ next' = n /\ left' = Latest(0, n - now)
  /\ UNCHANGED <<now, files, last, daily, snap, signals, rest, used>>

\* The timer and the run it was set for are this wait's own.
Leave == next' = 0 /\ left' = 0 /\ UNCHANGED <<now, files, last, daily, snap, rest, used>>

Woken ==
  /\ at = "wait" /\ wake
  /\ at' = "read" /\ wake' = FALSE
  /\ Leave
  /\ UNCHANGED <<requested, rescheduled>>

\* The timer measures elapsed time: the wall clock may not be there yet.  (The
\* mutant does not look at it again.)
TimerFiresBlindly ==
  /\ at = "wait" /\ left = 0
  /\ at' = "begin"
  /\ Leave
  /\ UNCHANGED signals

TimerFires ==
  /\ at = "wait" /\ left = 0
  /\ at' = IF now >= next THEN "begin" ELSE "read"
  /\ Leave
  /\ UNCHANGED signals

\* (The mutant leaves the request pending.)
BeginKeepsRequest ==
  /\ at = "begin" /\ at' = "snapshot"
  /\ UNCHANGED <<now, files, wait, signals, rest, used>>

Begin ==
  /\ at = "begin" /\ at' = "snapshot"
  /\ requested' = FALSE
  /\ UNCHANGED <<now, files, wait, rescheduled, wake, rest, used>>

\* (The mutant saves before the upload.)
TakeSnapshotAndSave ==
  /\ at = "snapshot" /\ at' = "upload"
  /\ snap' = now /\ success' = now
  /\ UNCHANGED <<now, settings, changedAt, bucket, last, daily, next, left, signals, rest, used>>

TakeSnapshot ==
  /\ at = "snapshot" /\ at' = "upload"
  /\ snap' = now
  /\ UNCHANGED <<now, files, last, daily, next, left, signals, rest, used>>

Upload ==
  /\ at = "upload" /\ at' = "save"
  /\ bucket' = bucket \cup {snap}
  /\ UNCHANGED <<now, settings, success, changedAt, wait, signals, rest, used>>

SaveState ==
  /\ at = "save" /\ at' = "read"
  /\ success' = snap /\ last' = snap /\ snap' = Never
  /\ torn' = FALSE
  /\ UNCHANGED <<now, settings, changedAt, bucket, daily, next, left, signals, handler, due, cycle, used>>

\* A step of the attempt fails or times out; an upload may have been stored.
AttemptFails ==
  /\ at \in {"snapshot", "upload", "save"} /\ at' = "backoff"
  /\ Spend("failures")
  /\ \E stored \in BOOLEAN :
       /\ stored => at = "upload"
       /\ bucket' = IF stored THEN bucket \cup {snap} ELSE bucket
  /\ snap' = Never
  /\ UNCHANGED <<now, settings, success, changedAt, last, daily, next, left, signals, rest>>

InBackoff == at \in {"backoff", "backoff unprepared"}
Resume    == IF at = "backoff" THEN "read" ELSE "prepare"

\* The delay, at most an hour, is over.
DelayEnds ==
  /\ InBackoff /\ at' = Resume
  /\ UNCHANGED <<now, files, wait, signals, rest, used>>

\* Only a manual request ends it early.
WokenInDelay ==
  /\ InBackoff /\ wake /\ wake' = FALSE
  /\ at' = IF requested THEN Resume ELSE at
  /\ UNCHANGED <<now, files, wait, requested, rescheduled, rest, used>>

-----------------------------------------------------------------------------
(* The dashboard, the clock and the process.                               *)

Up == at # "down"

\* Status.Running
Running == at \in {"snapshot", "upload", "save"}

\* Start.  (The mutant does not wake the worker.)
StartAsleep ==
  /\ Up /\ ~Running /\ ~requested
  /\ requested' = TRUE
  /\ Spend("requests")
  /\ UNCHANGED <<now, files, at, wait, rescheduled, wake, rest>>

Start ==
  /\ Up /\ ~Running /\ ~requested
  /\ requested' = TRUE /\ wake' = TRUE
  /\ Spend("requests")
  /\ UNCHANGED <<now, files, at, wait, rescheduled, rest>>

\* The settings page saves a daily time, ...
SaveSettings ==
  /\ Up /\ handler = "idle" /\ handler' = "saved"
  /\ \E d \in Clocks : settings' = d
  /\ Spend("changes")
  /\ UNCHANGED <<now, success, changedAt, bucket, at, wait, signals, due, torn, cycle>>

\* ... then calls Reschedule, whose file may not be written.
Reschedule ==
  /\ handler = "saved" /\ handler' = "idle"
  /\ rescheduled' = now /\ wake' = TRUE
  /\ \/ changedAt' = now /\ UNCHANGED used
     \/ Spend("failures") /\ UNCHANGED changedAt
  /\ UNCHANGED <<now, settings, success, bucket, at, wait, requested, due, torn, cycle>>

Tick ==
  /\ now < MaxNow /\ now' = now + 1
  /\ left' = Latest(0, left - 1)
  /\ due' = IF now' % DayLength \in {settings, daily} THEN due \cup {now'} ELSE due
  /\ UNCHANGED <<files, at, last, daily, next, snap, signals, handler, torn, cycle, used>>

\* The wall clock is set back while the worker waits.
ClockBack ==
  /\ at = "wait" /\ now > 0 /\ now' = now - 1
  /\ Spend("back")
  /\ UNCHANGED <<files, at, wait, signals, rest>>

Stop ==
  /\ Up /\ at' = "down"
  /\ Spend("stops")
  /\ last' = Never /\ daily' = 0 /\ next' = 0 /\ left' = 0 /\ snap' = Never
  /\ requested' = FALSE /\ rescheduled' = Never /\ wake' = FALSE
  /\ handler' = "idle"
  /\ torn' = (torn \/ handler = "saved" \/ rescheduled > changedAt)
  /\ UNCHANGED <<now, files, due, cycle>>

StartProcess ==
  /\ at = "down" /\ at' = "prepare"
  /\ UNCHANGED <<now, files, wait, signals, rest, used>>

Work ==
  \/ Prepare \/ PrepareFails
  \/ ReadSchedule \/ ReadScheduleFails \/ SaveDefault \/ SaveDefaultFails
  \/ Check \/ Woken \/ TimerFires
  \/ Begin \/ TakeSnapshot \/ Upload \/ SaveState \/ AttemptFails
  \/ DelayEnds \/ WokenInDelay

Next ==
  \/ Work
  \/ Start \/ SaveSettings \/ Reschedule
  \/ Tick \/ ClockBack \/ Stop \/ StartProcess

\* Run's goroutine goes on, and its delays end; a handler that has saved calls
\* Reschedule.  Nothing makes the clock move here, nor the user act.
Fairness ==
  /\ WF_vars(Work) /\ WF_vars(DelayEnds) /\ WF_vars(Reschedule)

Spec == Init /\ [][Next]_vars /\ Fairness

-----------------------------------------------------------------------------
(* Properties.                                                             *)

Places == {"prepare", "read", "default", "check", "wait", "begin", "snapshot", "upload",
           "save", "backoff", "backoff unprepared", "down"}

\* Every variable keeps its type, and no manual request is pending while an
\* attempt runs.
TypeOK ==
  /\ now \in Times /\ settings \in Clocks \cup {Unset}
  /\ {success, changedAt, last, snap, rescheduled} \subseteq Times \cup {Never}
  /\ bucket \subseteq Times /\ due \subseteq Times
  /\ at \in Places
  /\ daily \in Clocks /\ next \in 0..(MaxNow + DayLength) /\ left \in 0..(MaxNow + DayLength)
  /\ {requested, wake, torn} \subseteq BOOLEAN
  /\ handler \in {"idle", "saved"} /\ cycle \in Clocks \cup {Unset}
  /\ \A k \in Kinds : used[k] \in 0..Bound[k]
  /\ Running => ~requested

\* What success.json and the dashboard report as backed up is in the bucket.
SuccessIsStored == {success, last} \ {Never} \subseteq bucket

ScheduledRun == at = "wait" /\ at' = "begin"
TimeCame     == \E t \in due : last < t /\ t <= now

\* A scheduled backup runs only when the daily time has come since the last
\* one: not for a time the user has only just chosen, and not before the
\* time on a clock set back.  Excused are a change the worker has yet to be
\* told of, one that never reached schedule.json, and a failed read of the
\* settings, after which the worker falls back on another time.
OnlyWhenDue ==
  [][ScheduledRun /\ last # Never /\ ~wake /\ handler = "idle" /\ ~torn
       /\ used["dbFailures"] = 0 => TimeCame]_vars

\* The time of day of the backups before an upgrade stays the daily time
\* until the user chooses one, manual backups or not.
CycleIsKept ==
  settings # Unset /\ cycle # Unset /\ used["changes"] = 0 /\ used["dbFailures"] = 0 =>
    settings = cycle

\* A manual request leads to an attempt, unless the process stops or cannot
\* prepare its directory.
RequestServed ==
  requested ~> Running \/ at \in {"down", "backoff unprepared"}

Missed == \E t \in due : t % DayLength = settings /\ Latest(success, Latest(changedAt, rescheduled)) < t /\ t <= now

\* A backup whose time came, with the process up or down, is attempted as soon
\* as the process runs, unless the daily time changes ("if the app is stopped
\* when a backup is due, it runs when the app starts again").  Speaks of
\* behaviours in which the settings can be read: after a failed read the worker
\* waits for the time of the last success.
MissedRunServed ==
  Up /\ Missed ~> Running \/ ~Up \/ ~Missed \/ used["dbFailures"] > 0

\* The time the user chose is not replaced but by the user.
ChosenTimeStays ==
  [][settings # Unset => settings' = settings \/ handler' = "saved"]_vars
=============================================================================
