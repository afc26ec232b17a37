------------------------- MODULE BackupWorkerProofs -------------------------
(***************************************************************************)
(* Proofs about BackupWorker, for every length of the day and every bound. *)
(*                                                                         *)
(* The argument: every time of day that passes since the last success and  *)
(* the last change of the daily time that the worker knows of was recorded *)
(* as due, because the settings did not change meanwhile; the run waited   *)
(* for is such a time.  A change that has not reached the worker has left  *)
(* a token in the wake channel, or a handler that is about to.             *)
(***************************************************************************)
EXTENDS BackupWorker, TLAPS

Unprepared == at \in {"down", "prepare", "backoff unprepared"}

\* The last change of the daily time, in memory or in the file to be read.
Since == IF Unprepared THEN Latest(changedAt, rescheduled) ELSE rescheduled

\* The daily time was recorded each time it came since then.
Came(from) == \A t \in Times : from < t /\ t <= now /\ t % DayLength = settings => t \in due

FileInv ==
  /\ used \in [Kinds -> Nat]
  /\ SuccessIsStored
  /\ last \in {Never, success}
  /\ at = "upload" => snap # Never
  /\ at = "save" => snap \in bucket

\* Before the schedule is first saved nothing has been backed up here.
FirstInv ==
  /\ settings = Unset /\ used["dbFailures"] = 0 => Unprepared \/ at \in {"read", "default"}
  /\ (settings = Unset \/ at = "default") /\ used["dbFailures"] = 0 =>
       /\ success \in {Never, 0} /\ (Unprepared \/ last = success)
       /\ cycle = success   \* Unset for Never, and the time of day of 0 is 0
       /\ success = 0 => /\ daily = 0
                         /\ \A t \in Times : 0 < t /\ t <= now /\ t % DayLength = 0 => t \in due

DueInv ==
  used["dbFailures"] = 0 /\ handler = "idle" =>
    /\ ~torn /\ success # Never => Came(Latest(success, Since))
    /\ at \in {"upload", "save"} => Came(Latest(snap, rescheduled))
    /\ at \in {"check", "wait"} /\ ~wake => daily = settings
    /\ at = "wait" /\ ~wake /\ last # Never =>
         next % DayLength = daily /\ Latest(last, rescheduled) < next

IInv == TypeOK /\ FileInv /\ FirstInv /\ CycleIsKept /\ DueInv
-----------------------------------------------------------------------------
(* The times of day, and the helpers.                                      *)

LEMMA Numbers ==
  /\ DayLength \in Nat /\ DayLength > 1 /\ MaxNow \in Nat /\ MaxNow > 0
  /\ Times = 0..MaxNow /\ Never = -1 /\ Unset = -1 /\ Clocks = 0..(DayLength - 1)
BY BackupAssumption DEF Times, Never, Unset, Clocks

\* Every time has one, and the first times their own.
LEMMA TimeOfDay ==
  /\ \A t \in Int : t % DayLength \in Clocks
  /\ 0 % DayLength = 0 /\ 1 % DayLength = 1
<1>1. \A t \in Int : t % DayLength \in 0..(DayLength - 1)
  BY Numbers
<1>2. 0 % DayLength = 0 /\ 1 % DayLength = 1
  BY Numbers
<1>. QED BY <1>1, <1>2, Numbers

LEMMA Division ==
  ASSUME NEW t \in Int
  PROVE  /\ t \div DayLength \in Int /\ t % DayLength \in 0..(DayLength - 1)
         /\ t = DayLength * (t \div DayLength) + (t % DayLength)
BY Numbers

LEMMA Remainder ==
  ASSUME NEW k \in Int, NEW d \in Clocks
  PROVE  (DayLength * k + d) % DayLength = d
BY Numbers

\* Within a day every time of day comes.
LEMMA TimeComes ==
  ASSUME NEW from \in Int, NEW d \in Clocks
  PROVE  \E t \in (from + 1)..(from + DayLength) : t % DayLength = d
<1>1. PICK k \in Int, q \in 0..(DayLength - 1) : from = DayLength * k + q
  BY Division
<1>2. DayLength * (k + 1) = DayLength * k + DayLength /\ DayLength * k \in Int
  BY Numbers
<1>3. CASE d > q
  <2>1. (DayLength * k + d) % DayLength = d
    BY Remainder
  <2>2. DayLength * k + d \in (from + 1)..(from + DayLength)
    BY <1>1, <1>2, <1>3, Numbers
  <2>. QED BY <2>1, <2>2
<1>4. CASE ~(d > q)
  <2>1. (DayLength * (k + 1) + d) % DayLength = d
    BY Remainder
  <2>2. DayLength * (k + 1) + d \in (from + 1)..(from + DayLength)
    BY <1>1, <1>2, <1>4, Numbers
  <2>. QED BY <2>1, <2>2
<1>. QED BY <1>3, <1>4

\* The later of two times.
LEMMA LatestIs ==
  ASSUME NEW a \in Int, NEW b \in Int
  PROVE  Latest(a, b) \in {a, b} /\ Latest(a, b) >= a /\ Latest(a, b) >= b
BY DEF Latest

\* The next run: at the daily time, after the last success and the last change.
LEMMA NextRunIs ==
  ASSUME NEW s \in Times \cup {Never}, NEW d \in Clocks, NEW r \in Times \cup {Never}, NEW n \in Times
  PROVE  /\ NextRun(s, d, r, n) \in 0..(MaxNow + DayLength)
         /\ s # Never => NextRun(s, d, r, n) % DayLength = d /\ Latest(s, r) < NextRun(s, d, r, n)
<1>1. CASE s = Never
  BY <1>1, Numbers DEF NextRun
<1>2. CASE s # Never
  <2>1. s \in Times /\ s \in Int /\ r \in Int
    BY <1>2, Numbers
  <2>2. PICK from : from = Latest(s, r)
    OBVIOUS
  <2>3. from \in Times /\ from \in Int
    BY <2>1, <2>2, Numbers DEF Latest
  <2>4. NextRun(s, d, r, n) = CHOOSE t \in (from + 1)..(from + DayLength) : t % DayLength = d
    BY <1>2, <2>2 DEF NextRun
  <2>5. /\ NextRun(s, d, r, n) \in (from + 1)..(from + DayLength)
        /\ NextRun(s, d, r, n) % DayLength = d
    BY <2>3, <2>4, TimeComes
  <2>. QED BY <2>2, <2>3, <2>5, Numbers
<1>. QED BY <1>1, <1>2

LEMMA BoundIs == Bound \in [Kinds -> Nat]
BY BackupAssumption DEF Bound, Kinds

\* What a bounded thing costs.
LEMMA SpendStep ==
  ASSUME IInv, NEW k \in Kinds, Spend(k)
  PROVE  /\ used' \in [Kinds -> Nat] /\ \A j \in Kinds : used'[j] \in 0..Bound[j]
         /\ used'[k] # 0 /\ \A j \in Kinds \ {k} : used'[j] = used[j]
<1>1. used[k] < Bound[k] /\ used' = [used EXCEPT ![k] = @ + 1]
  BY DEF Spend
<1>2. used \in [Kinds -> Nat] /\ \A j \in Kinds : used[j] \in 0..Bound[j]
  BY DEF IInv, FileInv, TypeOK
<1>. QED BY <1>1, <1>2, BoundIs

LEMMA KindsAre ==
  {"back", "changes", "requests", "failures", "dbFailures", "stops"} = Kinds
BY DEF Kinds

LEMMA Types ==
  ASSUME IInv
  PROVE  /\ now \in Times /\ now \in Int /\ 0 <= now /\ now <= MaxNow
         /\ success \in Times \cup {Never} /\ success \in Int
         /\ changedAt \in Times \cup {Never} /\ changedAt \in Int
         /\ last \in Times \cup {Never} /\ last \in Int
         /\ snap \in Times \cup {Never} /\ snap \in Int
         /\ rescheduled \in Times \cup {Never} /\ rescheduled \in Int
         /\ Since \in Int
         /\ torn \in BOOLEAN /\ requested \in BOOLEAN /\ wake \in BOOLEAN
BY Numbers DEF IInv, TypeOK, Since, Latest

\* What holds of every state in which no schedule was ever saved.
LEMMA FirstTimeIs ==
  ASSUME IInv
  PROVE  FirstTime \in Clocks
BY TimeOfDay, Types DEF FirstTime
-----------------------------------------------------------------------------
(* Run: the files, the schedule and the wait.                              *)

LEMMA PrepareStep ==
  ASSUME IInv, Prepare
  PROVE  IInv'
<1>1. /\ at = "prepare" /\ at' = "read"
      /\ last' = Past(success) /\ rescheduled' = Latest(Past(changedAt), rescheduled)
      /\ torn' = (torn \/ changedAt > now)
      /\ now' = now /\ settings' = settings /\ success' = success /\ changedAt' = changedAt
      /\ bucket' = bucket /\ daily' = daily /\ next' = next /\ left' = left /\ snap' = snap
      /\ requested' = requested /\ wake' = wake /\ handler' = handler /\ due' = due
      /\ cycle' = cycle /\ used' = used
  BY DEF Prepare, files
<1>2. /\ last' \in {Never, success} /\ (success <= now => last' = success)
      /\ rescheduled' \in Times \cup {Never}
      /\ changedAt <= now => rescheduled' = Latest(changedAt, rescheduled)
  BY <1>1, Types DEF Past, Latest
<1>3. TypeOK'
  BY <1>1, <1>2, Types DEF IInv, TypeOK, Places, Running
<1>4. FileInv'
  BY <1>1, <1>2 DEF IInv, FileInv, SuccessIsStored
<1>5. FirstInv'
  BY <1>1, <1>2, Types, Numbers DEF IInv, FirstInv
<1>6. CycleIsKept'
  BY <1>1 DEF IInv, CycleIsKept
<1>7. DueInv'
  <2>1. ASSUME changedAt <= now
        PROVE  Since' = Since
    BY <1>1, <1>2, <2>1 DEF Since, Unprepared
  <2>2. torn \/ changedAt > now => torn'
    BY <1>1, Zenon
  <2>3. changedAt > now \/ changedAt <= now
    BY Types
  <2>4. ~torn' => ~torn /\ changedAt <= now
    BY <2>2, <2>3, Zenon
  <2>. QED BY <1>1, <2>1, <2>4 DEF IInv, DueInv, Came, Latest
<1>. QED BY <1>3, <1>4, <1>5, <1>6, <1>7 DEF IInv

LEMMA PrepareFailsStep ==
  ASSUME IInv, PrepareFails
  PROVE  IInv'
<1>1. /\ at = "prepare" /\ at' = "backoff unprepared" /\ requested' = FALSE
      /\ now' = now /\ settings' = settings /\ success' = success /\ changedAt' = changedAt
      /\ bucket' = bucket /\ last' = last /\ daily' = daily /\ next' = next /\ left' = left
      /\ snap' = snap /\ rescheduled' = rescheduled /\ wake' = wake /\ handler' = handler
      /\ due' = due /\ torn' = torn /\ cycle' = cycle
  BY DEF PrepareFails, files, wait, rest
<1>2. /\ used' \in [Kinds -> Nat] /\ \A j \in Kinds : used'[j] \in 0..Bound[j]
      /\ used'["dbFailures"] = used["dbFailures"] /\ used'["changes"] = used["changes"]
  BY SpendStep, KindsAre DEF PrepareFails
<1>3. TypeOK'
  BY <1>1, <1>2 DEF IInv, TypeOK, Places, Running
<1>4. FileInv'
  BY <1>1, <1>2 DEF IInv, FileInv, SuccessIsStored
<1>5. FirstInv' /\ CycleIsKept'
  BY <1>1, <1>2 DEF IInv, FirstInv, Unprepared, CycleIsKept
<1>6. DueInv'
  BY <1>1, <1>2 DEF IInv, DueInv, Came, Since, Unprepared
<1>. QED BY <1>3, <1>4, <1>5, <1>6 DEF IInv

LEMMA ReadScheduleStep ==
  ASSUME IInv, ReadSchedule
  PROVE  IInv'
<1>1. /\ at = "read"
      /\ \/ settings # Unset /\ at' = "check" /\ daily' = settings
         \/ settings = Unset /\ at' = "default" /\ daily' = FirstTime
      /\ now' = now /\ settings' = settings /\ success' = success /\ changedAt' = changedAt
      /\ bucket' = bucket /\ last' = last /\ next' = next /\ left' = left
      /\ snap' = snap /\ requested' = requested /\ rescheduled' = rescheduled /\ wake' = wake
      /\ handler' = handler /\ due' = due /\ torn' = torn /\ cycle' = cycle /\ used' = used
  BY DEF ReadSchedule, files, signals, rest
<1>2. TypeOK'
  BY <1>1, FirstTimeIs DEF IInv, TypeOK, Places, Running
<1>3. FileInv'
  BY <1>1 DEF IInv, FileInv, SuccessIsStored
<1>4. FirstInv'
  <2>1. CASE at' = "check"
    BY <1>1, <2>1 DEF FirstInv
  <2>2. CASE at' = "default"
    <3>1. settings = Unset /\ at' = "default" /\ daily' = FirstTime
      BY <1>1, <2>2
    <3>2. last = 0 => FirstTime = 0
      BY TimeOfDay, Numbers DEF FirstTime
    <3>. QED BY <1>1, <3>1, <3>2 DEF IInv, FirstInv, Unprepared
  <2>. QED BY <1>1, <2>1, <2>2
<1>5. CycleIsKept'
  BY <1>1 DEF IInv, CycleIsKept
<1>6. DueInv'
  BY <1>1 DEF IInv, DueInv, Came, Since, Unprepared
<1>. QED BY <1>2, <1>3, <1>4, <1>5, <1>6 DEF IInv

\* After a failed read or save of the schedule nothing more is claimed of it.
LEMMA AfterDbFailure ==
  ASSUME IInv, Spend("dbFailures")
  PROVE  /\ used' \in [Kinds -> Nat] /\ \A j \in Kinds : used'[j] \in 0..Bound[j]
         /\ FirstInv' /\ CycleIsKept' /\ DueInv'
<1>1. /\ used' \in [Kinds -> Nat] /\ \A j \in Kinds : used'[j] \in 0..Bound[j]
      /\ used'["dbFailures"] # 0
  BY SpendStep, KindsAre
<1>. QED BY <1>1 DEF FirstInv, CycleIsKept, DueInv

LEMMA ReadScheduleFailsStep ==
  ASSUME IInv, ReadScheduleFails
  PROVE  IInv'
<1>1. /\ at = "read" /\ at' = "check" /\ daily' = FirstTime
      /\ now' = now /\ settings' = settings /\ success' = success /\ changedAt' = changedAt
      /\ bucket' = bucket /\ last' = last /\ next' = next /\ left' = left
      /\ snap' = snap /\ requested' = requested /\ rescheduled' = rescheduled /\ wake' = wake
      /\ handler' = handler /\ due' = due /\ torn' = torn /\ cycle' = cycle
  BY DEF ReadScheduleFails, files, signals, rest
<1>2. /\ used' \in [Kinds -> Nat] /\ \A j \in Kinds : used'[j] \in 0..Bound[j]
      /\ FirstInv' /\ CycleIsKept' /\ DueInv'
  BY AfterDbFailure DEF ReadScheduleFails
<1>3. TypeOK'
  BY <1>1, <1>2, FirstTimeIs DEF IInv, TypeOK, Places, Running
<1>4. FileInv'
  BY <1>1, <1>2 DEF IInv, FileInv, SuccessIsStored
<1>. QED BY <1>2, <1>3, <1>4 DEF IInv

LEMMA SaveDefaultStep ==
  ASSUME IInv, SaveDefault
  PROVE  IInv'
<1>1. /\ at = "default" /\ at' = "check" /\ settings' = daily
      /\ now' = now /\ success' = success /\ changedAt' = changedAt /\ bucket' = bucket
      /\ last' = last /\ daily' = daily /\ next' = next /\ left' = left /\ snap' = snap
      /\ requested' = requested /\ rescheduled' = rescheduled /\ wake' = wake
      /\ handler' = handler /\ due' = due /\ torn' = torn /\ cycle' = cycle /\ used' = used
  BY DEF SaveDefault, wait, signals, rest
<1>2. settings' # Unset
  BY <1>1, Numbers DEF IInv, TypeOK
<1>3. used["dbFailures"] = 0 =>
        /\ cycle = success /\ success \in {Never, 0}
        /\ success = 0 => /\ daily = 0
                          /\ \A t \in Times : 0 < t /\ t <= now /\ t % DayLength = 0 => t \in due
  BY <1>1 DEF IInv, FirstInv
<1>4. TypeOK'
  BY <1>1 DEF IInv, TypeOK, Places, Running
<1>5. FileInv'
  BY <1>1 DEF IInv, FileInv, SuccessIsStored
<1>6. FirstInv'
  BY <1>1, <1>2 DEF FirstInv
<1>7. CycleIsKept'
  BY <1>1, <1>3, Numbers DEF CycleIsKept
<1>8. DueInv'
  <2>1. ASSUME used["dbFailures"] = 0, success # Never, NEW t \in Times,
               Latest(success, rescheduled) < t, t <= now, t % DayLength = daily
        PROVE  t \in due
    <3>1. success = 0 /\ daily = 0
      BY <1>3, <2>1
    <3>2. 0 < t
      BY <2>1, <3>1, Types, LatestIs, Numbers
    <3>. QED BY <1>3, <2>1, <3>1, <3>2
  <2>2. Since' = rescheduled
    BY <1>1 DEF Since, Unprepared
  <2>. QED BY <1>1, <2>1, <2>2 DEF DueInv, Came, Latest
<1>. QED BY <1>4, <1>5, <1>6, <1>7, <1>8 DEF IInv

LEMMA SaveDefaultFailsStep ==
  ASSUME IInv, SaveDefaultFails
  PROVE  IInv'
<1>1. /\ at = "default" /\ at' = "check"
      /\ now' = now /\ settings' = settings /\ success' = success /\ changedAt' = changedAt
      /\ bucket' = bucket /\ last' = last /\ daily' = daily /\ next' = next /\ left' = left
      /\ snap' = snap /\ requested' = requested /\ rescheduled' = rescheduled /\ wake' = wake
      /\ handler' = handler /\ due' = due /\ torn' = torn /\ cycle' = cycle
  BY DEF SaveDefaultFails, files, wait, signals, rest
<1>2. /\ used' \in [Kinds -> Nat] /\ \A j \in Kinds : used'[j] \in 0..Bound[j]
      /\ FirstInv' /\ CycleIsKept' /\ DueInv'
  BY AfterDbFailure DEF SaveDefaultFails
<1>3. TypeOK'
  BY <1>1, <1>2 DEF IInv, TypeOK, Places, Running
<1>4. FileInv'
  BY <1>1, <1>2 DEF IInv, FileInv, SuccessIsStored
<1>. QED BY <1>2, <1>3, <1>4 DEF IInv

LEMMA CheckStep ==
  ASSUME IInv, Check
  PROVE  IInv'
<1>1. PICK n : n = NextRun(last, daily, rescheduled, now)
  OBVIOUS
<1>2. /\ at = "check"
      /\ \/ at' = "begin" /\ next' = next /\ left' = left
         \/ at' = "wait" /\ next' = n /\ left' = Latest(0, n - now)
      /\ now' = now /\ settings' = settings /\ success' = success /\ changedAt' = changedAt
      /\ bucket' = bucket /\ last' = last /\ daily' = daily /\ snap' = snap
      /\ requested' = requested /\ rescheduled' = rescheduled /\ wake' = wake
      /\ handler' = handler /\ due' = due /\ torn' = torn /\ cycle' = cycle /\ used' = used
  BY <1>1 DEF Check, files, signals, rest
<1>3. /\ n \in 0..(MaxNow + DayLength)
      /\ last # Never => n % DayLength = daily /\ Latest(last, rescheduled) < n
  <2>1. daily \in Clocks
    BY DEF IInv, TypeOK
  <2>. QED BY <1>1, <2>1, NextRunIs, Types
<1>4. Latest(0, n - now) \in 0..(MaxNow + DayLength)
  BY <1>3, Types, Numbers DEF Latest
<1>5. TypeOK'
  BY <1>2, <1>3, <1>4 DEF IInv, TypeOK, Places, Running
<1>6. FileInv'
  BY <1>2 DEF IInv, FileInv, SuccessIsStored
<1>7. FirstInv'
  BY <1>2 DEF IInv, FirstInv, Unprepared
<1>8. CycleIsKept'
  BY <1>2 DEF IInv, CycleIsKept
<1>9. DueInv'
  <2>1. at' = "wait" /\ last' # Never =>
          next' % DayLength = daily' /\ Latest(last', rescheduled') < next'
    BY <1>2, <1>3
  <2>2. Since' = Since
    BY <1>2 DEF Since, Unprepared
  <2>. QED BY <1>2, <2>1, <2>2 DEF IInv, DueInv, Came, Latest
<1>. QED BY <1>5, <1>6, <1>7, <1>8, <1>9 DEF IInv

\* The wait ends: for a change, or a clock that is not there yet, with another
\* look at the schedule; else with an attempt.
LEMMA LeaveStep ==
  ASSUME IInv, Woken \/ TimerFires
  PROVE  IInv'
<1>1. /\ at = "wait" /\ at' \in {"read", "begin"} /\ next' = 0 /\ left' = 0
      /\ wake' \in BOOLEAN
      /\ now' = now /\ settings' = settings /\ success' = success /\ changedAt' = changedAt
      /\ bucket' = bucket /\ last' = last /\ daily' = daily /\ snap' = snap
      /\ requested' = requested /\ rescheduled' = rescheduled
      /\ handler' = handler /\ due' = due /\ torn' = torn /\ cycle' = cycle /\ used' = used
  BY Types DEF Woken, TimerFires, Leave, files, signals, rest
<1>2. TypeOK'
  <2>1. 0 \in 0..(MaxNow + DayLength)
    BY Numbers
  <2>2. {requested, wake, torn}' \subseteq BOOLEAN
    BY <1>1, Types
  <2>. QED BY <1>1, <2>1, <2>2 DEF IInv, TypeOK, Places, Running
<1>3. FileInv'
  BY <1>1 DEF IInv, FileInv, SuccessIsStored
<1>4. FirstInv' /\ CycleIsKept'
  BY <1>1 DEF IInv, FirstInv, Unprepared, CycleIsKept
<1>5. DueInv'
  BY <1>1 DEF IInv, DueInv, Came, Since, Unprepared
<1>. QED BY <1>2, <1>3, <1>4, <1>5 DEF IInv

-----------------------------------------------------------------------------
(* Run: an attempt and the delay after one that failed.                    *)

LEMMA BeginStep ==
  ASSUME IInv, Begin
  PROVE  IInv'
<1>1. /\ at = "begin" /\ at' = "snapshot" /\ requested' = FALSE
      /\ now' = now /\ settings' = settings /\ success' = success /\ changedAt' = changedAt
      /\ bucket' = bucket /\ last' = last /\ daily' = daily /\ next' = next /\ left' = left
      /\ snap' = snap /\ rescheduled' = rescheduled /\ wake' = wake
      /\ handler' = handler /\ due' = due /\ torn' = torn /\ cycle' = cycle /\ used' = used
  BY DEF Begin, files, wait, rest
<1>2. TypeOK'
  BY <1>1 DEF IInv, TypeOK, Places, Running
<1>3. FileInv'
  BY <1>1 DEF IInv, FileInv, SuccessIsStored
<1>4. FirstInv' /\ CycleIsKept'
  BY <1>1 DEF IInv, FirstInv, Unprepared, CycleIsKept
<1>5. DueInv'
  BY <1>1 DEF IInv, DueInv, Came, Since, Unprepared
<1>. QED BY <1>2, <1>3, <1>4, <1>5 DEF IInv

\* No time of day has come since a snapshot taken now.
LEMMA TakeSnapshotStep ==
  ASSUME IInv, TakeSnapshot
  PROVE  IInv'
<1>1. /\ at = "snapshot" /\ at' = "upload" /\ snap' = now
      /\ now' = now /\ settings' = settings /\ success' = success /\ changedAt' = changedAt
      /\ bucket' = bucket /\ last' = last /\ daily' = daily /\ next' = next /\ left' = left
      /\ requested' = requested /\ rescheduled' = rescheduled /\ wake' = wake
      /\ handler' = handler /\ due' = due /\ torn' = torn /\ cycle' = cycle /\ used' = used
  BY DEF TakeSnapshot, files, signals, rest
<1>2. TypeOK'
  BY <1>1 DEF IInv, TypeOK, Places, Running
<1>3. FileInv'
  BY <1>1, Types, Numbers DEF IInv, FileInv, SuccessIsStored
<1>4. FirstInv' /\ CycleIsKept'
  BY <1>1 DEF IInv, FirstInv, Unprepared, CycleIsKept
<1>5. DueInv'
  <2>1. \A t \in Times : ~(Latest(snap', rescheduled') < t /\ t <= now')
    BY <1>1, Types, Numbers DEF Latest
  <2>. QED BY <1>1, <2>1 DEF IInv, DueInv, Came, Since, Unprepared
<1>. QED BY <1>2, <1>3, <1>4, <1>5 DEF IInv

LEMMA UploadStep ==
  ASSUME IInv, Upload
  PROVE  IInv'
<1>1. /\ at = "upload" /\ at' = "save" /\ bucket' = bucket \cup {snap}
      /\ now' = now /\ settings' = settings /\ success' = success /\ changedAt' = changedAt
      /\ last' = last /\ daily' = daily /\ next' = next /\ left' = left /\ snap' = snap
      /\ requested' = requested /\ rescheduled' = rescheduled /\ wake' = wake
      /\ handler' = handler /\ due' = due /\ torn' = torn /\ cycle' = cycle /\ used' = used
  BY DEF Upload, wait, signals, rest
<1>2. snap \in Times
  BY <1>1, Types DEF IInv, FileInv
<1>3. TypeOK'
  BY <1>1, <1>2 DEF IInv, TypeOK, Places, Running
<1>4. FileInv'
  BY <1>1 DEF IInv, FileInv, SuccessIsStored
<1>5. FirstInv' /\ CycleIsKept'
  BY <1>1 DEF IInv, FirstInv, Unprepared, CycleIsKept
<1>6. DueInv'
  BY <1>1 DEF IInv, DueInv, Came, Since, Unprepared
<1>. QED BY <1>3, <1>4, <1>5, <1>6 DEF IInv

\* What came since the snapshot is due after the success.
LEMMA SaveStateStep ==
  ASSUME IInv, SaveState
  PROVE  IInv'
<1>1. /\ at = "save" /\ at' = "read"
      /\ success' = snap /\ last' = snap /\ snap' = Never /\ torn' = FALSE
      /\ now' = now /\ settings' = settings /\ changedAt' = changedAt /\ bucket' = bucket
      /\ daily' = daily /\ next' = next /\ left' = left
      /\ requested' = requested /\ rescheduled' = rescheduled /\ wake' = wake
      /\ handler' = handler /\ due' = due /\ cycle' = cycle /\ used' = used
  BY DEF SaveState, signals
<1>2. TypeOK'
  BY <1>1, Types DEF IInv, TypeOK, Places, Running
<1>3. FileInv'
  BY <1>1 DEF IInv, FileInv, SuccessIsStored
<1>4. FirstInv' /\ CycleIsKept'
  BY <1>1 DEF IInv, FirstInv, Unprepared, CycleIsKept
<1>5. DueInv'
  BY <1>1 DEF IInv, DueInv, Came, Since, Unprepared
<1>. QED BY <1>2, <1>3, <1>4, <1>5 DEF IInv

LEMMA AttemptFailsStep ==
  ASSUME IInv, AttemptFails
  PROVE  IInv'
<1>1. /\ at \in {"snapshot", "upload", "save"} /\ at' = "backoff" /\ snap' = Never
      /\ \/ bucket' = bucket
         \/ at = "upload" /\ bucket' = bucket \cup {snap}
      /\ now' = now /\ settings' = settings /\ success' = success /\ changedAt' = changedAt
      /\ last' = last /\ daily' = daily /\ next' = next /\ left' = left
      /\ requested' = requested /\ rescheduled' = rescheduled /\ wake' = wake
      /\ handler' = handler /\ due' = due /\ torn' = torn /\ cycle' = cycle
  BY DEF AttemptFails, signals, rest
<1>2. /\ used' \in [Kinds -> Nat] /\ \A j \in Kinds : used'[j] \in 0..Bound[j]
      /\ used'["dbFailures"] = used["dbFailures"] /\ used'["changes"] = used["changes"]
  BY SpendStep, KindsAre DEF AttemptFails
<1>3. bucket \subseteq bucket' /\ bucket' \subseteq Times
  BY <1>1, Types DEF IInv, FileInv, TypeOK
<1>4. TypeOK'
  BY <1>1, <1>2, <1>3 DEF IInv, TypeOK, Places, Running
<1>5. FileInv'
  BY <1>1, <1>2, <1>3 DEF IInv, FileInv, SuccessIsStored
<1>6. FirstInv' /\ CycleIsKept'
  BY <1>1, <1>2 DEF IInv, FirstInv, Unprepared, CycleIsKept
<1>7. DueInv'
  BY <1>1, <1>2 DEF IInv, DueInv, Came, Since, Unprepared
<1>. QED BY <1>4, <1>5, <1>6, <1>7 DEF IInv

\* The delay is over, or a token is taken during it.
LEMMA DelayStep ==
  ASSUME IInv, DelayEnds \/ WokenInDelay
  PROVE  IInv'
<1>1. /\ InBackoff /\ at' \in {at, Resume} /\ wake' \in BOOLEAN
      /\ now' = now /\ settings' = settings /\ success' = success /\ changedAt' = changedAt
      /\ bucket' = bucket /\ last' = last /\ daily' = daily /\ next' = next /\ left' = left
      /\ snap' = snap /\ requested' = requested /\ rescheduled' = rescheduled
      /\ handler' = handler /\ due' = due /\ torn' = torn /\ cycle' = cycle /\ used' = used
  BY Types DEF DelayEnds, WokenInDelay, files, wait, signals, rest
<1>2. \/ at = "backoff" /\ at' \in {"backoff", "read"}
      \/ at = "backoff unprepared" /\ at' \in {"backoff unprepared", "prepare"}
  BY <1>1 DEF InBackoff, Resume
<1>3. TypeOK'
  BY <1>1, <1>2 DEF IInv, TypeOK, Places, Running
<1>4. FileInv'
  BY <1>1, <1>2 DEF IInv, FileInv, SuccessIsStored
<1>5. FirstInv' /\ CycleIsKept'
  BY <1>1, <1>2 DEF IInv, FirstInv, Unprepared, CycleIsKept
<1>6. DueInv'
  BY <1>1, <1>2 DEF IInv, DueInv, Came, Since, Unprepared
<1>. QED BY <1>3, <1>4, <1>5, <1>6 DEF IInv

-----------------------------------------------------------------------------
(* The dashboard, the clock and the process.                               *)

LEMMA StartStep ==
  ASSUME IInv, Start
  PROVE  IInv'
<1>1. /\ ~Running /\ requested' = TRUE /\ wake' = TRUE
      /\ now' = now /\ settings' = settings /\ success' = success /\ changedAt' = changedAt
      /\ bucket' = bucket /\ at' = at /\ last' = last /\ daily' = daily /\ next' = next
      /\ left' = left /\ snap' = snap /\ rescheduled' = rescheduled
      /\ handler' = handler /\ due' = due /\ torn' = torn /\ cycle' = cycle
  BY DEF Start, files, wait, rest
<1>2. /\ used' \in [Kinds -> Nat] /\ \A j \in Kinds : used'[j] \in 0..Bound[j]
      /\ used'["dbFailures"] = used["dbFailures"] /\ used'["changes"] = used["changes"]
  BY SpendStep, KindsAre DEF Start
<1>3. TypeOK'
  BY <1>1, <1>2 DEF IInv, TypeOK, Running
<1>4. FileInv'
  BY <1>1, <1>2 DEF IInv, FileInv, SuccessIsStored
<1>5. FirstInv' /\ CycleIsKept'
  BY <1>1, <1>2 DEF IInv, FirstInv, Unprepared, CycleIsKept
<1>6. DueInv'
  BY <1>1, <1>2 DEF IInv, DueInv, Came, Since, Unprepared
<1>. QED BY <1>3, <1>4, <1>5, <1>6 DEF IInv

\* Until it calls Reschedule the handler is not idle.
LEMMA SaveSettingsStep ==
  ASSUME IInv, SaveSettings
  PROVE  IInv'
<1>1. /\ handler' = "saved" /\ settings' \in Clocks
      /\ now' = now /\ success' = success /\ changedAt' = changedAt /\ bucket' = bucket
      /\ at' = at /\ last' = last /\ daily' = daily /\ next' = next /\ left' = left
      /\ snap' = snap /\ requested' = requested /\ rescheduled' = rescheduled /\ wake' = wake
      /\ due' = due /\ torn' = torn /\ cycle' = cycle
  BY DEF SaveSettings, wait, signals
<1>2. /\ used' \in [Kinds -> Nat] /\ \A j \in Kinds : used'[j] \in 0..Bound[j]
      /\ used'["changes"] # 0 /\ used'["dbFailures"] = used["dbFailures"]
  BY SpendStep, KindsAre DEF SaveSettings
<1>3. TypeOK'
  BY <1>1, <1>2 DEF IInv, TypeOK, Running
<1>4. FileInv'
  BY <1>1, <1>2 DEF IInv, FileInv, SuccessIsStored
<1>5. FirstInv'
  <2>1. settings' # Unset
    BY <1>1, Numbers
  <2>. QED BY <1>1, <1>2, <2>1 DEF IInv, FirstInv, Unprepared
<1>6. CycleIsKept' /\ DueInv'
  BY <1>1, <1>2 DEF CycleIsKept, DueInv
<1>. QED BY <1>3, <1>4, <1>5, <1>6 DEF IInv

\* No time of day has come since a change now, and a token is left.
LEMMA RescheduleStep ==
  ASSUME IInv, Reschedule
  PROVE  IInv'
<1>1. /\ handler' = "idle" /\ rescheduled' = now /\ wake' = TRUE
      /\ changedAt' \in {changedAt, now}
      /\ now' = now /\ settings' = settings /\ success' = success /\ bucket' = bucket
      /\ at' = at /\ last' = last /\ daily' = daily /\ next' = next /\ left' = left
      /\ snap' = snap /\ requested' = requested
      /\ due' = due /\ torn' = torn /\ cycle' = cycle
      /\ used' = used \/ Spend("failures")
  BY DEF Reschedule, wait
<1>2. /\ used' \in [Kinds -> Nat] /\ \A j \in Kinds : used'[j] \in 0..Bound[j]
      /\ used'["dbFailures"] = used["dbFailures"] /\ used'["changes"] = used["changes"]
  <2>1. CASE used' = used
    BY <2>1 DEF IInv, TypeOK, FileInv
  <2>2. CASE Spend("failures")
    BY <2>2, SpendStep, KindsAre
  <2>. QED BY <1>1, <2>1, <2>2
<1>3. TypeOK'
  BY <1>1, <1>2, Types DEF IInv, TypeOK, Running
<1>4. FileInv'
  BY <1>1, <1>2 DEF IInv, FileInv, SuccessIsStored
<1>5. FirstInv' /\ CycleIsKept'
  BY <1>1, <1>2 DEF IInv, FirstInv, Unprepared, CycleIsKept
<1>6. DueInv'
  <2>1. Since' \in Int /\ Since' >= now
    BY <1>1, Types, LatestIs DEF Since
  <2>2. Latest(success, Since') >= now /\ Latest(snap, now) >= now
    BY <2>1, Types, LatestIs
  <2>3. \A t \in Times : ~(Latest(success, Since') < t /\ t <= now) /\ ~(Latest(snap, now) < t /\ t <= now)
    BY <2>1, <2>2, Types, Numbers DEF Latest
  <2>4. Latest(success, Since)' = Latest(success, Since') /\ Latest(snap, rescheduled)' = Latest(snap, now)
    BY <1>1 DEF Latest
  <2>. QED BY <1>1, <2>3, <2>4 DEF DueInv, Came
<1>. QED BY <1>3, <1>4, <1>5, <1>6 DEF IInv

\* When the daily time comes, it is recorded.
LEMMA TickStep ==
  ASSUME IInv, Tick
  PROVE  IInv'
<1>1. /\ now < MaxNow /\ now' = now + 1 /\ left' = Latest(0, left - 1)
      /\ due \subseteq due' /\ due' \subseteq due \cup {now'}
      /\ (now' % DayLength = settings \/ now' % DayLength = daily => now' \in due')
      /\ settings' = settings /\ success' = success /\ changedAt' = changedAt
      /\ bucket' = bucket /\ at' = at /\ last' = last /\ daily' = daily /\ next' = next
      /\ snap' = snap /\ requested' = requested /\ rescheduled' = rescheduled /\ wake' = wake
      /\ handler' = handler /\ torn' = torn /\ cycle' = cycle /\ used' = used
  BY DEF Tick, files, signals
<1>2. now' \in Times /\ \A t \in Times : t <= now' => t <= now \/ t = now'
  BY <1>1, Types, Numbers
<1>3. left' \in 0..(MaxNow + DayLength)
  BY <1>1, Numbers DEF IInv, TypeOK, Latest
<1>4. TypeOK'
  BY <1>1, <1>2, <1>3 DEF IInv, TypeOK, Running
<1>5. FileInv'
  BY <1>1 DEF IInv, FileInv, SuccessIsStored
<1>6. FirstInv'
  BY <1>1, <1>2 DEF IInv, FirstInv, Unprepared
<1>7. CycleIsKept'
  BY <1>1 DEF IInv, CycleIsKept
<1>8. DueInv'
  <2>1. ASSUME NEW from, Came(from)
        PROVE  \A t \in Times : from < t /\ t <= now' /\ t % DayLength = settings => t \in due'
    BY <1>1, <1>2, <2>1 DEF Came
  <2>2. Latest(success, Since)' = Latest(success, Since) /\ Latest(snap, rescheduled)' = Latest(snap, rescheduled)
    BY <1>1 DEF Latest, Since, Unprepared
  <2>3. Came(Latest(success, Since)) => Came(Latest(success, Since))'
    BY <1>1, <2>1, <2>2 DEF Came
  <2>4. Came(Latest(snap, rescheduled)) => Came(Latest(snap, rescheduled))'
    BY <1>1, <2>1, <2>2 DEF Came
  <2>5. Latest(last, rescheduled)' = Latest(last, rescheduled)
    BY <1>1 DEF Latest
  <2>. QED BY <1>1, <2>3, <2>4, <2>5 DEF IInv, DueInv
<1>. QED BY <1>4, <1>5, <1>6, <1>7, <1>8 DEF IInv

\* Fewer times have come.
LEMMA ClockBackStep ==
  ASSUME IInv, ClockBack
  PROVE  IInv'
<1>1. /\ at = "wait" /\ now > 0 /\ now' = now - 1
      /\ settings' = settings /\ success' = success /\ changedAt' = changedAt
      /\ bucket' = bucket /\ at' = at /\ last' = last /\ daily' = daily /\ next' = next
      /\ left' = left /\ snap' = snap /\ requested' = requested /\ rescheduled' = rescheduled
      /\ wake' = wake /\ handler' = handler /\ due' = due /\ torn' = torn /\ cycle' = cycle
  BY DEF ClockBack, files, wait, signals, rest
<1>2. /\ used' \in [Kinds -> Nat] /\ \A j \in Kinds : used'[j] \in 0..Bound[j]
      /\ used'["dbFailures"] = used["dbFailures"] /\ used'["changes"] = used["changes"]
  BY SpendStep, KindsAre DEF ClockBack
<1>3. now' \in Times /\ \A t \in Times : t <= now' => t <= now
  BY <1>1, Types, Numbers
<1>4. TypeOK'
  BY <1>1, <1>2, <1>3 DEF IInv, TypeOK, Running
<1>5. FileInv'
  BY <1>1, <1>2 DEF IInv, FileInv, SuccessIsStored
<1>6. FirstInv' /\ CycleIsKept'
  BY <1>1, <1>2 DEF IInv, FirstInv, Unprepared, CycleIsKept
<1>7. DueInv'
  <2>1. Latest(success, Since)' = Latest(success, Since)
    BY <1>1 DEF Latest, Since, Unprepared
  <2>2. Came(Latest(success, Since)) => Came(Latest(success, Since))'
    BY <1>1, <1>3, <2>1 DEF Came
  <2>3. Latest(last, rescheduled)' = Latest(last, rescheduled)
    BY <1>1 DEF Latest
  <2>. QED BY <1>1, <1>2, <2>2, <2>3 DEF IInv, DueInv
<1>. QED BY <1>4, <1>5, <1>6, <1>7 DEF IInv

\* A change in memory only is lost, or in the file for the next process.
LEMMA StopStep ==
  ASSUME IInv, Stop
  PROVE  IInv'
<1>1. /\ at' = "down" /\ last' = Never /\ daily' = 0 /\ next' = 0 /\ left' = 0 /\ snap' = Never
      /\ requested' = FALSE /\ rescheduled' = Never /\ wake' = FALSE /\ handler' = "idle"
      /\ torn' = (torn \/ handler = "saved" \/ rescheduled > changedAt)
      /\ now' = now /\ settings' = settings /\ success' = success /\ changedAt' = changedAt
      /\ bucket' = bucket /\ due' = due /\ cycle' = cycle
  BY DEF Stop, files
<1>2. /\ used' \in [Kinds -> Nat] /\ \A j \in Kinds : used'[j] \in 0..Bound[j]
      /\ used'["dbFailures"] = used["dbFailures"] /\ used'["changes"] = used["changes"]
  BY SpendStep, KindsAre DEF Stop
<1>3. torn' \in BOOLEAN /\ (torn \/ handler = "saved" \/ rescheduled > changedAt => torn')
  BY <1>1, Zenon
<1>4. TypeOK'
  <2>1. 0 \in 0..(MaxNow + DayLength) /\ 0 \in Clocks
    BY Numbers
  <2>2. {success, changedAt, last, snap, rescheduled}' \subseteq Times \cup {Never}
    BY <1>1, Types
  <2>3. {requested, wake, torn}' \subseteq BOOLEAN
    BY <1>1, <1>3
  <2>4. at' \in Places /\ ~Running'
    BY <1>1 DEF Places, Running
  <2>. QED BY <1>1, <1>2, <2>1, <2>2, <2>3, <2>4 DEF IInv, TypeOK
<1>5. FileInv'
  BY <1>1, <1>2 DEF IInv, FileInv, SuccessIsStored
<1>6. FirstInv' /\ CycleIsKept'
  BY <1>1, <1>2 DEF IInv, FirstInv, Unprepared, CycleIsKept
<1>7. DueInv'
  <2>1. ASSUME ~torn'
        PROVE  handler = "idle" /\ ~torn /\ rescheduled <= changedAt
    <3>1. ~torn /\ handler # "saved" /\ ~(rescheduled > changedAt)
      BY <1>3, <2>1, Zenon
    <3>. QED BY <3>1, Types DEF IInv, TypeOK
  <2>2. Since' = changedAt
    <3>1. Latest(changedAt, Never) = changedAt
      BY Types, Numbers DEF Latest
    <3>2. Since' = Latest(changedAt', rescheduled')
      BY <1>1 DEF Since, Unprepared
    <3>. QED BY <1>1, <3>1, <3>2
  <2>3. ASSUME rescheduled <= changedAt, Came(Latest(success, Since))
        PROVE  Came(Latest(success, changedAt))
    <3>1. Latest(success, Since) <= Latest(success, changedAt)
      BY <2>3, Types DEF Since, Latest
    <3>2. Latest(success, Since) \in Int /\ Latest(success, changedAt) \in Int
      BY Types DEF Latest
    <3>3. \A t \in Times : Latest(success, changedAt) < t => Latest(success, Since) < t
      BY <3>1, <3>2, Numbers
    <3>. QED BY <2>3, <3>3 DEF Came
  <2>4. Latest(success, Since)' = Latest(success, changedAt)
    BY <1>1, <2>2 DEF Latest
  <2>5. ASSUME ~torn', used["dbFailures"] = 0, success # Never
        PROVE  Came(Latest(success, Since))'
    BY <1>1, <2>1, <2>3, <2>4, <2>5 DEF IInv, DueInv, Came
  <2>. QED BY <1>1, <1>2, <2>5 DEF DueInv
<1>. QED BY <1>4, <1>5, <1>6, <1>7 DEF IInv

LEMMA StartProcessStep ==
  ASSUME IInv, StartProcess
  PROVE  IInv'
<1>1. /\ at = "down" /\ at' = "prepare"
      /\ now' = now /\ settings' = settings /\ success' = success /\ changedAt' = changedAt
      /\ bucket' = bucket /\ last' = last /\ daily' = daily /\ next' = next /\ left' = left
      /\ snap' = snap /\ requested' = requested /\ rescheduled' = rescheduled /\ wake' = wake
      /\ handler' = handler /\ due' = due /\ torn' = torn /\ cycle' = cycle /\ used' = used
  BY DEF StartProcess, files, wait, signals, rest
<1>2. TypeOK'
  BY <1>1 DEF IInv, TypeOK, Places, Running
<1>3. FileInv'
  BY <1>1 DEF IInv, FileInv, SuccessIsStored
<1>4. FirstInv' /\ CycleIsKept'
  BY <1>1 DEF IInv, FirstInv, Unprepared, CycleIsKept
<1>5. DueInv'
  BY <1>1 DEF IInv, DueInv, Came, Since, Unprepared
<1>. QED BY <1>2, <1>3, <1>4, <1>5 DEF IInv

LEMMA StutterStep ==
  ASSUME IInv, UNCHANGED vars
  PROVE  IInv'
<1>1. /\ now' = now /\ settings' = settings /\ success' = success /\ changedAt' = changedAt
      /\ bucket' = bucket /\ at' = at /\ last' = last /\ daily' = daily /\ next' = next
      /\ left' = left /\ snap' = snap /\ requested' = requested /\ rescheduled' = rescheduled
      /\ wake' = wake /\ handler' = handler /\ due' = due /\ torn' = torn /\ cycle' = cycle
      /\ used' = used
  BY DEF vars, files, wait, signals, rest
<1>2. TypeOK' /\ FileInv'
  BY <1>1 DEF IInv, TypeOK, Running, FileInv, SuccessIsStored
<1>3. FirstInv' /\ CycleIsKept'
  BY <1>1 DEF IInv, FirstInv, Unprepared, CycleIsKept
<1>4. DueInv'
  BY <1>1 DEF IInv, DueInv, Came, Since, Unprepared
<1>. QED BY <1>2, <1>3, <1>4 DEF IInv
-----------------------------------------------------------------------------
(* The theorems.                                                           *)

LEMMA InitIInv == Init => IInv
<1>. SUFFICES ASSUME Init PROVE IInv
  OBVIOUS
<1>1. /\ now = 1 /\ settings = Unset /\ changedAt = Never
      /\ success \in {Never, 0} /\ bucket = {success} \ {Never}
      /\ at = "prepare"
      /\ last = Never /\ daily = 0 /\ next = 0 /\ left = 0 /\ snap = Never
      /\ requested = FALSE /\ rescheduled = Never /\ wake = FALSE
      /\ handler = "idle" /\ due = {} /\ torn = FALSE
      /\ cycle = success
      /\ used \in [Kinds -> Nat] /\ \A k \in Kinds : used[k] = 0
  BY TimeOfDay, Numbers DEF Init
<1>2. 1 \in Times /\ 0 \in Times /\ 0 \in Clocks /\ 0 \in 0..(MaxNow + DayLength)
  BY Numbers
<1>3. TypeOK
  <2>1. \A k \in Kinds : used[k] \in 0..Bound[k]
    BY <1>1, BoundIs
  <2>2. bucket \subseteq Times /\ cycle \in Clocks \cup {Unset}
    BY <1>1, <1>2, Numbers
  <2>3. {success, changedAt, last, snap, rescheduled} \subseteq Times \cup {Never}
    BY <1>1, <1>2
  <2>. QED BY <1>1, <1>2, <2>1, <2>2, <2>3 DEF TypeOK, Places, Running
<1>4. FileInv
  BY <1>1 DEF FileInv, SuccessIsStored
<1>5. \A t \in Times : 0 < t /\ t <= now => t % DayLength # 0
  BY <1>1, TimeOfDay, Numbers
<1>6. FirstInv
  BY <1>1, <1>5 DEF FirstInv, Unprepared
<1>7. CycleIsKept
  BY <1>1 DEF CycleIsKept
<1>8. DueInv
  <2>1. \A t \in Times : t % DayLength # settings
    BY <1>1, TimeOfDay, Numbers
  <2>. QED BY <1>1, <2>1 DEF DueInv, Came
<1>. QED BY <1>3, <1>4, <1>6, <1>7, <1>8 DEF IInv

LEMMA NextIInv == IInv /\ [Next]_vars => IInv'
<1>. SUFFICES ASSUME IInv, [Next]_vars PROVE IInv'
  OBVIOUS
<1>1. CASE Work
  BY <1>1, PrepareStep, PrepareFailsStep, ReadScheduleStep, ReadScheduleFailsStep,
     SaveDefaultStep, SaveDefaultFailsStep, CheckStep, LeaveStep, BeginStep, TakeSnapshotStep,
     UploadStep, SaveStateStep, AttemptFailsStep, DelayStep DEF Work
<1>2. CASE Start
  BY <1>2, StartStep
<1>3. CASE SaveSettings
  BY <1>3, SaveSettingsStep
<1>4. CASE Reschedule
  BY <1>4, RescheduleStep
<1>5. CASE Tick
  BY <1>5, TickStep
<1>6. CASE ClockBack
  BY <1>6, ClockBackStep
<1>7. CASE Stop
  BY <1>7, StopStep
<1>8. CASE StartProcess
  BY <1>8, StartProcessStep
<1>9. CASE UNCHANGED vars
  BY <1>9, StutterStep
<1>. QED BY <1>1, <1>2, <1>3, <1>4, <1>5, <1>6, <1>7, <1>8, <1>9 DEF Next

\* The invariant of the worker beside the dashboard, the clock and the stops
\* of the process.
THEOREM Invariance == Spec => []IInv
BY InitIInv, NextIInv, PTL DEF Spec

\* Every variable keeps its type, and no manual request is pending while an
\* attempt runs.
THEOREM TypeCorrect == Spec => []TypeOK
<1>1. IInv => TypeOK
  BY DEF IInv
<1>. QED BY <1>1, Invariance, PTL

\* What success.json and the dashboard report as backed up is in the bucket.
THEOREM ReportedIsStored == Spec => []SuccessIsStored
<1>1. IInv => SuccessIsStored
  BY DEF IInv, FileInv
<1>. QED BY <1>1, Invariance, PTL

\* The time of day of the backups before an upgrade stays the daily time
\* until the user chooses one.
THEOREM CycleStays == Spec => []CycleIsKept
<1>1. IInv => CycleIsKept
  BY DEF IInv
<1>. QED BY <1>1, Invariance, PTL

\* A scheduled backup runs only when the daily time has come since the last
\* one: the time waited for is the witness, as a time of day that came.
THEOREM RunsOnlyWhenDue == Spec => OnlyWhenDue
<1>1. ASSUME IInv, [Next]_vars, ScheduledRun, last # Never, ~wake, handler = "idle", ~torn,
             used["dbFailures"] = 0
      PROVE  TimeCame
  <2>1. at = "wait" /\ at' = "begin"
    BY <1>1 DEF ScheduledRun
  <2>2. TimerFires
    BY <1>1, <2>1 DEF Next, Work, Prepare, PrepareFails, ReadSchedule, ReadScheduleFails,
       SaveDefault, SaveDefaultFails, Check, Woken, Begin, TakeSnapshot, Upload, SaveState,
       AttemptFails, DelayEnds, WokenInDelay, InBackoff, Start, SaveSettings, Reschedule, Tick,
       ClockBack, Stop, StartProcess, vars, wait
  <2>3. now >= next
    BY <2>1, <2>2 DEF TimerFires
  <2>4. success = last
    BY <1>1 DEF IInv, FileInv
  <2>5. Came(Latest(last, rescheduled))
    BY <1>1, <2>1, <2>4 DEF IInv, DueInv, Since, Unprepared
  <2>6. next % DayLength = settings /\ Latest(last, rescheduled) < next
    BY <1>1, <2>1 DEF IInv, DueInv
  <2>7. next \in Times /\ last < next
    <3>1. next \in 0..(MaxNow + DayLength)
      BY <1>1 DEF IInv, TypeOK
    <3>2. Latest(last, rescheduled) >= last /\ Latest(last, rescheduled) \in Int
      BY <1>1, Types, LatestIs
    <3>. QED BY <1>1, <2>3, <2>6, <3>1, <3>2, Types, Numbers
  <2>8. next \in due /\ next <= now
    BY <1>1, <2>3, <2>5, <2>6, <2>7, Types, Numbers DEF Came
  <2>. QED BY <2>7, <2>8 DEF TimeCame
<1>2. IInv /\ [Next]_vars =>
        [ScheduledRun /\ last # Never /\ ~wake /\ handler = "idle" /\ ~torn
           /\ used["dbFailures"] = 0 => TimeCame]_vars
  BY <1>1
<1>. QED BY <1>2, Invariance, PTL DEF Spec, OnlyWhenDue
=============================================================================
