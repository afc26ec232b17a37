------------------------- MODULE IngestStatsProofs -------------------------
(***************************************************************************)
(* Proofs about IngestStats, for every set of records and any number of    *)
(* days, restarts and failed saves.                                        *)
(*                                                                         *)
(* The argument: a record is added to a counter at most once, because its  *)
(* call moves on; so a record that the session still has is in no closed   *)
(* row.  What a save read, the session keeps until the save is over: until *)
(* then the row that is being replaced is no more than the base and the    *)
(* session, and while the counters are zeroed one by one, those not yet    *)
(* reached share with the row just closed what the save read of them.      *)
(***************************************************************************)
EXTENDS IngestStats, TLAPS

\* The counters that a call at a place may still add to.
Ahead(place) ==
  CASE place = "new"        -> Cells
    [] place = "received"   -> Cells \ {"received"}
    [] place = "normalized" -> Cells \ {"received", "normalized", "rejected"}
    [] place = "bump"       -> {"reasons"}
    [] place = "done"       -> {}

CallInv == \A r \in Records : \A c \in Ahead(at[r]) : r \notin counted[c]

\* How far a save has come.
Loaded(c) == \/ save.at = "write"
             \/ save.at = "load" /\ \E j \in 1..(save.k - 1) : LoadOrder[j] = c
Zeroed(c) == \E j \in 1..(save.k - 1) : ResetOrder[j] = c

\* The days: those after the base's have no rows yet.
DayInv ==
  /\ baseDay <= day
  /\ save.at # "idle" => baseDay <= save.today /\ save.today <= day
  /\ save.at = "reset" => baseDay # save.today
  /\ \A d \in Days : \A c \in Cells : baseDay < d => saved[d][c] = {}

\* The process: nothing is counted after the last save of a clean exit began.
ProcessInv ==
  /\ save.at = "idle" => save = NoSave
  /\ phase = "down" => save.at = "idle"
  /\ save.at = "write" => save.k = 1
  /\ save.final /\ clean => Quiet /\ phase = "draining"

\* Nothing is anywhere that was not counted.
Bounded(c) ==
  /\ live[c] \subseteq counted[c] /\ base[c] \subseteq counted[c] /\ lost[c] \subseteq counted[c]
  /\ \A d \in Days : saved[d][c] \subseteq counted[c]

\* What the rows, the base and the session share.
Disjoint(c) ==
  /\ \A d, e \in Days : d # e => saved[d][c] \cap saved[e][c] = {}
  /\ phase # "down" =>
       /\ live[c] \cap base[c] = {}
       /\ \A d \in Days \ {baseDay} : saved[d][c] \cap (live[c] \cup base[c]) = {}

\* Where everything is.
Accounted(c) ==
  /\ phase # "down" => counted[c] = InSomeRow(c) \cup base[c] \cup live[c] \cup lost[c]
  /\ phase = "down" /\ clean => counted[c] = InSomeRow(c) \cup lost[c]

\* What a save has read, and what it leaves to do.
Saving(c) ==
  /\ save.at # "reset" =>
       /\ save.seen[c] \subseteq live[c]
       /\ phase # "down" => saved[baseDay][c] \subseteq base[c] \cup live[c]
  /\ save.at = "reset" =>
       /\ base[c] = {}
       /\ save.seen[c] \subseteq saved[baseDay][c]
       /\ live[c] \cap saved[baseDay][c] = IF Zeroed(c) THEN {} ELSE save.seen[c]
  /\ save.final /\ clean =>
       /\ Loaded(c) => save.seen[c] = live[c]
       /\ save.at = "reset" => live[c] = IF Zeroed(c) THEN {} ELSE save.seen[c]

CellInv == \A c \in Cells : Bounded(c) /\ Disjoint(c) /\ Accounted(c) /\ Saving(c)

IInv == TypeOK /\ CallInv /\ DayInv /\ ProcessInv /\ CellInv
-----------------------------------------------------------------------------
(* The counters.                                                           *)

Places == {"new", "received", "normalized", "bump", "done"}

\* The two orders visit all the counters.
LEMMA Orders ==
  /\ Len(LoadOrder) = 7 /\ Len(ResetOrder) = 7
  /\ Cells = {"received", "normalized", "stored", "deduplicated", "rejected", "errors", "reasons"}
  /\ \A k \in 1..7 : LoadOrder[k] \in Cells /\ ResetOrder[k] \in Cells
  /\ \A c \in Cells : \E k \in 1..7 : LoadOrder[k] = c
  /\ \A c \in Cells : \E k \in 1..7 : ResetOrder[k] = c
<1>1. Len(LoadOrder) = 7 /\ Len(ResetOrder) = 7
  BY DEF LoadOrder, ResetOrder
<1>2. /\ LoadOrder[1] = "received" /\ LoadOrder[2] = "normalized" /\ LoadOrder[3] = "stored"
      /\ LoadOrder[4] = "deduplicated" /\ LoadOrder[5] = "rejected" /\ LoadOrder[6] = "errors"
      /\ LoadOrder[7] = "reasons"
  BY DEF LoadOrder
<1>3. /\ ResetOrder[1] = "reasons" /\ ResetOrder[2] = "received" /\ ResetOrder[3] = "normalized"
      /\ ResetOrder[4] = "stored" /\ ResetOrder[5] = "deduplicated" /\ ResetOrder[6] = "rejected"
      /\ ResetOrder[7] = "errors"
  BY DEF ResetOrder
<1>4. \A k \in 1..7 : k \in {1, 2, 3, 4, 5, 6, 7}
  OBVIOUS
<1>5. Cells = {"received", "normalized", "stored", "deduplicated", "rejected", "errors", "reasons"}
  <2>1. Cells = {LoadOrder[k] : k \in {1, 2, 3, 4, 5, 6, 7}}
    BY <1>1, <1>4 DEF Cells
  <2>. QED BY <1>2, <2>1
<1>. QED BY <1>1, <1>2, <1>3, <1>4, <1>5

\* The types of the parts of the state, and the numbers among them.
LEMMA Types ==
  ASSUME TypeOK
  PROVE  /\ day \in Nat /\ baseDay \in Nat /\ save.today \in Nat /\ save.k \in 1..7 /\ save.k \in Nat
         /\ day \in Days /\ baseDay \in Days /\ save.today \in Days
         /\ \A d \in Days : d \in Nat
         /\ \A c \in Cells : /\ live[c] \subseteq Records /\ base[c] \subseteq Records
                             /\ counted[c] \subseteq Records /\ lost[c] \subseteq Records
                             /\ save.seen[c] \subseteq Records
                             /\ \A d \in Days : saved[d][c] \subseteq Records
<1>1. \A d \in Days : d \in Nat
  BY StatsAssumption DEF Days
<1>2. day \in Days /\ baseDay \in Days
  BY DEF TypeOK
<1>3. save.today \in Days /\ save.k \in 1..7 /\ save.seen \in Counters
  <2>1. save \in [at : {"idle", "load", "write", "reset"}, k : 1..7,
                  seen : Counters, today : Days, final : BOOLEAN]
    BY Orders DEF TypeOK
  <2>. QED BY <2>1
<1>4. live \in Counters /\ base \in Counters /\ counted \in Counters /\ lost \in Counters
  BY DEF TypeOK
<1>5. \A d \in Days : saved[d] \in Counters
  <2>1. saved \in [Days -> Counters]
    BY DEF TypeOK
  <2>. QED BY <2>1
<1>6. ASSUME NEW f \in Counters, NEW c \in Cells
      PROVE  f[c] \subseteq Records
  BY DEF Counters
<1>7. ASSUME NEW c \in Cells
      PROVE  /\ live[c] \subseteq Records /\ base[c] \subseteq Records
             /\ counted[c] \subseteq Records /\ lost[c] \subseteq Records
             /\ save.seen[c] \subseteq Records
  BY <1>3, <1>4, <1>6
<1>8. ASSUME NEW c \in Cells, NEW d \in Days
      PROVE  saved[d][c] \subseteq Records
  BY <1>5, <1>6
<1>9. save.k \in Nat
  BY <1>3
<1>. QED BY <1>1, <1>2, <1>3, <1>7, <1>8, <1>9

\* The row a save writes is that of the base's day.
LEMMA RowIsBase ==
  ASSUME TypeOK
  PROVE  Row = baseDay /\ (Rollover <=> save.today # baseDay)
<1>1. baseDay # NoDay
  BY StatsAssumption DEF TypeOK, Days, NoDay
<1>. QED BY <1>1 DEF Row, Rollover

\* What is in some row.
LEMMA InRows ==
  ASSUME NEW c, NEW r
  PROVE  r \in InSomeRow(c) <=> \E d \in Days : r \in saved[d][c]
BY DEF InSomeRow

\* Empty counters are counters.
LEMMA ZeroIs == Zero \in Counters /\ \A c \in Cells : Zero[c] = {}
BY DEF Zero, Counters

\* No save, and its fields.
LEMMA NoSaveIs ==
  /\ NoSave.at = "idle" /\ NoSave.k = 1 /\ NoSave.today = 0 /\ NoSave.final = FALSE
  /\ \A c \in Cells : NoSave.seen[c] = {}
  /\ NoSave \in [at : {"idle", "load", "write", "reset"}, k : 1..Len(LoadOrder),
                 seen : Counters, today : Days, final : BOOLEAN]
BY ZeroIs, Orders, StatsAssumption DEF NoSave, Days

\* The calls are where they were.
LEMMA CallsStay ==
  ASSUME IInv, at' = at, counted' = counted
  PROVE  CallInv' /\ (Quiet => Quiet')
<1>1. ASSUME NEW r \in Records, NEW c \in Ahead(at[r])
      PROVE  r \notin counted'[c]
  BY DEF IInv, CallInv
<1>2. \A r \in Records : Ahead(at[r])' = Ahead(at[r])
  BY DEF Ahead
<1>. QED BY <1>1, <1>2 DEF CallInv, Quiet

-----------------------------------------------------------------------------
(* The steps of a call.                                                    *)

\* A counter gains a record that no counter of that name had.
LEMMA CountStep ==
  ASSUME IInv, NEW r \in Records, NEW from \in Places, NEW to \in Places, NEW c \in Cells,
         Count(r, from, c, to),
         c \in Ahead(from), Ahead(to) \subseteq Ahead(from) \ {c},
         from # "done", from = "new" => phase = "up"
  PROVE  IInv'
<1>1. /\ phase # "down" /\ at[r] = from /\ at' = [at EXCEPT ![r] = to]
      /\ live' = [live EXCEPT ![c] = @ \cup {r}] /\ counted' = [counted EXCEPT ![c] = @ \cup {r}]
      /\ day' = day /\ base' = base /\ baseDay' = baseDay /\ saved' = saved /\ save' = save
      /\ phase' = phase /\ clean' = clean /\ lost' = lost /\ restarts' = restarts /\ dbErrors' = dbErrors
  BY DEF Count, Add, anchor, bounds
<1>2. r \notin counted[c]
  BY <1>1 DEF IInv, CallInv
<1>3. /\ live'[c] = live[c] \cup {r} /\ counted'[c] = counted[c] \cup {r}
      /\ \A b \in Cells \ {c} : live'[b] = live[b] /\ counted'[b] = counted[b]
  BY <1>1 DEF IInv, TypeOK, Counters
<1>4. TypeOK'
  BY <1>1 DEF IInv, TypeOK, Counters, Places
<1>5. CallInv'
  <2>1. /\ at'[r] = to /\ \A q \in Records \ {r} : at'[q] = at[q]
        /\ \A q \in Records : at[q] \in Places
    BY <1>1 DEF IInv, TypeOK, Places
  <2>2. \A place \in Places : Ahead(place) \subseteq Cells
    BY Orders DEF Places, Ahead
  <2>3. ASSUME NEW q \in Records, NEW b \in Ahead(at'[q])
        PROVE  q \notin counted'[b]
    <3>1. CASE q = r
      BY <1>1, <1>3, <2>1, <2>2, <2>3, <3>1 DEF IInv, CallInv
    <3>2. CASE q # r
      BY <1>3, <2>1, <2>2, <2>3, <3>2 DEF IInv, CallInv
    <3>. QED BY <3>1, <3>2
  <2>. QED BY <2>3 DEF CallInv, Ahead
<1>6. DayInv'
  BY <1>1 DEF IInv, DayInv
<1>7. ~(save.final /\ clean)
  BY <1>1 DEF IInv, ProcessInv, Quiet
<1>8. ProcessInv'
  BY <1>1, <1>7 DEF IInv, ProcessInv
<1>9. ASSUME NEW b \in Cells
      PROVE  Bounded(b)' /\ Disjoint(b)' /\ Accounted(b)' /\ Saving(b)'
  <2>1. Bounded(b) /\ Disjoint(b) /\ Accounted(b) /\ Saving(b)
    BY DEF IInv, CellInv
  <2>2. CASE b # c
    <3>1. live'[b] = live[b] /\ counted'[b] = counted[b]
      BY <1>3, <2>2
    <3>. QED BY <1>1, <2>1, <3>1 DEF Bounded, Disjoint, Accounted, Saving, InSomeRow, Loaded, Zeroed
  <2>3. CASE b = c
    <3>1. live'[b] = live[b] \cup {r} /\ counted'[b] = counted[b] \cup {r} /\ r \notin counted[b]
      BY <1>2, <1>3, <2>3
    <3>2. Bounded(b)'
      BY <1>1, <2>1, <3>1 DEF Bounded
    <3>3. Disjoint(b)'
      BY <1>1, <2>1, <3>1 DEF Bounded, Disjoint
    <3>4. Accounted(b)'
      BY <1>1, <2>1, <3>1 DEF Accounted, InSomeRow
    <3>5. r \notin saved[baseDay][b]
      BY <2>1, <3>1, Types DEF Bounded, IInv
    <3>6. Saving(b)'
      BY <1>1, <1>7, <2>1, <3>1, <3>5 DEF Saving, Zeroed
    <3>. QED BY <3>2, <3>3, <3>4, <3>6
  <2>. QED BY <2>2, <2>3
<1>. QED BY <1>4, <1>5, <1>6, <1>8, <1>9 DEF IInv, CellInv

\* Each step of a call is one.
LEMMA ConsumeStep ==
  ASSUME IInv, NEW r \in Records, Consume(r)
  PROVE  IInv'
<1>1. CASE Receive(r)
  BY <1>1, CountStep, Orders DEF Receive, Ahead, Places
<1>2. CASE Normalize(r)
  BY <1>2, CountStep, Orders DEF Normalize, Ahead, Places
<1>3. CASE Reject(r)
  BY <1>3, CountStep, Orders DEF Reject, Ahead, Places
<1>4. CASE Store(r)
  BY <1>4, CountStep, Orders DEF Store, Ahead, Places
<1>5. CASE StoreFails(r)
  BY <1>5, CountStep, Orders DEF StoreFails, Ahead, Places
<1>6. CASE Deduplicate(r)
  BY <1>6, CountStep, Orders DEF Deduplicate, Ahead, Places
<1>7. CASE BumpReason(r)
  BY <1>7, CountStep, Orders DEF BumpReason, Ahead, Places
<1>. QED BY <1>1, <1>2, <1>3, <1>4, <1>5, <1>6, <1>7 DEF Consume
-----------------------------------------------------------------------------
(* The steps of a save.                                                    *)

\* A save begins with nothing read.
LEMMA BeginStep ==
  ASSUME IInv, NEW final \in BOOLEAN, Begin(final), phase # "down", clean' \in BOOLEAN,
         final /\ clean' => Quiet /\ phase = "draining"
  PROVE  IInv'
<1>1. /\ save.at = "idle" /\ save = NoSave
      /\ save' = [NoSave EXCEPT !.at = "load", !.today = day, !.final = final]
      /\ day' = day /\ at' = at /\ live' = live /\ counted' = counted /\ base' = base
      /\ baseDay' = baseDay /\ saved' = saved /\ phase' = phase /\ lost' = lost
      /\ restarts' = restarts /\ dbErrors' = dbErrors
  BY DEF Begin, IInv, ProcessInv, records, anchor, bounds
<1>2. /\ save'.at = "load" /\ save'.k = 1 /\ save'.today = day /\ save'.final = final
      /\ \A c \in Cells : save'.seen[c] = {} /\ ~Loaded(c)'
  <2>1. save'.at = "load" /\ save'.k = 1 /\ save'.today = day /\ save'.final = final /\ save'.seen = NoSave.seen
    BY <1>1 DEF NoSave
  <2>. QED BY <2>1, NoSaveIs DEF Loaded
<1>3. TypeOK'
  BY <1>1, NoSaveIs DEF IInv, TypeOK
<1>4. CallInv' /\ DayInv' /\ ProcessInv'
  BY <1>1, <1>2, Types, CallsStay DEF IInv, DayInv, ProcessInv
<1>5. CellInv'
  <2>1. ASSUME NEW c \in Cells
        PROVE  Bounded(c)' /\ Disjoint(c)' /\ Accounted(c)' /\ Saving(c)'
    BY <1>1, <1>2 DEF IInv, CellInv, Bounded, Disjoint, Accounted, Saving, InSomeRow
  <2>. QED BY <2>1 DEF CellInv
<1>. QED BY <1>3, <1>4, <1>5 DEF IInv

\* A counter is read.
LEMMA LoadStep ==
  ASSUME IInv, Load
  PROVE  IInv'
<1>1. PICK c \in Cells : c = LoadOrder[save.k]
  BY Types, Orders DEF IInv
<1>2. /\ save.at = "load"
      /\ save' = [save EXCEPT !.seen[c] = live[c],
                              !.k = IF save.k = 7 THEN 1 ELSE @ + 1,
                              !.at = IF save.k = 7 THEN "write" ELSE "load"]
      /\ day' = day /\ at' = at /\ live' = live /\ counted' = counted /\ base' = base
      /\ baseDay' = baseDay /\ saved' = saved /\ phase' = phase /\ clean' = clean /\ lost' = lost
      /\ restarts' = restarts /\ dbErrors' = dbErrors
  BY <1>1, Orders DEF Load, records, anchor, bounds
<1>3. save.k \in 1..7 /\ save.k \in Nat
  BY Types DEF IInv
<1>4. /\ save'.at = IF save.k = 7 THEN "write" ELSE "load"
      /\ save'.k = IF save.k = 7 THEN 1 ELSE save.k + 1
      /\ save'.today = save.today /\ save'.final = save.final
      /\ save'.seen[c] = live[c] /\ \A b \in Cells \ {c} : save'.seen[b] = save.seen[b]
  BY <1>2 DEF IInv, TypeOK, Counters
<1>5. TypeOK'
  <2>1. save'.k \in 1..Len(LoadOrder) /\ live[c] \in SUBSET Records
    BY <1>3, <1>4, Orders, Types DEF IInv
  <2>2. save' \in [at : {"idle", "load", "write", "reset"}, k : 1..Len(LoadOrder),
                   seen : Counters, today : Days, final : BOOLEAN]
    BY <1>2, <1>4, <2>1 DEF IInv, TypeOK, Counters
  <2>. QED BY <1>2, <2>2 DEF IInv, TypeOK
<1>6. CallInv' /\ DayInv' /\ ProcessInv'
  BY <1>2, <1>4, CallsStay DEF IInv, DayInv, ProcessInv
<1>7. \A b \in Cells : Loaded(b)' => Loaded(b) \/ b = c
  <2>1. CASE save.k = 7
    <3>1. \A j \in 1..7 : j \in 1..(7 - 1) \/ j = 7
      OBVIOUS
    <3>2. \A b \in Cells : \E j \in 1..7 : LoadOrder[j] = b
      BY Orders
    <3>. QED BY <1>1, <1>2, <2>1, <3>1, <3>2 DEF Loaded
  <2>2. CASE save.k # 7
    <3>1. \A j \in 1..(save'.k - 1) : j \in 1..(save.k - 1) \/ j = save.k
      BY <1>3, <1>4, <2>2
    <3>. QED BY <1>1, <1>2, <1>4, <2>2, <3>1 DEF Loaded
  <2>. QED BY <2>1, <2>2
<1>8. CellInv'
  <2>1. ASSUME NEW b \in Cells
        PROVE  Bounded(b)' /\ Disjoint(b)' /\ Accounted(b)' /\ Saving(b)'
    BY <1>2, <1>4, <1>7 DEF IInv, CellInv, Bounded, Disjoint, Accounted, Saving, InSomeRow
  <2>. QED BY <2>1 DEF CellInv
<1>. QED BY <1>5, <1>6, <1>8 DEF IInv

\* The row is written, and the save is over.
LEMMA WriteRowStep ==
  ASSUME IInv, Write, ~Rollover
  PROVE  IInv'
<1>. Row = baseDay /\ save.today = baseDay
  BY RowIsBase DEF IInv
<1>1. /\ save.at = "write" /\ saved' = [saved EXCEPT ![baseDay] = Snapshot]
      /\ save' = NoSave /\ phase' = (IF save.final THEN "down" ELSE phase) /\ baseDay' = baseDay
      /\ day' = day /\ at' = at /\ live' = live /\ counted' = counted /\ base' = base
      /\ clean' = clean /\ lost' = lost /\ restarts' = restarts /\ dbErrors' = dbErrors
  BY DEF Write, Finish, records, bounds
<1>2. /\ saved'[baseDay] = Snapshot
      /\ \A c \in Cells : saved'[baseDay][c] = base[c] \cup save.seen[c]
      /\ \A d \in Days \ {baseDay} : saved'[d] = saved[d]
  BY <1>1, Types DEF IInv, TypeOK, Snapshot
<1>3. TypeOK'
  <2>1. Snapshot \in Counters
    BY Types DEF IInv, Snapshot, Counters
  <2>. QED BY <1>1, <2>1, NoSaveIs DEF IInv, TypeOK
<1>4. CallInv' /\ ProcessInv'
  BY <1>1, NoSaveIs, CallsStay DEF ProcessInv
<1>5. DayInv'
  <2>1. save'.at = "idle"
    BY <1>1, NoSaveIs
  <2>2. \A d \in Days : \A c \in Cells : baseDay < d => saved'[d][c] = {}
    BY <1>2, Types DEF IInv, DayInv
  <2>. QED BY <1>1, <2>1, <2>2 DEF IInv, DayInv
<1>6. CellInv'
  <2>1. ASSUME NEW c \in Cells
        PROVE  Bounded(c)' /\ Disjoint(c)' /\ Accounted(c)' /\ Saving(c)'
    <3>1. /\ Bounded(c) /\ Disjoint(c) /\ Accounted(c) /\ Saving(c)
          /\ phase # "down" /\ baseDay \in Days
      BY <1>1, Types DEF IInv, CellInv, ProcessInv
    <3>2. /\ saved'[baseDay][c] = base[c] \cup save.seen[c] /\ save.seen[c] \subseteq live[c]
          /\ saved[baseDay][c] \subseteq base[c] \cup live[c]
          /\ save.final /\ clean => save.seen[c] = live[c]
      BY <1>1, <1>2, <3>1 DEF Saving, Loaded
    <3>3. Bounded(c)'
      BY <1>1, <1>2, <3>1, <3>2 DEF Bounded
    <3>4. Disjoint(c)'
      <4>1. \A d \in Days \ {baseDay} : saved[d][c] \cap (live[c] \cup base[c]) = {}
        BY <3>1 DEF Disjoint
      <4>2. saved'[baseDay][c] \subseteq live[c] \cup base[c]
        BY <3>2
      <4>3. \A d, e \in Days : d # e => saved'[d][c] \cap saved'[e][c] = {}
        BY <1>2, <3>1, <4>1, <4>2 DEF Disjoint
      <4>4. \A d \in Days \ {baseDay} : saved'[d][c] \cap (live[c] \cup base[c]) = {}
        BY <1>2, <4>1
      <4>. QED BY <1>1, <3>1, <4>3, <4>4 DEF Disjoint
    <3>5. Accounted(c)'
      <4>1. \A r : r \in InSomeRow(c) => r \in InSomeRow(c)' \/ r \in live[c]
        BY <1>2, <3>1, <3>2 DEF InSomeRow
      <4>2. \A r : r \in InSomeRow(c)' => r \in counted[c]
        BY <1>1, <3>3 DEF InSomeRow, Bounded
      <4>3. base[c] \cup save.seen[c] \subseteq InSomeRow(c)'
        BY <1>2, <3>1, <3>2 DEF InSomeRow
      <4>4. counted[c] = InSomeRow(c) \cup base[c] \cup live[c] \cup lost[c]
        BY <3>1 DEF Accounted
      <4>5. counted[c] = InSomeRow(c)' \cup base[c] \cup live[c] \cup lost[c]
        BY <3>1, <4>1, <4>2, <4>3, <4>4 DEF Bounded
      <4>6. save.final /\ clean => counted[c] = InSomeRow(c)' \cup lost[c]
        BY <3>2, <4>3, <4>5
      <4>. QED BY <1>1, <3>1, <4>5, <4>6 DEF Accounted
    <3>6. Saving(c)'
      <4>1. save'.at = "idle" /\ save'.seen[c] = {} /\ ~save'.final
        BY <1>1, NoSaveIs
      <4>2. saved'[baseDay][c] \subseteq base[c] \cup live[c]
        BY <3>2
      <4>. QED BY <1>1, <4>1, <4>2 DEF Saving
    <3>. QED BY <3>3, <3>4, <3>5, <3>6
  <2>. QED BY <2>1 DEF CellInv
<1>. QED BY <1>3, <1>4, <1>5, <1>6 DEF IInv

\* The row of the day that is over is written, and the reset is to follow.
LEMMA CloseRowStep ==
  ASSUME IInv, Write, Rollover
  PROVE  IInv'
<1>1. /\ save.at = "write" /\ saved' = [saved EXCEPT ![baseDay] = Snapshot] /\ save.today # baseDay
      /\ save' = [save EXCEPT !.at = "reset"] /\ base' = Zero /\ phase' = phase /\ baseDay' = baseDay
      /\ day' = day /\ at' = at /\ live' = live /\ counted' = counted
      /\ clean' = clean /\ lost' = lost /\ restarts' = restarts /\ dbErrors' = dbErrors
  BY RowIsBase DEF IInv, Write, records, bounds
<1>2. /\ saved'[baseDay] = Snapshot
      /\ \A c \in Cells : saved'[baseDay][c] = base[c] \cup save.seen[c]
      /\ \A d \in Days \ {baseDay} : saved'[d] = saved[d]
  BY <1>1, Types DEF IInv, TypeOK, Snapshot
<1>3. /\ save'.at = "reset" /\ save'.k = 1 /\ save'.today = save.today /\ save'.final = save.final
      /\ save'.seen = save.seen /\ phase # "down"
  BY <1>1 DEF IInv, TypeOK, ProcessInv
<1>4. TypeOK'
  <2>1. Snapshot \in Counters
    BY Types DEF IInv, Snapshot, Counters
  <2>. QED BY <1>1, <2>1, ZeroIs DEF IInv, TypeOK
<1>5. CallInv' /\ ProcessInv'
  BY <1>1, <1>3, CallsStay DEF IInv, ProcessInv
<1>6. DayInv'
  BY <1>1, <1>2, <1>3, Types DEF IInv, DayInv
<1>7. CellInv'
  <2>1. ASSUME NEW c \in Cells
        PROVE  Bounded(c)' /\ Disjoint(c)' /\ Accounted(c)' /\ Saving(c)'
    <3>1. /\ Bounded(c) /\ Disjoint(c) /\ Accounted(c) /\ Saving(c) /\ baseDay \in Days
          /\ base'[c] = {}
      BY <1>1, Types, ZeroIs DEF IInv, CellInv
    <3>2. /\ saved'[baseDay][c] = base[c] \cup save.seen[c] /\ save.seen[c] \subseteq live[c]
          /\ saved[baseDay][c] \subseteq base[c] \cup live[c]
          /\ save.final /\ clean => save.seen[c] = live[c]
      BY <1>1, <1>2, <1>3, <3>1 DEF Saving, Loaded
    <3>3. Bounded(c)'
      BY <1>1, <1>2, <3>1, <3>2 DEF Bounded
    <3>4. Disjoint(c)'
      BY <1>1, <1>2, <1>3, <3>1, <3>2 DEF Disjoint
    <3>5. Accounted(c)'
      <4>1. \A r : r \in InSomeRow(c) => r \in InSomeRow(c)' \/ r \in live[c]
        BY <1>2, <3>1, <3>2 DEF InSomeRow
      <4>2. \A r : r \in InSomeRow(c)' => r \in counted[c]
        BY <1>1, <3>3 DEF InSomeRow, Bounded
      <4>3. base[c] \cup save.seen[c] \subseteq InSomeRow(c)'
        BY <1>2, <3>1, <3>2 DEF InSomeRow
      <4>. QED BY <1>1, <1>3, <3>1, <4>1, <4>2, <4>3 DEF Accounted, Bounded
    <3>6. Saving(c)'
      <4>1. ~Zeroed(c)'
        BY <1>3 DEF Zeroed
      <4>2. live[c] \cap (base[c] \cup save.seen[c]) = save.seen[c]
        BY <1>3, <3>1, <3>2 DEF Disjoint
      <4>. QED BY <1>1, <1>3, <3>1, <3>2, <4>1, <4>2 DEF Saving, Loaded
    <3>. QED BY <3>3, <3>4, <3>5, <3>6
  <2>. QED BY <2>1 DEF CellInv
<1>. QED BY <1>4, <1>5, <1>6, <1>7 DEF IInv

\* A write that fails leaves the counters as they were.
LEMMA WriteFailsStep ==
  ASSUME IInv, WriteFails
  PROVE  IInv'
<1>1. /\ save.at = "write" /\ ~clean' /\ clean' \in BOOLEAN /\ save' = NoSave /\ baseDay' = baseDay
      /\ phase' = (IF save.final THEN "down" ELSE phase) /\ dbErrors' = dbErrors + 1
      /\ day' = day /\ at' = at /\ live' = live /\ counted' = counted /\ base' = base
      /\ saved' = saved /\ lost' = lost /\ restarts' = restarts
  BY RowIsBase DEF IInv, WriteFails, Finish, records
<1>2. TypeOK'
  BY <1>1, NoSaveIs DEF IInv, TypeOK
<1>3. CallInv' /\ ProcessInv' /\ DayInv'
  BY <1>1, NoSaveIs, CallsStay DEF IInv, ProcessInv, DayInv
<1>4. CellInv'
  <2>1. ASSUME NEW c \in Cells
        PROVE  Bounded(c)' /\ Disjoint(c)' /\ Accounted(c)' /\ Saving(c)'
    BY <1>1, NoSaveIs DEF IInv, CellInv, ProcessInv, Bounded, Disjoint, Accounted, Saving, InSomeRow
  <2>. QED BY <2>1 DEF CellInv
<1>. QED BY <1>2, <1>3, <1>4 DEF IInv
\* A counter is zeroed, and others are left.
LEMMA ResetOneStep ==
  ASSUME IInv, Reset, save.k < Len(ResetOrder)
  PROVE  IInv'
<1>1. PICK c \in Cells : c = ResetOrder[save.k]
  BY Types, Orders DEF IInv
<1>2. /\ save.at = "reset" /\ save' = [save EXCEPT !.k = @ + 1] /\ save.k < 7
      /\ live' = [live EXCEPT ![c] = {}]
      /\ lost' = [lost EXCEPT ![c] = @ \cup (live[c] \ save.seen[c])]
      /\ phase' = phase /\ baseDay' = baseDay /\ day' = day /\ at' = at /\ base' = base
      /\ saved' = saved /\ clean' = clean /\ counted' = counted
      /\ restarts' = restarts /\ dbErrors' = dbErrors
  BY <1>1, Orders DEF Reset, bounds
<1>3. /\ save'.k = save.k + 1 /\ save.k \in 1..7 /\ save'.at = "reset" /\ save'.today = save.today
      /\ save'.final = save.final /\ save'.seen = save.seen /\ phase # "down"
  BY <1>2, Types DEF IInv, TypeOK, ProcessInv
<1>4. /\ live'[c] = {} /\ lost'[c] = lost[c] \cup (live[c] \ save.seen[c])
      /\ \A b \in Cells \ {c} : live'[b] = live[b] /\ lost'[b] = lost[b]
  BY <1>2 DEF IInv, TypeOK, Counters
<1>5. TypeOK'
  <2>1. save'.k \in 1..Len(LoadOrder)
    BY <1>2, <1>3, Orders
  <2>2. live' \in Counters /\ lost' \in Counters
    BY <1>2, Types DEF IInv, TypeOK, Counters
  <2>. QED BY <1>2, <2>1, <2>2 DEF IInv, TypeOK
<1>6. CallInv' /\ ProcessInv'
  BY <1>2, <1>3, CallsStay DEF IInv, ProcessInv
<1>7. DayInv'
  BY <1>2, <1>3 DEF IInv, DayInv
<1>8. \A b \in Cells : Zeroed(b)' <=> Zeroed(b) \/ b = c
  <2>1. \A j : j \in 1..(save'.k - 1) <=> j \in 1..(save.k - 1) \/ j = save.k
    BY <1>3
  <2>. QED BY <1>1, <2>1 DEF Zeroed
<1>9. CellInv'
  <2>1. ASSUME NEW b \in Cells
        PROVE  Bounded(b)' /\ Disjoint(b)' /\ Accounted(b)' /\ Saving(b)'
    <3>1. /\ Bounded(b) /\ Disjoint(b) /\ Accounted(b) /\ Saving(b) /\ baseDay \in Days
      BY Types DEF IInv, CellInv
    <3>2. InSomeRow(b)' = InSomeRow(b) /\ saved[baseDay][b] \subseteq InSomeRow(b)
      BY <1>2, <3>1 DEF InSomeRow
    <3>3. CASE b # c
      <4>1. live'[b] = live[b] /\ lost'[b] = lost[b] /\ (Zeroed(b)' <=> Zeroed(b)) /\ ~Loaded(b)'
        BY <1>3, <1>4, <1>8, <3>3 DEF Loaded
      <4>. QED BY <1>2, <1>3, <3>1, <3>2, <4>1 DEF Bounded, Disjoint, Accounted, Saving
    <3>4. CASE b = c
      <4>1. live'[b] = {} /\ lost'[b] = lost[b] \cup (live[b] \ save.seen[b]) /\ Zeroed(b)' /\ ~Loaded(b)'
        BY <1>3, <1>4, <1>8, <3>4 DEF Loaded
      <4>2. save.seen[b] \subseteq saved[baseDay][b] /\ base[b] = {}
        BY <1>2, <3>1 DEF Saving
      <4>. QED BY <1>2, <1>3, <3>1, <3>2, <4>1, <4>2 DEF Bounded, Disjoint, Accounted, Saving
    <3>. QED BY <3>3, <3>4
  <2>. QED BY <2>1 DEF CellInv
<1>. QED BY <1>5, <1>6, <1>7, <1>9 DEF IInv

\* The last one is, and the save is over: the day of the base moves on.
LEMMA ResetLastStep ==
  ASSUME IInv, Reset, ~(save.k < Len(ResetOrder))
  PROVE  IInv'
<1>1. PICK c \in Cells : c = ResetOrder[save.k]
  BY Types, Orders DEF IInv
<1>2. /\ save.at = "reset" /\ save' = NoSave /\ phase' = (IF save.final THEN "down" ELSE phase)
      /\ live' = [live EXCEPT ![c] = {}]
      /\ lost' = [lost EXCEPT ![c] = @ \cup (live[c] \ save.seen[c])]
      /\ baseDay' = save.today /\ day' = day /\ at' = at /\ base' = base
      /\ saved' = saved /\ clean' = clean /\ counted' = counted
      /\ restarts' = restarts /\ dbErrors' = dbErrors
  BY <1>1 DEF Reset, Finish, bounds
<1>3. save.k = 7 /\ phase # "down" /\ baseDay < save.today /\ save.today <= day
  BY <1>2, Types, Orders DEF IInv, ProcessInv, DayInv
<1>4. /\ live'[c] = {} /\ lost'[c] = lost[c] \cup (live[c] \ save.seen[c])
      /\ \A b \in Cells \ {c} : live'[b] = live[b] /\ lost'[b] = lost[b]
  BY <1>2 DEF IInv, TypeOK, Counters
<1>5. TypeOK'
  <2>1. live' \in Counters /\ lost' \in Counters
    BY <1>2, Types DEF IInv, TypeOK, Counters
  <2>. QED BY <1>2, <2>1, NoSaveIs, Types DEF IInv, TypeOK
<1>6. CallInv' /\ ProcessInv'
  BY <1>2, CallsStay, NoSaveIs DEF ProcessInv
<1>7. DayInv'
  <2>1. save'.at = "idle"
    BY <1>2, NoSaveIs
  <2>2. \A d \in Days : \A b \in Cells : save.today < d => saved[d][b] = {}
    BY <1>3, Types DEF IInv, DayInv
  <2>. QED BY <1>2, <1>3, <2>1, <2>2 DEF DayInv
<1>8. \A b \in Cells : Zeroed(b) \/ b = c
  <2>1. \A j \in 1..7 : j \in 1..(save.k - 1) \/ j = save.k
    BY <1>3
  <2>2. \A b \in Cells : \E j \in 1..7 : ResetOrder[j] = b
    BY Orders
  <2>. QED BY <1>1, <2>1, <2>2 DEF Zeroed
<1>9. CellInv'
  <2>1. ASSUME NEW b \in Cells
        PROVE  Bounded(b)' /\ Disjoint(b)' /\ Accounted(b)' /\ Saving(b)'
    <3>1. /\ Bounded(b) /\ Disjoint(b) /\ Accounted(b) /\ Saving(b) /\ baseDay \in Days
          /\ saved[save.today][b] = {}
      BY <1>3, Types DEF IInv, CellInv, DayInv
    <3>2. /\ base[b] = {} /\ save.seen[b] \subseteq saved[baseDay][b]
          /\ live[b] \cap saved[baseDay][b] = IF Zeroed(b) THEN {} ELSE save.seen[b]
          /\ save.final /\ clean => live[b] = IF Zeroed(b) THEN {} ELSE save.seen[b]
      BY <1>2, <3>1 DEF Saving
    <3>3. /\ IF b = c THEN live'[b] = {} /\ lost'[b] = lost[b] \cup (live[b] \ save.seen[b])
             ELSE live'[b] = live[b] /\ lost'[b] = lost[b] /\ Zeroed(b)
      BY <1>4, <1>8
    <3>4. InSomeRow(b)' = InSomeRow(b) /\ saved[baseDay][b] \subseteq InSomeRow(b)
      BY <1>2, <3>1 DEF InSomeRow
    <3>5. Bounded(b)'
      BY <1>2, <3>1, <3>3 DEF Bounded
    <3>6. Disjoint(b)'
      <4>1. live'[b] \subseteq live[b] /\ live'[b] \cap saved[baseDay][b] = {}
        BY <3>2, <3>3
      <4>2. \A d \in Days : saved[d][b] \cap live'[b] = {}
        BY <1>3, <3>1, <4>1 DEF Disjoint
      <4>. QED BY <1>2, <3>1, <3>2, <4>2 DEF Disjoint
    <3>7. Accounted(b)'
      <4>1. counted[b] = InSomeRow(b) \cup live[b] \cup lost[b]
        BY <1>3, <3>1, <3>2 DEF Accounted
      <4>2. counted[b] = InSomeRow(b) \cup live'[b] \cup lost'[b]
        BY <3>1, <3>2, <3>3, <3>4, <4>1 DEF Bounded
      <4>3. save.final /\ clean => live'[b] = {}
        BY <3>2, <3>3
      <4>. QED BY <1>2, <1>3, <3>2, <3>4, <4>2, <4>3 DEF Accounted
    <3>8. Saving(b)'
      <4>1. save'.at = "idle" /\ save'.seen[b] = {} /\ ~save'.final
        BY <1>2, NoSaveIs
      <4>. QED BY <1>2, <3>1, <4>1 DEF Saving
    <3>. QED BY <3>5, <3>6, <3>7, <3>8
  <2>. QED BY <2>1 DEF CellInv
<1>. QED BY <1>5, <1>6, <1>7, <1>9 DEF IInv

-----------------------------------------------------------------------------
(* The process.                                                            *)

\* The servers are told to stop.
LEMMA ShutdownStep ==
  ASSUME IInv, ShutdownBegins
  PROVE  IInv'
<1>1. /\ phase = "up" /\ ~save.final /\ phase' = "draining"
      /\ day' = day /\ at' = at /\ live' = live /\ counted' = counted /\ base' = base
      /\ baseDay' = baseDay /\ saved' = saved /\ save' = save /\ clean' = clean /\ lost' = lost
      /\ restarts' = restarts /\ dbErrors' = dbErrors
  BY DEF ShutdownBegins, records, anchor, bounds
<1>2. TypeOK' /\ CallInv' /\ DayInv' /\ ProcessInv'
  BY <1>1, CallsStay DEF IInv, TypeOK, DayInv, ProcessInv
<1>3. CellInv'
  BY <1>1 DEF IInv, CellInv, Bounded, Disjoint, Accounted, Saving, InSomeRow, Zeroed
<1>. QED BY <1>2, <1>3 DEF IInv

\* The process is killed.
LEMMA CrashStep ==
  ASSUME IInv, Crash
  PROVE  IInv'
<1>1. /\ phase' = "down" /\ ~clean' /\ clean' \in BOOLEAN /\ save' = NoSave
      /\ day' = day /\ at' = at /\ live' = live /\ counted' = counted /\ base' = base
      /\ baseDay' = baseDay /\ saved' = saved /\ lost' = lost
      /\ restarts' = restarts /\ dbErrors' = dbErrors
  BY DEF Crash, records, anchor, bounds
<1>2. TypeOK' /\ CallInv' /\ DayInv' /\ ProcessInv'
  BY <1>1, CallsStay, NoSaveIs DEF IInv, TypeOK, DayInv, ProcessInv
<1>3. CellInv'
  BY <1>1, NoSaveIs DEF IInv, CellInv, Bounded, Disjoint, Accounted, Saving
<1>. QED BY <1>2, <1>3 DEF IInv

\* A start continues the row of the day.
LEMMA StartStep ==
  ASSUME IInv, Start
  PROVE  IInv'
<1>1. /\ phase = "down" /\ phase' = "up" /\ restarts' = restarts + 1
      /\ at' = [r \in Records |-> IF at[r] = "new" THEN "new" ELSE "done"]
      /\ live' = Zero /\ base' = saved[day] /\ baseDay' = day
      /\ lost' = [c \in Cells |-> counted[c] \ InSomeRow(c)]
      /\ day' = day /\ saved' = saved /\ save' = save /\ clean' = clean /\ counted' = counted
      /\ dbErrors' = dbErrors
  BY DEF Start, Restore
<1>2. save = NoSave /\ save.at = "idle" /\ save.final = FALSE /\ \A c \in Cells : save.seen[c] = {}
  BY <1>1, NoSaveIs DEF IInv, ProcessInv
<1>3. TypeOK'
  BY <1>1, ZeroIs, Types DEF IInv, TypeOK, Counters
<1>4. CallInv'
  <2>1. ASSUME NEW r \in Records, NEW c \in Ahead(at'[r])
        PROVE  r \notin counted[c]
    <3>1. CASE at[r] = "new"
      BY <1>1, <2>1, <3>1 DEF IInv, CallInv
    <3>2. CASE at[r] # "new"
      BY <1>1, <2>1, <3>2 DEF Ahead
    <3>. QED BY <3>1, <3>2
  <2>. QED BY <1>1, <2>1 DEF CallInv, Ahead
<1>5. DayInv' /\ ProcessInv'
  BY <1>1, <1>2, Types DEF IInv, DayInv, ProcessInv
<1>6. CellInv'
  <2>1. ASSUME NEW c \in Cells
        PROVE  Bounded(c)' /\ Disjoint(c)' /\ Accounted(c)' /\ Saving(c)'
    <3>1. /\ Bounded(c) /\ Disjoint(c) /\ day \in Days
          /\ live'[c] = {} /\ base'[c] = saved[day][c] /\ lost'[c] = counted[c] \ InSomeRow(c)
      BY <1>1, ZeroIs, Types DEF IInv, CellInv
    <3>2. /\ InSomeRow(c)' = InSomeRow(c) /\ saved[day][c] \subseteq InSomeRow(c)
          /\ InSomeRow(c) \subseteq counted[c]
      BY <1>1, <3>1 DEF InSomeRow, Bounded
    <3>. QED BY <1>1, <1>2, <3>1, <3>2 DEF Bounded, Disjoint, Accounted, Saving
  <2>. QED BY <2>1 DEF CellInv
<1>. QED BY <1>3, <1>4, <1>5, <1>6 DEF IInv

\* A day ends.
LEMMA MidnightStep ==
  ASSUME IInv, Midnight
  PROVE  IInv'
<1>1. /\ day' = day + 1 /\ day < MaxDay
      /\ at' = at /\ live' = live /\ counted' = counted /\ base' = base
      /\ baseDay' = baseDay /\ saved' = saved /\ save' = save /\ clean' = clean /\ lost' = lost
      /\ phase' = phase /\ restarts' = restarts /\ dbErrors' = dbErrors
  BY DEF Midnight, records, anchor, bounds
<1>2. day' \in Days
  BY <1>1, StatsAssumption DEF IInv, TypeOK, Days
<1>3. TypeOK' /\ CallInv' /\ DayInv' /\ ProcessInv'
  BY <1>1, <1>2, CallsStay, Types DEF IInv, TypeOK, DayInv, ProcessInv
<1>4. CellInv'
  BY <1>1 DEF IInv, CellInv, Bounded, Disjoint, Accounted, Saving, InSomeRow, Loaded, Zeroed
<1>. QED BY <1>3, <1>4 DEF IInv
-----------------------------------------------------------------------------
(* Theorems.                                                               *)

\* The invariant holds throughout.
THEOREM Invariance == Spec => []IInv
<1>1. Init => IInv
  <2>. SUFFICES ASSUME Init PROVE IInv
    OBVIOUS
  <2>1. /\ live = Zero /\ base = Zero /\ counted = Zero /\ lost = Zero /\ save = NoSave
        /\ saved = [d \in Days |-> Zero] /\ phase = "up" /\ clean = FALSE /\ day = 0 /\ baseDay = 0
        /\ at = [r \in Records |-> "new"] /\ restarts = 0 /\ dbErrors = 0
    BY DEF Init
  <2>2. 0 \in Days
    BY StatsAssumption DEF Days
  <2>3. TypeOK
    BY <2>1, <2>2, ZeroIs, NoSaveIs DEF TypeOK
  <2>4. CallInv
    BY <2>1, ZeroIs DEF CallInv, Ahead
  <2>5. DayInv /\ ProcessInv
    BY <2>1, ZeroIs, NoSaveIs DEF DayInv, ProcessInv
  <2>6. CellInv
    <3>1. ASSUME NEW c \in Cells
          PROVE  Bounded(c) /\ Disjoint(c) /\ Accounted(c) /\ Saving(c)
      BY <2>1, <2>2, <3>1, ZeroIs, NoSaveIs DEF Bounded, Disjoint, Accounted, Saving, InSomeRow
    <3>. QED BY <3>1 DEF CellInv
  <2>. QED BY <2>3, <2>4, <2>5, <2>6 DEF IInv
<1>2. IInv /\ [Next]_vars => IInv'
  <2>. SUFFICES ASSUME IInv, [Next]_vars PROVE IInv'
    OBVIOUS
  <2>1. CASE Tick
    <3>1. save.final = FALSE
      BY <2>1, NoSaveIs DEF Tick, Begin, IInv, ProcessInv
    <3>. QED BY <2>1, BeginStep DEF Tick, IInv, TypeOK
  <2>2. CASE FinalSave
    BY <2>2, BeginStep DEF FinalSave, Quiet
  <2>3. CASE ListenerDies
    BY <2>3, BeginStep DEF ListenerDies
  <2>4. CASE Write
    BY <2>4, WriteRowStep, CloseRowStep
  <2>5. CASE Reset
    BY <2>5, ResetOneStep, ResetLastStep
  <2>6. CASE UNCHANGED vars
    <3>. USE <2>6 DEF vars, records, anchor, bounds, IInv
    <3>1. TypeOK' /\ DayInv' /\ ProcessInv' /\ CallInv'
      BY CallsStay DEF TypeOK, DayInv, ProcessInv, Quiet
    <3>2. CellInv'
      BY DEF CellInv, Bounded, Disjoint, Accounted, Saving, InSomeRow, Loaded, Zeroed
    <3>. QED BY <3>1, <3>2
  <2>. QED BY <2>1, <2>2, <2>3, <2>4, <2>5, <2>6, ConsumeStep, LoadStep, WriteFailsStep,
              ShutdownStep, CrashStep, StartStep, MidnightStep DEF Next
<1>. QED BY <1>1, <1>2, PTL DEF Spec

\* Every variable keeps its type, and the day of the base is known.
THEOREM TypeCorrect == Spec => []TypeOK
<1>1. IInv => TypeOK
  BY DEF IInv
<1>. QED BY <1>1, Invariance, PTL

\* No record is in two rows, nor twice in one.
THEOREM NothingTwice == Spec => []CountedOnce
<1>1. IInv => CountedOnce
  BY DEF IInv, CellInv, Disjoint, CountedOnce, Settled
<1>. QED BY <1>1, Invariance, PTL

\* No record vanishes but those that a reset or an exit dropped.
THEOREM NothingVanishes == Spec => []Conserved
<1>1. IInv => Conserved
  BY DEF IInv, CellInv, Accounted, Conserved, Settled
<1>. QED BY <1>1, Invariance, PTL
=============================================================================
