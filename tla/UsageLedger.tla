---------------------------- MODULE UsageLedger ----------------------------
(***************************************************************************)
(* What the rollup tables promise their readers: a ledger of requests      *)
(* whose totals are always those of the requests in it.  It knows neither  *)
(* triggers nor transactions, and says nothing while it is closed.         *)
(***************************************************************************)
EXTENDS UsageFacts

CONSTANT Editions    \* ways to compute a request's facts

VARIABLES
  rows,      \* the requests
  view,      \* the totals shown, or Closed
  edition    \* how they are computed

vars == <<rows, view, edition>>

Closed == [closed |-> TRUE]
Totals(e, r) == [table \in Rollups |-> Aggregate(e, r, table)]

Kept(old, new) == old # Nil => new = old

\* A request told again: what was known of it stays.
Grown(old, new) ==
  \/ new = old
  \/ old = Absent /\ new \in Row
  \/ /\ old # Absent /\ new \in Row
     /\ new.source = old.source /\ new.ts <= old.ts
     /\ Kept(old.model, new.model) /\ Kept(old.token, new.token)
     /\ Kept(old.agent, new.agent) /\ Kept(old.conv, new.conv)
     /\ \A c \in Columns : Kept(old.tok[c], new.tok[c])
     /\ old.cost # Nil => new.cost # Nil
     /\ old.costSource = "harness" => new.costSource = "harness" /\ new.cost = old.cost

Init ==
  /\ rows \in Rows /\ view = Closed /\ edition \in Editions

Open ==
  /\ view = Closed
  /\ view' = Totals(edition, rows)
  /\ UNCHANGED <<rows, edition>>

Close ==
  /\ view' = Closed
  /\ UNCHANGED <<rows, edition>>

Revise ==
  /\ view = Closed
  /\ edition' \in Editions
  /\ UNCHANGED <<rows, view>>

\* Requests are told, told again, priced or given to a token.
Tell ==
  /\ view # Closed
  /\ rows' \in Rows
  /\ \A i \in Ids : Grown(rows[i], rows'[i])
  /\ view' = Totals(edition, rows')
  /\ UNCHANGED edition

Strike(i) ==
  /\ view # Closed /\ rows[i] # Absent
  /\ rows' = [rows EXCEPT ![i] = Absent]
  /\ view' = Totals(edition, rows')
  /\ UNCHANGED edition

Next ==
  \/ Open \/ Close \/ Revise \/ Tell
  \/ \E i \in Ids : Strike(i)

Spec == Init /\ [][Next]_vars
=============================================================================
