-------------------------- MODULE TokenStoreProofs --------------------------
(***************************************************************************)
(* Proofs about TokenStore, for every set of secrets, every number of      *)
(* tokens and every clock.                                                 *)
(*                                                                         *)
(* The argument: a loss of power leaves one of several tables, so what the *)
(* user was told must be true of every one of them, not of the current one *)
(* only.  A change is durable before it is published, and that leaves one  *)
(* table; the flush and the import of the configured token, which may be   *)
(* lost, touch nothing that was promised.                                  *)
(***************************************************************************)
EXTENDS TokenStore, FiniteSetTheorems, TLAPS

Active(d, s) == \E i \in Rows(d) : d.rows[i].hash = s /\ d.rows[i].active

\* What the schema and its writers keep of a table.
Table(d) ==
  /\ \E n \in 0..MaxTokens : Rows(d) = 1..n
  /\ \A i, j \in Rows(d) : d.rows[i].hash = d.rows[j].hash => i = j
  /\ \A i \in Rows(d) : d.rows[i].hash \notin d.retired
  /\ \A i \in Ids \ Rows(d) : d.rows[i] = NoRow
  /\ \A i \in Ids : d.rows[i].last.by \in {NoSecret, d.rows[i].hash}

\* What a table must show of what has happened.
Promised(d) ==
  /\ \A s \in Secrets : Known(d, s) => s \in issued \cup {Configured}
  /\ \A s \in dead : Known(d, s) /\ ~Active(d, s)
  /\ \A v \in valid : v[1] \in Rows(d) /\ d.rows[v[1]].hash = v[2] /\ d.rows[v[1]].active
  /\ \A i \in Ids : d.rows[i].last.t <= now

TableInv ==
  /\ db \in survivable
  /\ \A d \in survivable : Table(d) /\ Promised(d)

\* The operation under way, before its commit and after.
Pending ==
  /\ IF op.kind = "create" THEN op.id = NextId(db) ELSE op.id \in Rows(db)
  /\ op.old = db.rows[op.id].hash
  /\ op.kind # "revoke" => op.secret \in issued /\ ~Known(db, op.secret)

Committed ==
  /\ survivable = {db} /\ op.id \in Rows(db)
  /\ op.old # NoSecret => Known(db, op.old) /\ ~Active(db, op.old)
  /\ op.kind # "revoke" => db.rows[op.id] = [hash |-> op.secret, active |-> TRUE, last |-> NoUse]
  /\ op.kind = "create" => used[op.id] = NoUse

OpInv ==
  /\ op.at = "idle" => op = NoOp
  /\ op.at # "idle" => /\ phase = "up" /\ ~flush.on /\ op.kind # "none" /\ op.id \in Ids
                       /\ op.kind # "revoke" => op.secret \in Secrets
  /\ op.at = "commit" => Pending
  /\ op.at = "publish" => Committed

ProcessInv ==
  /\ IF flush.on THEN phase = "up" ELSE flush = NoFlush
  /\ phase = "seeding" => env \in issued \cup {Configured} /\ (Known(db, env) \/ NextId(db) \in Ids)
  /\ phase = "down" => hashes = [s \in Secrets |-> NoId] /\ used = NoFlush.taken

\* Between the commit of a Regenerate and its publication the old secret
\* still authenticates, and what it is used for is discarded.
Replacing(i) == op.at = "publish" /\ op.kind = "regenerate" /\ op.id = i

CacheInv ==
  /\ phase # "down" /\ op.at # "publish" => hashes = HashesOf(db) /\ total = Cardinality(Rows(db))
  /\ op.at = "publish" =>
       /\ Published = HashesOf(db)
       /\ Cardinality(Rows(db)) = IF op.kind = "create" THEN total + 1 ELSE total
  /\ \A s \in Secrets : hashes[s] # NoId =>
       /\ hashes[s] \in Rows(db)
       /\ Replacing(hashes[s]) \/ db.rows[hashes[s]].hash = s
       /\ ~(op.at = "publish" /\ op.kind = "create" /\ op.id = hashes[s])
  /\ \A s \in dead : hashes[s] = NoId
  /\ phase # "down" => \A v \in valid : hashes[v[2]] = v[1]

\* The last use of a token, wherever it is.
Latest(i) == Later(Later(db.rows[i].last, flush.taken[i]), used[i]).t

UseInv ==
  \A i \in Ids :
    /\ used[i].t <= now /\ flush.taken[i].t <= now
    /\ flush.taken[i].by \in {NoSecret, db.rows[i].hash}
    /\ ~Replacing(i) => used[i].by \in {NoSecret, db.rows[i].hash} /\ Latest(i) = seen[i]
    /\ i \notin Rows(db) => used[i] = NoUse /\ flush.taken[i] = NoUse

IInv == TypeOK /\ TableInv /\ OpInv /\ ProcessInv /\ CacheInv /\ UseInv
-----------------------------------------------------------------------------
(* Tables.                                                                 *)

Row == [hash : Secrets \cup {NoSecret}, active : BOOLEAN, last : Uses]

\* A new secret in row i, and the row revoked.
New(s)         == [hash |-> s, active |-> TRUE, last |-> NoUse]
Put(d, i, s)   == [rows    |-> [d.rows EXCEPT ![i] = New(s)],
                   retired |-> IF i \in Rows(d) THEN d.retired \cup {d.rows[i].hash} ELSE d.retired]
Disable(d, i)  == [rows    |-> [d.rows EXCEPT ![i].active = FALSE], retired |-> d.retired]

\* The constants and the empty values are of their types.
LEMMA Constants ==
  /\ NoSecret \notin Secrets /\ Configured \in Secrets /\ MaxTokens \in Nat /\ MaxNow \in Nat \ {0}
  /\ NoUse \in Uses /\ NoUse.t = 0 /\ NoUse.by = NoSecret
  /\ NoRow \in Row /\ NoRow.hash = NoSecret /\ NoRow.last = NoUse /\ NoFlush.taken \in [Ids -> Uses]
  /\ \A i \in Ids : i \in Nat /\ i # NoId
<1>1. NoUse \in Uses /\ NoUse.t = 0 /\ NoUse.by = NoSecret
  BY TokenAssumption DEF NoUse, Uses, Times
<1>. QED BY <1>1, TokenAssumption DEF NoRow, Row, NoFlush, Ids, NoId

\* The fields of a table.
LEMMA Fields ==
  ASSUME NEW d \in Dbs
  PROVE  /\ d = [rows |-> d.rows, retired |-> d.retired]
         /\ d.rows \in [Ids -> Row] /\ d.retired \subseteq Secrets
         /\ \A i \in Ids : d.rows[i] \in Row /\ d.rows[i].last \in Uses /\ d.rows[i].active \in BOOLEAN
                           /\ (i \in Rows(d) <=> d.rows[i].hash \in Secrets)
         /\ Rows(d) \subseteq Ids
BY Constants DEF Dbs, Row, Rows

\* The next id is the one after the last.
LEMMA NextIdIsFree ==
  ASSUME NEW d, NEW n \in 0..MaxTokens, Rows(d) = 1..n
  PROVE  Cardinality(Rows(d)) = n /\ NextId(d) = n + 1 /\ NextId(d) \notin Rows(d)
<1>1. n \in Nat /\ Cardinality(1..n) = n
  BY FS_Interval, Constants
<1>. QED BY <1>1 DEF NextId

\* What the cache holds of a secret: the active token that has it.
LEMMA HashIs ==
  ASSUME NEW d \in Dbs, Table(d), NEW s \in Secrets
  PROVE  /\ HashesOf(d)[s] \in Ids \cup {NoId}
         /\ \A i \in Ids : HashesOf(d)[s] = i <=> i \in Rows(d) /\ d.rows[i].hash = s /\ d.rows[i].active
         /\ HashesOf(d)[s] = NoId <=> ~Active(d, s)
<1>. DEFINE P(i) == d.rows[i].hash = s /\ d.rows[i].active
<1>1. CASE ~Active(d, s)
  <2>1. HashesOf(d)[s] = NoId
    BY <1>1 DEF HashesOf, Active
  <2>. QED BY <1>1, <2>1, Constants DEF Active
<1>2. CASE Active(d, s)
  <2>1. HashesOf(d)[s] = CHOOSE i \in Rows(d) : P(i)
    BY <1>2 DEF HashesOf, Active
  <2>2. HashesOf(d)[s] \in Rows(d) /\ P(HashesOf(d)[s])
    BY <1>2, <2>1 DEF Active
  <2>3. \A i \in Rows(d) : P(i) => i = HashesOf(d)[s]
    BY <2>2 DEF Table
  <2>. QED BY <1>2, <2>2, <2>3, Fields, Constants
<1>. QED BY <1>1, <1>2

\* A cache that says the same of every secret is the same.
LEMMA HashesAre ==
  ASSUME NEW d \in Dbs, Table(d), NEW h \in [Secrets -> Ids \cup {NoId}],
         \A s \in Secrets : IF h[s] = NoId THEN ~Active(d, s)
                            ELSE h[s] \in Rows(d) /\ d.rows[h[s]].hash = s /\ d.rows[h[s]].active
  PROVE  h = HashesOf(d)
<1>1. HashesOf(d) \in [Secrets -> Ids \cup {NoId}]
  <2>1. HashesOf(d) = [s \in Secrets |-> HashesOf(d)[s]]
    BY DEF HashesOf
  <2>. QED BY <2>1, HashIs
<1>2. \A s \in Secrets : h[s] = HashesOf(d)[s]
  BY HashIs
<1>. QED BY <1>1, <1>2

\* What putting a new secret in a row, or in the next, does to a table.
LEMMA PutRow ==
  ASSUME NEW d \in Dbs, Table(d), NEW i \in Ids, i \in Rows(d) \/ i = NextId(d),
         NEW s \in Secrets, ~Known(d, s)
  PROVE  /\ Put(d, i, s) \in Dbs /\ Table(Put(d, i, s))
         /\ Rows(Put(d, i, s)) = Rows(d) \cup {i}
         /\ Cardinality(Rows(Put(d, i, s))) =
              IF i \in Rows(d) THEN Cardinality(Rows(d)) ELSE Cardinality(Rows(d)) + 1
         /\ \A t \in Secrets : Known(Put(d, i, s), t) <=> Known(d, t) \/ t = s
         /\ \A j \in Ids \ {i} : Put(d, i, s).rows[j] = d.rows[j]
         /\ Put(d, i, s).rows[i] = New(s)
<1>. DEFINE e == Put(d, i, s)
<1>1. New(s) \in Row /\ New(s).hash = s /\ New(s).active /\ New(s).last = NoUse
  BY Constants DEF New, Row
<1>2. /\ e.rows = [d.rows EXCEPT ![i] = New(s)]
      /\ e.retired = IF i \in Rows(d) THEN d.retired \cup {d.rows[i].hash} ELSE d.retired
  BY DEF Put
<1>3. e.rows[i] = New(s) /\ \A j \in Ids \ {i} : e.rows[j] = d.rows[j]
  BY <1>2, Fields
<1>4. Rows(e) = Rows(d) \cup {i}
  BY <1>1, <1>3, Constants DEF Rows
<1>5. e.retired \subseteq Secrets
  BY <1>2, Fields
<1>6. e \in Dbs
  <2>1. e.rows \in [Ids -> Row]
    BY <1>1, <1>2, Fields
  <2>. QED BY <1>5, <2>1 DEF Put, Dbs, Row
<1>. HIDE DEF e
<1>7. PICK n \in 0..MaxTokens : Rows(d) = 1..n
  BY DEF Table
<1>8. /\ Cardinality(Rows(e)) = IF i \in Rows(d) THEN Cardinality(Rows(d)) ELSE Cardinality(Rows(d)) + 1
      /\ \E m \in 0..MaxTokens : Rows(e) = 1..m
  <2>1. CASE i \in Rows(d)
    <3>1. Rows(e) = Rows(d)
      BY <1>4, <2>1
    <3>. QED BY <1>7, <2>1, <3>1
  <2>2. CASE i \notin Rows(d)
    <3>1. i = n + 1 /\ Cardinality(Rows(d)) = n
      BY <1>7, <2>2, NextIdIsFree
    <3>2. n + 1 \in 0..MaxTokens /\ Rows(e) = 1..(n + 1)
      BY <1>4, <1>7, <3>1, Constants DEF Ids
    <3>3. Cardinality(Rows(e)) = n + 1
      BY <3>2, NextIdIsFree
    <3>. QED BY <2>2, <3>1, <3>2, <3>3
  <2>. QED BY <2>1, <2>2
<1>9. \A j \in Rows(d) : d.rows[j].hash # s
  BY DEF Known
<1>10. s \notin d.retired
  BY DEF Known
<1>11. Table(e)
  <2>1. \A j, k \in Rows(e) : e.rows[j].hash = e.rows[k].hash => j = k
    BY <1>1, <1>3, <1>4, <1>9, Fields DEF Table
  <2>2. \A j \in Rows(e) : e.rows[j].hash \notin e.retired
    BY <1>1, <1>2, <1>3, <1>4, <1>9, <1>10, Fields DEF Table
  <2>3. \A j \in Ids \ Rows(e) : e.rows[j] = NoRow
    BY <1>3, <1>4 DEF Table
  <2>4. \A j \in Ids : e.rows[j].last.by \in {NoSecret, e.rows[j].hash}
    BY <1>1, <1>3, Constants DEF Table
  <2>. QED BY <1>8, <2>1, <2>2, <2>3, <2>4 DEF Table
<1>12. ASSUME NEW t \in Secrets PROVE Known(e, t) <=> Known(d, t) \/ t = s
  BY <1>1, <1>2, <1>3, <1>4, Fields DEF Known
<1>. QED BY <1>3, <1>4, <1>6, <1>8, <1>11, <1>12 DEF e
\* The cache follows: the row's other secret leaves it, the new one enters.
LEMMA PutHashes ==
  ASSUME NEW d \in Dbs, Table(d), NEW i \in Ids, i \in Rows(d) \/ i = NextId(d),
         NEW s \in Secrets, ~Known(d, s)
  PROVE  HashesOf(Put(d, i, s)) =
           [[t \in Secrets |-> IF HashesOf(d)[t] = i THEN NoId ELSE HashesOf(d)[t]] EXCEPT ![s] = i]
<1>. DEFINE e == Put(d, i, s)
            h == [[t \in Secrets |-> IF HashesOf(d)[t] = i THEN NoId ELSE HashesOf(d)[t]] EXCEPT ![s] = i]
<1>1. /\ e \in Dbs /\ Table(e) /\ Rows(e) = Rows(d) \cup {i}
      /\ \A j \in Ids \ {i} : e.rows[j] = d.rows[j]
      /\ e.rows[i].hash = s /\ e.rows[i].active
  <2>1. New(s).hash = s /\ New(s).active
    BY DEF New
  <2>. HIDE DEF h
  <2>. QED BY <2>1, PutRow
<1>2. /\ h \in [Secrets -> Ids \cup {NoId}] /\ h[s] = i
      /\ \A t \in Secrets \ {s} : h[t] = IF HashesOf(d)[t] = i THEN NoId ELSE HashesOf(d)[t]
  BY HashIs
<1>. HIDE DEF e, h
<1>3. ASSUME NEW t \in Secrets
      PROVE  IF h[t] = NoId THEN ~Active(e, t)
             ELSE h[t] \in Rows(e) /\ e.rows[h[t]].hash = t /\ e.rows[h[t]].active
  <2>1. CASE t = s
    BY <1>1, <1>2, <2>1, Constants
  <2>2. CASE t # s /\ HashesOf(d)[t] \in {NoId, i}
    <3>1. h[t] = NoId
      BY <1>2, <2>2
    <3>2. \A j \in Ids \ {i} : ~(j \in Rows(d) /\ d.rows[j].hash = t /\ d.rows[j].active)
      BY <2>2, HashIs, Constants
    <3>. QED BY <1>1, <2>2, <3>1, <3>2, Fields DEF Active
  <2>3. CASE t # s /\ HashesOf(d)[t] \notin {NoId, i}
    <3>1. h[t] = HashesOf(d)[t] /\ h[t] \in Ids \ {i}
      BY <1>2, <2>3, HashIs
    <3>2. h[t] \in Rows(d) /\ d.rows[h[t]].hash = t /\ d.rows[h[t]].active
      BY <3>1, HashIs
    <3>. QED BY <1>1, <2>3, <3>1, <3>2, Constants
  <2>. QED BY <2>1, <2>2, <2>3
<1>4. h = HashesOf(e)
  BY <1>1, <1>2, <1>3, HashesAre
<1>. QED BY <1>4 DEF e, h

\* What disabling a row does to a table, and to the cache.
LEMMA DisableRow ==
  ASSUME NEW d \in Dbs, Table(d), NEW i \in Rows(d)
  PROVE  /\ Disable(d, i) \in Dbs /\ Table(Disable(d, i)) /\ Rows(Disable(d, i)) = Rows(d)
         /\ \A t \in Secrets : Known(Disable(d, i), t) <=> Known(d, t)
         /\ \A j \in Ids \ {i} : Disable(d, i).rows[j] = d.rows[j]
         /\ Disable(d, i).rows[i] = [d.rows[i] EXCEPT !.active = FALSE]
         /\ HashesOf(Disable(d, i)) =
              [t \in Secrets |-> IF HashesOf(d)[t] = i THEN NoId ELSE HashesOf(d)[t]]
<1>. DEFINE e == Disable(d, i)
            h == [t \in Secrets |-> IF HashesOf(d)[t] = i THEN NoId ELSE HashesOf(d)[t]]
<1>1. /\ e.rows = [d.rows EXCEPT ![i] = [d.rows[i] EXCEPT !.active = FALSE]]
      /\ e.retired = d.retired /\ i \in Ids
  BY Fields DEF Disable
<1>2. /\ e.rows[i] = [d.rows[i] EXCEPT !.active = FALSE]
      /\ \A j \in Ids \ {i} : e.rows[j] = d.rows[j]
  BY <1>1, Fields
<1>3. /\ e.rows[i] \in Row /\ e.rows[i].hash = d.rows[i].hash /\ ~e.rows[i].active
      /\ e.rows[i].last = d.rows[i].last
  <2>1. d.rows[i] \in Row
    BY <1>1, Fields
  <2>2. /\ [d.rows[i] EXCEPT !.active = FALSE] \in Row
        /\ [d.rows[i] EXCEPT !.active = FALSE].hash = d.rows[i].hash
        /\ [d.rows[i] EXCEPT !.active = FALSE].active = FALSE
        /\ [d.rows[i] EXCEPT !.active = FALSE].last = d.rows[i].last
    BY <2>1 DEF Row
  <2>. QED BY <1>2, <2>2
<1>4. e \in Dbs
  <2>1. e.rows \in [Ids -> Row] /\ e.retired \subseteq Secrets
    BY <1>1, <1>2, <1>3, Fields
  <2>. QED BY <2>1 DEF Disable, Dbs, Row
<1>. HIDE DEF e
<1>5. Rows(e) = Rows(d)
  BY <1>2, <1>3 DEF Rows
<1>6. Table(e)
  BY <1>1, <1>2, <1>3, <1>5, Fields DEF Table
<1>7. \A t \in Secrets : Known(e, t) <=> Known(d, t)
  BY <1>1, <1>2, <1>3, <1>5, Fields DEF Known
<1>8. h \in [Secrets -> Ids \cup {NoId}]
  BY HashIs
<1>9. ASSUME NEW t \in Secrets
      PROVE  IF h[t] = NoId THEN ~Active(e, t)
             ELSE h[t] \in Rows(e) /\ e.rows[h[t]].hash = t /\ e.rows[h[t]].active
  <2>1. CASE HashesOf(d)[t] \in {NoId, i}
    <3>2. h[t] = NoId
      BY <2>1
    <3>1. \A j \in Ids \ {i} : ~(j \in Rows(d) /\ d.rows[j].hash = t /\ d.rows[j].active)
      BY <2>1, HashIs, Constants
    <3>3. \A j \in Rows(e) : ~(e.rows[j].hash = t /\ e.rows[j].active)
      <4>1. ASSUME NEW j \in Rows(e), j # i
            PROVE  ~(e.rows[j].hash = t /\ e.rows[j].active)
        <5>1. j \in Rows(d) /\ j \in Ids \ {i}
          BY <1>5, <4>1, Fields
        <5>. QED BY <1>2, <3>1, <5>1
      <4>. QED BY <1>3, <4>1
    <3>. QED BY <3>2, <3>3 DEF Active
  <2>2. CASE HashesOf(d)[t] \notin {NoId, i}
    <3>1. h[t] = HashesOf(d)[t] /\ h[t] \in Ids \ {i}
      BY <2>2, HashIs
    <3>2. h[t] \in Rows(d) /\ d.rows[h[t]].hash = t /\ d.rows[h[t]].active
      BY <3>1, HashIs
    <3>. QED BY <1>2, <1>5, <3>1, <3>2, Constants
  <2>. QED BY <2>1, <2>2
<1>10. h = HashesOf(e)
  BY <1>4, <1>6, <1>8, <1>9, HashesAre
<1>. QED BY <1>2, <1>4, <1>5, <1>6, <1>7, <1>10 DEF e

\* Of two uses the later one is one of them.
LEMMA LaterUse ==
  ASSUME NEW a \in Uses, NEW b \in Uses
  PROVE  /\ Later(a, b) \in Uses /\ Later(a, b) \in {a, b}
         /\ a.t <= Later(a, b).t /\ b.t <= Later(a, b).t
BY Constants DEF Later, Uses, Times

\* A flush changes last uses only.
LEMMA TouchedTable ==
  ASSUME db \in Dbs, Table(db), flush.taken \in [Ids -> Uses],
         \A i \in Ids : flush.taken[i].by \in {NoSecret, db.rows[i].hash}
  PROVE  /\ Touched \in Dbs /\ Table(Touched) /\ Touched.retired = db.retired
         /\ Rows(Touched) = Rows(db) /\ HashesOf(Touched) = HashesOf(db)
         /\ \A i \in Ids : /\ Touched.rows[i].hash = db.rows[i].hash
                           /\ Touched.rows[i].active = db.rows[i].active
         /\ \A i \in Rows(db) : Touched.rows[i].last = Later(flush.taken[i], db.rows[i].last)
         /\ \A i \in Ids \ Rows(db) : Touched.rows[i] = NoRow
<1>1. /\ Touched.retired = db.retired
      /\ Touched.rows = [i \in Ids |->
           IF i \in Rows(db) THEN [db.rows[i] EXCEPT !.last = Later(flush.taken[i], @)] ELSE NoRow]
      /\ Touched = [rows |-> Touched.rows, retired |-> Touched.retired]
  <2>. DEFINE rows == [i \in Ids |->
           IF i \in Rows(db) THEN [db.rows[i] EXCEPT !.last = Later(flush.taken[i], @)] ELSE NoRow]
  <2>1. Touched = [db EXCEPT !.rows = rows]
    BY DEF Touched
  <2>. HIDE DEF rows
  <2>2. Touched = [rows |-> rows, retired |-> db.retired]
    BY <2>1, Fields
  <2>. QED BY <2>2 DEF rows
<1>2. ASSUME NEW i \in Rows(db)
      PROVE  /\ i \in Ids /\ Touched.rows[i] \in Row /\ Touched.rows[i].hash = db.rows[i].hash
             /\ Touched.rows[i].active = db.rows[i].active
             /\ Touched.rows[i].last = Later(flush.taken[i], db.rows[i].last)
             /\ Touched.rows[i].last.by \in {NoSecret, db.rows[i].hash}
  <2>1. i \in Ids /\ db.rows[i] \in Row /\ db.rows[i].last \in Uses /\ flush.taken[i] \in Uses
    BY Fields
  <2>2. /\ Later(flush.taken[i], db.rows[i].last) \in Uses
        /\ Later(flush.taken[i], db.rows[i].last) \in {flush.taken[i], db.rows[i].last}
    BY <2>1, LaterUse
  <2>3. Touched.rows[i] = [db.rows[i] EXCEPT !.last = Later(flush.taken[i], db.rows[i].last)]
    BY <1>1, <2>1
  <2>. QED BY <2>1, <2>2, <2>3 DEF Row, Table
<1>3. ASSUME NEW i \in Ids \ Rows(db)
      PROVE  Touched.rows[i] = NoRow /\ db.rows[i] = NoRow /\ Touched.rows[i] \in Row
  BY <1>1, Constants DEF Table
<1>4. Touched \in Dbs
  <2>1. Touched.rows \in [Ids -> Row] /\ Touched.retired \subseteq Secrets
    BY <1>1, <1>2, <1>3, Fields
  <2>. QED BY <1>1, <2>1 DEF Dbs, Row
<1>5. \A i \in Ids : Touched.rows[i].hash = db.rows[i].hash /\ Touched.rows[i].active = db.rows[i].active
  BY <1>2, <1>3
<1>6. Rows(Touched) = Rows(db)
  BY <1>5 DEF Rows
<1>7. Table(Touched)
  <2>1. \E n \in 0..MaxTokens : Rows(Touched) = 1..n
    BY <1>6 DEF Table
  <2>2. \A i, j \in Rows(Touched) : Touched.rows[i].hash = Touched.rows[j].hash => i = j
    <3>1. \A i, j \in Rows(db) : db.rows[i].hash = db.rows[j].hash => i = j
      BY DEF Table
    <3>2. \A i \in Rows(db) : Touched.rows[i].hash = db.rows[i].hash
      BY <1>2
    <3>. QED BY <1>6, <3>1, <3>2
  <2>3. \A i \in Rows(Touched) : Touched.rows[i].hash \notin Touched.retired
    <3>1. \A i \in Rows(db) : db.rows[i].hash \notin db.retired
      BY DEF Table
    <3>. QED BY <1>1, <1>2, <1>6, <3>1
  <2>4. \A i \in Ids \ Rows(Touched) : Touched.rows[i] = NoRow
    BY <1>3, <1>6
  <2>5. ASSUME NEW i \in Ids
        PROVE  Touched.rows[i].last.by \in {NoSecret, Touched.rows[i].hash}
    <3>1. CASE i \in Rows(db)
      BY <1>2, <3>1
    <3>2. CASE i \notin Rows(db)
      <4>1. Touched.rows[i] = NoRow
        BY <1>3, <3>2
      <4>2. NoRow.last.by = NoSecret
        BY Constants
      <4>. QED BY <4>1, <4>2
    <3>. QED BY <3>1, <3>2
  <2>. QED BY <2>1, <2>2, <2>3, <2>4, <2>5 DEF Table
<1>8. HashesOf(Touched) = HashesOf(db)
  <2>1. /\ HashesOf(db) \in [Secrets -> Ids \cup {NoId}]
        /\ \A s \in Secrets : IF HashesOf(db)[s] = NoId THEN ~Active(db, s)
             ELSE HashesOf(db)[s] \in Rows(db) /\ db.rows[HashesOf(db)[s]].hash = s /\ db.rows[HashesOf(db)[s]].active
    <3>1. HashesOf(db) = [s \in Secrets |-> HashesOf(db)[s]]
      BY DEF HashesOf
    <3>. QED BY <3>1, HashIs
  <2>2. \A s \in Secrets : IF HashesOf(db)[s] = NoId THEN ~Active(Touched, s)
             ELSE HashesOf(db)[s] \in Rows(Touched) /\ Touched.rows[HashesOf(db)[s]].hash = s
                  /\ Touched.rows[HashesOf(db)[s]].active
    BY <1>5, <1>6, <2>1, Fields DEF Active
  <2>. QED BY <1>4, <1>7, <2>1, <2>2, HashesAre
<1>. QED BY <1>1, <1>2, <1>3, <1>4, <1>5, <1>6, <1>7, <1>8
-----------------------------------------------------------------------------
(* The operations.                                                         *)

\* The table of now is one that may survive.
LEMMA Now ==
  ASSUME IInv
  PROVE  /\ db \in Dbs /\ Table(db) /\ Promised(db) /\ db \in survivable
         /\ now \in Nat /\ 0 <= now
BY DEF IInv, TypeOK, TableInv, Times

\* A store that is up to date has the cache right.
LEMMA FreshCache ==
  ASSUME TypeOK', TableInv', hashes' = HashesOf(db'), total' = Cardinality(Rows(db')),
         op'.at = "idle"
  PROVE  CacheInv'
<1>1. db' \in Dbs /\ Table(db') /\ Promised(db)'
  BY DEF TypeOK, TableInv, Table, Promised, Known, Active, Rows
<1>2. \A s \in Secrets : /\ HashesOf(db')[s] # NoId =>
                              HashesOf(db')[s] \in Rows(db') /\ db'.rows[HashesOf(db')[s]].hash = s
                         /\ ~Active(db', s) => HashesOf(db')[s] = NoId
  BY <1>1, HashIs
<1>3. \A s \in dead' : s \in Secrets /\ ~Active(db', s)
  BY <1>1 DEF TypeOK, Promised, Active, Rows
<1>4. ASSUME NEW v \in valid' PROVE HashesOf(db')[v[2]] = v[1]
  <2>1. v[1] \in Ids /\ v[2] \in Secrets
    BY DEF TypeOK
  <2>2. v[1] \in Rows(db') /\ db'.rows[v[1]].hash = v[2] /\ db'.rows[v[1]].active
    BY <1>1 DEF Promised, Rows
  <2>. QED BY <1>1, <2>1, <2>2, HashIs
<1>. QED BY <1>2, <1>3, <1>4 DEF CacheInv, HashesOf, Rows

\* An operation takes opMu.
LEMMA BeginStep ==
  ASSUME IInv, NEW kind \in {"create", "revoke", "regenerate"}, NEW id \in Ids,
         NEW s \in Secrets \cup {NoSecret}, BeginOp(kind, id, s),
         IF kind = "create" THEN id = NextId(db) ELSE id \in Rows(db),
         kind # "revoke" => Fresh(s)
  PROVE  IInv'
<1>1. /\ op' = [kind |-> kind, at |-> "commit", id |-> id, secret |-> s, old |-> db.rows[id].hash]
      /\ issued' = issued \cup ({s} \ {NoSecret}) /\ phase = "up" /\ op.at = "idle" /\ ~flush.on
      /\ db' = db /\ survivable' = survivable /\ hashes' = hashes /\ total' = total /\ used' = used
      /\ flush' = flush /\ phase' = phase /\ env' = env /\ now' = now
      /\ dead' = dead /\ valid' = valid /\ seen' = seen
  BY DEF BeginOp, OpMuFree, memory
<1>2. db.rows[id].hash \in Secrets \cup {NoSecret}
  BY Now, Fields DEF Row
<1>3. TypeOK'
  BY <1>1, <1>2 DEF IInv, TypeOK
<1>4. TableInv'
  BY <1>1 DEF IInv, TableInv, Table, Promised, Known, Active, Rows
<1>5. OpInv'
  <2>1. kind # "revoke" => s \in Secrets /\ s \in issued' /\ ~Known(db, s)
    BY <1>1, Now, Constants DEF Fresh, Promised
  <2>2. Pending'
    BY <1>1, <2>1 DEF Pending, Known, Rows, NextId
  <2>. QED BY <1>1, <2>1, <2>2 DEF OpInv
<1>6. ProcessInv'
  BY <1>1 DEF IInv, ProcessInv
<1>7. CacheInv' /\ UseInv'
  BY <1>1 DEF IInv, CacheInv, UseInv, Replacing, Latest, Rows, HashesOf
<1>. QED BY <1>3, <1>4, <1>5, <1>6, <1>7 DEF IInv

\* It fails.
LEMMA OpFailsStep ==
  ASSUME IInv, OpFails
  PROVE  IInv'
<1>1. /\ op' = NoOp /\ op.at = "commit"
      /\ db' = db /\ survivable' = survivable /\ hashes' = hashes /\ total' = total /\ used' = used
      /\ flush' = flush /\ phase' = phase /\ env' = env /\ now' = now
      /\ issued' = issued /\ dead' = dead /\ valid' = valid /\ seen' = seen
  BY DEF OpFails, memory, history
<1>2. NoOp.at = "idle" /\ TypeOK'
  BY <1>1 DEF IInv, TypeOK, NoOp
<1>3. TableInv'
  BY <1>1 DEF IInv, TableInv, Table, Promised, Known, Active, Rows
<1>4. OpInv' /\ ProcessInv'
  BY <1>1, <1>2 DEF IInv, OpInv, ProcessInv, Known, Rows, NextId
<1>5. CacheInv' /\ UseInv'
  BY <1>1, <1>2 DEF IInv, CacheInv, UseInv, Replacing, Latest, Rows, HashesOf
<1>. QED BY <1>2, <1>3, <1>4, <1>5 DEF IInv
\* What the commit leaves, in the terms of the lemmas on tables.
LEMMA NewTableIs ==
  ASSUME IInv, op.at = "commit"
  PROVE  NewTable = IF op.kind = "revoke" THEN Disable(db, op.id) ELSE Put(db, op.id, op.secret)
<1>1. /\ db \in Dbs /\ Table(db) /\ op.id \in Ids /\ Pending
      /\ op.kind \in {"create", "revoke", "regenerate"}
  BY Now DEF IInv, OpInv, TypeOK
<1>2. db = [rows |-> db.rows, retired |-> db.retired]
  BY <1>1, Fields
<1>3. CASE op.kind = "revoke"
  BY <1>2, <1>3 DEF NewTable, Disable
<1>4. CASE op.kind = "create"
  <2>1. op.id \notin Rows(db)
    BY <1>1, <1>4, NextIdIsFree DEF Pending, Table
  <2>. QED BY <1>2, <1>4, <2>1 DEF NewTable, Put, New
<1>5. CASE op.kind = "regenerate"
  <2>1. op.id \in Rows(db)
    BY <1>1, <1>5 DEF Pending
  <2>2. NewTable = [db EXCEPT !.rows[op.id] = New(op.secret), !.retired = @ \cup {db.rows[op.id].hash}]
    BY <1>5 DEF NewTable, New
  <2>3. NewTable = Put(db, op.id, op.secret)
    BY <1>2, <2>1, <2>2 DEF Put
  <2>. QED BY <1>5, <2>3
<1>. QED BY <1>1, <1>3, <1>4, <1>5

\* The commit of a revocation.
LEMMA CommitRevokeStep ==
  ASSUME IInv, Commit, op.kind = "revoke"
  PROVE  IInv'
<1>. DEFINE e == Disable(db, op.id)
<1>1. /\ db' = e /\ survivable' = {e} /\ op.at = "commit" /\ op' = [op EXCEPT !.at = "publish"]
      /\ hashes' = hashes /\ total' = total /\ used' = used /\ flush' = flush /\ phase' = phase
      /\ env' = env /\ now' = now /\ issued' = issued /\ dead' = dead /\ seen' = seen
      /\ valid' = {v \in valid : v[1] # op.id}
  BY NewTableIs DEF Commit, DurableCommit, memory
<1>2. /\ db \in Dbs /\ Table(db) /\ Promised(db) /\ Pending /\ phase = "up" /\ flush = NoFlush
      /\ op.id \in Rows(db) /\ op.id \in Ids
      /\ hashes = HashesOf(db) /\ total = Cardinality(Rows(db))
  BY <1>1, Now DEF IInv, OpInv, Pending, CacheInv, ProcessInv
<1>3. /\ e \in Dbs /\ Table(e) /\ Rows(e) = Rows(db)
      /\ \A t \in Secrets : Known(e, t) <=> Known(db, t)
      /\ \A j \in Ids \ {op.id} : e.rows[j] = db.rows[j]
      /\ e.rows[op.id] = [db.rows[op.id] EXCEPT !.active = FALSE]
      /\ HashesOf(e) = [t \in Secrets |-> IF hashes[t] = op.id THEN NoId ELSE hashes[t]]
  BY <1>2, DisableRow
<1>. HIDE DEF e
<1>4. /\ e.rows[op.id].hash = db.rows[op.id].hash /\ ~e.rows[op.id].active
      /\ e.rows[op.id].last = db.rows[op.id].last
      /\ db.rows[op.id].hash \in Secrets
      /\ \A i \in Ids : e.rows[i].hash = db.rows[i].hash /\ (e.rows[i].active => db.rows[i].active)
  BY <1>2, <1>3, Fields DEF Row
<1>5. /\ op'.at = "publish" /\ op'.kind = "revoke" /\ op'.id = op.id /\ op'.old = op.old
      /\ op'.secret = op.secret
  BY <1>1 DEF IInv, TypeOK
<1>6. TypeOK'
  BY <1>1, <1>3 DEF IInv, TypeOK
<1>7. Promised(db)'
  <2>1. \A s \in dead : s \in Secrets /\ Known(e, s) /\ ~Active(e, s)
    <3>1. dead \subseteq Secrets
      BY DEF IInv, TypeOK
    <3>2. Rows(db) \subseteq Ids
      BY <1>2, Fields
    <3>. QED BY <1>2, <1>3, <1>4, <3>1, <3>2 DEF Promised, Active
  <2>2. \A v \in valid' : v[1] \in Rows(e) /\ e.rows[v[1]].hash = v[2] /\ e.rows[v[1]].active
    BY <1>1, <1>2, <1>3, Fields DEF Promised
  <2>3. \A i \in Ids : e.rows[i].last.t <= now
    BY <1>2, <1>3, <1>4 DEF Promised
  <2>4. \A s \in Secrets : Known(e, s) => s \in issued \cup {Configured}
    BY <1>2, <1>3 DEF Promised
  <2>. QED BY <1>1, <2>1, <2>2, <2>3, <2>4 DEF Promised, Known, Active, Rows
<1>8. TableInv'
  BY <1>1, <1>3, <1>7 DEF TableInv, Table, Rows
<1>9. OpInv'
  <2>1. ~Active(e, op.old) /\ Known(e, op.old) /\ op.old = db.rows[op.id].hash
    <3>1. op.old = db.rows[op.id].hash
      BY <1>2 DEF Pending
    <3>2. \A j \in Rows(db) : e.rows[j].hash = op.old => j = op.id
      BY <1>2, <1>4, <3>1, Fields DEF Table
    <3>. QED BY <1>2, <1>3, <1>4, <3>1, <3>2 DEF Active, Known
  <2>2. Committed'
    BY <1>1, <1>3, <1>5, <1>2, <2>1 DEF Committed, Active, Known, Rows
  <2>. QED BY <1>1, <1>2, <1>5, <2>2 DEF IInv, OpInv
<1>10. ProcessInv'
  BY <1>1, <1>2 DEF ProcessInv, NoFlush
<1>11. CacheInv'
  <2>1. HashesOf(db)' = HashesOf(e) /\ Rows(db)' = Rows(e)
    BY <1>1 DEF HashesOf, Rows
  <2>2. Published' = HashesOf(e)
    BY <1>1, <1>3, <1>5 DEF Published, Without
  <2>3. ASSUME NEW s \in Secrets, hashes[s] # NoId
        PROVE  hashes[s] \in Rows(e) /\ e.rows[hashes[s]].hash = s
    <3>1. hashes[s] \in Rows(db) /\ db.rows[hashes[s]].hash = s
      BY <1>1, <1>2, <2>3 DEF IInv, CacheInv, Replacing
    <3>. QED BY <1>2, <1>3, <1>4, <3>1, Fields
  <2>. QED BY <1>1, <1>2, <1>3, <1>5, <2>1, <2>2, <2>3 DEF IInv, CacheInv, Replacing
<1>12. UseInv'
  <2>1. \A i \in Ids : e.rows[i].hash = db.rows[i].hash /\ e.rows[i].last = db.rows[i].last
    BY <1>2, <1>3, <1>4
  <2>. QED BY <1>1, <1>3, <1>5, <2>1 DEF IInv, UseInv, Replacing, Latest, Rows
<1>. QED BY <1>6, <1>8, <1>9, <1>10, <1>11, <1>12 DEF IInv

\* The commit of a new secret.
LEMMA CommitSecretStep ==
  ASSUME IInv, Commit, op.kind # "revoke"
  PROVE  IInv'
<1>. DEFINE e == Put(db, op.id, op.secret)
<1>1. /\ db' = e /\ survivable' = {e} /\ op.at = "commit" /\ op' = [op EXCEPT !.at = "publish"]
      /\ hashes' = hashes /\ total' = total /\ used' = used /\ flush' = flush /\ phase' = phase
      /\ env' = env /\ now' = now /\ issued' = issued /\ dead' = dead /\ seen' = seen
      /\ valid' = {v \in valid : v[1] # op.id}
  BY NewTableIs DEF Commit, DurableCommit, memory
<1>2. /\ db \in Dbs /\ Table(db) /\ Promised(db) /\ Pending /\ phase = "up" /\ flush = NoFlush
      /\ op.id \in Ids /\ op.secret \in Secrets /\ op.kind \in {"create", "regenerate"}
      /\ hashes = HashesOf(db) /\ total = Cardinality(Rows(db))
  BY <1>1, Now DEF IInv, OpInv, CacheInv, ProcessInv, TypeOK
<1>3. /\ op.secret \in issued /\ ~Known(db, op.secret) /\ op.old = db.rows[op.id].hash
      /\ IF op.kind = "create" THEN op.id = NextId(db) /\ op.id \notin Rows(db) ELSE op.id \in Rows(db)
  BY <1>2, NextIdIsFree DEF Pending, Table
<1>4. /\ e \in Dbs /\ Table(e) /\ Rows(e) = Rows(db) \cup {op.id}
      /\ Cardinality(Rows(e)) = IF op.kind = "create" THEN total + 1 ELSE total
      /\ \A t \in Secrets : Known(e, t) <=> Known(db, t) \/ t = op.secret
      /\ \A j \in Ids \ {op.id} : e.rows[j] = db.rows[j]
      /\ e.rows[op.id] = New(op.secret)
      /\ HashesOf(e) = [[t \in Secrets |-> IF hashes[t] = op.id THEN NoId ELSE hashes[t]]
                          EXCEPT ![op.secret] = op.id]
  <2>. HIDE DEF e
  <2>1. op.id \in Rows(db) \/ op.id = NextId(db)
    BY <1>3
  <2>2. HashesOf(e) = [[t \in Secrets |-> IF HashesOf(db)[t] = op.id THEN NoId ELSE HashesOf(db)[t]]
                          EXCEPT ![op.secret] = op.id]
    BY <1>2, <1>3, <2>1, PutHashes DEF e
  <2>3. /\ e \in Dbs /\ Table(e) /\ Rows(e) = Rows(db) \cup {op.id}
        /\ Cardinality(Rows(e)) = IF op.id \in Rows(db) THEN Cardinality(Rows(db)) ELSE Cardinality(Rows(db)) + 1
        /\ \A t \in Secrets : Known(e, t) <=> Known(db, t) \/ t = op.secret
        /\ \A j \in Ids \ {op.id} : e.rows[j] = db.rows[j]
        /\ e.rows[op.id] = New(op.secret)
    BY <1>2, <1>3, <2>1, PutRow DEF e
  <2>. QED BY <1>2, <1>3, <2>2, <2>3
<1>. HIDE DEF e
<1>5. /\ e.rows[op.id].hash = op.secret /\ e.rows[op.id].active /\ e.rows[op.id].last = NoUse
      /\ NoUse.t = 0
  BY <1>4, Constants DEF New
<1>6. /\ op'.at = "publish" /\ op'.kind = op.kind /\ op'.id = op.id /\ op'.old = op.old
      /\ op'.secret = op.secret
  BY <1>1 DEF IInv, TypeOK
<1>7. TypeOK'
  BY <1>1, <1>4 DEF IInv, TypeOK
<1>8. Promised(db)'
  <2>1. \A s \in dead : s \in Secrets /\ Known(e, s) /\ ~Active(e, s)
    BY <1>2, <1>3, <1>4, <1>5, Fields DEF IInv, TypeOK, Promised, Active
  <2>2. \A v \in valid' : v[1] \in Rows(e) /\ e.rows[v[1]].hash = v[2] /\ e.rows[v[1]].active
    BY <1>1, <1>2, <1>4, Fields DEF Promised
  <2>3. \A i \in Ids : e.rows[i].last.t <= now
    BY <1>2, <1>4, <1>5, Now DEF Promised
  <2>4. \A s \in Secrets : Known(e, s) => s \in issued \cup {Configured}
    BY <1>2, <1>3, <1>4 DEF Promised
  <2>. QED BY <1>1, <2>1, <2>2, <2>3, <2>4 DEF Promised, Known, Active, Rows
<1>9. TableInv'
  BY <1>1, <1>4, <1>8 DEF TableInv, Table, Rows
<1>10. OpInv'
  <2>1. ASSUME op.old # NoSecret PROVE Known(e, op.old) /\ ~Active(e, op.old)
    <3>1. op.id \in Rows(db) /\ op.old \in Secrets
      BY <1>2, <1>3, <2>1 DEF IInv, TypeOK, Rows
    <3>2. Known(db, op.old)
      BY <1>3, <3>1 DEF Known
    <3>. QED BY <1>2, <1>3, <1>4, <1>5, <3>1, <3>2, Fields DEF Table, Active
  <2>2. op.kind = "create" => used[op.id] = NoUse
    BY <1>2, <1>3 DEF IInv, UseInv
  <2>3. Committed'
    BY <1>1, <1>4, <1>6, <2>1, <2>2 DEF Committed, Active, Known, Rows, New
  <2>. QED BY <1>1, <1>2, <1>6, <2>3 DEF IInv, OpInv
<1>11. ProcessInv'
  BY <1>1, <1>2 DEF ProcessInv, NoFlush
<1>12. CacheInv'
  <2>1. HashesOf(db)' = HashesOf(e) /\ Rows(db)' = Rows(e)
    BY <1>1 DEF HashesOf, Rows
  <2>2. Published' = HashesOf(e)
    BY <1>1, <1>2, <1>4, <1>6 DEF Published, Without
  <2>3. ASSUME NEW s \in Secrets, hashes[s] # NoId
        PROVE  /\ hashes[s] \in Rows(e)
               /\ Replacing(hashes[s])' \/ e.rows[hashes[s]].hash = s
               /\ ~(op.kind = "create" /\ op.id = hashes[s])
    <3>1. hashes[s] \in Rows(db) /\ db.rows[hashes[s]].hash = s
      BY <1>1, <1>2, <2>3 DEF IInv, CacheInv, Replacing
    <3>. QED BY <1>1, <1>2, <1>3, <1>4, <1>6, <3>1, Fields DEF Replacing
  <2>. QED BY <1>1, <1>2, <1>4, <1>6, <2>1, <2>2, <2>3 DEF IInv, CacheInv, Replacing
<1>13. UseInv'
  <2>1. ASSUME NEW i \in Ids \ {op.id}
        PROVE  e.rows[i] = db.rows[i] /\ (i \in Rows(e) <=> i \in Rows(db))
    BY <1>4
  <2>2. flush.taken[op.id] = NoUse /\ NoUse.by = NoSecret
    BY <1>2, Constants DEF NoFlush
  <2>3. op.kind = "create" => db.rows[op.id].last = NoUse /\ used[op.id] = NoUse
    BY <1>2, <1>3, Constants DEF IInv, UseInv, Table
  <2>. QED BY <1>1, <1>2, <1>4, <1>5, <1>6, <2>1, <2>2, <2>3 DEF IInv, UseInv, Replacing, Latest, Rows
<1>. QED BY <1>7, <1>9, <1>10, <1>11, <1>12, <1>13 DEF IInv
\* The publication, which finds one table that may survive.
LEMMA PublishStep ==
  ASSUME IInv, Publish
  PROVE  IInv'
<1>1. /\ op.at = "publish" /\ op' = NoOp
      /\ hashes' = Published /\ used' = Unused
      /\ total' = IF op.kind = "create" THEN total + 1 ELSE total
      /\ valid' = IF op.kind = "revoke" THEN valid ELSE valid \cup {<<op.id, op.secret>>}
      /\ dead' = dead \cup ({op.old} \ {NoSecret})
      /\ seen' = IF op.kind = "revoke" THEN seen ELSE [seen EXCEPT ![op.id] = 0]
      /\ db' = db /\ survivable' = survivable /\ flush' = flush /\ phase' = phase /\ env' = env
      /\ now' = now /\ issued' = issued
  BY DEF Publish, Returned
<1>2. /\ db \in Dbs /\ Table(db) /\ Promised(db) /\ Committed
      /\ phase = "up" /\ op.id \in Ids /\ op.kind \in {"create", "revoke", "regenerate"}
      /\ op.kind # "revoke" => op.secret \in Secrets
      /\ flush = NoFlush /\ now \in Nat /\ 0 <= now
      /\ Published = HashesOf(db) /\ total' = Cardinality(Rows(db))
  BY <1>1, Now DEF IInv, OpInv, CacheInv, ProcessInv, TypeOK
<1>3. NoOp.at = "idle" /\ NoUse \in Uses /\ NoUse.t = 0 /\ NoUse.by = NoSecret
  BY Constants DEF NoOp
<1>4. TypeOK'
  <2>1. HashesOf(db) \in [Secrets -> Ids \cup {NoId}]
    <3>1. HashesOf(db) = [s \in Secrets |-> HashesOf(db)[s]]
      BY DEF HashesOf
    <3>. QED BY <1>2, <3>1, HashIs
  <2>2. Cardinality(Rows(db)) \in 0..MaxTokens
    <3>1. PICK n \in 0..MaxTokens : Rows(db) = 1..n
      BY <1>2 DEF Table
    <3>. QED BY <3>1, NextIdIsFree
  <2>3. used' \in [Ids -> Uses]
    BY <1>1, <1>3 DEF Unused, IInv, TypeOK
  <2>4. seen' \in [Ids -> Times]
    <3>1. 0 \in Times /\ seen \in [Ids -> Times]
      BY Constants DEF IInv, TypeOK, Times
    <3>. QED BY <1>1, <3>1
  <2>5. valid' \subseteq Ids \X Secrets /\ dead' \subseteq Secrets
    BY <1>1, <1>2 DEF IInv, TypeOK
  <2>. QED BY <1>1, <1>2, <2>1, <2>2, <2>3, <2>4, <2>5 DEF IInv, TypeOK, NoOp
<1>5. Promised(db)'
  <2>1. \A s \in dead' : Known(db, s) /\ ~Active(db, s)
    BY <1>1, <1>2 DEF Promised, Committed
  <2>2. op.kind # "revoke" => db.rows[op.id].hash = op.secret /\ db.rows[op.id].active
    BY <1>2 DEF Committed
  <2>3. \A v \in valid' : v[1] \in Rows(db) /\ db.rows[v[1]].hash = v[2] /\ db.rows[v[1]].active
    BY <1>1, <1>2, <2>2 DEF Promised, Committed
  <2>. QED BY <1>1, <1>2, <2>1, <2>3 DEF Promised, Known, Active, Rows
<1>6. TableInv'
  <2>1. survivable' = {db'}
    BY <1>1, <1>2 DEF Committed
  <2>. QED BY <1>1, <1>2, <1>5, <2>1 DEF TableInv, Table, Rows
<1>7. OpInv' /\ ProcessInv'
  BY <1>1, <1>2, <1>3 DEF OpInv, ProcessInv, NoFlush
<1>8. CacheInv'
  BY <1>1, <1>2, <1>3, <1>4, <1>6, FreshCache
<1>9. UseInv'
  <2>1. ASSUME NEW i \in Ids
        PROVE  /\ used'[i].t <= now
               /\ used'[i].by \in {NoSecret, db.rows[i].hash} /\ Latest(i)' = seen'[i]
               /\ i \notin Rows(db) => used'[i] = NoUse
    <3>1. CASE i = op.id /\ op.kind # "revoke"
      <4>1. used'[i] = NoUse
        BY <1>1, <1>2, <3>1 DEF Unused, Committed, IInv, TypeOK
      <4>2. seen'[i] = 0
        BY <1>1, <3>1 DEF IInv, TypeOK
      <4>3. db.rows[i].last = NoUse /\ flush.taken[i] = NoUse
        BY <1>2, <3>1 DEF Committed, NoFlush
      <4>. QED BY <1>1, <1>2, <1>3, <4>1, <4>2, <4>3 DEF Latest, Later
    <3>2. CASE i # op.id \/ op.kind = "revoke"
      <4>1. used'[i] = used[i] /\ seen'[i] = seen[i] /\ ~Replacing(i)
        BY <1>1, <3>2 DEF Unused, Replacing, IInv, TypeOK
      <4>. QED BY <1>1, <4>1 DEF IInv, UseInv, Latest
    <3>. QED BY <3>1, <3>2
  <2>2. ASSUME NEW i \in Ids
        PROVE  flush.taken[i] = NoUse
    BY <1>2 DEF NoFlush
  <2>. QED BY <1>1, <1>2, <1>3, <2>1, <2>2 DEF UseInv, Rows
<1>. QED BY <1>4, <1>6, <1>7, <1>8, <1>9 DEF IInv

-----------------------------------------------------------------------------
(* The uses.                                                               *)

\* A use is recorded under the token of the secret.
LEMMA VerifyStep ==
  ASSUME IInv, NEW s \in Secrets, Verify(s)
  PROVE  IInv'
<1>. PICK id \in Ids \cup {NoId} : id = hashes[s]
  BY DEF IInv, TypeOK
<1>1. /\ phase = "up" /\ id # NoId /\ id \in Rows(db) /\ id \in Ids
      /\ used' = [used EXCEPT ![id] = [t |-> now, by |-> s]]
      /\ seen' = [seen EXCEPT ![id] = now]
      /\ Replacing(id) \/ db.rows[id].hash = s
      /\ ~(op.at = "publish" /\ op.kind = "create" /\ op.id = id)
  BY DEF Verify, IInv, CacheInv, Rows
<1>2. /\ db' = db /\ survivable' = survivable /\ hashes' = hashes /\ total' = total /\ op' = op
      /\ flush' = flush /\ phase' = phase /\ env' = env /\ now' = now
      /\ issued' = issued /\ dead' = dead /\ valid' = valid
  BY DEF Verify
<1>3. [t |-> now, by |-> s] \in Uses
  BY DEF Uses, IInv, TypeOK
<1>4. TypeOK'
  BY <1>1, <1>2, <1>3 DEF IInv, TypeOK
<1>5. TableInv'
  BY <1>2 DEF IInv, TableInv, Table, Promised, Known, Active, Rows
<1>6. OpInv'
  <2>1. op.at = "publish" /\ op.kind = "create" => used'[op.id] = used[op.id]
    BY <1>1 DEF IInv, TypeOK
  <2>. QED BY <1>2, <2>1 DEF IInv, OpInv, Pending, Committed, Known, Active, Rows, NextId
<1>7. ProcessInv'
  BY <1>1, <1>2 DEF IInv, ProcessInv, Known, Rows, NextId
<1>8. CacheInv'
  BY <1>2 DEF IInv, CacheInv, Replacing, Published, Without, HashesOf, Rows
<1>9. UseInv'
  <2>1. /\ used'[id] = [t |-> now, by |-> s] /\ seen'[id] = now
        /\ \A i \in Ids \ {id} : used'[i] = used[i] /\ seen'[i] = seen[i]
    BY <1>1 DEF IInv, TypeOK
  <2>2. Latest(id)' = now
    <3>1. /\ db.rows[id].last \in Uses /\ flush.taken[id] \in Uses
          /\ db.rows[id].last.t <= now /\ flush.taken[id].t <= now
      BY <1>1, Now, Fields DEF IInv, UseInv, Promised, TypeOK
    <3>2. Later(db.rows[id].last, flush.taken[id]) \in Uses
          /\ Later(db.rows[id].last, flush.taken[id]).t <= now
      BY <3>1, LaterUse
    <3>. QED BY <1>2, <2>1, <3>2, Now DEF Latest, Later, Uses, Times
  <2>3. ASSUME NEW i \in Ids \ {id}
        PROVE  Latest(i)' = Latest(i)
    BY <1>2, <2>1 DEF Latest
  <2>. QED BY <1>1, <1>2, <2>1, <2>2, <2>3, Now DEF IInv, UseInv, Replacing, Rows
<1>. QED BY <1>4, <1>5, <1>6, <1>7, <1>8, <1>9 DEF IInv

\* The clock.
LEMMA ClockStep ==
  ASSUME IInv, Clock
  PROVE  IInv'
<1>1. /\ now' = now + 1 /\ now \in Nat /\ now' \in Times
      /\ db' = db /\ survivable' = survivable /\ hashes' = hashes /\ total' = total /\ used' = used
      /\ op' = op /\ flush' = flush /\ phase' = phase /\ env' = env
      /\ issued' = issued /\ dead' = dead /\ valid' = valid /\ seen' = seen
  BY Constants DEF Clock, memory, history, IInv, TypeOK, Times
<1>2. TypeOK'
  BY <1>1 DEF IInv, TypeOK
<1>3. TableInv'
  <2>1. ASSUME NEW d \in survivable, NEW i \in Ids
        PROVE  d.rows[i].last.t <= now + 1
    <3>1. d \in Dbs /\ d.rows[i].last.t <= now
      BY DEF IInv, TypeOK, TableInv, Promised
    <3>2. d.rows[i].last.t \in Nat
      BY <3>1, Fields DEF Uses, Times
    <3>. QED BY <1>1, <3>1, <3>2
  <2>. QED BY <1>1, <2>1 DEF IInv, TableInv, Table, Promised, Known, Active, Rows
<1>4. OpInv' /\ ProcessInv'
  BY <1>1 DEF IInv, OpInv, ProcessInv, Pending, Committed, Known, Active, Rows, NextId
<1>5. CacheInv'
  BY <1>1 DEF IInv, CacheInv, Replacing, Published, Without, HashesOf, Rows
<1>6. UseInv'
  <2>1. ASSUME NEW i \in Ids
        PROVE  used[i].t <= now + 1 /\ flush.taken[i].t <= now + 1
    <3>1. used[i] \in Uses /\ flush.taken[i] \in Uses /\ used[i].t <= now /\ flush.taken[i].t <= now
      BY DEF IInv, UseInv, TypeOK
    <3>. QED BY <1>1, <3>1 DEF Uses, Times
  <2>. QED BY <1>1, <2>1 DEF IInv, UseInv, Replacing, Latest, Rows
<1>. QED BY <1>2, <1>3, <1>4, <1>5, <1>6 DEF IInv
\* A flush takes the times.
LEMMA FlushStep ==
  ASSUME IInv, Flush
  PROVE  IInv'
<1>1. /\ phase = "up" /\ op.at = "idle" /\ ~flush.on
      /\ flush' = [on |-> TRUE, taken |-> used] /\ used' = NoFlush.taken
      /\ db' = db /\ survivable' = survivable /\ hashes' = hashes /\ total' = total
      /\ op' = op /\ phase' = phase /\ env' = env /\ now' = now
      /\ issued' = issued /\ dead' = dead /\ valid' = valid /\ seen' = seen
  BY DEF Flush, TakeUsed, OpMuFree, history
<1>2. TypeOK'
  BY <1>1, Constants DEF IInv, TypeOK
<1>3. TableInv'
  BY <1>1 DEF IInv, TableInv, Table, Promised, Known, Active, Rows
<1>4. OpInv' /\ ProcessInv'
  BY <1>1, Constants DEF IInv, OpInv, ProcessInv, NoOp, Known, Rows, NextId
<1>5. CacheInv'
  BY <1>1 DEF IInv, CacheInv, Replacing, HashesOf, Rows
<1>6. UseInv'
  <2>1. ASSUME NEW i \in Ids
        PROVE  /\ flush.taken[i] = NoUse /\ used'[i] = NoUse /\ flush'.taken[i] = used[i]
               /\ ~Replacing(i) /\ ~Replacing(i)'
    BY <1>1 DEF NoFlush, Replacing, IInv, ProcessInv
  <2>2. ASSUME NEW i \in Ids
        PROVE  Latest(i)' = Latest(i)
    <3>1. used[i] \in Uses /\ db.rows[i].last \in Uses /\ NoUse \in Uses /\ NoUse.t = 0
      BY Now, Fields, Constants DEF IInv, TypeOK
    <3>. QED BY <1>1, <2>1, <3>1 DEF Latest, Later, Uses, Times
  <2>. QED BY <1>1, <2>1, <2>2, Now, Constants DEF IInv, UseInv, Rows
<1>. QED BY <1>2, <1>3, <1>4, <1>5, <1>6 DEF IInv

\* A flush that commits.
LEMMA FlushCommitsStep ==
  ASSUME IInv, FlushCommits
  PROVE  IInv'
<1>1. /\ flush.on /\ phase = "up" /\ op.at = "idle" /\ flush' = NoFlush
      /\ db' = Touched /\ survivable' = survivable \cup {Touched}
      /\ hashes' = hashes /\ total' = total /\ used' = used
      /\ op' = op /\ phase' = phase /\ env' = env /\ now' = now
      /\ issued' = issued /\ dead' = dead /\ valid' = valid /\ seen' = seen
  BY DEF FlushCommits, PlainCommit, memory, history, IInv, OpInv, ProcessInv, TypeOK
<1>2. /\ db' \in Dbs /\ Table(db') /\ db'.retired = db.retired
      /\ Rows(db') = Rows(db) /\ HashesOf(db') = HashesOf(db)
      /\ \A i \in Ids : db'.rows[i].hash = db.rows[i].hash /\ db'.rows[i].active = db.rows[i].active
      /\ \A i \in Rows(db) : db'.rows[i].last = Later(flush.taken[i], db.rows[i].last)
      /\ \A i \in Ids \ Rows(db) : db'.rows[i] = NoRow
  <2>1. /\ flush.taken \in [Ids -> Uses] /\ db \in Dbs /\ Table(db)
        /\ \A i \in Ids : flush.taken[i].by \in {NoSecret, db.rows[i].hash}
    BY Now DEF IInv, TypeOK, UseInv
  <2>. HIDE DEF Touched
  <2>. QED BY <1>1, <2>1, TouchedTable
<1>3. TypeOK'
  BY <1>1, <1>2, Constants DEF IInv, TypeOK, NoFlush
<1>4. ASSUME NEW i \in Ids
      PROVE  db'.rows[i].last.t <= now /\ Latest(i)' = Latest(i)
  <2>1. /\ used[i] \in Uses /\ db.rows[i].last \in Uses /\ flush.taken[i] \in Uses
        /\ NoUse.t = 0 /\ NoFlush.taken[i] = NoUse /\ NoRow.last = NoUse
        /\ db.rows[i].last.t <= now /\ flush.taken[i].t <= now /\ now \in Nat
    BY Now, Fields, Constants DEF IInv, TypeOK, Promised, UseInv, NoFlush
  <2>2. CASE i \in Rows(db)
    <3>1. db'.rows[i].last = Later(flush.taken[i], db.rows[i].last)
      BY <1>2, <2>2
    <3>. QED BY <1>1, <2>1, <3>1 DEF Latest, Later, Uses, Times
  <2>3. CASE i \notin Rows(db)
    <3>1. db'.rows[i].last = NoUse /\ db.rows[i].last = NoUse /\ flush.taken[i] = NoUse
      BY <1>2, <2>1, <2>3, Now DEF Table, IInv, UseInv
    <3>. QED BY <1>1, <2>1, <3>1 DEF Latest, Later
  <2>. QED BY <2>2, <2>3
<1>5. Promised(db)'
  <2>1. \A s \in Secrets : (Known(db', s) <=> Known(db, s)) /\ (Active(db', s) <=> Active(db, s))
    BY <1>2, Now, Fields DEF Known, Active
  <2>2. \A s \in Secrets : Known(db', s) => s \in issued \cup {Configured}
    BY <2>1, Now DEF Promised
  <2>3. \A s \in dead : Known(db', s) /\ ~Active(db', s)
    <3>1. dead \subseteq Secrets
      BY DEF IInv, TypeOK
    <3>. QED BY <2>1, <3>1, Now DEF Promised
  <2>4. \A v \in valid : v[1] \in Rows(db') /\ db'.rows[v[1]].hash = v[2] /\ db'.rows[v[1]].active
    <3>1. ASSUME NEW v \in valid
          PROVE  v[1] \in Rows(db) /\ db.rows[v[1]].hash = v[2] /\ db.rows[v[1]].active /\ v[1] \in Ids
      BY Now, Fields DEF Promised
    <3>. QED BY <1>2, <3>1
  <2>5. \A i \in Ids : db'.rows[i].last.t <= now
    BY <1>4
  <2>6. /\ \A s : Known(db, s)' <=> Known(db', s)
        /\ \A s : Active(db, s)' <=> Active(db', s)
        /\ Rows(db)' = Rows(db')
    BY DEF Known, Active, Rows
  <2>. QED BY <1>1, <2>2, <2>3, <2>4, <2>5, <2>6 DEF Promised
<1>6. TableInv'
  BY <1>1, <1>2, <1>5 DEF IInv, TableInv, Table, Promised, Known, Active, Rows
<1>7. OpInv' /\ ProcessInv'
  BY <1>1, Constants DEF IInv, OpInv, ProcessInv, NoOp, NoFlush
<1>8. CacheInv'
  <2>1. HashesOf(db)' = HashesOf(db) /\ Rows(db)' = Rows(db)
    <3>1. HashesOf(db)' = HashesOf(db') /\ Rows(db)' = Rows(db')
      BY DEF HashesOf, Rows
    <3>. QED BY <1>2, <3>1
  <2>2. \A s \in Secrets : hashes[s] # NoId => hashes[s] \in Rows(db) /\ db'.rows[hashes[s]].hash = s
    BY <1>1, <1>2, Now, Fields DEF IInv, CacheInv, Replacing
  <2>. QED BY <1>1, <2>1, <2>2 DEF IInv, CacheInv
<1>9. UseInv'
  <2>1. \A i \in Ids : flush'.taken[i] = NoUse
    BY <1>1 DEF NoFlush
  <2>. QED BY <1>1, <1>2, <1>4, <2>1, Now, Constants DEF IInv, UseInv, Replacing, Rows
<1>. QED BY <1>3, <1>6, <1>7, <1>8, <1>9 DEF IInv

\* A flush that fails, and gives the times back.
LEMMA FlushFailsStep ==
  ASSUME IInv, FlushFails
  PROVE  IInv'
<1>1. /\ flush.on /\ phase = "up" /\ op.at = "idle" /\ flush' = NoFlush
      /\ used' = [i \in Ids |-> Later(flush.taken[i], used[i])]
      /\ db' = db /\ survivable' = survivable /\ hashes' = hashes /\ total' = total
      /\ op' = op /\ phase' = phase /\ env' = env /\ now' = now
      /\ issued' = issued /\ dead' = dead /\ valid' = valid /\ seen' = seen
  BY DEF FlushFails, history, IInv, OpInv, ProcessInv, TypeOK
<1>2. ASSUME NEW i \in Ids
      PROVE  /\ used[i] \in Uses /\ flush.taken[i] \in Uses /\ used'[i] = Later(flush.taken[i], used[i])
             /\ used'[i] \in Uses /\ used'[i] \in {flush.taken[i], used[i]}
             /\ flush'.taken[i] = NoUse
  BY <1>1, LaterUse DEF IInv, TypeOK, NoFlush
<1>3. TypeOK'
  <2>1. used' \in [Ids -> Uses]
    BY <1>1, <1>2
  <2>. QED BY <1>1, <2>1, Constants DEF IInv, TypeOK, NoFlush
<1>4. TableInv'
  BY <1>1 DEF IInv, TableInv, Table, Promised, Known, Active, Rows
<1>5. OpInv' /\ ProcessInv'
  BY <1>1, Constants DEF IInv, OpInv, ProcessInv, NoOp, NoFlush
<1>6. CacheInv'
  BY <1>1 DEF IInv, CacheInv, Replacing, HashesOf, Rows
<1>7. UseInv'
  <2>1. ASSUME NEW i \in Ids
        PROVE  Latest(i)' = Latest(i)
    <3>1. db.rows[i].last \in Uses /\ NoUse.t = 0
      BY Now, Fields, Constants
    <3>. QED BY <1>1, <1>2, <3>1 DEF Latest, Later, Uses, Times
  <2>2. ASSUME NEW i \in Ids
        PROVE  ~Replacing(i) /\ ~Replacing(i)'
    BY <1>1 DEF Replacing
  <2>. QED BY <1>1, <1>2, <2>1, <2>2, Now, Constants DEF IInv, UseInv, Rows
<1>. QED BY <1>3, <1>4, <1>5, <1>6, <1>7 DEF IInv

-----------------------------------------------------------------------------
(* The process.                                                            *)

\* A start reads the table.
LEMMA StartStep ==
  ASSUME IInv, NEW e \in {NoSecret, Configured} \cup issued, Start(e)
  PROVE  IInv'
<1>1. /\ phase = "down" /\ env' = e /\ phase' = IF e = NoSecret THEN "up" ELSE "seeding"
      /\ e = NoSecret \/ Known(db, e) \/ NextId(db) \in Ids
      /\ hashes' = HashesOf(db) /\ total' = Cardinality(Rows(db)) /\ used' = NoFlush.taken
      /\ db' = db /\ survivable' = survivable /\ op' = op /\ flush' = flush /\ now' = now
      /\ issued' = issued /\ dead' = dead /\ valid' = valid /\ seen' = seen
  BY DEF Start, history
<1>2. op.at = "idle" /\ ~flush.on /\ e \in Secrets \cup {NoSecret}
  BY <1>1, Constants DEF IInv, OpInv, ProcessInv, TypeOK
<1>3. TypeOK'
  <2>1. HashesOf(db) \in [Secrets -> Ids \cup {NoId}]
    <3>1. HashesOf(db) = [s \in Secrets |-> HashesOf(db)[s]]
      BY DEF HashesOf
    <3>. QED BY <3>1, Now, HashIs
  <2>2. Cardinality(Rows(db)) \in 0..MaxTokens
    <3>1. PICK n \in 0..MaxTokens : Rows(db) = 1..n
      BY Now DEF Table
    <3>. QED BY <3>1, NextIdIsFree
  <2>. QED BY <1>1, <1>2, <2>1, <2>2, Constants DEF IInv, TypeOK
<1>4. TableInv'
  BY <1>1 DEF IInv, TableInv, Table, Promised, Known, Active, Rows
<1>5. OpInv' /\ ProcessInv'
  BY <1>1, <1>2, Constants DEF IInv, OpInv, ProcessInv, NoOp, Known, Rows, NextId
<1>6. CacheInv'
  BY <1>1, <1>2, <1>3, <1>4, FreshCache
<1>7. UseInv'
  BY <1>1, <1>2 DEF IInv, UseInv, ProcessInv, Replacing, Latest, Rows
<1>. QED BY <1>3, <1>4, <1>5, <1>6, <1>7 DEF IInv
\* The import of a configured token that the table does not know.
LEMMA ImportStep ==
  ASSUME IInv, Seed, ~Known(db, env)
  PROVE  IInv'
<1>. DEFINE id == NextId(db)
            e  == Put(db, id, env)
<1>1. /\ phase = "seeding" /\ phase' = "up" /\ total' = total + 1
      /\ db' = [db EXCEPT !.rows[id] = [hash |-> env, active |-> TRUE, last |-> NoUse]]
      /\ survivable' = survivable \cup {db'}
      /\ hashes' = [hashes EXCEPT ![env] = id]
      /\ used' = used /\ op' = op /\ flush' = flush /\ env' = env /\ now' = now
      /\ issued' = issued /\ dead' = dead /\ valid' = valid /\ seen' = seen
  BY DEF Seed, SeedAs, PlainCommit, history
<1>2. /\ db \in Dbs /\ Table(db) /\ Promised(db) /\ op.at = "idle" /\ ~flush.on
      /\ env \in Secrets /\ env \in issued \cup {Configured} /\ id \in Ids /\ id \notin Rows(db)
      /\ hashes = HashesOf(db) /\ total = Cardinality(Rows(db))
  <2>1. env \in issued \cup {Configured} /\ env \in Secrets
    BY <1>1, Constants DEF IInv, ProcessInv, TypeOK
  <2>. QED BY <1>1, <2>1, Now, NextIdIsFree DEF IInv, OpInv, ProcessInv, CacheInv, Table
<1>3. db' = e
  <2>1. db = [rows |-> db.rows, retired |-> db.retired]
    BY <1>2, Fields
  <2>2. db' = [db EXCEPT !.rows[id] = New(env)]
    BY <1>1 DEF New
  <2>. HIDE DEF id
  <2>3. db' = [rows |-> [db.rows EXCEPT ![id] = New(env)], retired |-> db.retired]
    BY <2>1, <2>2
  <2>. QED BY <1>2, <2>3 DEF Put
<1>4. /\ e \in Dbs /\ Table(e) /\ Rows(e) = Rows(db) \cup {id}
      /\ Cardinality(Rows(e)) = Cardinality(Rows(db)) + 1
      /\ \A t \in Secrets : Known(e, t) <=> Known(db, t) \/ t = env
      /\ \A j \in Ids \ {id} : e.rows[j] = db.rows[j]
      /\ e.rows[id] = New(env)
  <2>. HIDE DEF id
  <2>. QED BY <1>1, <1>2, PutRow DEF id
<1>5. HashesOf(e) = [hashes EXCEPT ![env] = id]
  <2>1. HashesOf(e) = [[t \in Secrets |-> IF HashesOf(db)[t] = id THEN NoId ELSE HashesOf(db)[t]]
                          EXCEPT ![env] = id]
    <3>. HIDE DEF id
    <3>. QED BY <1>2, PutHashes DEF id
  <2>2. \A t \in Secrets : HashesOf(db)[t] # id
    BY <1>2, HashIs
  <2>. QED BY <1>2, <2>1, <2>2 DEF IInv, TypeOK<1>. HIDE DEF id, e
<1>6. PICK i \in Ids \ Rows(db) : i = id
  BY <1>2
<1>7. /\ db' \in Dbs /\ Table(db') /\ Rows(db') = Rows(db) \cup {i}
      /\ \A j \in Ids \ {i} : db'.rows[j] = db.rows[j]
      /\ db'.rows[i] = New(env) /\ db.rows[i] = NoRow
      /\ \A t \in Secrets : Known(db', t) <=> Known(db, t) \/ t = env
      /\ hashes' = HashesOf(db') /\ total' = Cardinality(Rows(db'))
  <2>1. db.rows[i] = NoRow
    BY <1>2, <1>6 DEF Table
  <2>. QED BY <1>1, <1>2, <1>3, <1>4, <1>5, <1>6, <2>1
<1>8. /\ db'.rows[i].hash = env /\ db'.rows[i].last = NoUse /\ db.rows[i].last = NoUse
      /\ NoUse.t = 0 /\ NoUse.by = NoSecret
  BY <1>7, Constants DEF New
<1>9. TypeOK'
  <2>1. PICK n \in 0..MaxTokens : Rows(db') = 1..n
    BY <1>7 DEF Table
  <2>2. total' \in 0..MaxTokens
    BY <1>7, <2>1, NextIdIsFree
  <2>3. hashes' \in [Secrets -> Ids \cup {NoId}]
    BY <1>1, <1>2, <1>6 DEF IInv, TypeOK
  <2>. QED BY <1>1, <1>7, <2>2, <2>3 DEF IInv, TypeOK
<1>10. Promised(db)'
  <2>1. \A s \in dead : Known(db', s) /\ ~Active(db', s)
    <3>1. \A s \in dead : s \in Secrets /\ Known(db, s) /\ ~Active(db, s) /\ s # env
      BY <1>2 DEF Promised, IInv, TypeOK, Seed
    <3>. QED BY <1>2, <1>7, <1>8, <3>1, Fields DEF Active
  <2>2. \A v \in valid : v[1] \in Rows(db') /\ db'.rows[v[1]].hash = v[2] /\ db'.rows[v[1]].active
    BY <1>2, <1>7, Fields DEF Promised
  <2>3. \A j \in Ids : db'.rows[j].last.t <= now
    BY <1>2, <1>7, <1>8, Now DEF Promised
  <2>4. \A s \in Secrets : Known(db', s) => s \in issued \cup {Configured}
    BY <1>2, <1>7 DEF Promised
  <2>. QED BY <1>1, <2>1, <2>2, <2>3, <2>4 DEF Promised, Known, Active, Rows
<1>11. TableInv'
  <2>1. ASSUME NEW d \in survivable
        PROVE  Table(d) /\ Promised(d)'
    BY <1>1 DEF IInv, TableInv, Table, Promised, Known, Active, Rows
  <2>2. db' \in survivable'
    BY <1>1
  <2>3. ASSUME NEW d \in survivable'
        PROVE  Table(d) /\ Promised(d)'
    <3>1. CASE d = db'
      BY <1>7, <1>10, <3>1 DEF Promised, Known, Active, Rows
    <3>2. CASE d \in survivable
      BY <2>1, <3>2
    <3>. QED BY <1>1, <3>1, <3>2
  <2>. QED BY <2>2, <2>3 DEF TableInv, Table, Rows
<1>12. OpInv' /\ ProcessInv'
  BY <1>1, <1>2 DEF IInv, OpInv, ProcessInv, NoOp
<1>13. CacheInv'
  BY <1>1, <1>2, <1>7, <1>9, <1>11, FreshCache
<1>14. UseInv'
  <2>1. used[i] = NoUse /\ flush.taken[i] = NoUse
    BY <1>6 DEF IInv, UseInv
  <2>2. ASSUME NEW j \in Ids
        PROVE  /\ db'.rows[j].last = db.rows[j].last /\ ~Replacing(j) /\ ~Replacing(j)'
               /\ flush.taken[j].by \in {NoSecret, db'.rows[j].hash}
               /\ used[j].by \in {NoSecret, db'.rows[j].hash}
    <3>1. ~Replacing(j) /\ ~Replacing(j)'
      BY <1>1, <1>2 DEF Replacing
    <3>2. CASE j = i
      BY <1>8, <2>1, <3>1, <3>2
    <3>3. CASE j # i
      BY <1>7, <3>1, <3>3 DEF IInv, UseInv
    <3>. QED BY <3>2, <3>3
  <2>. QED BY <1>1, <1>7, <2>2 DEF IInv, UseInv, Latest, Rows
<1>. QED BY <1>9, <1>11, <1>12, <1>13, <1>14 DEF IInv

\* The import of one that it knows, revoked and replaced ones included.
LEMMA KnownSeedStep ==
  ASSUME IInv, Seed, Known(db, env)
  PROVE  IInv'
<1>1. /\ phase = "seeding" /\ phase' = "up" /\ total' = total /\ hashes' = hashes
      /\ db' = db /\ survivable' = survivable
      /\ used' = used /\ op' = op /\ flush' = flush /\ env' = env /\ now' = now
      /\ issued' = issued /\ dead' = dead /\ valid' = valid /\ seen' = seen
  BY DEF Seed, SeedAs, history
<1>2. TypeOK' /\ TableInv'
  <2>1. TypeOK'
    BY <1>1 DEF IInv, TypeOK
  <2>2. TableInv'
    BY <1>1 DEF IInv, TableInv, Table, Promised, Known, Active, Rows
  <2>. QED BY <2>1, <2>2
<1>3. OpInv' /\ ProcessInv'
  BY <1>1 DEF IInv, OpInv, ProcessInv, NoOp
<1>4. CacheInv' /\ UseInv'
  BY <1>1 DEF IInv, OpInv, CacheInv, UseInv, Replacing, Latest, HashesOf, Rows
<1>. QED BY <1>2, <1>3, <1>4 DEF IInv

\* The process ends, with the table that survives.
LEMMA StopStep ==
  ASSUME IInv, NEW d \in survivable, Stop(d), db' = d, survivable' \in {survivable, {d}}
  PROVE  IInv'
<1>1. /\ phase' = "down" /\ env' = NoSecret /\ hashes' = [s \in Secrets |-> NoId] /\ total' = 0
      /\ used' = NoFlush.taken /\ op' = NoOp /\ flush' = NoFlush /\ seen' = LastUses(d)
      /\ now' = now /\ issued' = issued /\ dead' = dead /\ valid' = valid
  BY DEF Stop
<1>2. /\ d \in Dbs /\ Table(d) /\ Promised(d)
      /\ \A i \in Ids : d.rows[i].last \in Uses /\ d.rows[i].last.t <= now
  BY Fields DEF IInv, TypeOK, TableInv, Promised
<1>3. TypeOK'
  BY <1>1, <1>2, Constants DEF IInv, TypeOK, NoFlush, NoOp, LastUses, Uses
<1>4. TableInv'
  BY <1>1, <1>2 DEF IInv, TableInv, Table, Promised, Known, Active, Rows
<1>5. OpInv' /\ ProcessInv' /\ CacheInv'
  BY <1>1, Constants DEF OpInv, ProcessInv, CacheInv, NoOp, NoFlush, IInv, TypeOK
<1>6. UseInv'
  <2>1. ASSUME NEW i \in Ids
        PROVE  /\ used'[i] = NoUse /\ flush'.taken[i] = NoUse /\ seen'[i] = d.rows[i].last.t
               /\ ~Replacing(i)'
    BY <1>1 DEF NoFlush, LastUses, Replacing, NoOp
  <2>2. ASSUME NEW i \in Ids
        PROVE  Latest(i)' = seen'[i]
    BY <1>2, <2>1, Constants DEF Latest, Later, Uses, Times
  <2>. QED BY <1>1, <2>1, <2>2, Now, Constants DEF UseInv
<1>. QED BY <1>3, <1>4, <1>5, <1>6 DEF IInv

-----------------------------------------------------------------------------
(* Theorems.                                                               *)

\* The invariant holds throughout.
THEOREM Invariance == Spec => []IInv
<1>1. Init => IInv
  <2>. SUFFICES ASSUME Init PROVE IInv
    OBVIOUS
  <2>1. EmptyDb.rows = [i \in Ids |-> NoRow] /\ EmptyDb.retired = {} /\ Rows(EmptyDb) = {}
    BY Constants DEF EmptyDb, Rows
  <2>2. EmptyDb \in Dbs
    BY <2>1, Constants DEF EmptyDb, Dbs, Row
  <2>3. 1 \in Times /\ 0 \in Times /\ 0 \in 0..MaxTokens /\ 1..0 = {}
    BY Constants DEF Times
  <2>4. TypeOK
    BY <2>2, <2>3, Constants DEF Init, TypeOK, NoOp, NoFlush
  <2>5. TableInv
    <3>1. Table(EmptyDb)
      <4>1. Rows(EmptyDb) = 1..0
        BY <2>1, <2>3
      <4>. QED BY <2>1, <2>3, <4>1, Constants DEF Table
    <3>2. Promised(EmptyDb)
      BY <2>1, Constants DEF Init, Promised, Known
    <3>. QED BY <3>1, <3>2 DEF Init, TableInv
  <2>6. OpInv /\ ProcessInv
    BY Constants DEF Init, OpInv, ProcessInv, NoOp, NoFlush
  <2>7. CacheInv
    BY <2>1 DEF Init, CacheInv, NoOp
  <2>8. UseInv
    BY <2>1, Constants DEF Init, UseInv, Replacing, NoOp, NoFlush, Latest, Later
  <2>. QED BY <2>4, <2>5, <2>6, <2>7, <2>8 DEF IInv
<1>2. IInv /\ [Next]_vars => IInv'
  <2>. SUFFICES ASSUME IInv, [Next]_vars PROVE IInv'
    OBVIOUS
  <2>1. ASSUME NEW s \in Secrets, Create(s) PROVE IInv'
    BY <2>1, BeginStep DEF Create
  <2>2. ASSUME NEW i \in Ids, Revoke(i) PROVE IInv'
    BY <2>2, BeginStep DEF Revoke
  <2>3. ASSUME NEW i \in Ids, NEW s \in Secrets, Regenerate(i, s) PROVE IInv'
    BY <2>3, BeginStep DEF Regenerate
  <2>4. CASE Crash
    BY <2>4, StopStep, Now DEF Crash
  <2>5. CASE PowerLoss
    BY <2>5, StopStep DEF PowerLoss
  <2>6. CASE UNCHANGED vars
    <3>. USE <2>6 DEF vars, memory, history, IInv
    <3>1. TypeOK'
      BY DEF TypeOK
    <3>2. TableInv'
      BY DEF TableInv, Table, Promised, Known, Active, Rows
    <3>3. OpInv' /\ ProcessInv'
      BY DEF OpInv, Pending, Committed, ProcessInv, Known, Active, Rows, NextId
    <3>4. CacheInv'
      <4>1. /\ HashesOf(db)' = HashesOf(db) /\ Rows(db)' = Rows(db) /\ Published' = Published
            /\ \A i : Replacing(i)' <=> Replacing(i)
        BY DEF Published, Without, HashesOf, Rows, Replacing
      <4>. QED BY <4>1 DEF CacheInv
    <3>5. UseInv'
      BY DEF UseInv, Replacing, Latest, Rows
    <3>. QED BY <3>1, <3>2, <3>3, <3>4, <3>5
  <2>. QED BY <2>1, <2>2, <2>3, <2>4, <2>5, <2>6, CommitRevokeStep, CommitSecretStep, OpFailsStep,
              PublishStep, VerifyStep, ClockStep, FlushStep, FlushCommitsStep, FlushFailsStep,
              StartStep, ImportStep, KnownSeedStep DEF Next
<1>. QED BY <1>1, <1>2, PTL DEF Spec

\* Every variable keeps its type, and no token is counted twice.
THEOREM TypeCorrect == Spec => []TypeOK
<1>1. IInv => TypeOK
  BY DEF IInv
<1>. QED BY <1>1, Invariance, PTL

\* Outside a change, the cache that authenticates is the table.
THEOREM CacheAgrees == Spec => []CacheIsTable
<1>1. IInv => CacheIsTable
  BY DEF IInv, CacheInv, CacheIsTable
<1>. QED BY <1>1, Invariance, PTL

\* A secret that a returned change replaced never authenticates again.
THEOREM ReplacedNeverReturns == Spec => []ReplacedStaysOut
<1>1. IInv => ReplacedStaysOut
  BY DEF IInv, CacheInv, ReplacedStaysOut
<1>. QED BY <1>1, Invariance, PTL

\* A secret that was handed out works until its token changes.
THEOREM HandedOutStays == Spec => []HandedOutWorks
<1>1. IInv => HandedOutWorks
  BY DEF IInv, CacheInv, HandedOutWorks
<1>. QED BY <1>1, Invariance, PTL

\* The last use shown is the last there was, of the secret the token has.
THEOREM LastUseStays == Spec => []LastUseIsTrue
<1>1. IInv => LastUseIsTrue
  <2>. SUFFICES ASSUME IInv, NEW i \in Ids
                PROVE  /\ db.rows[i].last.by \in {NoSecret, db.rows[i].hash}
                       /\ OpMuFree => used[i].by \in {NoSecret, db.rows[i].hash}
                       /\ phase = "up" /\ OpMuFree => Later(db.rows[i].last, used[i]).t = seen[i]
    BY DEF LastUseIsTrue
  <2>1. db.rows[i].last.by \in {NoSecret, db.rows[i].hash}
    BY Now DEF Table
  <2>2. ASSUME OpMuFree
        PROVE  /\ used[i].by \in {NoSecret, db.rows[i].hash}
               /\ Later(db.rows[i].last, used[i]).t = seen[i]
    <3>1. ~Replacing(i) /\ flush.taken[i] = NoUse
      BY <2>2 DEF OpMuFree, Replacing, IInv, ProcessInv, NoFlush
    <3>2. /\ used[i].by \in {NoSecret, db.rows[i].hash}
          /\ Later(Later(db.rows[i].last, NoUse), used[i]).t = seen[i]
      BY <3>1 DEF IInv, UseInv, Latest
    <3>3. db.rows[i].last \in Uses /\ used[i] \in Uses /\ NoUse.t = 0
      BY Now, Fields, Constants DEF IInv, TypeOK
    <3>. QED BY <3>2, <3>3 DEF Later, Uses, Times
  <2>. QED BY <2>1, <2>2
<1>. QED BY <1>1, Invariance, PTL
=============================================================================
