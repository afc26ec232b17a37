----------------------------- MODULE TokenStore -----------------------------
(***************************************************************************)
(* The OTLP bearer tokens (src/internal/auth/tokens.go over                *)
(* src/internal/storage/tokens.go): the table api_tokens, the cache of     *)
(* active hashes that Verify reads without the database, the last-used     *)
(* times collected in memory, the import of the configured token at start, *)
(* crashes of the process, and losses of power, after which SQLite may     *)
(* have lost the commits that were not synced.                             *)
(*                                                                         *)
(* A secret stands for its hash.  Names, groups and hints, which decide    *)
(* nothing here, are left out.                                             *)
(***************************************************************************)
EXTENDS Naturals, FiniteSets

CONSTANTS
  Secrets,      \* the plaintexts newSecret may draw, and configured ones
  Configured,   \* a secret an operator may import that was not generated
  NoSecret,     \* the empty string
  MaxTokens,    \* bound: rows of api_tokens
  MaxNow        \* bound: the wall clock

ASSUME TokenAssumption ==
  Configured \in Secrets /\ NoSecret \notin Secrets /\ MaxTokens \in Nat /\ MaxNow \in Nat \ {0}

Ids   == 1..MaxTokens
NoId  == 0
Times == 0..MaxNow

\* A last-used time with the secret it was recorded under (history).
NoUse == [t |-> 0, by |-> NoSecret]
Uses  == [t : Times, by : Secrets \cup {NoSecret}]

\* A row of api_tokens; one without a hash does not exist.
NoRow == [hash |-> NoSecret, active |-> FALSE, last |-> NoUse]

VARIABLES
  db,          \* [rows, retired]: api_tokens and api_token_retired_hashes
  survivable,  \* the states of db a loss of power may leave
  hashes,      \* TokenStore.hashes: a secret's token, or NoId
  total,       \* TokenStore.total
  used,        \* TokenStore.used
  op,          \* the Create, Revoke or Regenerate that holds opMu; op.old is
               \* the secret it replaces (history)
  flush,       \* the Flush that holds opMu: [on, taken]
  phase,       \* the process: "down", "seeding", "up"
  env,         \* the token configured for this process
  now,
  issued,      \* history: secrets drawn so far
  dead,        \* history: secrets a returned Revoke or Regenerate replaced
  valid,       \* history: <<id, secret>> a returned Create or Regenerate gave
  seen         \* history: the last use this process must not forget

memory  == <<hashes, total, used>>
history == <<issued, dead, valid, seen>>
vars    == <<db, survivable, memory, op, flush, phase, env, now, history>>

NoOp == [kind |-> "none", at |-> "idle", id |-> NoId, secret |-> NoSecret, old |-> NoSecret]
NoFlush == [on |-> FALSE, taken |-> [i \in Ids |-> NoUse]]

Rows(d)     == {i \in Ids : d.rows[i].hash # NoSecret}
HashesOf(d) == [s \in Secrets |->
                 IF \E i \in Rows(d) : d.rows[i].hash = s /\ d.rows[i].active
                   THEN CHOOSE i \in Rows(d) : d.rows[i].hash = s /\ d.rows[i].active
                   ELSE NoId]
NextId(d)   == Cardinality(Rows(d)) + 1
Later(a, b) == IF a.t > b.t THEN a ELSE b

EmptyDb == [rows |-> [i \in Ids |-> NoRow], retired |-> {}]

Init ==
  /\ db = EmptyDb /\ survivable = {EmptyDb}
  /\ hashes = [s \in Secrets |-> NoId] /\ total = 0 /\ used = NoFlush.taken
  /\ op = NoOp /\ flush = NoFlush
  /\ phase = "down" /\ env = NoSecret /\ now = 1
  /\ issued = {} /\ dead = {} /\ valid = {} /\ seen = [i \in Ids |-> 0]

\* A commit the pool's connections make (synchronous=NORMAL), and one of
\* durableTx, which is on disk, with all before it, once it returns.
PlainCommit(d)   == db' = d /\ survivable' = survivable \cup {d}
DurableCommit(d) == db' = d /\ survivable' = {d}

OpMuFree == op.at = "idle" /\ ~flush.on

-----------------------------------------------------------------------------
(* Create, Revoke, Regenerate: a durable change of the table under opMu,   *)
(* then its publication in the cache.                                      *)

BeginOp(kind, id, s) ==
  /\ phase = "up" /\ OpMuFree
  /\ op' = [kind |-> kind, at |-> "commit", id |-> id, secret |-> s, old |-> db.rows[id].hash]
  /\ issued' = issued \cup ({s} \ {NoSecret})
  /\ UNCHANGED <<db, survivable, memory, flush, phase, env, now, dead, valid, seen>>

Fresh(s) == s \in Secrets \ (issued \cup {Configured})

Create(s)         == Fresh(s) /\ NextId(db) \in Ids /\ BeginOp("create", NextId(db), s)
Revoke(id)        == id \in Rows(db) /\ BeginOp("revoke", id, NoSecret)
Regenerate(id, s) == id \in Rows(db) /\ Fresh(s) /\ BeginOp("regenerate", id, s)

\* The table after the operation (CreateToken, RevokeToken, RegenerateToken).
NewTable ==
  LET fresh == [hash |-> op.secret, active |-> TRUE, last |-> NoUse]
  IN  CASE op.kind = "create"     -> [db EXCEPT !.rows[op.id] = fresh]
        [] op.kind = "revoke"     -> [db EXCEPT !.rows[op.id].active = FALSE]
        [] op.kind = "regenerate" -> [db EXCEPT !.rows[op.id] = fresh,
                                                !.retired = @ \cup {db.rows[op.id].hash}]

\* (The mutant uses a pooled transaction.)
CommitPlain ==
  /\ op.at = "commit"
  /\ PlainCommit(NewTable)
  /\ op' = [op EXCEPT !.at = "publish"]
  /\ valid' = {v \in valid : v[1] # op.id}
  /\ UNCHANGED <<memory, flush, phase, env, now, issued, dead, seen>>

Commit ==
  /\ op.at = "commit"
  /\ DurableCommit(NewTable)
  /\ op' = [op EXCEPT !.at = "publish"]
  /\ valid' = {v \in valid : v[1] # op.id}
  /\ UNCHANGED <<memory, flush, phase, env, now, issued, dead, seen>>

\* The transaction fails or the request is cancelled before its commit.
OpFails ==
  /\ op.at = "commit"
  /\ op' = NoOp
  /\ UNCHANGED <<db, survivable, memory, flush, phase, env, now, history>>

\* removeHash
Without(id) == [s \in Secrets |-> IF hashes[s] = id THEN NoId ELSE hashes[s]]

\* (The mutant leaves the replaced hash in the cache.)
Returned(newHashes, newUsed) ==
  /\ op.at = "publish"
  /\ hashes' = newHashes /\ used' = newUsed
  /\ total' = IF op.kind = "create" THEN total + 1 ELSE total
  /\ op' = NoOp
  /\ valid' = IF op.kind = "revoke" THEN valid ELSE valid \cup {<<op.id, op.secret>>}
  /\ dead' = dead \cup ({op.old} \ {NoSecret})
  /\ seen' = IF op.kind = "revoke" THEN seen ELSE [seen EXCEPT ![op.id] = 0]
  /\ UNCHANGED <<db, survivable, flush, phase, env, now, issued>>

Published == IF op.kind = "revoke" THEN Without(op.id)
                                   ELSE [Without(op.id) EXCEPT ![op.secret] = op.id]
Unused    == IF op.kind = "regenerate" THEN [used EXCEPT ![op.id] = NoUse] ELSE used

PublishKeepsHash == Returned(IF op.kind = "revoke" THEN hashes ELSE [hashes EXCEPT ![op.secret] = op.id], Unused)
Publish          == Returned(Published, Unused)

-----------------------------------------------------------------------------
(* Verify, and the flush of the times it collects.                         *)

Verify(s) ==
  /\ phase = "up" /\ hashes[s] # NoId
  /\ used' = [used EXCEPT ![hashes[s]] = [t |-> now, by |-> s]]
  /\ seen' = [seen EXCEPT ![hashes[s]] = now]
  /\ UNCHANGED <<db, survivable, hashes, total, op, flush, phase, env, now, issued, dead, valid>>

Clock ==
  /\ now < MaxNow /\ now' = now + 1
  /\ UNCHANGED <<db, survivable, memory, op, flush, phase, env, history>>

TakeUsed(free) ==
  /\ phase = "up" /\ free /\ used # NoFlush.taken
  /\ flush' = [on |-> TRUE, taken |-> used]
  /\ used' = NoFlush.taken
  /\ UNCHANGED <<db, survivable, hashes, total, op, phase, env, now, history>>

Flush == TakeUsed(OpMuFree)

\* TouchTokens: UPDATE ... SET last_used_at = MAX(COALESCE(last_used_at, 0), ?)
Touched ==
  [db EXCEPT !.rows = [i \in Ids |->
     IF i \in Rows(db) THEN [db.rows[i] EXCEPT !.last = Later(flush.taken[i], @)] ELSE NoRow]]

FlushCommits ==
  /\ flush.on /\ flush' = NoFlush
  /\ PlainCommit(Touched)
  /\ UNCHANGED <<memory, op, phase, env, now, history>>

\* The times go back unless a newer use has come.  (The mutant drops them.)
FlushFailsDropping ==
  /\ flush.on /\ flush' = NoFlush
  /\ UNCHANGED <<db, survivable, memory, op, phase, env, now, history>>

FlushFails ==
  /\ flush.on /\ flush' = NoFlush
  /\ used' = [i \in Ids |-> Later(flush.taken[i], used[i])]
  /\ UNCHANGED <<db, survivable, hashes, total, op, phase, env, now, history>>

-----------------------------------------------------------------------------
(* The process.                                                            *)

Known(d, s) == s \in d.retired \/ \E i \in Rows(d) : d.rows[i].hash = s

\* NewTokenStore: Reload.
Start(e) ==
  /\ phase = "down"
  /\ e = NoSecret \/ Known(db, e) \/ NextId(db) \in Ids
  /\ env' = e
  /\ phase' = IF e = NoSecret THEN "up" ELSE "seeding"
  /\ hashes' = HashesOf(db) /\ total' = Cardinality(Rows(db)) /\ used' = NoFlush.taken
  /\ UNCHANGED <<db, survivable, op, flush, now, history>>

\* (The first mutant does not look at the retired hashes, the second counts
\* a known token again.)
SeedAs(known, counted) ==
  /\ phase = "seeding" /\ phase' = "up"
  /\ total' = IF counted THEN total + 1 ELSE total
  /\ IF known
       THEN UNCHANGED <<db, survivable, hashes>>
       ELSE /\ PlainCommit([db EXCEPT !.rows[NextId(db)] =
                              [hash |-> env, active |-> TRUE, last |-> NoUse]])
            /\ hashes' = [hashes EXCEPT ![env] = NextId(db)]
  /\ UNCHANGED <<used, op, flush, env, now, history>>

SeedForgetful ==
  LET known == \E i \in Rows(db) : db.rows[i].hash = env
  IN  NextId(db) \in Ids /\ SeedAs(known, ~known)
SeedCountsAgain == SeedAs(Known(db, env), TRUE)
Seed            == SeedAs(Known(db, env), ~Known(db, env))

LastUses(d) == [i \in Ids |-> d.rows[i].last.t]

Stop(d) ==
  /\ phase' = "down" /\ env' = NoSecret
  /\ hashes' = [s \in Secrets |-> NoId] /\ total' = 0 /\ used' = NoFlush.taken
  /\ op' = NoOp /\ flush' = NoFlush
  /\ seen' = LastUses(d)
  /\ UNCHANGED <<now, issued, dead, valid>>

Crash ==
  /\ phase # "down"
  /\ Stop(db)
  /\ UNCHANGED <<db, survivable>>

PowerLoss ==
  \E d \in survivable :
    /\ Stop(d)
    /\ db' = d /\ survivable' = {d}

Next ==
  \/ \E s \in Secrets : Create(s) \/ Verify(s)
  \/ \E i \in Ids : Revoke(i) \/ \E s \in Secrets : Regenerate(i, s)
  \/ Commit \/ OpFails \/ Publish
  \/ Flush \/ FlushCommits \/ FlushFails \/ Clock
  \/ \E e \in {NoSecret, Configured} \cup issued : Start(e)
  \/ Seed \/ Crash \/ PowerLoss

Spec == Init /\ [][Next]_vars

-----------------------------------------------------------------------------
(* Properties.                                                             *)

Dbs == [rows : [Ids -> [hash : Secrets \cup {NoSecret}, active : BOOLEAN, last : Uses]],
        retired : SUBSET Secrets]

\* Every variable keeps its type; the store counts no token twice.
TypeOK ==
  /\ db \in Dbs /\ survivable \subseteq Dbs
  /\ hashes \in [Secrets -> Ids \cup {NoId}] /\ total \in 0..MaxTokens
  /\ used \in [Ids -> Uses]
  /\ op \in [kind : {"none", "create", "revoke", "regenerate"}, at : {"idle", "commit", "publish"},
             id : Ids \cup {NoId}, secret : Secrets \cup {NoSecret}, old : Secrets \cup {NoSecret}]
  /\ flush \in [on : BOOLEAN, taken : [Ids -> Uses]]
  /\ phase \in {"down", "seeding", "up"} /\ env \in Secrets \cup {NoSecret} /\ now \in Times
  /\ issued \subseteq Secrets /\ dead \subseteq Secrets /\ valid \subseteq Ids \X Secrets
  /\ seen \in [Ids -> Times]

\* Unless a change is between its commit and its publication, the cache that
\* authenticates is the table ("updated after every committed change").
CacheIsTable ==
  phase = "up" /\ op.at # "publish" =>
    hashes = HashesOf(db) /\ total = Cardinality(Rows(db))

\* A secret that was revoked or regenerated away never authenticates again:
\* not after a crash, a loss of power, or a start that has it configured ("a
\* revocation or regeneration in the UI survives restarts").
ReplacedStaysOut ==
  phase # "down" => \A s \in dead : hashes[s] = NoId

\* A secret that was shown to the user works from then on, until a change of
\* its token commits ("a key handed out cannot vanish in a crash").
HandedOutWorks ==
  phase = "up" => \A v \in valid : hashes[v[2]] = v[1]

\* The tokens page shows the last use of every token, through flushes that
\* fail and uses that come while one is under way; and it is a use of the
\* secret that the token has: one recorded under the secret that a Regenerate
\* replaced is neither stored nor shown.
LastUseIsTrue ==
  \A i \in Ids :
    /\ db.rows[i].last.by \in {NoSecret, db.rows[i].hash}
    /\ OpMuFree => used[i].by \in {NoSecret, db.rows[i].hash}
    /\ phase = "up" /\ OpMuFree => Later(db.rows[i].last, used[i]).t = seen[i]
=============================================================================
