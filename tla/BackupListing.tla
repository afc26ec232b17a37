--------------------------- MODULE BackupListing ---------------------------
(***************************************************************************)
(* The cached list of stored backups (Backups and refresh in               *)
(* src/internal/backup/backup.go): page requests share one listing of the  *)
(* bucket at a time, which outlives the request that started it, and a     *)
(* finished listing is reused until it expires or a backup succeeds.       *)
(*                                                                         *)
(* Backups are numbered in the order they complete.                        *)
(***************************************************************************)
EXTENDS Naturals

CONSTANTS
  Requests,    \* page requests; each is made again after its answer
  MaxBackups   \* bound: backups that succeed

ASSUME ListingAssumption == MaxBackups \in Nat

Backups == 0..MaxBackups

VARIABLES
  uploaded,    \* the newest backup in the bucket
  succeeded,   \* Status().LastSuccess: the newest one the worker has reported
  listed,      \* Worker.listed: the last finished listing; "valid" until its TTL is over
  refreshing,  \* the listing under way; "newest" is what it has found
  req          \* each request: where it is, what it was promised (the last
               \* success when it asked, or when the listing it joined began)
               \* and the newest backup of its answer (history)

vars == <<uploaded, succeeded, listed, refreshing, req>>

NoListing == [valid |-> FALSE, newest |-> 0, failed |-> FALSE, lastSuccess |-> 0]
NoRefresh == [at |-> "none", newest |-> 0, lastSuccess |-> 0]
Idle      == [at |-> "idle", asked |-> 0, got |-> 0, failed |-> FALSE]

Init ==
  /\ uploaded = 0 /\ succeeded = 0
  /\ listed = NoListing /\ refreshing = NoRefresh
  /\ req = [r \in Requests |-> Idle]

-----------------------------------------------------------------------------
(* The worker: an upload, then, unless its state cannot be saved, the      *)
(* status that says so.                                                    *)

Upload ==
  /\ uploaded < MaxBackups
  /\ uploaded' = uploaded + 1
  /\ UNCHANGED <<succeeded, listed, refreshing, req>>

Succeed ==
  /\ succeeded < uploaded
  /\ succeeded' = uploaded
  /\ UNCHANGED <<uploaded, listed, refreshing, req>>

-----------------------------------------------------------------------------
(* Backups: under listMu up to the wait, and again after it.               *)

Current == listed.valid /\ listed.lastSuccess = succeeded

\* The objects and the error of the last finished listing.
Answer(r, asked) ==
  req' = [req EXCEPT ![r] = [at |-> "answered", asked |-> asked,
                             got |-> listed.newest, failed |-> listed.failed]]

FromCache(r) ==
  /\ req[r].at = "idle" /\ Current
  /\ Answer(r, succeeded)
  /\ UNCHANGED <<uploaded, succeeded, listed, refreshing>>

\* A listing under way is joined, also one begun before the last success.
Ask(r) ==
  /\ req[r].at = "idle" /\ ~Current
  /\ refreshing' = IF refreshing.at # "none" THEN refreshing
                   ELSE [at |-> "list", newest |-> 0, lastSuccess |-> succeeded]
  /\ req' = [req EXCEPT ![r].at = "waiting", ![r].asked = refreshing'.lastSuccess]
  /\ UNCHANGED <<uploaded, succeeded, listed>>

Receive(r) ==
  /\ req[r].at = "ready"
  /\ Answer(r, req[r].asked)
  /\ UNCHANGED <<uploaded, succeeded, listed, refreshing>>

\* The client goes away; the listing goes on.  (The mutant's listing uses the
\* context of the request.)
CancelAborts(r) ==
  /\ req[r].at \in {"waiting", "ready"}
  /\ req' = [req EXCEPT ![r] = Idle]
  /\ refreshing' = NoRefresh
  /\ UNCHANGED <<uploaded, succeeded, listed>>

Cancel(r) ==
  /\ req[r].at \in {"waiting", "ready"}
  /\ req' = [req EXCEPT ![r] = Idle]
  /\ UNCHANGED <<uploaded, succeeded, listed, refreshing>>

Again(r) ==
  /\ req[r].at = "answered"
  /\ req' = [req EXCEPT ![r] = Idle]
  /\ UNCHANGED <<uploaded, succeeded, listed, refreshing>>

-----------------------------------------------------------------------------
(* refresh: the bucket is listed, then the listing is put in place and the *)
(* requests that wait for it go on.                                        *)

List ==
  /\ refreshing.at = "list"
  /\ refreshing' = [refreshing EXCEPT !.at = "publish", !.newest = uploaded]
  /\ UNCHANGED <<uploaded, succeeded, listed, req>>

Put(failed, lastSuccess) ==
  /\ listed' = [valid |-> TRUE, newest |-> IF failed THEN 0 ELSE refreshing.newest,
                failed |-> failed, lastSuccess |-> lastSuccess]
  /\ refreshing' = NoRefresh
  /\ req' = [r \in Requests |->
               IF req[r].at = "waiting" THEN [req[r] EXCEPT !.at = "ready"] ELSE req[r]]
  /\ UNCHANGED <<uploaded, succeeded>>

\* (The mutant takes the status at the end.)
PublishLate == refreshing.at = "publish" /\ Put(FALSE, succeeded)
Publish     == refreshing.at = "publish" /\ Put(FALSE, refreshing.lastSuccess)

ListFails == refreshing.at = "list" /\ Put(TRUE, refreshing.lastSuccess)

\* listTTL, listErrorTTL
Expire ==
  /\ listed.valid
  /\ listed' = [listed EXCEPT !.valid = FALSE]
  /\ UNCHANGED <<uploaded, succeeded, refreshing, req>>

Page(r) == FromCache(r) \/ Ask(r) \/ Receive(r) \/ Cancel(r) \/ Again(r)

Next ==
  \/ Upload \/ Succeed
  \/ \E r \in Requests : Page(r)
  \/ List \/ Publish \/ ListFails \/ Expire

\* The listing runs in a goroutine of its own under a timeout of 20 seconds,
\* and a request that waits for it runs on when it is done.
Fairness ==
  /\ WF_vars(List) /\ WF_vars(Publish \/ ListFails)
  /\ \A r \in Requests : WF_vars(Receive(r))

Spec == Init /\ [][Next]_vars /\ Fairness

-----------------------------------------------------------------------------
(* Properties.                                                             *)

Listing == [valid : BOOLEAN, newest : Backups, failed : BOOLEAN, lastSuccess : Backups]
Refresh == [at : {"none", "list", "publish"}, newest : Backups, lastSuccess : Backups]
Request == [at : {"idle", "waiting", "ready", "answered"}, asked : Backups, got : Backups,
            failed : BOOLEAN]

\* Every variable keeps its type, and a request waits only for a listing that
\* is under way.
TypeOK ==
  /\ uploaded \in Backups /\ succeeded \in Backups
  /\ listed \in Listing /\ refreshing \in Refresh /\ req \in [Requests -> Request]
  /\ \A r \in Requests : req[r].at = "waiting" => refreshing.at # "none"

\* A listing that is served without asking the bucket has every backup the
\* status page speaks of ("a new backup invalidates the cache at once"),
\* however the listing, the upload and its report interleave.
CacheHoldsNewest ==
  Current /\ ~listed.failed => listed.newest >= succeeded

\* Every request that waits is answered, unless its client goes away: one
\* that leaves "neither aborts it for the others waiting nor holds them up".
WaitersAnswered ==
  \A r \in Requests : req[r].at = "waiting" ~> req[r].at # "waiting"

\* An answer without an error shows every backup that had been reported when
\* the page asked, or, for a page that joined a listing under way, when that
\* listing began: also when other listings finish, fail or expire before the
\* page goes on.
AnswerHoldsNewest ==
  \A r \in Requests :
    req[r].at = "answered" /\ ~req[r].failed => req[r].got >= req[r].asked
=============================================================================
