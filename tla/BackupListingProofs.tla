------------------------ MODULE BackupListingProofs ------------------------
(***************************************************************************)
(* Proofs about BackupListing, for every set of requests and any number of *)
(* backups.                                                                *)
(*                                                                         *)
(* The argument: a listing holds every backup that had succeeded when it   *)
(* began, because the bucket is listed after the status is read; listings  *)
(* follow one another, so a request that goes on late finds one begun no   *)
(* earlier than the one it waited for.                                     *)
(***************************************************************************)
EXTENDS BackupListing, TLAPS

\* The status follows the bucket.
Order == succeeded <= uploaded

\* The listing in place and the one under way, from the status on.
ListingInv ==
  /\ ~listed.failed => listed.newest >= listed.lastSuccess
  /\ listed.lastSuccess <= succeeded
  /\ refreshing.at # "none" =>
       listed.lastSuccess <= refreshing.lastSuccess /\ refreshing.lastSuccess <= succeeded
  /\ refreshing.at = "publish" => refreshing.newest >= refreshing.lastSuccess

\* What a request that waits, or goes on, will find.
RequestInv(r) ==
  /\ req[r].at = "waiting" => req[r].asked <= refreshing.lastSuccess
  /\ req[r].at = "ready" => req[r].asked <= listed.lastSuccess
  /\ req[r].at = "answered" /\ ~req[r].failed => req[r].got >= req[r].asked

IInv == TypeOK /\ Order /\ ListingInv /\ \A r \in Requests : RequestInv(r)

-----------------------------------------------------------------------------
(* The steps.                                                              *)

\* Numbers of backups are natural numbers.
LEMMA BackupsAreNat == Backups \subseteq Nat /\ 0 \in Backups
  BY ListingAssumption DEF Backups

\* So are all the fields that hold one.
LEMMA Numbers ==
  ASSUME TypeOK
  PROVE  /\ uploaded \in Nat /\ succeeded \in Nat
         /\ listed.newest \in Nat /\ listed.lastSuccess \in Nat
         /\ refreshing.newest \in Nat /\ refreshing.lastSuccess \in Nat
         /\ \A r \in Requests : req[r].asked \in Nat /\ req[r].got \in Nat
<1>1. ASSUME NEW r \in Requests PROVE req[r].asked \in Backups /\ req[r].got \in Backups
  BY DEF TypeOK, Request
<1>2. /\ listed.newest \in Backups /\ listed.lastSuccess \in Backups
      /\ refreshing.newest \in Backups /\ refreshing.lastSuccess \in Backups
  BY DEF TypeOK, Listing, Refresh
<1>. QED BY <1>1, <1>2, BackupsAreNat DEF TypeOK

\* Nothing is listed and nobody asks at first.
LEMMA InitInv == Init => IInv
  BY BackupsAreNat
  DEF Init, IInv, TypeOK, Order, ListingInv, RequestInv, NoListing, NoRefresh, Idle, Listing,
      Refresh, Request

\* An upload and its report only raise what is there to be listed.
LEMMA WorkerStep ==
  ASSUME IInv, Upload \/ Succeed
  PROVE  IInv'
<1>1. uploaded' \in Backups /\ succeeded' \in Backups /\ Order' /\ succeeded <= succeeded'
  BY ListingAssumption DEF IInv, TypeOK, Order, Upload, Succeed, Backups
<1>2. UNCHANGED <<listed, refreshing, req>>
  BY DEF Upload, Succeed
<1>3. ListingInv'
  <2>1. succeeded' \in Nat
    BY <1>1, BackupsAreNat
  <2>. QED BY <1>1, <1>2, <2>1, Numbers DEF IInv, ListingInv
<1>. QED BY <1>1, <1>2, <1>3 DEF IInv, TypeOK, RequestInv

\* A request that does not wait changes nothing but itself.
LEMMA OneRequest ==
  ASSUME IInv, NEW r \in Requests, NEW q \in Request, req' = [req EXCEPT ![r] = q],
         q.at = "waiting" => refreshing.at # "none" /\ q.asked <= refreshing.lastSuccess,
         q.at = "ready" => q.asked <= listed.lastSuccess,
         q.at = "answered" /\ ~q.failed => q.got >= q.asked,
         UNCHANGED <<uploaded, succeeded, listed, refreshing>>
  PROVE  IInv'
  BY DEF IInv, TypeOK, Order, ListingInv, RequestInv

\* A page asks, joins, is answered, goes away.
LEMMA PageStep ==
  ASSUME IInv, NEW r \in Requests, Page(r)
  PROVE  IInv'
<1>. USE BackupsAreNat
<1>0. req[r] \in Request /\ listed \in Listing /\ refreshing \in Refresh /\ succeeded \in Backups
  BY DEF IInv, TypeOK
<1>1. CASE FromCache(r)
  <2>. DEFINE q == [at |-> "answered", asked |-> succeeded, got |-> listed.newest,
                    failed |-> listed.failed]
  <2>1. q \in Request
    BY <1>0 DEF Listing, Request
  <2>2. ~listed.failed => listed.newest >= succeeded
    BY <1>1 DEF FromCache, Current, IInv, ListingInv
  <2>. QED BY <1>1, <2>1, <2>2, OneRequest DEF FromCache, Answer
<1>2. CASE Receive(r)
  <2>. DEFINE q == [at |-> "answered", asked |-> req[r].asked, got |-> listed.newest,
                    failed |-> listed.failed]
  <2>1. q \in Request
    BY <1>0 DEF Listing, Request
  <2>2. ~listed.failed => listed.newest >= req[r].asked
    BY <1>2, Numbers DEF Receive, IInv, ListingInv, RequestInv
  <2>. QED BY <1>2, <2>1, <2>2, OneRequest DEF Receive, Answer
<1>3. CASE Cancel(r) \/ Again(r)
  <2>1. Idle \in Request
    BY DEF Idle, Request
  <2>. QED BY <1>3, <2>1, OneRequest DEF Cancel, Again, Idle
<1>4. CASE Ask(r)
  <2>1. /\ refreshing' \in Refresh /\ refreshing'.at # "none"
        /\ refreshing.at # "none" => refreshing' = refreshing
    BY <1>0, <1>4 DEF Ask, Refresh
  <2>2. ListingInv'
    BY <1>0, <1>4 DEF Ask, IInv, ListingInv, Listing, Refresh
  <2>3. /\ req'[r].at = "waiting" /\ req'[r].asked = refreshing'.lastSuccess
        /\ req' \in [Requests -> Request]
        /\ \A s \in Requests : s # r => req'[s] = req[s]
    <3>1. [req[r] EXCEPT !.at = "waiting", !.asked = refreshing'.lastSuccess] \in Request
      BY <1>0, <2>1 DEF Refresh, Request
    <3>. QED BY <1>0, <1>4, <3>1 DEF Ask, IInv, TypeOK, Request
  <2>4. ASSUME NEW s \in Requests PROVE RequestInv(s)'
    <3>1. CASE s = r
      <4>1. refreshing'.lastSuccess \in Nat
        BY <2>1 DEF Refresh
      <4>. QED BY <2>3, <3>1, <4>1 DEF RequestInv
    <3>2. CASE s # r
      BY <1>4, <2>1, <2>3, <3>2 DEF Ask, RequestInv, IInv, TypeOK
    <3>. QED BY <3>1, <3>2
  <2>. QED BY <1>4, <2>1, <2>2, <2>3, <2>4 DEF Ask, IInv, TypeOK, Order
<1>. QED BY <1>1, <1>2, <1>3, <1>4 DEF Page

\* The bucket is listed after the status was read.
LEMMA ListStep ==
  ASSUME IInv, List
  PROVE  IInv'
<1>1. refreshing' \in Refresh /\ refreshing'.at = "publish"
      /\ refreshing'.lastSuccess = refreshing.lastSuccess /\ refreshing'.newest = uploaded
  BY DEF List, IInv, TypeOK, Refresh
<1>2. ListingInv'
  BY <1>1, BackupsAreNat DEF List, IInv, TypeOK, Order, ListingInv, Refresh
<1>. QED BY <1>1, <1>2 DEF List, IInv, TypeOK, Order, RequestInv

\* A listing, or its error, is put in place, and all who wait go on.
LEMMA PutStep ==
  ASSUME IInv, Publish \/ ListFails
  PROVE  IInv'
<1>. USE BackupsAreNat
<1>1. PICK f \in BOOLEAN : /\ Put(f, refreshing.lastSuccess) /\ refreshing.at # "none"
                           /\ ~f => refreshing.at = "publish"
  BY DEF Publish, ListFails
<1>2. /\ listed' \in Listing /\ listed'.lastSuccess = refreshing.lastSuccess
      /\ ~listed'.failed => ~f /\ listed'.newest = refreshing.newest
  BY <1>1 DEF Put, IInv, TypeOK, Listing, Refresh
<1>3. refreshing' = NoRefresh /\ refreshing' \in Refresh /\ refreshing'.at = "none"
  BY <1>1 DEF Put, NoRefresh, Refresh
<1>4. ListingInv'
  BY <1>1, <1>2, <1>3 DEF Put, IInv, TypeOK, ListingInv, Refresh
<1>5. ASSUME NEW r \in Requests
      PROVE  /\ req'[r] \in Request /\ req'[r].at # "waiting" /\ RequestInv(r)'
  <2>0. req[r] \in Request
    BY DEF IInv, TypeOK
  <2>1. CASE req[r].at = "waiting"
    <3>1. req'[r] = [req[r] EXCEPT !.at = "ready"]
      BY <1>1, <2>1 DEF Put
    <3>. QED BY <1>2, <2>0, <2>1, <3>1 DEF IInv, RequestInv, Request
  <2>2. CASE req[r].at # "waiting"
    <3>1. req'[r] = req[r]
      BY <1>1, <2>2 DEF Put
    <3>2. listed.lastSuccess <= listed'.lastSuccess
      BY <1>1, <1>2 DEF IInv, ListingInv
    <3>3. listed'.lastSuccess \in Nat
      BY <1>1, <1>2, Numbers DEF IInv
    <3>. QED BY <2>0, <2>2, <3>1, <3>2, <3>3, Numbers DEF IInv, RequestInv
  <2>. QED BY <2>1, <2>2
<1>6. req' \in [Requests -> Request]
  BY <1>1, <1>5 DEF Put
<1>. QED BY <1>1, <1>2, <1>3, <1>4, <1>5, <1>6 DEF Put, IInv, TypeOK, Order

\* An expired listing stays as it is.
LEMMA ExpireStep ==
  ASSUME IInv, Expire
  PROVE  IInv'
<1>1. /\ listed' \in Listing /\ listed'.newest = listed.newest
      /\ listed'.failed = listed.failed /\ listed'.lastSuccess = listed.lastSuccess
  BY DEF Expire, IInv, TypeOK, Listing
<1>. QED BY <1>1 DEF Expire, IInv, TypeOK, Order, ListingInv, RequestInv

\* The invariant is inductive.
THEOREM StepInv == IInv /\ [Next]_vars => IInv'
<1>. SUFFICES ASSUME IInv, [Next]_vars PROVE IInv'
  OBVIOUS
<1>1. CASE Upload \/ Succeed
  BY <1>1, WorkerStep
<1>2. CASE \E r \in Requests : Page(r)
  BY <1>2, PageStep
<1>3. CASE List \/ Publish \/ ListFails \/ Expire
  BY <1>3, ListStep, PutStep, ExpireStep
<1>4. CASE UNCHANGED vars
  BY <1>4 DEF vars, IInv, TypeOK, Order, ListingInv, RequestInv
<1>. QED BY <1>1, <1>2, <1>3, <1>4 DEF Next

-----------------------------------------------------------------------------
(* What the run checks, for every set of requests and any number of        *)
(* backups.                                                                *)

\* Every reachable state of cache, listing and requests is in order.
THEOREM Invariance == Spec => []IInv
  BY InitInv, StepInv, PTL DEF Spec

\* Every variable keeps its type, and nobody waits for a listing that is over.
THEOREM TypeCorrect == Spec => []TypeOK
<1>1. IInv => TypeOK
  BY DEF IInv
<1>. QED BY <1>1, Invariance, PTL

\* The cached listing has every backup the status page speaks of.
THEOREM CacheIsCurrent == Spec => []CacheHoldsNewest
<1>1. IInv => CacheHoldsNewest
  BY DEF IInv, ListingInv, CacheHoldsNewest, Current
<1>. QED BY <1>1, Invariance, PTL

\* An answer has every backup its page was promised.
THEOREM AnswersAreCurrent == Spec => []AnswerHoldsNewest
<1>1. IInv => AnswerHoldsNewest
  BY DEF IInv, RequestInv, AnswerHoldsNewest
<1>. QED BY <1>1, Invariance, PTL
=============================================================================
