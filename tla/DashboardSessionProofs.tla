----------------------- MODULE DashboardSessionProofs -----------------------
(***************************************************************************)
(* Proofs about DashboardSession, for every number of requests under way,  *)
(* every clock, TTL and flight time.                                       *)
(*                                                                         *)
(* The argument: an answer that leaves the cookie alone vouches for the    *)
(* cookie that its request carried.  The browser may hold another by then, *)
(* but only one that an answer under way at the same time brought, which   *)
(* was signed at most two flights before.                                  *)
(***************************************************************************)
EXTENDS DashboardSession, TLAPS

Request ==
  [state : {"idle", "sent", "answered"}, path : {"page", "login", "logout"}, sent : 0..now,
   carries : Cookies, accepted : BOOLEAN, sets : Cookies \cup {Keep}, at : 0..now]

\* What issue made at a time, and what Refresh left as it was.
Fresh(c, at) ==
  /\ c.key = server.key
  /\ at + server.ttl - Second < c.expiry /\ c.expiry <= at + server.ttl
Left(c, at) ==
  /\ c.key = server.key
  /\ at + server.ttl - Interval(server.ttl) < c.expiry /\ c.expiry <= at + server.ttl

InFlight(q) ==
  /\ q.state # "idle" => q.sent <= now /\ now <= q.sent + MaxFlight
  /\ q.state = "answered" => q.sent <= q.at /\ q.at <= now

Answered(q) ==
  /\ q.accepted => q.state = "answered" /\ q.path # "logout"
  /\ q.state = "answered" =>
       \/ q.sets = Keep /\ q.path = "page" /\ (q.accepted => Left(q.carries, q.at))
       \/ q.sets = Nothing /\ q.path = "logout"
       \/ Fresh(q.sets, q.at) /\ q.accepted

\* The browser still holds what the request carries, or what came since.
Carried(q) ==
  q.state # "idle" =>
    /\ \/ q.carries = cookie \/ cookie = Nothing
       \/ login.here /\ cookie.key = server.key /\ q.sent - MaxFlight + server.ttl - Second < cookie.expiry
    /\ ~login.here => login.used <= q.sent

SignedOut(q) ==
  login.out /\ q.state # "idle" => q.path # "login" /\ q.carries = Nothing /\ ~q.accepted

Good(q)    == InFlight(q) /\ Answered(q) /\ Carried(q) /\ SignedOut(q)
RequestInv == \A r \in Requests : Good(request[r])

LoginInv ==
  /\ login.here => /\ login.ttl = server.ttl
                   /\ cookie.key = server.key => cookie.expiry <= login.used + server.ttl
  /\ login.on => /\ cookie.key = server.key
                 /\ login.used + login.ttl - Slack(login.ttl) <= cookie.expiry
  /\ login.out => cookie = Nothing

IInv == TypeOK /\ RequestInv /\ LoginInv

-----------------------------------------------------------------------------
(* Numbers.                                                                *)

\* The constants are numbers.
LEMMA Numbers ==
  /\ Second \in Nat /\ Second > 0 /\ Share \in Nat /\ Share > 0
  /\ MaxRefreshInterval \in Nat /\ MaxFlight \in Nat
  /\ \A ttl \in Ttls : ttl \in Nat /\ Second <= ttl
BY SessionAssumption

\* A setting stands for a TTL.
LEMMA TtlIsConfigured ==
  ASSUME NEW setting \in Ttls \cup {0}
  PROVE  ConfiguredTtl(setting) \in Ttls
BY SessionAssumption DEF ConfiguredTtl

\* The slack is no less than either of its causes.
LEMMA SlackCovers ==
  ASSUME NEW ttl \in Nat
  PROVE  /\ Interval(ttl) \in Nat /\ Slack(ttl) \in Nat
         /\ Interval(ttl) <= Slack(ttl) /\ 2 * MaxFlight + Second - 1 <= Slack(ttl)
<1>1. ttl \div Share \in Nat
  BY Numbers
<1>2. Interval(ttl) \in Nat
  BY <1>1, Numbers DEF Interval, Smaller
<1>. QED BY <1>2, Numbers DEF Slack, Larger

\* What issue makes is fresh.
LEMMA IssuedIsFresh ==
  ASSUME TypeOK
  PROVE  /\ Issued \in [key : {server.key}, expiry : Nat]
         /\ Fresh(Issued, now)
<1>1. now \in Nat /\ server.ttl \in Nat /\ Second <= server.ttl
  BY Numbers DEF TypeOK
<1>. DEFINE over == (now + server.ttl) % Second
<1>2. over \in 0..(Second - 1)
  BY <1>1, Numbers
<1>3. Issued = [key |-> server.key, expiry |-> now + server.ttl - over]
  BY DEF Issued
<1>. HIDE DEF over
<1>4. now + server.ttl - over \in Nat
  BY <1>1, <1>2, Numbers
<1>. QED BY <1>1, <1>2, <1>3, <1>4, Numbers DEF Fresh

-----------------------------------------------------------------------------
(* Types.                                                                  *)

\* The cookies and requests that the model names are of their types.
LEMMA CookieTypes ==
  ASSUME TypeOK
  PROVE  Nothing \in Cookies /\ Issued \in Cookies /\ Idle \in Request
<1>1. now \in Nat /\ server.key \in Nat \ {0}
  BY DEF TypeOK
<1>2. Issued \in Cookies
  BY <1>1, IssuedIsFresh DEF Cookies
<1>3. Nothing \in Cookies
  BY <1>1 DEF Cookies, Nothing
<1>4. Idle \in Request
  BY <1>1, <1>3 DEF Idle, Request
<1>. QED BY <1>2, <1>3, <1>4

\* An answer keeps the types.
LEMMA AnswerType ==
  ASSUME TypeOK, NEW r \in Requests, NEW accepted \in BOOLEAN, NEW sets \in Cookies \cup {Keep},
         Answer(r, accepted, sets)
  PROVE  TypeOK'
<1>1. now \in 0..now
  BY DEF TypeOK
<1>2. request[r] \in Request
  BY DEF TypeOK, Request
<1>3. [request[r] EXCEPT !.state = "answered", !.accepted = accepted, !.sets = sets, !.at = now] \in Request
  BY <1>1, <1>2 DEF Request
<1>4. request' \in [Requests -> Request]
  BY <1>3 DEF Answer, TypeOK, Request
<1>5. Request = Request' /\ Cookies' = Cookies
  BY DEF Answer, Request, Cookies
<1>. QED BY <1>4, <1>5 DEF Answer, TypeOK, Request

\* Every step keeps the types.
LEMMA TypeStep ==
  ASSUME TypeOK, [Next]_vars
  PROVE  TypeOK'
<1>1. ASSUME NEW r \in Requests, NEW path \in {"page", "login", "logout"}, Send(r, path)
      PROVE  TypeOK'
  <2>1. [Idle EXCEPT !.state = "sent", !.path = path, !.sent = now, !.carries = cookie] \in Request
    <3>1. Idle \in Request /\ now \in 0..now /\ cookie \in Cookies
      BY CookieTypes DEF TypeOK
    <3>. QED BY <3>1 DEF Request
  <2>2. request' \in [Requests -> Request]
    BY <1>1, <2>1 DEF Send, TypeOK, Request
  <2>. QED BY <1>1, <2>2 DEF Send, TypeOK, Request, Cookies
<1>2. ASSUME NEW r \in Requests, ServePage(r) \/ ServeLogin(r) \/ ServeLogout(r)
      PROVE  TypeOK'
  BY <1>2, AnswerType, CookieTypes DEF ServePage, ServeLogin, ServeLogout, Valid
<1>3. ASSUME NEW r \in Requests, Receive(r)
      PROVE  TypeOK'
  <2>1. request[r] \in Request
    BY DEF TypeOK, Request
  <2>2. cookie' \in Cookies
    BY <1>3, <2>1 DEF Receive, TypeOK, Request
  <2>8. Cookies' = Cookies /\ Request' = Request
    BY <1>3 DEF Receive, Cookies, Request
  <2>3. request' \in [Requests -> Request]
    BY <1>3, CookieTypes DEF Receive, TypeOK, Request
  <2>4. Larger(login.used, request[r].at) \in 0..now
    BY <2>1 DEF TypeOK, Request, Larger
  <2>5. Alone(r) \in BOOLEAN
    BY DEF Alone
  <2>6. server.ttl \in Nat
    BY Numbers DEF TypeOK
  <2>7. login' \in [on : BOOLEAN, out : BOOLEAN, used : 0..now, ttl : Nat, here : BOOLEAN]
    BY <1>3, <2>1, <2>4, <2>5, <2>6 DEF Receive, TypeOK, Request
  <2>. QED BY <1>3, <2>2, <2>8, <2>3, <2>7 DEF Receive, TypeOK, Request
<1>4. ASSUME NEW r \in Requests, Lose(r)
      PROVE  TypeOK'
  <2>1. request' \in [Requests -> Request]
    BY <1>4, CookieTypes DEF Lose, TypeOK, Request
  <2>. QED BY <1>4, <2>1 DEF Lose, TypeOK, Request, Cookies
<1>5. CASE Tick
  <2>1. now \in Nat /\ now' = now + 1
    BY <1>5 DEF Tick, TypeOK
  <2>2. 0..now \subseteq 0..now'
    BY <2>1
  <2>. QED BY <1>5, <2>1, <2>2 DEF Tick, TypeOK, Cookies
<1>6. ASSUME NEW setting \in Ttls \cup {0}, NEW key \in {server.key, server.key + 1}, Restart(setting, key)
      PROVE  TypeOK'
  <2>1. server.starts + 1 \in Nat /\ key \in Nat \ {0} /\ server.key <= key
    BY DEF TypeOK
  <2>2. server' \in [ttl : Ttls, key : Nat \ {0}, starts : Nat]
    BY <1>6, <2>1, TtlIsConfigured DEF Restart, Server
  <2>3. server'.key = key
    BY <1>6 DEF Restart, Server
  <2>4. Cookies \subseteq Cookies'
    BY <2>1, <2>3 DEF TypeOK, Cookies
  <2>5. Idle \in Request'
    BY <1>6, <2>4, CookieTypes DEF Restart, Request, Idle
  <2>6. request' \in [Requests -> Request']
    BY <1>6, <2>5 DEF Restart
  <2>7. login' \in [on : BOOLEAN, out : BOOLEAN, used : 0..now, ttl : Nat, here : BOOLEAN]
    BY <1>6 DEF Restart, TypeOK
  <2>. QED BY <1>6, <2>2, <2>4, <2>6, <2>7 DEF Restart, TypeOK, Request
<1>7. CASE UNCHANGED vars
  BY <1>7 DEF vars, TypeOK, Cookies
<1>. QED BY <1>1, <1>2, <1>3, <1>4, <1>5, <1>6, <1>7 DEF Next

-----------------------------------------------------------------------------
(* The invariant, action by action.                                        *)

\* A request that begins carries what the browser holds.
LEMMA SendStep ==
  ASSUME IInv, NEW r \in Requests, NEW path \in {"page", "login", "logout"}, Send(r, path)
  PROVE  RequestInv' /\ LoginInv'
<1>. DEFINE q == [Idle EXCEPT !.state = "sent", !.path = path, !.sent = now, !.carries = cookie]
<1>1. /\ request'[r] = q /\ \A s \in Requests \ {r} : request'[s] = request[s]
      /\ now' = now /\ server' = server /\ cookie' = cookie
      /\ login' = [login EXCEPT !.on = @ /\ path # "logout", !.out = @ /\ path # "login"]
  BY DEF Send, IInv, TypeOK
<1>2. /\ q.state = "sent" /\ q.path = path /\ q.sent = now /\ q.carries = cookie
      /\ ~q.accepted
  BY DEF Idle
<1>3. /\ login'.here = login.here /\ login'.used = login.used /\ login'.ttl = login.ttl
      /\ login'.on => login.on
      /\ login'.out => login.out /\ path # "login"
  BY <1>1 DEF IInv, TypeOK
<1>. HIDE DEF q
<1>4. now \in Nat /\ login.used <= now /\ now <= now + MaxFlight
  BY Numbers DEF IInv, TypeOK
<1>5. Good(request[r])'
  <2>1. login.out => cookie = Nothing
    BY DEF IInv, LoginInv
  <2>. QED BY <1>1, <1>2, <1>3, <1>4, <2>1 DEF Good, InFlight, Answered, Carried, SignedOut
<1>6. ASSUME NEW s \in Requests \ {r}
      PROVE  Good(request[s])'
  <2>1. Good(request[s])
    BY DEF IInv, RequestInv
  <2>. QED BY <1>1, <1>3, <2>1 DEF Good, InFlight, Answered, Carried, SignedOut, Left, Fresh, Interval
<1>7. LoginInv'
  BY <1>1, <1>3 DEF IInv, LoginInv, Slack, Interval
<1>. QED BY <1>5, <1>6, <1>7 DEF RequestInv

\* An answer that leaves alone a good cookie, clears it or is issued.
LEMMA AnswerStep ==
  ASSUME IInv, NEW r \in Requests, NEW accepted \in BOOLEAN, NEW sets \in Cookies \cup {Keep},
         request[r].state = "sent", Answer(r, accepted, sets),
         accepted => request[r].path # "logout" /\ ~login.out,
         \/ sets = Keep /\ request[r].path = "page" /\ (accepted => Left(request[r].carries, now))
         \/ sets = Nothing /\ request[r].path = "logout"
         \/ Fresh(sets, now) /\ accepted
  PROVE  RequestInv' /\ LoginInv'
<1>1. /\ request'[r] = [request[r] EXCEPT !.state = "answered", !.accepted = accepted, !.sets = sets, !.at = now]
      /\ \A s \in Requests \ {r} : request'[s] = request[s]
      /\ now' = now /\ server' = server /\ cookie' = cookie /\ login' = login
  BY DEF Answer, IInv, TypeOK
<1>2. request[r] \in Request
  BY DEF IInv, TypeOK, Request
<1>3. /\ request'[r].state = "answered" /\ request'[r].path = request[r].path
      /\ request'[r].sent = request[r].sent /\ request'[r].carries = request[r].carries
      /\ request'[r].accepted = accepted /\ request'[r].sets = sets /\ request'[r].at = now
  BY <1>1, <1>2 DEF Request
<1>4. Good(request[r])
  BY DEF IInv, RequestInv
<1>5. Good(request[r])'
  <2>1. InFlight(request[r])' /\ Carried(request[r])'
    BY <1>1, <1>3, <1>4 DEF Good, InFlight, Carried, IInv, TypeOK
  <2>2. Answered(request[r])'
    BY <1>1, <1>3 DEF Answered, Left, Fresh, Interval
  <2>3. SignedOut(request[r])'
    BY <1>1, <1>3, <1>4 DEF Good, SignedOut
  <2>. QED BY <2>1, <2>2, <2>3 DEF Good
<1>6. ASSUME NEW s \in Requests \ {r}
      PROVE  Good(request[s])'
  BY <1>1 DEF IInv, RequestInv, Good, InFlight, Answered, Carried, SignedOut, Left, Fresh, Interval
<1>7. LoginInv'
  BY <1>1 DEF IInv, LoginInv, Slack, Interval
<1>. QED BY <1>5, <1>6, <1>7 DEF RequestInv

\* The server's three answers are of these kinds.
LEMMA ServeStep ==
  ASSUME IInv, NEW r \in Requests, ServePage(r) \/ ServeLogin(r) \/ ServeLogout(r)
  PROVE  RequestInv' /\ LoginInv'
<1>1. /\ Good(request[r]) /\ request[r] \in Request /\ Issued \in Cookies /\ Nothing \in Cookies
      /\ Fresh(Issued, now)
  BY CookieTypes, IssuedIsFresh DEF IInv, RequestInv, TypeOK, Request
<1>2. CASE ServePage(r)
  <2>. DEFINE c == request[r].carries
  <2>1. c \in Cookies /\ server.key \in Nat \ {0} /\ server.ttl \in Nat /\ now \in Nat
    BY <1>1, Numbers DEF IInv, TypeOK, Request
  <2>2. Valid(c) => ~login.out
    BY <1>1, <1>2, <2>1 DEF Good, SignedOut, ServePage, Sent, Valid, Nothing
  <2>3. Valid(c) /\ ~Due(c) => Left(c, now)
    BY <2>1, SlackCovers DEF Valid, Due, Left, Cookies
  <2>. QED BY <1>1, <1>2, <2>2, <2>3, AnswerStep DEF ServePage, Sent, Valid
<1>3. CASE ServeLogin(r)
  BY <1>1, <1>3, AnswerStep DEF ServeLogin, Sent, Good, SignedOut
<1>4. CASE ServeLogout(r)
  BY <1>1, <1>4, AnswerStep DEF ServeLogout, Sent
<1>. QED BY <1>2, <1>3, <1>4

\* A request that is over, or lost, says nothing.
LEMMA IdleIsGood ==
  ASSUME NEW r, request'[r] = Idle
  PROVE  Good(request[r])'
BY DEF Idle, Good, InFlight, Answered, Carried, SignedOut

\* A lost request.
LEMMA LoseStep ==
  ASSUME IInv, NEW r \in Requests, Lose(r)
  PROVE  RequestInv' /\ LoginInv'
<1>1. /\ request'[r] = Idle /\ \A s \in Requests \ {r} : request'[s] = request[s]
      /\ now' = now /\ server' = server /\ cookie' = cookie /\ login' = login
  BY DEF Lose, IInv, TypeOK
<1>2. ASSUME NEW s \in Requests \ {r}
      PROVE  Good(request[s])'
  BY <1>1 DEF IInv, RequestInv, Good, InFlight, Answered, Carried, SignedOut, Left, Fresh, Interval
<1>3. LoginInv'
  BY <1>1 DEF IInv, LoginInv, Slack, Interval
<1>. QED BY <1>1, <1>2, <1>3, IdleIsGood DEF RequestInv

\* The clock leaves no request under way too long.
LEMMA TickStep ==
  ASSUME IInv, Tick
  PROVE  RequestInv' /\ LoginInv'
<1>1. /\ now' = now + 1 /\ server' = server /\ cookie' = cookie /\ login' = login /\ request' = request
      /\ now \in Nat
  BY DEF Tick, IInv, TypeOK
<1>2. ASSUME NEW r \in Requests
      PROVE  Good(request[r])'
  <2>1. Good(request[r]) /\ request[r] \in Request
    BY DEF IInv, RequestInv, TypeOK, Request
  <2>2. InFlight(request[r])'
    BY <1>1, <2>1, Numbers DEF Good, InFlight, Tick, Request
  <2>3. Answered(request[r])' /\ Carried(request[r])' /\ SignedOut(request[r])'
    BY <1>1, <2>1 DEF Good, Answered, Carried, SignedOut, Left, Fresh, Interval
  <2>. QED BY <2>2, <2>3 DEF Good
<1>3. LoginInv'
  BY <1>1 DEF IInv, LoginInv, Slack, Interval
<1>. QED BY <1>2, <1>3 DEF RequestInv

\* A restart begins with no requests, and no login that this process saw.
LEMMA RestartStep ==
  ASSUME IInv, NEW setting \in Ttls \cup {0}, NEW key \in {server.key, server.key + 1}, Restart(setting, key)
  PROVE  RequestInv' /\ LoginInv'
<1>1. RequestInv'
  BY IdleIsGood DEF Restart, RequestInv
<1>2. /\ cookie' = cookie /\ server'.key = key
      /\ ~login'.here /\ login'.used = login.used /\ login'.ttl = login.ttl /\ login'.out = login.out
      /\ login'.on => login.on /\ key = server.key
  BY DEF Restart, Server, IInv, TypeOK
<1>3. LoginInv'
  BY <1>2 DEF IInv, LoginInv, Slack, Interval
<1>. QED BY <1>1, <1>3

\* The browser takes an answer.
LEMMA ReceiveStep ==
  ASSUME IInv, NEW r \in Requests, Receive(r)
  PROVE  RequestInv' /\ LoginInv'
<1>. DEFINE q == request[r]
<1>1. /\ request'[r] = Idle /\ \A s \in Requests \ {r} : request'[s] = request[s]
      /\ now' = now /\ server' = server
      /\ cookie' = IF q.sets = Keep THEN cookie ELSE q.sets
      /\ q.state = "answered"
  BY DEF Receive, IInv, TypeOK
<1>2. Good(q) /\ q \in Request /\ LoginInv
  BY DEF IInv, RequestInv, TypeOK, Request
<1>3. /\ now \in Nat /\ q.sent \in Nat /\ q.at \in Nat /\ q.sent <= q.at /\ q.at <= now /\ now <= q.sent + MaxFlight
      /\ cookie.key \in Int /\ cookie.expiry \in Nat /\ login.used \in Nat /\ login.used <= now
      /\ login.ttl \in Nat /\ server.ttl \in Nat /\ server.key \in Nat /\ server.key > 0
      /\ q.sets.key \in Int /\ q.sets.expiry \in Nat /\ q.carries.expiry \in Nat
      /\ MaxFlight \in Nat /\ Second \in Nat
  BY <1>1, <1>2, Numbers DEF Good, InFlight, IInv, TypeOK, Request, Cookies, Keep
<1>4. /\ Interval(server.ttl) \in Nat /\ Slack(server.ttl) \in Nat /\ Interval(server.ttl) <= Slack(server.ttl)
      /\ 2 * MaxFlight + Second - 1 <= Slack(server.ttl)
  BY <1>3, SlackCovers
<1>. HIDE DEF q
<1>5. ASSUME NEW s \in Requests \ {r}
      PROVE  /\ Good(request[s]) /\ request'[s] = request[s] /\ request[s].sent \in Nat
             /\ request[s].state # "idle" => request[s].sent <= now
  BY <1>1 DEF IInv, RequestInv, Good, InFlight, TypeOK, Request

<1>6. CASE q.path = "logout"
  <2>1. /\ ~q.accepted /\ q.sets = Nothing /\ cookie' = Nothing
        /\ login' = [login EXCEPT !.on = FALSE, !.out = Alone(r)]
    <3>1. ~q.accepted /\ q.sets = Nothing
      BY <1>1, <1>2, <1>6 DEF Good, Answered
    <3>2. Nothing # Keep
      BY DEF Nothing, Keep
    <3>. QED BY <1>1, <1>6, <3>1, <3>2 DEF Receive, q
  <2>2. /\ ~login'.on /\ login'.out = Alone(r) /\ login'.here = login.here
        /\ login'.used = login.used /\ login'.ttl = login.ttl
    BY <2>1 DEF IInv, TypeOK, Alone
  <2>3. ASSUME NEW s \in Requests \ {r}
        PROVE  Good(request[s])'
    BY <1>1, <1>5, <2>1, <2>2 DEF Alone, Good, InFlight, Answered, Carried, SignedOut, Left, Fresh, Interval
  <2>4. LoginInv'
    BY <1>1, <1>2, <1>3, <2>1, <2>2 DEF LoginInv, Nothing
  <2>. QED BY <1>1, <2>3, <2>4, IdleIsGood DEF RequestInv

<1>7. CASE q.path # "logout" /\ ~q.accepted
  <2>1. cookie' = cookie /\ login' = login
    BY <1>1, <1>2, <1>7 DEF Receive, Good, Answered, q
  <2>2. ASSUME NEW s \in Requests \ {r}
        PROVE  Good(request[s])'
    BY <1>1, <1>5, <2>1 DEF Good, InFlight, Answered, Carried, SignedOut, Left, Fresh, Interval
  <2>3. LoginInv'
    BY <1>1, <1>2, <2>1 DEF LoginInv, Slack, Interval
  <2>. QED BY <1>1, <2>2, <2>3, IdleIsGood DEF RequestInv

<1>8. CASE q.path # "logout" /\ q.accepted
  <2>1. /\ login'.on <=> login.on \/ q.path = "login"
        /\ login'.out = login.out /\ login'.used = Larger(login.used, q.at)
        /\ login'.ttl = server.ttl /\ login'.here
    BY <1>1, <1>8 DEF Receive, q
  <2>2. ~login.out
    BY <1>1, <1>2, <1>8 DEF Good, SignedOut
  <2>3. /\ login'.used \in Nat /\ login.used <= login'.used /\ q.at <= login'.used
        /\ login'.used = login.used \/ login'.used = q.at
    BY <1>3, <2>1 DEF Larger
  <2>4. CASE q.sets = Keep
    <3>1. q.path = "page" /\ Left(q.carries, q.at) /\ cookie' = cookie
      BY <1>1, <1>2, <1>3, <1>8, <2>4 DEF Good, Answered, Fresh, Keep, Nothing
    <3>2. ASSUME NEW s \in Requests \ {r}
          PROVE  Good(request[s])'
      BY <1>1, <1>5, <2>1, <2>2, <3>1 DEF Good, InFlight, Answered, Carried, SignedOut, Left, Fresh, Interval
    <3>3. cookie.key = server.key => cookie.expiry <= login'.used + server.ttl
      <4>1. CASE login.here
        BY <1>2, <1>3, <2>3, <4>1 DEF LoginInv
      <4>2. CASE ~login.here
        BY <1>1, <1>2, <1>3, <2>3, <3>1, <4>2 DEF Good, Carried, Left, Nothing
      <4>. QED BY <4>1, <4>2
    <3>4. ASSUME login'.on
          PROVE  cookie.key = server.key /\ login'.used + server.ttl - Slack(server.ttl) <= cookie.expiry
      <4>1. login.on
        BY <2>1, <3>1, <3>4
      <4>2. cookie.key = server.key /\ login.used + login.ttl - Slack(login.ttl) <= cookie.expiry
        BY <1>2, <4>1 DEF LoginInv
      <4>3. CASE login.here /\ login'.used = login.used
        BY <1>2, <4>2, <4>3 DEF LoginInv
      <4>4. CASE login'.used = q.at
        <5>1. CASE q.carries = cookie
          BY <1>3, <1>4, <3>1, <4>2, <4>4, <5>1 DEF Left
        <5>2. CASE q.sent - MaxFlight + server.ttl - Second < cookie.expiry
          BY <1>3, <1>4, <4>2, <4>4, <5>2
        <5>. QED BY <1>1, <1>2, <1>3, <4>2, <5>1, <5>2 DEF Good, Carried, Nothing
      <4>5. ~login.here => login.used <= q.at
        BY <1>1, <1>2, <1>3 DEF Good, Carried
      <4>. QED BY <1>3, <2>1, <2>3, <4>3, <4>4, <4>5
    <3>5. LoginInv'
      BY <1>1, <2>1, <2>2, <3>1, <3>3, <3>4 DEF LoginInv, Slack, Interval
    <3>. QED BY <1>1, <3>2, <3>5, IdleIsGood DEF RequestInv
  <2>5. CASE q.sets # Keep
    <3>1. Fresh(q.sets, q.at) /\ cookie' = q.sets
      BY <1>1, <1>2, <1>8, <2>5 DEF Good, Answered
    <3>2. ASSUME NEW s \in Requests \ {r}
          PROVE  Good(request[s])'
      <4>1. request[s].state # "idle" => request[s].sent - MaxFlight + server.ttl - Second < q.sets.expiry
        BY <1>3, <1>5, <3>1 DEF Fresh
      <4>. QED BY <1>1, <1>5, <2>1, <2>2, <3>1, <4>1
               DEF Good, InFlight, Answered, Carried, SignedOut, Left, Fresh, Interval
    <3>3. LoginInv'
      <4>1. q.sets.expiry <= login'.used + server.ttl
        BY <1>3, <2>3, <3>1 DEF Fresh
      <4>2. login'.used <= q.at + MaxFlight
        BY <1>3, <2>3
      <4>3. login'.used + server.ttl - Slack(server.ttl) <= q.sets.expiry
        BY <1>3, <1>4, <2>3, <3>1, <4>2 DEF Fresh
      <4>. QED BY <1>1, <2>1, <2>2, <3>1, <4>1, <4>3 DEF LoginInv, Fresh, Slack, Interval
    <3>. QED BY <1>1, <3>2, <3>3, IdleIsGood DEF RequestInv
  <2>. QED BY <2>4, <2>5
<1>. QED BY <1>6, <1>7, <1>8

-----------------------------------------------------------------------------
(* Theorems.                                                               *)

\* The invariant holds throughout.
THEOREM Invariance == Spec => []IInv
<1>1. Init => IInv
  <2>. SUFFICES ASSUME Init PROVE IInv
    OBVIOUS
  <2>1. PICK setting \in Ttls \cup {0} : server = Server(setting, 1, 0)
    BY DEF Init
  <2>2. server \in [ttl : Ttls, key : Nat \ {0}, starts : Nat] /\ server.key = 1
    BY <2>1, TtlIsConfigured DEF Server
  <2>3. Nothing \in Cookies
    BY <2>2 DEF Nothing, Cookies
  <2>4. Idle \in Request
    BY <2>3 DEF Init, Idle, Request
  <2>5. TypeOK
    BY <2>2, <2>3, <2>4 DEF Init, TypeOK, NoLogin, Request
  <2>6. RequestInv
    BY DEF Init, RequestInv, Idle, Good, InFlight, Answered, Carried, SignedOut
  <2>7. LoginInv
    BY DEF Init, LoginInv, NoLogin
  <2>. QED BY <2>5, <2>6, <2>7 DEF IInv
<1>2. IInv /\ [Next]_vars => IInv'
  <2>. SUFFICES ASSUME IInv, [Next]_vars PROVE IInv'
    OBVIOUS
  <2>1. TypeOK'
    BY TypeStep DEF IInv
  <2>2. RequestInv' /\ LoginInv'
    <3>1. CASE UNCHANGED vars
      BY <3>1 DEF vars, IInv, RequestInv, LoginInv, Good, InFlight, Answered, Carried, SignedOut,
                  Left, Fresh, Slack, Interval
    <3>. QED BY <3>1, SendStep, ServeStep, ReceiveStep, LoseStep, TickStep, RestartStep DEF Next
  <2>. QED BY <2>1, <2>2 DEF IInv
<1>. QED BY <1>1, <1>2, PTL DEF Spec

\* Every variable keeps its type.
THEOREM TypeCorrect == Spec => []TypeOK
<1>1. IInv => TypeOK
  BY DEF IInv
<1>. QED BY <1>1, Invariance, PTL

\* A login in use does not lapse before its TTL less the slack.
THEOREM UseKeepsLogin == Spec => []LoginInUseStays
<1>1. IInv => LoginInUseStays
  <2>. SUFFICES ASSUME IInv, login.on, now < login.used + login.ttl - Slack(login.ttl)
                PROVE  Valid(cookie)
    BY DEF LoginInUseStays
  <2>1. cookie.key = server.key /\ login.used + login.ttl - Slack(login.ttl) <= cookie.expiry
    BY DEF IInv, LoginInv
  <2>2. now \in Nat /\ cookie.expiry \in Nat /\ login.used \in Nat /\ login.ttl \in Nat
        /\ Slack(login.ttl) \in Nat
    BY SlackCovers DEF IInv, TypeOK, Cookies
  <2>. QED BY <2>1, <2>2 DEF Valid
<1>. QED BY <1>1, Invariance, PTL

\* A login that is not used lapses within the TTL in force.
THEOREM DisuseEndsLogin == Spec => []IdleLapses
<1>1. IInv => IdleLapses
  BY DEF IInv, LoginInv, IdleLapses, Valid
<1>. QED BY <1>1, Invariance, PTL

\* After a logout with nothing else under way only a login brings a cookie.
THEOREM LogoutIsFinal == Spec => []LogoutSticks
<1>1. IInv => LogoutSticks
  BY DEF IInv, LoginInv, LogoutSticks
<1>. QED BY <1>1, Invariance, PTL
=============================================================================
