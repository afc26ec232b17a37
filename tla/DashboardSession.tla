-------------------------- MODULE DashboardSession --------------------------
(***************************************************************************)
(* A browser's login to the dashboard: the signed cookie that slides while *)
(* it is in use (src/internal/auth/session.go), the guard that checks and  *)
(* refreshes it on every page (src/internal/auth/dashboard.go) and the     *)
(* sign-in and sign-out forms (src/internal/web/auth.go), with requests    *)
(* whose answers overtake each other or are lost, and restarts with        *)
(* another TTL or another signing key.                                     *)
(***************************************************************************)
EXTENDS Integers

CONSTANTS
  Requests,            \* the requests that the browser's tabs have under way at once
  Second,              \* steps of the clock in a second
  Ttls, DefaultTtl,    \* the TTLs that may be configured, and the one without a setting
  Share,               \* 10: a tenth of the TTL
  MaxRefreshInterval,  \* an hour
  MaxFlight,           \* the longest a request and its answer are under way (WriteTimeout)
  MaxNow,              \* bound: the clock
  MaxStarts            \* bound: restarts

ASSUME SessionAssumption ==
  /\ {Second, Share} \subseteq Nat \ {0}
  /\ Ttls \subseteq Nat /\ DefaultTtl \in Ttls /\ \A ttl \in Ttls : Second <= ttl
  /\ {MaxRefreshInterval, MaxFlight, MaxNow, MaxStarts} \subseteq Nat

VARIABLES
  now,
  server,     \* the process: its TTL, and its signing key, a number
  cookie,     \* what the browser holds: the key that signed it and its expiry
  request,    \* what is under way
  login       \* history: how the user sees it

vars == <<now, server, cookie, request, login>>

\* NewConfiguredSessions: 0 is no setting.  (The mutant takes it as it is.)
UnsetTtl(setting)      == setting
ConfiguredTtl(setting) == IF setting = 0 THEN DefaultTtl ELSE setting

Server(setting, key, starts) == [ttl |-> ConfiguredTtl(setting), key |-> key, starts |-> starts]

Nothing == [key |-> 0, expiry |-> 0]       \* no cookie; keys begin at 1
Keep    == [key |-> -1, expiry |-> 0]      \* an answer without Set-Cookie

\* `sets` is the answer's Set-Cookie, `at` when the server gave it.
Idle == [state |-> "idle", path |-> "page", sent |-> 0, carries |-> Nothing,
         accepted |-> FALSE, sets |-> Keep, at |-> 0]

\* `on`: signed in and not out since; `out`: signed out, with no other request
\* under way, and not in since; `used`: the last time that the server
\* took a request whose answer came back, with the TTL of then, and `here`
\* whether the present process did.
NoLogin == [on |-> FALSE, out |-> FALSE, used |-> 0, ttl |-> 0, here |-> FALSE]

Init ==
  /\ now = 1
  /\ \E setting \in Ttls \cup {0} : server = Server(setting, 1, 0)
  /\ cookie = Nothing
  /\ request = [r \in Requests |-> Idle]
  /\ login = NoLogin

-----------------------------------------------------------------------------
(* Sessions.                                                               *)

Smaller(a, b) == IF a < b THEN a ELSE b
Larger(a, b)  == IF a > b THEN a ELSE b

\* issue: an expiry is a whole second.
Issued == [key |-> server.key, expiry |-> now + server.ttl - ((now + server.ttl) % Second)]

\* expiry.
Valid(c) == c.key = server.key /\ now < c.expiry

\* Refresh.  (The first mutant refreshes late, the second leaves a cookie that
\* outlives the TTL.)
Interval(ttl) == Smaller(ttl \div Share, MaxRefreshInterval)
DueLate(c)    == c.expiry - now <= Interval(server.ttl) \/ c.expiry - now > server.ttl
DueNever(c)   == c.expiry - now <= server.ttl - Interval(server.ttl)
Due(c)        == c.expiry - now <= server.ttl - Interval(server.ttl) \/ c.expiry - now > server.ttl

-----------------------------------------------------------------------------
(* Requests.                                                               *)

Send(r, path) ==
  /\ request[r].state = "idle"
  /\ request' = [request EXCEPT ![r] =
       [Idle EXCEPT !.state = "sent", !.path = path, !.sent = now, !.carries = cookie]]
  /\ login' = [login EXCEPT !.on = @ /\ path # "logout", !.out = @ /\ path # "login"]
  /\ UNCHANGED <<now, server, cookie>>

Answer(r, accepted, sets) ==
  /\ request' = [request EXCEPT ![r] =
       [@ EXCEPT !.state = "answered", !.accepted = accepted, !.sets = sets, !.at = now]]
  /\ UNCHANGED <<now, server, cookie, login>>

Sent(r, path) == request[r].state = "sent" /\ request[r].path = path

\* Middleware.
ServePage(r) ==
  /\ Sent(r, "page")
  /\ Answer(r, Valid(request[r].carries),
            IF Valid(request[r].carries) /\ Due(request[r].carries) THEN Issued ELSE Keep)

\* loginSubmit, with the right password.
ServeLogin(r) == Sent(r, "login") /\ Answer(r, TRUE, Issued)

\* A public path never refreshes.  (The mutant does, after the handler.)
ServeLogoutRefreshed(r) ==
  Sent(r, "logout") /\ Answer(r, FALSE, IF Valid(request[r].carries) THEN Issued ELSE Nothing)
ServeLogout(r) == Sent(r, "logout") /\ Answer(r, FALSE, Nothing)

Alone(r) == \A s \in Requests \ {r} : request[s].state = "idle"

\* The browser takes the answer.
Receive(r) ==
  /\ request[r].state = "answered"
  /\ cookie' = IF request[r].sets = Keep THEN cookie ELSE request[r].sets
  /\ request' = [request EXCEPT ![r] = Idle]
  /\ login' = IF request[r].path = "logout" THEN [login EXCEPT !.on = FALSE, !.out = Alone(r)]
              ELSE IF request[r].accepted
                THEN [on |-> login.on \/ request[r].path = "login", out |-> login.out,
                      used |-> Larger(login.used, request[r].at),
                      ttl |-> server.ttl, here |-> TRUE]
              ELSE login
  /\ UNCHANGED <<now, server>>

Lose(r) ==
  /\ request[r].state # "idle"
  /\ request' = [request EXCEPT ![r] = Idle]
  /\ UNCHANGED <<now, server, cookie, login>>

Tick ==
  /\ now < MaxNow /\ now' = now + 1
  /\ \A r \in Requests : request[r].state # "idle" => now - request[r].sent < MaxFlight
  /\ UNCHANGED <<server, cookie, request, login>>

\* A restart, which nothing under way survives: with a configured secret and
\* the same credentials the signing key is the same.
Restart(setting, key) ==
  /\ server.starts < MaxStarts
  /\ server' = Server(setting, key, server.starts + 1)
  /\ request' = [r \in Requests |-> Idle]
  /\ login' = [login EXCEPT !.on = @ /\ key = server.key, !.here = FALSE]
  /\ UNCHANGED <<now, cookie>>

Next ==
  \/ \E r \in Requests :
       \/ \E path \in {"page", "login", "logout"} : Send(r, path)
       \/ ServePage(r) \/ ServeLogin(r) \/ ServeLogout(r) \/ Receive(r) \/ Lose(r)
  \/ \E setting \in Ttls \cup {0}, key \in {server.key, server.key + 1} : Restart(setting, key)
  \/ Tick

Spec == Init /\ [][Next]_vars

-----------------------------------------------------------------------------
(* Properties.                                                             *)

Cookies == [key : 0..server.key, expiry : Nat]

\* Every variable keeps its type, and no cookie was signed with a later key.
TypeOK ==
  /\ now \in Nat
  /\ server \in [ttl : Ttls, key : Nat \ {0}, starts : Nat]
  /\ cookie \in Cookies
  /\ request \in [Requests -> [state : {"idle", "sent", "answered"}, path : {"page", "login", "logout"},
                               sent : 0..now, carries : Cookies,
                               accepted : BOOLEAN, sets : Cookies \cup {Keep}, at : 0..now]]
  /\ login \in [on : BOOLEAN, out : BOOLEAN, used : 0..now, ttl : Nat, here : BOOLEAN]

Slack(ttl) == Larger(Interval(ttl), 2 * MaxFlight + Second - 1)

\* A login in use never lapses: the cookie is good until the TTL after the last
\* request, less the refresh interval ("bounds how much earlier than ttl after
\* its last request an active login can lapse") or, if that is longer, what two
\* answers that overtake each other and the cut to a whole second can cost,
\* whatever restarts with the same key and other TTLs come in between.
LoginInUseStays ==
  login.on /\ now < login.used + login.ttl - Slack(login.ttl) => Valid(cookie)

\* A login that is not used lapses within the TTL of the process that last saw
\* it, one lowered since it was signed included ("a cookie outliving ttl
\* predates a lowered TTL and is shortened right away").
IdleLapses ==
  login.here /\ Valid(cookie) => cookie.expiry <= login.used + server.ttl

\* Who signs out stays out: after a logout with no other request under way the
\* browser holds no cookie until it signs in again ("a request to /logout
\* cannot re-issue the session it clears").
LogoutSticks == login.out => cookie = Nothing
=============================================================================
