------------------------------ MODULE LiveHub ------------------------------
(***************************************************************************)
(* "Data changed" signals: the hub (src/internal/live/live.go), the SSE    *)
(* handlers (src/internal/web/sse.go), the dashboard tabs behind them      *)
(* (src/web/templates, with the vendored htmx), the writers that commit    *)
(* and then call Notify, and the shutdown that interrupts the streams      *)
(* (src/cmd/ai-usage/main.go).                                             *)
(*                                                                         *)
(* What a tab shows is reduced to whether something was committed since    *)
(* it last read the database, and whether a signal goes with it, so no     *)
(* bound is needed anywhere:                                               *)
(*   stale   something that was signalled, or will be, is not shown;       *)
(*   silent  something merged into rows that were there, for which no      *)
(*           signal is ever sent, is not shown;                            *)
(*   missed  of the signals for what is stale the last one went unheard.   *)
(***************************************************************************)
EXTENDS Naturals

CONSTANTS
  Tabs,      \* open dashboard pages
  Writers,   \* goroutines that commit displayed data and then notify
  Passes     \* the writers that commit several times before they notify (pricing)

ASSUME HubAssumption == Passes \subseteq Writers

VARIABLES
  writer,    \* "idle", or "dirty": committed and not notified yet
  busy,      \* telemetry still arrives
  subs,      \* Hub.subs
  streams,   \* Hub.streams
  stream,    \* the SSE handler of each tab: where it is, its context, its channel
  tab,       \* each page in its browser
  server,    \* the dashboard server: "running", or how far its shutdown is
  handles    \* InterruptStreams' copy of Hub.streams, still to be cancelled

hub  == <<subs, streams>>
down == <<server, handles>>
data == <<writer, busy>>
vars == <<data, hub, stream, tab, down>>

NoStream == [at |-> "off", cancelled |-> FALSE, token |-> 0]

\* A page as the server rendered it, not yet connected.
LoadedTab ==
  [attached |-> FALSE, stale |-> FALSE, silent |-> FALSE, missed |-> FALSE,
   frame |-> FALSE, timer |-> "off", asked |-> FALSE]

Init ==
  /\ writer = [w \in Writers |-> "idle"] /\ busy = TRUE
  /\ subs = {} /\ streams = {}
  /\ stream = [t \in Tabs |-> NoStream]
  /\ tab = [t \in Tabs |-> LoadedTab]
  /\ server = "running" /\ handles = {}

-----------------------------------------------------------------------------
(* Writers.                                                                *)

\* A batch that stored a new row, or an estimate that landed: a signal
\* follows.
Commit(w) ==
  /\ busy
  /\ writer[w] = "idle" \/ w \in Passes
  /\ writer' = [writer EXCEPT ![w] = "dirty"]
  /\ tab' = [t \in Tabs |-> [tab[t] EXCEPT !.stale = TRUE]]
  /\ UNCHANGED <<busy, hub, stream, down>>

\* A batch that stored no new row (`stored > 0` fails): what it merged into
\* rows that were there (late tokens, a reported cost, an earlier time) is
\* committed, and nobody is told.
MergeSilently(w) ==
  /\ busy
  /\ writer[w] = "idle" /\ w \notin Passes
  /\ tab' = [t \in Tabs |-> [tab[t] EXCEPT !.silent = TRUE]]
  /\ UNCHANGED <<writer, busy, hub, stream, down>>

\* The channel holds one signal.  (The mutant queues them.)
Queue(n) == n + 1
Offer(n) == IF n = 0 THEN 1 ELSE n

Hears(t) == t \in subs /\ tab[t].attached

\* A tab that hears a signal will read the database, and so all that it does
\* not show, merged silently or missed before; one that does not has missed it.
Told(t) ==
  IF Hears(t)
  THEN [tab[t] EXCEPT !.stale = @ \/ tab[t].silent, !.missed = FALSE]
  ELSE [tab[t] EXCEPT !.missed = @ \/ tab[t].stale]

\* A signal reaches the subscribers in R.
Signal(w, R) ==
  /\ writer[w] = "dirty"
  /\ writer' = [writer EXCEPT ![w] = "idle"]
  /\ stream' = [t \in Tabs |-> [stream[t] EXCEPT !.token = IF t \in R THEN Offer(@) ELSE @]]
  /\ tab' = [t \in Tabs |-> Told(t)]
  /\ UNCHANGED <<busy, hub, down>>

\* (The mutant is the hub with channels of no capacity: only a handler that
\* waits in its select gets the signal.)
NotifyUnbuffered(w) == Signal(w, {t \in subs : stream[t].at = "loop"})
Notify(w)           == Signal(w, subs)

TrafficEnds ==
  /\ busy /\ busy' = FALSE
  /\ UNCHANGED <<writer, hub, stream, tab, down>>

-----------------------------------------------------------------------------
(* serveEvents, one handler at a time per tab.                             *)

\* The connection is accepted; its request may be read much later.
Connect(t) ==
  /\ server = "running"
  /\ stream[t].at = "off" /\ ~tab[t].attached
  /\ stream' = [stream EXCEPT ![t] = [NoStream EXCEPT !.at = "accepted"]]
  /\ tab' = [tab EXCEPT ![t].attached = TRUE]
  /\ UNCHANGED <<data, hub, down>>

TrackStream(t) ==
  /\ stream[t].at = "accepted"
  /\ streams' = streams \cup {t}
  /\ stream' = [stream EXCEPT ![t].at = "tracked"]
  /\ UNCHANGED <<data, subs, tab, down>>

Subscribe(t) ==
  /\ stream[t].at = "tracked"
  /\ subs' = subs \cup {t}
  /\ stream' = [stream EXCEPT ![t].at = "open"]
  /\ UNCHANGED <<data, streams, tab, down>>

\* The first flush; a handler whose tab has gone may fail it instead.
Hello(t) ==
  /\ stream[t].at = "open"
  /\ stream' = [stream EXCEPT ![t].at = "loop"]
  /\ UNCHANGED <<data, hub, tab, down>>

\* One round of the select loop; a frame to a tab that has gone is lost.
Send(t) ==
  /\ stream[t].at = "loop" /\ stream[t].token = 1
  /\ stream' = [stream EXCEPT ![t].token = 0]
  /\ tab' = [tab EXCEPT ![t].frame = @ \/ tab[t].attached]
  /\ UNCHANGED <<data, hub, down>>

\* The context ends; the deferred calls run last in, first out.
Unsubscribe(t) ==
  /\ stream[t].at \in {"open", "loop"} /\ stream[t].cancelled
  /\ subs' = subs \ {t}
  /\ stream' = [stream EXCEPT ![t] = [at |-> "leaving", cancelled |-> TRUE, token |-> 0]]
  /\ tab' = [tab EXCEPT ![t].missed = @ \/ (tab[t].stale /\ stream[t].token = 1)]
  /\ UNCHANGED <<data, streams, down>>

\* The connection ends for the tab, with what was under way to it.
Lost(t) ==
  [tab[t] EXCEPT !.attached = FALSE, !.frame = FALSE,
                 !.missed = @ \/ (tab[t].stale /\ (tab[t].frame \/ stream[t].token = 1))]

Untrack(t) ==
  /\ stream[t].at = "leaving"
  /\ streams' = streams \ {t}
  /\ stream' = [stream EXCEPT ![t] = NoStream]
  /\ tab' = [tab EXCEPT ![t] = Lost(t)]
  /\ UNCHANGED <<data, subs, down>>

-----------------------------------------------------------------------------
(* A page: the SSE extension drops the connection of a hidden tab and      *)
(* connects again when it is shown; each data-changed event restarts the   *)
(* fragments' two-second delay, and then they are fetched.                 *)

Disconnect(t) ==
  /\ tab[t].attached
  /\ tab' = [tab EXCEPT ![t] = Lost(t)]
  /\ stream' = [stream EXCEPT ![t].cancelled = TRUE]
  /\ UNCHANGED <<data, hub, down>>

Dispatch(t) ==
  /\ tab[t].frame
  /\ tab' = [tab EXCEPT ![t].frame = FALSE, ![t].timer = "reset"]
  /\ UNCHANGED <<data, hub, stream, down>>

DelayRuns(t) ==
  /\ tab[t].timer = "reset"
  /\ tab' = [tab EXCEPT ![t].timer = "running"]
  /\ UNCHANGED <<data, hub, stream, down>>

DelayEnds(t) ==
  /\ tab[t].timer = "running"
  /\ tab' = [tab EXCEPT ![t].timer = "off", ![t].asked = TRUE]
  /\ UNCHANGED <<data, hub, stream, down>>

ReadFragment(t) ==
  /\ tab[t].asked /\ server = "running"
  /\ tab' = [tab EXCEPT ![t].asked = FALSE, ![t].stale = FALSE, ![t].silent = FALSE,
                        ![t].missed = FALSE]
  /\ UNCHANGED <<data, hub, stream, down>>

-----------------------------------------------------------------------------
(* Shutdown: the listener closes, InterruptStreams runs in a goroutine,    *)
(* and Shutdown waits for every handler.                                   *)

ShutdownBegins ==
  /\ server = "running" /\ server' = "stopping"
  /\ UNCHANGED <<data, hub, stream, tab, handles>>

\* (The mutant empties the registry before it copies it.)
TakeHandlesLate ==
  /\ server = "stopping" /\ server' = "cancelling"
  /\ handles' = {} /\ streams' = {}
  /\ UNCHANGED <<data, subs, stream, tab>>

TakeHandles ==
  /\ server = "stopping" /\ server' = "cancelling"
  /\ handles' = streams /\ streams' = {}
  /\ UNCHANGED <<data, subs, stream, tab>>

CancelHandle(t) ==
  /\ server = "cancelling" /\ t \in handles
  /\ handles' = handles \ {t}
  /\ stream' = [stream EXCEPT ![t].cancelled = stream[t].at # "off"]
  /\ UNCHANGED <<data, hub, tab, server>>

ShutdownReturns ==
  /\ server = "cancelling"
  /\ \A t \in Tabs : stream[t].at = "off"
  /\ server' = "down"
  /\ UNCHANGED <<data, hub, stream, tab, handles>>

Handler(t) ==
  TrackStream(t) \/ Subscribe(t) \/ Hello(t) \/ Send(t) \/ Unsubscribe(t) \/ Untrack(t)

Page(t) == Dispatch(t) \/ DelayRuns(t) \/ DelayEnds(t) \/ ReadFragment(t)

Interrupt == TakeHandles \/ ShutdownReturns \/ \E t \in Tabs : CancelHandle(t)

Next ==
  \/ \E w \in Writers : Commit(w) \/ MergeSilently(w) \/ Notify(w)
  \/ \E t \in Tabs : Connect(t) \/ Disconnect(t) \/ Handler(t) \/ Page(t)
  \/ TrafficEnds \/ ShutdownBegins \/ Interrupt

Spec == Init /\ [][Next]_vars

\* Goroutines and browsers make progress, and a select that finds its context
\* done and a signal does not take the signal for ever.  Nothing says that
\* telemetry comes or ends, that a tab connects or leaves, or that the process
\* is stopped.
FairSpec ==
  /\ Spec
  /\ \A w \in Writers : WF_vars(Notify(w))
  /\ \A t \in Tabs : WF_vars(Handler(t)) /\ WF_vars(Unsubscribe(t)) /\ WF_vars(Page(t))
  /\ WF_vars(Interrupt)

-----------------------------------------------------------------------------
(* Properties.                                                             *)

Stream == [at : {"off", "accepted", "tracked", "open", "loop", "leaving"},
           cancelled : BOOLEAN, token : 0..1]

Tab == [attached : BOOLEAN, stale : BOOLEAN, silent : BOOLEAN, missed : BOOLEAN,
        frame : BOOLEAN, timer : {"off", "reset", "running"}, asked : BOOLEAN]

\* Every variable keeps its type, and no channel more than one signal.
TypeOK ==
  /\ writer \in [Writers -> {"idle", "dirty"}] /\ busy \in BOOLEAN
  /\ subs \subseteq Tabs /\ streams \subseteq Tabs /\ handles \subseteq Tabs
  /\ stream \in [Tabs -> Stream] /\ tab \in [Tabs -> Tab]
  /\ server \in {"running", "stopping", "cancelling", "down"}

\* Something will still make the tab read the database again.
OnItsWay(t) ==
  \/ stream[t].token = 1 \/ tab[t].frame \/ tab[t].timer # "off" \/ tab[t].asked
  \/ \E w \in Writers : writer[w] = "dirty"

\* One buffered signal per subscriber is enough: however commits, signals,
\* frames, delays and fetches interleave, a tab either shows what was signalled
\* while it was subscribed, and all that was committed before that signal, or
\* has a fetch coming ("slow subscribers drop instead of backing up").  It says
\* nothing of what was merged silently since.
SignalsCoalesce ==
  \A t \in Tabs : tab[t].stale /\ ~tab[t].missed => OnItsWay(t)

\* When telemetry pauses, a tab that hears of a commit, the only one it has not
\* read or the latest of many, comes to show everything: also what it missed
\* while it was hidden or not subscribed yet, and what was merged silently
\* ("losing one is harmless because the next signal follows").  A tab stays
\* behind only on merges that no signal followed, or when the last signal itself
\* went past it.
SubscribedTabCatchesUp ==
  \A t \in Tabs :
    ~busy /\ tab[t].stale /\ ~tab[t].missed /\ server = "running" ~>
      (~tab[t].stale /\ ~tab[t].silent) \/ tab[t].missed \/ server # "running"

\* Every stream in the registry when the shutdown begins is ended by it, in
\* whatever order handlers register, leave and are cancelled.
TrackedStreamsEnd ==
  \A t \in Tabs : server = "stopping" /\ t \in streams ~> stream[t].at = "off"
=============================================================================
