--------------------------- MODULE LiveHubProofs ---------------------------
(***************************************************************************)
(* Proofs about LiveHub, for every set of tabs and writers.                *)
(*                                                                         *)
(* The argument: a signal is only ever taken from a tab that will hear of  *)
(* it.  A handler that takes a token hands a frame to an attached tab; for *)
(* a tab that has gone, a token means nothing (GoneTab), so what it still  *)
(* has coming lies with a writer or in its own timer.                      *)
(***************************************************************************)
EXTENDS LiveHub, TLAPS

Unsignalled == \E w \in Writers : writer[w] = "dirty"

\* A handler is a subscriber in its loop and while it opens, and only a
\* subscriber's channel holds a signal.
Registered(t) ==
  /\ t \in subs <=> stream[t].at \in {"open", "loop"}
  /\ stream[t].token = 1 => t \in subs

\* A frame is under way only to a tab that is there; one that has gone waits
\* for nothing but a writer, its timer or its fetch.
GoneTab(t) ==
  /\ tab[t].frame => tab[t].attached
  /\ tab[t].stale /\ ~tab[t].missed /\ ~tab[t].attached =>
       tab[t].timer # "off" \/ tab[t].asked \/ Unsignalled

Covered(t) == tab[t].stale /\ ~tab[t].missed => OnItsWay(t)

TabInv(t) == Registered(t) /\ GoneTab(t) /\ Covered(t)

IInv == TypeOK /\ \A t \in Tabs : TabInv(t)


-----------------------------------------------------------------------------
(* Types.  A field is updated within its record, the record in its         *)
(* function.                                                               *)

USE DEF data, hub, down

\* A step of serveEvents keeps the types.
LEMMA HandlerType ==
  ASSUME TypeOK, NEW t \in Tabs, Handler(t)
  PROVE  TypeOK'
<1>1. CASE TrackStream(t)
  <2>1. [stream[t] EXCEPT !.at = "tracked"] \in Stream
    BY DEF TypeOK, Stream
  <2>. QED BY <1>1, <2>1 DEF TrackStream, TypeOK
<1>2. CASE Subscribe(t)
  <2>1. [stream[t] EXCEPT !.at = "open"] \in Stream
    BY DEF TypeOK, Stream
  <2>. QED BY <1>2, <2>1 DEF Subscribe, TypeOK
<1>3. CASE Hello(t)
  <2>1. [stream[t] EXCEPT !.at = "loop"] \in Stream
    BY DEF TypeOK, Stream
  <2>. QED BY <1>3, <2>1 DEF Hello, TypeOK
<1>4. CASE Send(t)
  <2>1. [stream[t] EXCEPT !.token = 0] \in Stream
    BY DEF TypeOK, Stream
  <2>2. [tab[t] EXCEPT !.frame = @ \/ tab[t].attached] \in Tab
    BY DEF TypeOK, Tab
  <2>. QED BY <1>4, <2>1, <2>2 DEF Send, TypeOK
<1>5. CASE Unsubscribe(t)
  <2>1. [at |-> "leaving", cancelled |-> TRUE, token |-> 0] \in Stream
    BY DEF Stream
  <2>2. [tab[t] EXCEPT !.missed = @ \/ (tab[t].stale /\ stream[t].token = 1)] \in Tab
    BY DEF TypeOK, Tab
  <2>. QED BY <1>5, <2>1, <2>2 DEF Unsubscribe, TypeOK
<1>6. CASE Untrack(t)
  <2>1. NoStream \in Stream
    BY DEF NoStream, Stream
  <2>2. Lost(t) \in Tab
    BY DEF TypeOK, Tab, Lost
  <2>. QED BY <1>6, <2>1, <2>2 DEF Untrack, TypeOK
<1>. QED BY <1>1, <1>2, <1>3, <1>4, <1>5, <1>6 DEF Handler

\* A tab that connects or leaves keeps them.
LEMMA ConnectionType ==
  ASSUME TypeOK, NEW t \in Tabs, Connect(t) \/ Disconnect(t)
  PROVE  TypeOK'
<1>1. CASE Connect(t)
  <2>1. [NoStream EXCEPT !.at = "accepted"] \in Stream
    <3>1. NoStream \in Stream
      BY DEF NoStream, Stream
    <3>. QED BY <3>1 DEF Stream
  <2>2. [tab[t] EXCEPT !.attached = TRUE] \in Tab
    BY DEF TypeOK, Tab
  <2>. QED BY <1>1, <2>1, <2>2 DEF Connect, TypeOK
<1>2. CASE Disconnect(t)
  <2>1. [stream[t] EXCEPT !.cancelled = TRUE] \in Stream
    BY DEF TypeOK, Stream
  <2>2. Lost(t) \in Tab
    BY DEF TypeOK, Tab, Lost
  <2>. QED BY <1>2, <2>1, <2>2 DEF Disconnect, TypeOK
<1>. QED BY <1>1, <1>2

\* A page's frame, delay or fetch keeps them.
LEMMA PageType ==
  ASSUME TypeOK, NEW t \in Tabs, Page(t)
  PROVE  TypeOK'
<1>1. /\ [tab[t] EXCEPT !.frame = FALSE, !.timer = "reset"] \in Tab
      /\ [tab[t] EXCEPT !.timer = "running"] \in Tab
      /\ [tab[t] EXCEPT !.timer = "off", !.asked = TRUE] \in Tab
      /\ [tab[t] EXCEPT !.asked = FALSE, !.stale = FALSE, !.silent = FALSE, !.missed = FALSE]
           \in Tab
  BY DEF TypeOK, Tab
<1>2. ASSUME NEW x \in Tab, tab' = [tab EXCEPT ![t] = x], UNCHANGED <<data, hub, stream, down>>
      PROVE  TypeOK'
  BY <1>2 DEF TypeOK, data, hub, down
<1>3. \E x \in Tab : tab' = [tab EXCEPT ![t] = x]
  <2>1. tab \in [Tabs -> Tab]
    BY DEF TypeOK
  <2>2. CASE Dispatch(t)
    BY <1>1, <2>1, <2>2 DEF Dispatch
  <2>3. CASE DelayRuns(t)
    BY <1>1, <2>1, <2>3 DEF DelayRuns
  <2>4. CASE DelayEnds(t)
    BY <1>1, <2>1, <2>4 DEF DelayEnds
  <2>5. CASE ReadFragment(t)
    BY <1>1, <2>1, <2>5 DEF ReadFragment
  <2>. QED BY <2>2, <2>3, <2>4, <2>5 DEF Page
<1>. QED BY <1>2, <1>3 DEF Page, Dispatch, DelayRuns, DelayEnds, ReadFragment

\* A commit, a silent merge and Notify keep them.
LEMMA WriterType ==
  ASSUME TypeOK, NEW w \in Writers, Commit(w) \/ MergeSilently(w) \/ Notify(w)
  PROVE  TypeOK'
<1>1. CASE Commit(w)
  <2>1. ASSUME NEW t \in Tabs PROVE [tab[t] EXCEPT !.stale = TRUE] \in Tab
    BY DEF TypeOK, Tab
  <2>. QED BY <1>1, <2>1 DEF Commit, TypeOK
<1>2. CASE Notify(w)
  <2>1. ASSUME NEW t \in Tabs
        PROVE  [stream[t] EXCEPT !.token = IF t \in subs THEN Offer(@) ELSE @] \in Stream
    BY DEF TypeOK, Stream, Offer
  <2>2. ASSUME NEW t \in Tabs
        PROVE  Told(t) \in Tab
    <3>1. /\ [tab[t] EXCEPT !.stale = @ \/ tab[t].silent, !.missed = FALSE] \in Tab
          /\ [tab[t] EXCEPT !.missed = @ \/ tab[t].stale] \in Tab
      BY DEF TypeOK, Tab
    <3>. QED BY <3>1 DEF Told
  <2>. QED BY <1>2, <2>1, <2>2 DEF Notify, Signal, TypeOK
<1>3. CASE MergeSilently(w)
  <2>1. ASSUME NEW t \in Tabs PROVE [tab[t] EXCEPT !.silent = TRUE] \in Tab
    BY DEF TypeOK, Tab
  <2>. QED BY <1>3, <2>1 DEF MergeSilently, TypeOK
<1>. QED BY <1>1, <1>2, <1>3

\* InterruptStreams and the shutdown around it keep them.
LEMMA ShutdownType ==
  ASSUME TypeOK, ShutdownBegins \/ Interrupt
  PROVE  TypeOK'
<1>1. ASSUME NEW t \in Tabs, CancelHandle(t) PROVE TypeOK'
  <2>1. [stream[t] EXCEPT !.cancelled = stream[t].at # "off"] \in Stream
    BY DEF TypeOK, Stream
  <2>. QED BY <1>1, <2>1 DEF CancelHandle, TypeOK
<1>. QED BY <1>1 DEF ShutdownBegins, Interrupt, TakeHandles, ShutdownReturns, TypeOK

-----------------------------------------------------------------------------
(* The steps.                                                              *)

\* Nothing has been signalled at first.
LEMMA InitInv == Init => IInv
  BY DEF Init, IInv, TypeOK, Stream, Tab, TabInv, Registered, GoneTab, Covered, NoStream,
         LoadedTab

\* A step that touches one tab and its handler, and no writer, leaves every
\* other tab's part of the invariant alone.
LEMMA OthersKept ==
  ASSUME IInv, NEW t \in Tabs, NEW u \in Tabs, u # t,
         stream'[u] = stream[u], tab'[u] = tab[u], u \in subs' <=> u \in subs,
         writer' = writer
  PROVE  TabInv(u)'
  BY DEF IInv, TabInv, Registered, GoneTab, Covered, OnItsWay, Unsignalled

\* A writer commits: every tab has a signal coming.
LEMMA CommitStep ==
  ASSUME IInv, NEW w \in Writers, Commit(w)
  PROVE  IInv'
<1>1. TypeOK'
  BY WriterType DEF IInv
<1>2. ASSUME NEW t \in Tabs PROVE TabInv(t)'
  <2>1. Unsignalled'
    BY DEF IInv, TypeOK, Tab, Commit, Unsignalled
  <2>2. /\ stream' = stream /\ subs' = subs
        /\ tab'[t].frame = tab[t].frame /\ tab'[t].attached = tab[t].attached
    BY DEF IInv, TypeOK, Tab, Commit
  <2>. QED BY <2>1, <2>2 DEF IInv, TabInv, Registered, GoneTab, Covered, OnItsWay, Unsignalled
<1>. QED BY <1>1, <1>2 DEF IInv

\* A silent merge: nobody is told, and nobody is owed a read for it.
LEMMA MergeStep ==
  ASSUME IInv, NEW w \in Writers, MergeSilently(w)
  PROVE  IInv'
<1>1. TypeOK'
  BY WriterType DEF IInv
<1>2. ASSUME NEW t \in Tabs PROVE TabInv(t)'
  <2>1. /\ stream' = stream /\ subs' = subs /\ writer' = writer
        /\ tab'[t].frame = tab[t].frame /\ tab'[t].attached = tab[t].attached
        /\ tab'[t].stale = tab[t].stale /\ tab'[t].missed = tab[t].missed
        /\ tab'[t].timer = tab[t].timer /\ tab'[t].asked = tab[t].asked
    BY DEF IInv, TypeOK, Tab, MergeSilently
  <2>. QED BY <2>1 DEF IInv, TabInv, Registered, GoneTab, Covered, OnItsWay, Unsignalled
<1>. QED BY <1>1, <1>2 DEF IInv

\* The signal goes out: an attached subscriber has a token, and whoever else
\* is behind has missed it.
LEMMA NotifyStep ==
  ASSUME IInv, NEW w \in Writers, Notify(w)
  PROVE  IInv'
<1>1. TypeOK'
  BY WriterType DEF IInv
<1>2. ASSUME NEW t \in Tabs PROVE TabInv(t)'
  <2>1. /\ subs' = subs /\ stream'[t].at = stream[t].at
        /\ stream'[t].token = IF t \in subs THEN 1 ELSE stream[t].token
    BY DEF IInv, TypeOK, Stream, Tab, Notify, Signal, Offer
  <2>2. /\ tab'[t].frame = tab[t].frame /\ tab'[t].attached = tab[t].attached
        /\ ~Hears(t) => /\ tab'[t].stale = tab[t].stale
                        /\ tab'[t].missed = (tab[t].missed \/ tab[t].stale)
    BY DEF IInv, TypeOK, Stream, Tab, Notify, Signal, Told
  <2>. QED BY <2>1, <2>2 DEF IInv, TabInv, Registered, GoneTab, Covered, OnItsWay, Hears
<1>. QED BY <1>1, <1>2 DEF IInv

\* Steps of a handler.
LEMMA HandlerStep ==
  ASSUME IInv, NEW t \in Tabs, Handler(t)
  PROVE  IInv'
<1>. USE DEF IInv
<1>0. TypeOK'
  BY HandlerType
<1>1. CASE TrackStream(t) \/ Subscribe(t) \/ Hello(t)
  <2>1. TabInv(t)'
    BY <1>1 DEF TypeOK, Stream, Tab, TrackStream, Subscribe, Hello, TabInv, Registered, GoneTab,
                Covered, OnItsWay, Unsignalled
  <2>2. ASSUME NEW u \in Tabs, u # t PROVE TabInv(u)'
    <3>1. /\ stream'[u] = stream[u] /\ tab'[u] = tab[u] /\ writer' = writer
          /\ u \in subs' <=> u \in subs
      BY <1>1, <2>2 DEF TypeOK, TrackStream, Subscribe, Hello
    <3>. QED BY <2>2, <3>1, OthersKept
  <2>. QED BY <1>0, <2>1, <2>2
<1>2. CASE Send(t)
  <2>1. TabInv(t)'
    BY <1>2 DEF TypeOK, Stream, Tab, Send, TabInv, Registered, GoneTab, Covered,
                OnItsWay, Unsignalled
  <2>2. ASSUME NEW u \in Tabs, u # t PROVE TabInv(u)'
    <3>1. /\ stream'[u] = stream[u] /\ tab'[u] = tab[u] /\ writer' = writer
          /\ u \in subs' <=> u \in subs
      BY <1>2, <2>2 DEF TypeOK, Send
    <3>. QED BY <2>2, <3>1, OthersKept
  <2>. QED BY <1>0, <2>1, <2>2
<1>3. CASE Unsubscribe(t)
  <2>1. TabInv(t)'
    BY <1>3 DEF TypeOK, Stream, Tab, Unsubscribe, TabInv, Registered, GoneTab, Covered,
                OnItsWay, Unsignalled
  <2>2. ASSUME NEW u \in Tabs, u # t PROVE TabInv(u)'
    <3>1. /\ stream'[u] = stream[u] /\ tab'[u] = tab[u] /\ writer' = writer
          /\ u \in subs' <=> u \in subs
      BY <1>3, <2>2 DEF TypeOK, Unsubscribe
    <3>. QED BY <2>2, <3>1, OthersKept
  <2>. QED BY <1>0, <2>1, <2>2
<1>4. CASE Untrack(t)
  <2>1. TabInv(t)'
    BY <1>4 DEF TypeOK, Stream, Tab, Untrack, Lost, NoStream, TabInv, Registered, GoneTab, Covered,
                OnItsWay, Unsignalled
  <2>2. ASSUME NEW u \in Tabs, u # t PROVE TabInv(u)'
    <3>1. /\ stream'[u] = stream[u] /\ tab'[u] = tab[u] /\ writer' = writer
          /\ u \in subs' <=> u \in subs
      BY <1>4, <2>2 DEF TypeOK, Untrack
    <3>. QED BY <2>2, <3>1, OthersKept
  <2>. QED BY <1>0, <2>1, <2>2
<1>. QED BY <1>1, <1>2, <1>3, <1>4 DEF Handler

\* A tab connects, or leaves with what was under way to it.
LEMMA ConnectionStep ==
  ASSUME IInv, NEW t \in Tabs, Connect(t) \/ Disconnect(t)
  PROVE  IInv'
<1>. USE DEF IInv
<1>0. TypeOK'
  BY ConnectionType
<1>1. CASE Connect(t)
  <2>1. TabInv(t)'
    BY <1>1 DEF TypeOK, Stream, Tab, Connect, NoStream, TabInv, Registered, GoneTab, Covered,
                OnItsWay, Unsignalled
  <2>2. ASSUME NEW u \in Tabs, u # t PROVE TabInv(u)'
    <3>1. /\ stream'[u] = stream[u] /\ tab'[u] = tab[u] /\ writer' = writer
          /\ u \in subs' <=> u \in subs
      BY <1>1, <2>2 DEF TypeOK, Connect
    <3>. QED BY <2>2, <3>1, OthersKept
  <2>. QED BY <1>0, <2>1, <2>2
<1>2. CASE Disconnect(t)
  <2>1. TabInv(t)'
    BY <1>2 DEF TypeOK, Stream, Tab, Disconnect, Lost, TabInv, Registered, GoneTab, Covered,
                OnItsWay, Unsignalled
  <2>2. ASSUME NEW u \in Tabs, u # t PROVE TabInv(u)'
    <3>1. /\ stream'[u] = stream[u] /\ tab'[u] = tab[u] /\ writer' = writer
          /\ u \in subs' <=> u \in subs
      BY <1>2, <2>2 DEF TypeOK, Disconnect
    <3>. QED BY <2>2, <3>1, OthersKept
  <2>. QED BY <1>0, <2>1, <2>2
<1>. QED BY <1>1, <1>2

\* A frame becomes a delay, the delay a fetch, and the fetch a fresh tab.
LEMMA PageStep ==
  ASSUME IInv, NEW t \in Tabs, Page(t)
  PROVE  IInv'
<1>. USE DEF IInv
<1>1. TypeOK'
  BY PageType
<1>. USE DEF Page, Dispatch, DelayRuns, DelayEnds, ReadFragment
<1>2. TabInv(t)'
  BY DEF TypeOK, Tab, TabInv, Registered, GoneTab, Covered, OnItsWay, Unsignalled
<1>3. ASSUME NEW u \in Tabs, u # t PROVE TabInv(u)'
  <2>1. /\ stream'[u] = stream[u] /\ tab'[u] = tab[u] /\ writer' = writer
        /\ u \in subs' <=> u \in subs
    BY <1>3 DEF TypeOK
  <2>. QED BY <1>3, <2>1, OthersKept
<1>. QED BY <1>1, <1>2, <1>3

\* A shutdown takes no signal from anybody: it only cancels contexts.
LEMMA ShutdownStep ==
  ASSUME IInv, ShutdownBegins \/ Interrupt
  PROVE  IInv'
<1>. USE DEF IInv
<1>1. TypeOK'
  BY ShutdownType
<1>2. ASSUME NEW u \in Tabs PROVE TabInv(u)'
  <2>1. /\ stream'[u].at = stream[u].at /\ stream'[u].token = stream[u].token
        /\ tab' = tab /\ subs' = subs /\ writer' = writer
    BY DEF TypeOK, Stream, Interrupt, ShutdownBegins, TakeHandles, ShutdownReturns, CancelHandle
  <2>. QED BY <2>1 DEF TabInv, Registered, GoneTab, Covered, OnItsWay, Unsignalled
<1>. QED BY <1>1, <1>2

\* The invariant is inductive.
THEOREM StepInv == IInv /\ [Next]_vars => IInv'
<1>. SUFFICES ASSUME IInv, [Next]_vars PROVE IInv'
  OBVIOUS
<1>1. CASE \E w \in Writers : Commit(w) \/ MergeSilently(w) \/ Notify(w)
  BY <1>1, CommitStep, MergeStep, NotifyStep
<1>2. CASE \E t \in Tabs : Connect(t) \/ Disconnect(t) \/ Handler(t) \/ Page(t)
  BY <1>2, ConnectionStep, HandlerStep, PageStep
<1>3. CASE TrafficEnds
  BY <1>3 DEF TrafficEnds, IInv, TypeOK, TabInv, Registered, GoneTab, Covered, OnItsWay,
              Unsignalled
<1>4. CASE ShutdownBegins \/ Interrupt
  BY <1>4, ShutdownStep
<1>5. CASE UNCHANGED vars
  BY <1>5 DEF vars, IInv, TypeOK, TabInv, Registered, GoneTab, Covered, OnItsWay, Unsignalled
<1>. QED BY <1>1, <1>2, <1>3, <1>4, <1>5 DEF Next

-----------------------------------------------------------------------------
(* What the runs check, for every set of tabs and writers.                 *)

\* Every reachable state of the hub, its handlers and its tabs is in order.
THEOREM Invariance == Spec => []IInv
  BY InitInv, StepInv, PTL DEF Spec

\* No channel ever holds more than one signal, and every variable keeps its
\* type.
THEOREM TypeCorrect == Spec => []TypeOK
<1>1. IInv => TypeOK
  BY DEF IInv
<1>. QED BY <1>1, Invariance, PTL

\* One buffered signal per subscriber loses nothing (live.Hub.Notify): a tab
\* that is behind on what was signalled, and heard the last signal, always has
\* a fetch coming.
THEOREM NothingLost == Spec => []SignalsCoalesce
<1>1. IInv => SignalsCoalesce
  BY DEF IInv, TabInv, Covered, SignalsCoalesce
<1>. QED BY <1>1, Invariance, PTL
=============================================================================
