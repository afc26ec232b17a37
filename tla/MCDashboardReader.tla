------------------------- MODULE MCDashboardReader -------------------------
(***************************************************************************)
(* An instance of DashboardReader for TLC.  A day is two hours long; 229   *)
(* is a Saturday, 230 a Sunday and the first of a month, 232 a Monday.     *)
(***************************************************************************)
EXTENDS DashboardReader

CONSTANTS S1, CopilotSource, CodexSource, MakiSource, Plain, Routed, Xtab

MCConversationIds == {S1}
MCMonthStarts     == {0, 170, 230, 290}
MCTokenGroup      == [t \in Tokens |-> IF t = 1 THEN "team" ELSE ""]
MCBare(m)         == IF m = Routed THEN Plain ELSE m
MCStringRank(c)   == CASE c = S1     -> 1400
                       [] c = Plain  -> 1500
                       [] c = Routed -> 1501
                       [] OTHER -> c[2] + (CASE c[1] = "autocomplete"  -> 0
                                             [] c[1] = "other"         -> 1000
                                             [] c[1] = "titleprogress" -> 1600)
MCSchema          == <<1>>

None == [c \in Columns |-> Nil]
Some == [None EXCEPT !["input"] = 10, !["cache_read"] = 4, !["output"] = 10, !["reasoning"] = 4]
More == [None EXCEPT !["input"] = 4, !["cache_read"] = 10, !["reasoning"] = 4]
Gen(i, t, s, m, conv, agent, k, token, cost) ==
  [id |-> i, ts |-> t, source |-> s, model |-> m, token |-> token, agent |-> agent,
   conv |-> conv, tok |-> k, cost |-> cost]

\* Requests 1 and 2 share a session and a time; 1 turns out to be older, 2 to
\* be an editor's helper with more tokens cached than it has in all.  Request
\* 3 is the newest, has no session and reports its token classes apart.
MCTelemetry ==
  { Gen(1, 231, CodexSource, Plain, S1, Nil, Some, Nil, Nil),
    Gen(1, 229, CodexSource, Nil, S1, Nil, None, 1, Nil),
    Gen(2, 231, CopilotSource, Routed, S1, Nil, More, Nil, 5),
    Gen(2, 230, CopilotSource, Nil, Nil, Xtab, None, Nil, Nil),
    Gen(3, 232, MakiSource, Plain, Nil, Nil, Some, Nil, Nil) }

MCHistorical == [i \in Ids |-> Absent]
MCEstimates  == {}

Preset(r)      == [NoUi EXCEPT !.range = r]
From(u, s, t)  == [u EXCEPT !.from = s, !.to = t]
WithDims(u)    == { [u EXCEPT !.source = CopilotSource], [u EXCEPT !.model = Plain],
                  [u EXCEPT !.token = NoToken], [u EXCEPT !.token = 1], [u EXCEPT !.group = "team"],
                  [u EXCEPT !.ungrouped = TRUE], [u EXCEPT !.conv = S1],
                  [u EXCEPT !.conv = Sentinel("none")], [u EXCEPT !.conv = Sentinel("autocomplete")] }
MCUis ==
  { Preset(r) : r \in Ranges }
  \cup { From(NoUi, s, t) : s \in {229, 230, 231, 232}, t \in {Nil, 230, 231, 232, 233} }
  \cup { From(NoUi, Nil, 232), From(NoUi, 100, Nil), From(NoUi, 234, Nil) }
  \cup WithDims(Preset("all")) \cup WithDims(From(NoUi, 229, 233))
=============================================================================
