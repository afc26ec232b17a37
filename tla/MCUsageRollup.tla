--------------------------- MODULE MCUsageRollup ---------------------------
(***************************************************************************)
(* An instance of UsageRollup for TLC.                                     *)
(***************************************************************************)
EXTENDS UsageRollup

CONSTANTS Session, CopilotSource, CodexSource, OneModel, Xtab

None == [c \in Columns |-> Nil]
Some == [None EXCEPT !["input"] = 10, !["cache_read"] = 4]
Gen(i, t, s, conv, agent, k, token, cost) ==
  [id |-> i, ts |-> t, source |-> s, model |-> OneModel, token |-> token, agent |-> agent,
   conv |-> conv, tok |-> k, cost |-> cost]

\* Midnight is between 1 and 2.
Mimic == Keyed("other", 2)

MCConversationIds == {Session, Mimic}
MCSchema        == <<1, 2>>

\* Request 1 moves to the day before, then gets one cost and another; request 2 has an id
\* that looks like a day's key; request 3 has no session, until a piece says
\* whose helper it was.
MCTelemetry ==
  { Gen(1, 3, CodexSource, Session, Nil, None, Nil, Nil),
    Gen(1, 1, CodexSource, Session, Nil, Some, 1, Nil),
    Gen(1, 2, CodexSource, Session, Nil, None, Nil, 5),
    Gen(1, 3, CodexSource, Session, Nil, None, Nil, 6),
    Gen(2, 2, CopilotSource, Mimic, Nil, Some, Nil, Nil),
    Gen(2, 3, CopilotSource, Session, Nil, None, 1, Nil),
    Gen(3, 3, CopilotSource, Nil, Nil, None, Nil, Nil),
    Gen(3, 2, CopilotSource, Nil, Xtab, Some, Nil, Nil) }

MCHistorical ==
  [i \in Ids |-> IF i = 1 THEN NewRow(Gen(1, 3, CodexSource, Session, Nil, None, Nil, Nil)) ELSE Absent]

MCEstimates == {[cost |-> 0, costSource |-> "free"]}
=============================================================================
