SPECIFICATION Spec
CONSTANTS
  Ids = {1, 2, 3}
  Times = {0, 1, 2, 3}
  DayLength = 2
  CopilotSource = copilot
  CodexSource = codex
  Sources = {copilot, codex}
  InclusiveSources = {copilot, codex}
  Copilot = copilot
  OneModel = m
  Models = {m}
  Tokens = {1}
  Xtab = xtab
  Agents = {xtab}
  Autocomplete = xtab
  TitleAgents = {}
  Session = s
  ConversationIds <- MCConversationIds
  Counts = {4, 10}
  Prices = {0, 5, 6}
  Nil = Nil
  Telemetry <- MCTelemetry
  Historical <- MCHistorical
  Estimates <- MCEstimates
  Releases = {1, 2}
  Schema <- MCSchema
  Rebuilding = {2}
INVARIANTS
  TypeOK
  RollupIsAggregate
PROPERTIES
  ImplementsLedger
