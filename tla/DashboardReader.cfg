SPECIFICATION ReaderSpec
CONSTANTS
  Ids = {1, 2, 3}
  Times = {229, 230, 231, 232}
  DayLength = 2
  HourLength = 1
  MonthStarts <- MCMonthStarts
  Now = 233
  HeatmapWeeks = 2
  MaxBuckets = 106
  PageLimit = 1
  DefaultGenerationLimit = 1
  MaxGenerationLimit = 2
  CopilotSource = copilot
  CodexSource = codex
  MakiSource = maki
  Sources = {copilot, codex, maki}
  InclusiveSources = {copilot, codex}
  Copilot = copilot
  Plain = m
  Routed = zm
  Models = {m, zm}
  Bare <- MCBare
  Tokens = {1}
  TokenGroup <- MCTokenGroup
  Xtab = xtab
  Agents = {xtab}
  Autocomplete = xtab
  TitleAgents = {}
  S1 = s1
  ConversationIds <- MCConversationIds
  StringRank <- MCStringRank
  Counts = {4, 10}
  Prices = {5}
  Nil = Nil
  Telemetry <- MCTelemetry
  Historical <- MCHistorical
  Estimates <- MCEstimates
  Releases = {1}
  Schema <- MCSchema
  Rebuilding = {}
  Uis <- MCUis
INVARIANTS
  WalkSkipsNone
  RangeSplitIsExact
  PagesAddUp
  ChartsShowAll
  CardsOpen
