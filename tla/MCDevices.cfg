SPECIFICATION PartsSpec
CONSTANTS
  v1 = v1
  v2 = v2
  v3 = v3
  c1 = c1
  c2 = c2
  Tasks <- SusiTasks
  Variables <- SusiVariables
  Policy <- SusiPolicy
  Page <- MCPage
  RetryLimit = 1
  Size = 4
  Window = 2
  MaxLines = 8
  MaxSessions = 3
  ListSize = 2
  MaxClicks = 5
  MaxRefusals = 1
  Ports <- MCSections
  Trains <- MCCompositions
  Decoderless <- MCDecoderless
  MaxMoves = 2
  MaxQueries = 1
  MaxLost = 1
INVARIANTS
  TypesOK
  OwnPageOnly
  ResultsInOrder
  DetectorsFollow
  SpeedIsOfThisSession
  CommandsAreDone
  LayoutAgrees
  ReportsAgree
PROPERTY
  TasksEnd
CHECK_DEADLOCK FALSE
