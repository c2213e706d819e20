SPECIFICATION FairSpec
CONSTANTS
  Tasks <- MCTasks
  Variables <- MCVariables
  Bits = 2
  Decoders <- MCDecoders
  RetryLimit = 1
  MaxDriving = 1
  MaxEvents = 3
INVARIANTS
  ReadValueIsRight
  ProgramsInServiceMode
  StateFollows
PROPERTIES
  ReadsEnd
CHECK_DEADLOCK FALSE
