SPECIFICATION PartsSpec
CONSTANTS
  Bursts <- MCBursts
  MaxEvents = 3
INVARIANTS
  StationAgrees
  FramesAreFound
  MessagesAreUnderstood
PROPERTIES
  KeepsPromises
  NothingHangs
CHECK_DEADLOCK FALSE
