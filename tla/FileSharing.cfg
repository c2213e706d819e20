SPECIFICATION FairSpec
CONSTANTS
  Peers = {p1}
  FileNames = {f1}
  NoFile = none
  FileSize = 3
  ChunkSize = 2
  MaxSent = 4
  MaxSwitches = 2
INVARIANT
  AcceptedIsNotAborted
CHECK_DEADLOCK FALSE
