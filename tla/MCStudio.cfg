SPECIFICATION PartsSpec
CONSTANTS
  a1 = a1
  a2 = a2
  p1 = p1
  p2 = p2
  f1 = f1
  f2 = f2
  d1 = d1
  d2 = d2
  v1 = v1
  v2 = v2
  v3 = v3
  None = none
  Damaged = damaged
  Apps <- MCApps
  Patient = TRUE
  MaxActs = 3
  MaxConnects = 2
  FileNames <- MCNames
  Peers <- MCPeers
  FileSize = 3
  ChunkSize = 2
  MaxSent = 4
  MaxSwitches = 2
  Devices <- MCDevices
  MaxRecent = 1
  MaxRows = 2
  MaxEdits = 2
  MaxChanges = 2
  Vehicles <- MCVehicles
  MaxSpeed = 1
  QuerySlots = 2
  MaxDrives = 2
  MaxDevices = 2
  MaxCreated = 2
  MaxLocks = 1
  TargetsOf <- MCTargets
  Pages <- MCViews
  Needs <- MCNeeds
INVARIANTS
  TypesOK
  ControlsAgree
  NeverPartial
  FilesAreKept
  EventsHearOnce
  VehiclesDoAsAsked
  NoVehicleForgotten
  VariablesAgree
PROPERTIES
  Settles
  TransfersEnd
  EditsAreKept
  EditsTouchTheirCell
  SelectionAgrees
CHECK_DEADLOCK FALSE
