SPECIFICATION Spec
CONSTANTS
    TrackStatus <- MCTrackStatus
    Commands <- MCCommands
    Outcome <- MCOutcome
    InfoQueries <- MCInfoQueries
    DeviceQueries <- MCDeviceQueries
    MaxDatagram = 2
    MaxInFlight = 2
    MaxConnects = 2
    MaxCommands = 1
    MaxChanges = 1
    MaxLosses = 1
    MaxEarlyResends = 1
INVARIANTS
    TypeOK
    TimersFollowTheSession
    NoRequestOutlivesItsSession
    TrackStatusFollows
    ConnectedIsSubscribed
