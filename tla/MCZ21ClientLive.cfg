SPECIFICATION FairSpec
CONSTANTS
    TrackStatus <- MCTrackStatus
    Commands <- MCCommands
    Outcome <- MCOutcome
    InfoQueries <- MCInfoQueries
    DeviceQueries <- MCDeviceQueries
    MaxDatagram = 2
    MaxInFlight = 2
    MaxConnects = 1
    MaxCommands = 1
    MaxChanges = 0
    MaxLosses = 2
    MaxEarlyResends = 0
PROPERTIES
    PendingIsAnswered
