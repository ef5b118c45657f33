SPECIFICATION Spec
CONSTANTS
    r1 = r1
    r2 = r2
    wire = wire
    Node = {r1, r2}
    Link = {wire}
    Ends <- Wire
    Settings <- AllSettings
    MaxQueue = 1
    MaxCrash = 1
SYMMETRY Alike
INVARIANTS
    TypeOK
    StartsRegistered
    CompletedMeansRunning
    StoppedHasNoContainer
    UpIsConnected
    PhasesSettle
PROPERTIES
    LivesByItsPhases
