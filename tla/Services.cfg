SPECIFICATION ServicesSpec
CONSTANTS
    a1 = a1
    a2 = a2
    b1 = b1
    b2 = b2
    BuildJob = {a1, a2}
    Upload = {b1, b2}
    Remote = {"ref"}
    Kind = {"vr", "me", "na"}
    KindClass <- Classes
    Patchable = {"vr"}
    VrDir <- Dirs
    FileName <- Names
    Fits <- Globs
    MaxRestarts = 1
    ConsoleClient = {a1, a2}
    Broker = {b1, b2}
    HistoryMax = 1
    QueueMax = 1
    MaxChunks = 2
    Image = {"a", "b"}
    Version = {"v1", "v2"}
    Selected = {"a"}
    Pass = {"p"}
    MaxChanges = 1
    Vd = {1, 2}
    Host = {0, 1, 2}
    MasterHost = 0
    NoHost = NoHost
    LaunchSize <- Parsed
    DefaultSize <- Unparsed
    NodeSize <- Larger
    Capacities <- Reports
    MaxMishaps = 2
    AddrVd = {1, 2, 3}
    NetSize = 8
    OtherNets = {0}
    Wishes = {2, 3}
SYMMETRY Alike
CHECK_DEADLOCK FALSE
INVARIANTS
    ActiveIsWorkedOn
    SuccessHasImage
    DirectoryIsClean
    OutputIsUnbroken
    OneUpstream
    ChangeIsNoticed
    StartsOnItsDisk
    PlanKeepsHistory
PROPERTIES
    BuildsImplementJobs
    AddressesStay
