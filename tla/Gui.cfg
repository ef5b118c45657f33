SPECIFICATION GuiSpec
CONSTANTS
    a1 = a1
    a2 = a2
    b1 = b1
    b2 = b2
    c1 = c1
    c2 = c2
    c3 = c3
    User = {a1, a2}
    Token = {"cookie"}
    LabRow = {"lab"}
    Name = {"name"}
    Req = {b1, b2}
    NoUser = NoUser
    Asked = {"admin", "assistant"}
    LabId = {a1, a2}
    NodeName = {b1, b2}
    NodeId = {c1, c2, c3}
    Subnet = {"s1", "s2"}
    Client = {"tab"}
    NoFile = NoFile
    Node = {"vd"}
    LabReq = {c1, c2, c3}
    Socket = {"ws1", "ws2"}
    Publisher = {a1, a2}
    Buffer = 1
    MaxEvents = 2
    Device = {a1, a2}
    Viewer = {b1, b2}
    TunnelToken = {c1, c2, c3}
    Visit = {"v1", "v2", "v3"}
    MaxTunnels = 2
    MaxDeploys = 1
    CaptureId = {a1, a2}
    Owner = {b1, b2}
    UserMax = 1
    LabMax = 2
    Wire = {"l1", "l2", "l3"}
    WireEnds <- Chain
    Trace = {"trace"}
    Stopper = {b1, b2}
    Routes <- Ways
    MaxTraces = 1
SYMMETRY Alike
CHECK_DEADLOCK FALSE
INVARIANTS
    DisksAreDistinct
    StopReachesStart
    NothingIsMissed
    ShutdownReachesAll
    OneTunnelPerKey
    RunningIsListed
    EndIsQuiet
    ForwardIsExact
PROPERTIES
    LastAdminGoesByRace
    OverlapOnlyByImport
