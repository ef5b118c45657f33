SPECIFICATION Spec
CONSTANTS
    labA = labA
    labB = labB
    h1 = h1
    h2 = h2
    Lab = {labA, labB}
    Vd = {"a", "b", "c", "d"}
    Host = {h1, h2}
    Wire <- TwoWires
    Ends <- TwoEnds
    VdLab <- VdsOfTwo
    WireLab <- WiresOfTwo
    Base <- Bases
    Settings <- NeighbourSettings
SYMMETRY Alike
INVARIANTS
    UpIsActive
