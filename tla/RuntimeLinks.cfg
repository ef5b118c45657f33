SPECIFICATION Spec
CONSTANTS
    labA = labA
    labB = labB
    h1 = h1
    h2 = h2
    Lab = {labA, labB}
    Vd = {"a", "b", "c"}
    Host = {h1, h2}
    Wire <- Wires
    Ends <- WireEnds
    VdLab <- VdsOfA
    WireLab <- WiresOfA
    Base <- Bases
    Settings <- EditSettings
SYMMETRY Alike
INVARIANTS
    LinksTypeOK
    IdsUnique
    UpIsActive
    LinksPrivate
PROPERTIES
    IdsStable
