SPECIFICATION LabSpec
CONSTANTS
    master = master
    worker = worker
    r1 = r1
    r2 = r2
    Host = {master, worker}
    Master = master
    Vd = {r1, r2}
    Placements <- Spread
    Settings <- LifeSettings
CHECK_DEADLOCK FALSE
INVARIANTS
    StateNamesContainers
    CleanDestroyIsComplete
    RollbackLeavesFailedPhase
