SPECIFICATION Spec
CONSTANTS
    master = master
    worker = worker
    r1 = r1
    r2 = r2
    Host = {master, worker}
    Master = master
    Vd = {r1, r2}
    Placements <- Spread
    Settings <- DockerSettings
    MaxPasses = 1
CHECK_DEADLOCK FALSE
PROPERTIES
    CleanupSparesLive
