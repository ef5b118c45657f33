SPECIFICATION Spec
CONSTANTS
    master = master
    worker = worker
    r1 = r1
    r2 = r2
    Host = {master, worker}
    Master = master
    Vd = {r2}
    Placements <- Single
    Settings <- PassSettings
    MaxPasses = 1
CHECK_DEADLOCK FALSE
PROPERTIES
    CleanupSparesLive
    CleanupSparesYoung
    LeftoversGo
