SPECIFICATION FairSpec
CONSTANTS
    MaxWorkers = 1
    Clients = {}
    MaxLoads = 2
    MaySuspend = FALSE
PROPERTIES
    ReloadCompletes
