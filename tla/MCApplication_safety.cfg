SPECIFICATION FairSpec
CONSTANTS
    MaxWorkers = 2
    Clients = {c1}
    MaxLoads = 3
    MaySuspend = TRUE
INVARIANTS
    AInv
    ServerOutlivesThread
    OneGeneration
PROPERTIES
    SharedStable
    
