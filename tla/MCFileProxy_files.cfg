SPECIFICATION FairSpec
CONSTANTS
    Threads = {w1, w2}
    MaxBytes = 3
    Width = 5
    MaxIndex = 6
    Workloads <- MCWorkloads
    Defval = "index"
    Sizes <- MCSizes
    Dirs <- MCDirs
    MaxSize = 2
INVARIANTS
    LinesKept
    FilesBounded
    AloneServesItsFile
    BodyAsAnnounced
    RepliesFresh
    DescriptorsBack
PROPERTIES
    HandlerReturnsOrStuck
CHECK_DEADLOCK FALSE
