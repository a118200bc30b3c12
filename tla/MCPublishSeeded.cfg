SPECIFICATION FairSpec
CONSTANTS
    v1 = v1
    v2 = v2
    NoFile = NoFile
    Files <- FilesFiles
    Contents = {v1, v2}
    GroupOrder <- FilesOrder
    GroupOf <- FilesGroupOf
    Foreign = "foreign"
    Gitlinks = {}
    Branches = {"main"}
    Target = "main"
    InitialTrees <- FilesSeeded
    Faults = TRUE
    Interrupts = TRUE
    MaxHistory = 3
INVARIANTS
    RefusedOnlyForForeignContent
    OnlyOwnWorkIsCommitted
PROPERTIES
    RunEnds
CHECK_DEADLOCK FALSE
