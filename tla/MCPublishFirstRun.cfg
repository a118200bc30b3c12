SPECIFICATION Spec
CONSTANTS
    v1 = v1
    v2 = v2
    NoFile = NoFile
    Files <- FilesFiles
    Contents = {v1, v2}
    GroupOrder <- FilesOrder
    GroupOf <- FilesGroupOf
    Foreign = "foreign"
    Gitlinks = {}
    Branches = {"main"}
    Target = "main"
    InitialTrees <- FilesFirst
    Faults = FALSE
    Interrupts = FALSE
    MaxHistory = 3
INVARIANTS
    RefusedOnlyForForeignContent
CHECK_DEADLOCK FALSE
