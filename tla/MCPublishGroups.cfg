SPECIFICATION Spec
CONSTANTS
    v1 = v1
    v2 = v2
    NoFile = NoFile
    Files <- GroupsFiles
    Contents = {v1, v2}
    GroupOrder <- GroupsOrder
    GroupOf <- GroupsGroupOf
    Foreign = "foreign"
    Gitlinks = {"gitlink"}
    Branches = {"main", "side"}
    Target = "main"
    InitialTrees <- GroupsEither
    Faults = TRUE
    Interrupts = TRUE
    MaxHistory = 4
INVARIANTS
    TypeOK
    CommitsStayInGroup
    FailedRunLeavesHead
    DonePublishesEverything
    CleanSlateForPush
PROPERTIES
    OnlyTargetMoves
    PublishedAtomically
CHECK_DEADLOCK FALSE
