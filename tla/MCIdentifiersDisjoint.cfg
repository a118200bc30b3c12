SPECIFICATION Spec
CONSTANTS
    Lower <- MCLower
    Bound <- MCBound
    IllFormed = {"we*b"}
    Normalized <- MCNormalized
    Canonical <- MCCanonical
    Identity <- MCIdentity
    Occurrences <- MCOccurrences
    RedHat = {"redhat"}
    IdentifierOrder <- MCIdentifierOrder
    PackageOrder <- MCPackageOrder
    Files <- MCFiles
    Tables <- MCTables
    Filters <- MCFilters
    Configs <- MCConfigs
    Shipments <- MCShipments
INVARIANTS
    RulesAreDisjoint
CHECK_DEADLOCK FALSE
