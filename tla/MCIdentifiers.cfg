SPECIFICATION Spec
CONSTANTS
    Lower <- MCLower
    Bound <- MCBound
    IllFormed = {"we*b"}
    Normalized <- MCNormalized
    Canonical <- MCCanonical
    Identity <- MCIdentity
    Occurrences <- MCOccurrences
    RedHat = {"redhat"}
    IdentifierOrder <- MCIdentifierOrder
    PackageOrder <- MCPackageOrder
    Files <- MCFiles
    Tables <- MCTables
    Filters <- MCFilters
    Configs <- MCConfigs
    Shipments <- MCShipments
INVARIANTS
    TypeOK
    LookupMatchesRules
    SuggestionsMatchHistory
CHECK_DEADLOCK FALSE
