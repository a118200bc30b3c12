SPECIFICATION Spec
CONSTANTS
    c1 = c1  c2 = c2  xxxx = xxxx
    a = a  b = b  comp = comp
    NoEntry = NoEntry  NoSBOM = NoSBOM  NotJudged = NotJudged
    CVEs = {c1, c2, xxxx}
    Temporaries = {xxxx}
    Sources = {a, b}
    Versions = {1, 2}
    Lists <- MCLists
    Interrupts = TRUE
    Names = {a, b}
    Missing = Missing  Malformed = Malformed
    Now = 5
    PackageVersions = {1, 2}
    Components = {comp}
    Worlds <- MCWorlds
    MinPURLs = 1
    MinPerRelease = 1
    FetchFailures = TRUE
    Judgements <- MCJudgements
INVARIANTS
    TypeOK
    RowsMatchList
    ProjectionsMatchReleases
    IndexedVersionWasShipped
    ShippedIsNotScreenedOut
    ClearedOnlyWithEvidence
    VulnerableIsReported
    OpenQuestionsEscalate
CHECK_DEADLOCK FALSE
