SPECIFICATION Spec
CONSTANTS
    plain = plain  epoch = epoch  backport = backport  tag = tag  bpTag = bpTag
    debian = debian  upstream = upstream  bare = bare
    d1 = d1  d2 = d2  dots = dots  cve1 = cve1  cve2 = cve2
    NoCommit = NoCommit  NoRecipe = NoRecipe  NoSeries = NoSeries   Torn = Torn
    Names = {curl}
    curl = curl
    Bases = {plain, epoch, backport}
    Backports = {backport}
    TagOf <- MCTagOf
    Commits = {debian, upstream, bare}
    Contents <- MCContents
    Dirs = {d1, d2, dots}
    UnsafeDirs = {dots}
    CVEs = {cve1, cve2}
    MaxRetries = 1
    MaxTagCuts = 3
INVARIANTS
    TypeOK
    AnalysisOfOneMoment
    StoreNeverInTheWay
PROPERTIES
    CommittedEntriesStay
    JobEnds
