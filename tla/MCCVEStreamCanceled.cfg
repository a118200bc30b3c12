SPECIFICATION Spec
CONSTANTS
    NoPath = NoPath
    w1 = w1
    w2 = w2
    Walk <- SmallWalk
    CVEFiles <- SmallFiles
    Content <- SmallContent
    Normalized <- SmallNormalized
    Lower <- SmallLower
    Bound <- SmallBound
    IllFormed = {"we*b"}
    BadSets = {{"CVE-2"}}
    Workers = {w1, w2}
    QueueSize = 1
    BufferSize = 1
    Consumers = {"GetIDsForCVEs"}
    Faults = FALSE
    Interrupts = FALSE
INVARIANTS
    CanceledMeansInterrupted
CHECK_DEADLOCK FALSE
