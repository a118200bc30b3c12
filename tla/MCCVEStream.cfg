SPECIFICATION FairSpec
CONSTANTS
    NoPath = NoPath
    w1 = w1
    w2 = w2
    Walk <- SmallWalk
    CVEFiles <- SmallFiles
    Content <- SmallContent
    Normalized <- SmallNormalized
    Lower <- SmallLower
    Bound <- SmallBound
    IllFormed = {"we*b"}
    BadSets = {{}, {"CVE-2"}, {"CVE-1", "CVE-2"}}
    Workers = {w1, w2}
    QueueSize = 1
    BufferSize = 1
    Consumers = {"GetIDsForCVEs", "processCVEs"}
    Faults = TRUE
    Interrupts = TRUE
INVARIANTS
    TypeOK
    IdentifiersComplete
    FailureIsNotSilent
    NoSendOnClosedChannel
PROPERTIES
    ImplementsStreamResult
    ConsumerReturns
CHECK_DEADLOCK FALSE
