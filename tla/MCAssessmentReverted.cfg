SPECIFICATION Spec
CONSTANTS
    CVE1 = CVE1
    CVE2 = CVE2
    CVEs = {CVE1}
    Releases = {"r1", "r2"}
    Upstreams = {"u1", "u2"}
    Autos = {"vulnerable", "fixed"}
    Overrides = {"not-affected"}
    Nothing = Nothing
    Results <- MCResults
    NoFile = NoFile
    Garbled = Garbled
    NoCommit = NoCommit
    TimeToWait = 2
    Failures = FALSE
    MaxRuns = 3
    MaxEdits = 2
INVARIANTS
    EditsAreReverted
CHECK_DEADLOCK FALSE
