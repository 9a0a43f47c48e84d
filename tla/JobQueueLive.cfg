SPECIFICATION FairSpec
CONSTANTS
    Workers = {w1, w2}
    Fingerprints = {f1}
    NoFp = NoFp
    MaxId = 1
    MaxAttempts = 1
    ResubmitCap = 1
    MaxCrashes = 1
    Faults = {"stall", "error"}
    ClientOps = {"cancel"}
INVARIANTS
    SucceededHasResult
PROPERTIES
    EventuallySettled
