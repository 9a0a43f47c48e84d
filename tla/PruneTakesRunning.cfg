SPECIFICATION HSpec
CONSTANTS
    Workers = {w1}
    Fingerprints = {f1}
    NoFp = NoFp
    MaxId = 2
    MaxAttempts = 1
    ResubmitCap = 1
    MaxCrashes = 1
    Faults = {}
    ClientOps = {"cancel", "force"}
PROPERTIES
    RunningIsSpared
