SPECIFICATION Spec
CONSTANTS
    Workers = {w1, w2}
    Fingerprints = {f1, f2}
    NoFp = NoFp
    MaxId = 2
    MaxAttempts = 2
    ResubmitCap = 2
    MaxCrashes = 0
    Faults = {}
    ClientOps = {"cancel", "force"}
SYMMETRY Symmetry
INVARIANTS
    ChildOnlyWhileRunning
    RunningIsHeld
