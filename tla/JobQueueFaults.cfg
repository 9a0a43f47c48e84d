SPECIFICATION Spec
CONSTANTS
    Workers = {w1, w2}
    Fingerprints = {f1}
    NoFp = NoFp
    MaxId = 1
    MaxAttempts = 2
    ResubmitCap = 2
    MaxCrashes = 1
    Faults = {"stall", "error"}
    ClientOps = {"cancel", "force"}
SYMMETRY Symmetry
INVARIANTS
    TypeOK
    OneHolderPerAttempt
    ForceOnlyWhileRunning
PROPERTIES
    ImplementsLifecycle
