SPECIFICATION Spec
CONSTANTS
    Memory = {m1, m2}
    Key = {k1, k2, k3, k4}
    Candidate = {c1, c2}
    NoOne = NoOne
    MaxStored = 1
    MaxRevision = 3
    MaxOpen = 2
    Overlap = FALSE
SYMMETRY SymmetricNames
INVARIANTS TypeOK OnlyConfirmedInForce IndexMatchesBackend ReadySourcesInForce
PROPERTY LifecycleSpec
CHECK_DEADLOCK FALSE
