SPECIFICATION MCSpec
CONSTANTS
    Session = {s1, s2}
    NoSession = none
    OnLoop = {}
    Amount = {1, 2}
    MaxBatch = 1
    MaxRows = 2
INVARIANT SnapshotChain
