SPECIFICATION MCFairSpec
CONSTANTS
    Session = {s1, s2}
    NoSession = none
    OnLoop = {}
    Amount = {0, 1, 2}
    MaxBatch = 2
    MaxRows = 3
INVARIANTS
    TypeOK
    BalanceIsLastSnapshot
    SnapshotsGrounded
    NeverOverdrawn
PROPERTIES
    ImplementsLedgerSerially
    RequestsFinish
