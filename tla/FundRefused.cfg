SPECIFICATION MCFairSpec
CONSTANTS
    Session = {w, s1}
    NoSession = none
    OnLoop = {w}
    Amount = {1}
    MaxBatch = 1
    MaxRows = 2
PROPERTY RefusedRollsBack
