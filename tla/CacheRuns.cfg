SPECIFICATION MCSpec
CONSTANTS
    Reader = {r1, r2}
    Writer = {w1}
    TTL = 2
    MaxQuery = 1
    MaxClock = 4
    MaxWrites = 1
SYMMETRY Symmetry
INVARIANT InvalidatedStaysGone
PROPERTY ImplementsBoundedRead
