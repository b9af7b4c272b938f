SPECIFICATION MCSpec
CONSTANTS
    Session = {s1, s2}
    Complaint = {c1, c2}
    NoComplaint = none
    MaxClock = 5
    MaxAudit = 3
SYMMETRY Symmetry
INVARIANTS
    TypeOK
    ResolvedHasItsTime
PROPERTIES
    StatusFollowsTimeline
    ClosedForGood
    ImplementsLifecycleSerially
