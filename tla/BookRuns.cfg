SPECIFICATION MCSpec
CONSTANTS
    Session = {s1, s2}
    NoSession = none
    Entry = {e1, e2, e3, e4}
    Def = {d1, d2}
    NoDef = nodef
    NoPeriod = noperiod
    Amount = {1, 2}
    Asked <- MCAsked
    MaxRevisions = 2
SYMMETRY Symmetry
INVARIANTS
    BookTypeOK
    PostedByTheBook
    CycleUnbroken
PROPERTY OneDuplicatePerRun
