SPECIFICATION LiveBillSpec
CONSTANTS
    Run = {admin, cron}
    Cron = {cron}
    User = {u1}
    Plan = {p1, p2}
    NoKey = noKey
    MaxStarts = 2
    MaxFaults = 1
INVARIANTS
    BillTypeOK
    InvoicedOnce
    RunCovers
    ToldOfReal
PROPERTIES
    RunsEnd
    EveryoneTold
