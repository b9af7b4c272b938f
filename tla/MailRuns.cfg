SPECIFICATION MCSpec
CONSTANTS
    Web = {p1}
    Worker = {w1}
    Note <- MCNote
    NoNote = noNote
    Notice = {x1}
    NoNotice = noNotice
    Resident = {r1, r2}
    other = other
    MaxFaults = 2
INVARIANT MailedAsHanded
PROPERTIES
    SettledIsLeftAlone
    PendingIsDelivered
    EveryResidentAttempted
