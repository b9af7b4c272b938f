SPECIFICATION AccountsSpec
CONSTANTS
    Session = {s1, s2}
    User = {a, b}
    NoUser = noUser
    Token = {t1, t2, t3}
    NoToken = noToken
    Own = own
    a = a
    Founder <- MCFounder
SYMMETRY Symmetry
INVARIANTS
    OutstandingBounded
    SomebodyAdministrates
PROPERTY SpentForGood
