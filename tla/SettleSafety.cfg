SPECIFICATION SettlementSpec
CONSTANTS
    i1 = i1
    Session = {s1, s2}
    NoSession = noSession
    Invoice = {i1}
    NoInvoice = noInvoice
    Order = {o1, o2, f}
    NoOrder = noOrder
    Foreign = {f}
    Orderless = {}
    NoPayment = noPayment
    Bill <- OneBill
    Lossy = {3}
    MaxFaults = 1
SYMMETRY FullSymmetry
INVARIANTS
    TypeOK
    InvoiceAddsUp
    SettledTogether
    StatusIsHonest
    AckedIsRecorded
PROPERTY CaptureIsFinal
