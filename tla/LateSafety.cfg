SPECIFICATION LateSpec
CONSTANTS
    i1 = i1
    Session = {s1}
    NoSession = noSession
    Invoice = {i1}
    NoInvoice = noInvoice
    Order = {o1, o2}
    NoOrder = noOrder
    Foreign = {}
    Orderless = {}
    NoPayment = noPayment
    Bill <- OneBill
    Lossy = {3}
    MaxFaults = 1
    Job = {j1, j2}
    Fee <- OneFee
    MaxRuns = 3
SYMMETRY Symmetry
INVARIANTS
    FeeChargedOnce
    ItemsBounded
    InvoiceAddsUp
