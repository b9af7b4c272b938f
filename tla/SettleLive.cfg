SPECIFICATION FairWaitSpec
CONSTANTS
    i1 = i1
    Session = {s1, s2}
    NoSession = noSession
    Invoice = {i1}
    NoInvoice = noInvoice
    Order = {o1, f}
    NoOrder = noOrder
    Foreign = {f}
    Orderless = {f}
    NoPayment = noPayment
    Bill <- OneBill
    Lossy = {3}
    MaxFaults = 2
PROPERTY ChargedIsRecorded
CHECK_DEADLOCK FALSE
