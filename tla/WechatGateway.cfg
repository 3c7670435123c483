SPECIFICATION Spec
CONSTANTS
    o1 = o1
    o2 = o2
    Order = {o1, o2}
    Page = {p}
    Call = {c1, c2}
    MaxPolls = 1
    NULL = NULL
CONSTRAINT NamesInOrder
INVARIANTS
    Consistent
    GatewayPaymentStays
PROPERTIES
    EverythingAnswered
