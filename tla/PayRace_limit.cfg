SPECIFICATION Spec
CONSTANTS
    NULL = NULL
    manager = manager  left = left  right = right  ann = ann  bob = bob  HQ = HQ
    o1 = o1  o2 = o2  s1 = s1  s2 = s2  s3 = s3  s4 = s4
    Agent <- MCAgent
    Student <- MCStudent
    HeadQuarter <- HQ
    AccountType <- MCAccountType
    Upstream <- MCUpstream
    Partition <- MCPartition
    Active <- MCAgent
    ExtensionLevel = 1
    Order <- MCOrder
    StudentOf <- SameStudent
    CouponAgent <- SameCoupon
    OpeningStatus <- Created
    PurchaseLimit = 1
    Amount <- MCAmount
    OpeningDebt <- NoDebt
    Session = {s1, s2, s3, s4}
    Kind <- LimitKind
    OrderOf <- LimitOrder
INVARIANTS
    WithinLimit
    GrantedPerOrder
PROPERTY
    FailedStaysFailed
CHECK_DEADLOCK FALSE
