SPECIFICATION Spec
CONSTANTS
    NULL = NULL
    dealer = dealer  manager = manager  head = head  student = student  HQ = HQ
    course = course  coupon = coupon  video = video
    Agent <- MCAgent
    Student <- MCStudent
    HeadQuarter <- HQ
    AccountType <- MCAccountType
    Upstream <- MCUpstream
    Partition <- MCPartition
    Active <- MCAgent
    ExtensionLevel = 1
    Product = {course}
    Pricing <- MCPricingStale
    EntitlementType = {video}
    VideoCourse <- video
    QianliaoPool = 1
    Coupon = {coupon}
    CouponTerms <- MCCouponTerms
    Linked = {dealer}
    AwardAmount <- MCAwardAmount
    OpeningAccount <- MCOpeningAccount
    OpeningAward <- MCOpeningAward
    OpeningStock <- MCOpeningStock
    PaymentMethod = {"wechatpay", "card_offline"}
    Price = {700}
    Refund = {30}
    FreshViews = FALSE
    Order = {o1, o2}
    MaxDay = 2
SYMMETRY OrderSymmetry
INVARIANTS
    RevokedOrdersPayNobody
    ReversalsMatch
    PaidOnce
    TripleBalancesMatchLocks
    EntitlementCoversOrders
    PartitionAwardMatchesLedger
PROPERTY
    ImplementsBook
CHECK_DEADLOCK FALSE
