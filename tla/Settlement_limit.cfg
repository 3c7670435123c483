SPECIFICATION Spec
CONSTANTS
    NULL = NULL
    dealer = dealer  manager = manager  head = head  student = student  HQ = HQ
    course = course  coupon = coupon  video = video
    Agent <- MCAgent
    Student <- MCStudent
    HeadQuarter <- HQ
    AccountType <- MCAccountType
    Upstream <- MCUpstream
    Partition <- MCPartition
    Active <- MCAgent
    ExtensionLevel = 1
    Product = {course}
    Pricing <- MCPricing
    EntitlementType = {video}
    VideoCourse <- video
    QianliaoPool = 1
    Coupon = {coupon}
    CouponTerms <- MCCouponTermsLong
    Linked = {dealer}
    AwardAmount <- MCAwardAmount
    OpeningAccount <- MCOpeningAccount
    OpeningAward <- MCOpeningAward
    OpeningStock <- MCOpeningStock
    PaymentMethod = {"wechatpay", "liuliupay", "card_offline", "inventory_student"}
    Price = {0, 700}
    Refund = {30}
    FreshViews = TRUE
    Order = {o1, o2}
    MaxDay = 2
SYMMETRY OrderSymmetry
INVARIANTS
    Consistent
    BooksExplain
    LimitKept
    DeliveriesSound
    StockExplained
CHECK_DEADLOCK FALSE
