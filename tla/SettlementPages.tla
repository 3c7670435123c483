--------------------------- MODULE SettlementPages ---------------------------
(***************************************************************************)
(* What the shop, the desks and the delivery partners are shown of the     *)
(* orders: the queries behind the pages and the handlers that shape their  *)
(* parameters, and how far the pages agree with what the transactions of   *)
(* Settlement accept.                                                      *)
(***************************************************************************)
EXTENDS Settlement

BoughtStatus == PurchasedStatus \cup {"uncommisioned"}

HeldBy(s) == {o \in OrdersIn(db, BoughtStatus) : db.orders[o].studentid = s}

-----------------------------------------------------------------------------
(* The shop of a student.                                                  *)

\* An order's line: its product, coupon and price.
GetOrderProductsByOrderId(o) ==
    LET row == db.orders[o] IN
    [productid |-> row.productid, couponcode |-> row.couponcode,
     actualprice |-> row.price, finalprice |-> Pricing[row.productid].finalprice]

\* The products on offer: of one with a limit, the student holds fewer orders.
GetPurchasableProducts(s) ==
    {pid \in Product :
        LET limit == Pricing[pid].purchaselimit
            held == {o \in HeldBy(s) : GetOrderProductsByOrderId(o).productid = pid}
        IN  limit = NULL \/ limit > Cardinality(held)}

GetPurchasedProducts(s) ==
    {[id |-> o, productid |-> GetOrderProductsByOrderId(o).productid] : o \in HeldBy(s)}

-----------------------------------------------------------------------------
(* The head quarter's search for orders.                                   *)

\* The search of the page: an empty method, a bound of zero and an empty list of
\* statuses each mean "any".
SearchParams(body) ==
    [from |-> IF body.from = 0 THEN NULL ELSE body.from,
     to |-> IF body.to = 0 THEN NULL ELSE body.to,
     paymentmethod |-> IF body.paymentmethod = "" THEN NULL ELSE body.paymentmethod,
     statuslist |-> IF body.statuslist = {} THEN NULL ELSE body.statuslist]

\* A comparison with a null price is not true: such an order is within no bounds.
SearchOrders(params) ==
    {o \in Generated(db) :
        LET order == db.orders[o] IN
        /\ params.from # NULL => order.price # NULL /\ order.price >= params.from
        /\ params.to # NULL => order.price # NULL /\ order.price <= params.to
        /\ params.paymentmethod # NULL => order.paymentmethod = params.paymentmethod
        /\ params.statuslist # NULL => order.status \in params.statuslist}

AnyOrder == [from |-> 0, to |-> 0, paymentmethod |-> "", statuslist |-> {}]

ListOrders == Generated(db)

-----------------------------------------------------------------------------
(* The desks of an agent, of the owner of an award, of a delivery partner. *)

\* The orders of the students directly below agent a.
InventoryCourseOrders(a) ==
    {[id |-> o, paymentmethod |-> db.orders[o].paymentmethod, status |-> StatusOf(db, o),
      product |-> GetOrderProductsByOrderId(o)] :
        o \in {x \in Generated(db) : Upstream[db.orders[x].studentid] = a}}

\* What was unlocked of the award linked to agent a, order by order.
ListTripleUnlockDetails(a) ==
    {[orderid |-> o, amount |-> db.awardhistory[a][o]] :
        o \in {x \in Order : db.awardhistory[a][x] # 0}}

ListDelivery(a, status) ==
    {[id |-> o, price |-> Pricing[db.orders[o].productid].delivery] :
        o \in {x \in Generated(db) :
            /\ db.delivery[x] = status
            /\ Pricing[db.orders[x].productid].deliveryaccount = a}}

-----------------------------------------------------------------------------
(* The coupons of an agent.                                                *)

\* A date is midnight of its day, and the search compares the present moment with
\* it: on its due date a coupon is over.  With expiredonly the search finds every
\* coupon that has a due date.
SearchOrderCoupon(agentid, validonly, expiredonly) ==
    {c \in Coupon :
        LET start == CouponTerms[c].startdate
            due == CouponTerms[c].duedate
        IN  /\ agentid = NULL \/ CouponTerms[c].agentid = agentid
            /\ validonly => /\ start # NULL => today >= start
                            /\ due # NULL => today < due
            /\ expiredonly => (start # NULL /\ today < start) \/ due # NULL}

\* getCouponByCode: whatever its dates and uses.
GetCouponByCode(c) == CouponTerms[c]

\* The search's page: "valid" goes before "expired", and agentid NULL is any.
SearchCoupon(a, validonly, expiredonly) ==
    SearchOrderCoupon(a, validonly, expiredonly /\ ~ validonly)

-----------------------------------------------------------------------------
(* Properties.                                                             *)

\* Once a student holds a limited product and the shop no longer offers it, no order
\* for it is left that could still be paid -- unless one of those held lost its
\* awards, for then a new order is taken although the shop offers none.
NothingOpenOffShelf ==
    \A s \in Student, pid \in Product :
        LET Of(statuses) == {o \in OrdersIn(db, statuses) :
                db.orders[o].studentid = s /\ db.orders[o].productid = pid}
        IN  pid \notin GetPurchasableProducts(s) /\ Of({"uncommisioned"}) = {}
                => Of(OpenStatus) = {}

\* What the student's page calls purchased gives it every entitlement of the product,
\* on the day of the purchase whatever else was refunded meanwhile.
BuyersEntitled ==
    \A s \in Student, t \in EntitlementType :
        \A bought \in GetPurchasedProducts(s) :
            today = 1 /\ Pricing[bought.productid].validdays[t] > 0
                => db.entitlement[s][t] > today

\* A partner is shown a delivery as open or as done only for an order its student
\* holds, or that the head quarter declined after it was paid.
DeliveriesOfBuyers ==
    \A a \in Account : \A status \in {"PENDING", "CONFIRMED"} :
        \A row \in ListDelivery(a, status) :
            StatusOf(db, row.id) \in BoughtStatus \cup {"declined"}

\* Awards in force are those of the orders the head quarter finds as paid or settled,
\* and of orders it declined after they were paid: nobody is paid for an order that is
\* open, failed or refunded, or whose awards were revoked.
AwardsOfPaid ==
    \A r \in db.activity :
        r.mark = "plain" /\ r.source # "delivery"
            => r.orderid \in SearchOrders(SearchParams(
                   [AnyOrder EXCEPT !.statuslist = {"paid", "settled", "declined"}]))

\* The unlock details of an award add up to what is no longer to be returned of it.
UnlocksAddUp ==
    \A a \in Linked :
        db.award[a].pendingreturn = OpeningAward[a]
            + SumFunction([row \in ListTripleUnlockDetails(a) |-> row.amount])

\* A unit that is missing from an agent's stock, those that a refund of an order at price
\* zero added counted off, is one its page shows with another order from stock that is
\* settled, keeps its entitlement, or was declined after that.
MissingUnitsShown ==
    \A a \in Agent, pid \in Product :
        OpeningStock[a][pid] - db.inventory[a][pid]
            + Cardinality(FromStock(db, a, pid, {"refunded"}) \cap db.auditlog) <=
            Cardinality({row \in InventoryCourseOrders(a) :
                /\ row.product.productid = pid
                /\ row.paymentmethod \in InventoryMethod
                /\ row.status \in BoughtStatus \cup {"declined"}
                /\ row.id \notin db.auditlog})

\* A coupon that is found among the valid ones is within its dates for a new order,
\* and it is not in use twice as often as it may be.
ValidCouponsOrder ==
    \A c \in SearchCoupon(NULL, TRUE, FALSE) :
        LET terms == GetCouponByCode(c) IN
        /\ terms.duedate # NULL => today <= terms.duedate
        /\ terms.maxcount # NULL =>
               Cardinality({o \in ListOrders : GetOrderProductsByOrderId(o).couponcode = c})
                   <= terms.maxcount

\* The limit is kept, and the shop, the orders and the entitlements say the same.
LimitKept == WithinPurchaseLimit /\ NothingOpenOffShelf /\ BuyersEntitled

\* The delivery partner is paid by the status, for orders that are held.
DeliveriesSound == DeliveryPaidByStatus /\ DeliveriesOfBuyers

\* The books explain every balance, for orders that were paid only.
BooksExplain == LedgerExplainsBalances /\ AwardsOfPaid /\ UnlocksAddUp

\* Stock and coupons are used as often as they are there, and shown so.
StockExplained == StockNotMinted /\ MissingUnitsShown /\ ValidCouponsOrder
=============================================================================
