----------------------------- MODULE Settlement -----------------------------
(***************************************************************************)
(* The life of an order: generate_simple_order, pay_success, revoke_pay,   *)
(* the deliveries, the statements that pay orders by themselves, and the   *)
(* updates the desks of the head quarter, the agents and the students make *)
(* on an order.  Every action is one database transaction; the tables are  *)
(* the fields of db.                                                       *)
(*                                                                         *)
(* A transaction is written as the composition of the statements it runs,  *)
(* each an operator from a database to a database, so that the transactions*)
(* that call one another (ConfirmOffline calls pay_success and revoke_pay, *)
(* generate_simple_order calls pay_success) do so here too.                *)
(***************************************************************************)
EXTENDS AgentTree, FiniteSetsExt

CONSTANTS
    Product,         \* products
    Pricing,         \* what get_product returns for a product
    EntitlementType, \* entitlement types
    VideoCourse,     \* the entitlement type that brings a qianliao coupon
    QianliaoPool,    \* number of qianliao coupons in the table
    Coupon,          \* coupon codes
    CouponTerms,     \* the ordercoupon row of a code
    Linked,          \* agents whose franchise opened a triple-cycle award
    AwardAmount,     \* triplecycleaward.amount of that award
    OpeningAccount,  \* balances before the first order
    OpeningAward,    \* triplecycleaward.pendingreturn before the first order
    OpeningStock,    \* productinventory.quantity before the first order
    PaymentMethod,   \* methods a student or the head quarter picks from
    Price,           \* prices an agent enters for an order, in cents
    Refund,          \* amounts a delivery is partially refunded by
    FreshViews,      \* TRUE: whoever updates a status has seen the current one
    Order,           \* order ids; bounds how many orders are generated
    MaxDay           \* bound on the days that pass

InventoryMethod == {"inventory_agent", "inventory_student"}
OnlineMethod == {"wechatpay", "liuliupay"}
Method == PaymentMethod \cup InventoryMethod \cup {"liuliupay", NULL}
OpenStatus == {"created", "pending_confirmation"}
PurchasedStatus == {"paid", "settled"}
DeadStatus == {"failed", "declined"}
FinalStatus == {"settled", "uncommisioned", "declined", "failed", "refunded"}
Status == OpenStatus \cup {"paid"} \cup FinalStatus

Column == {"balance", "balanceleft", "balanceright", "pendingreturn",
           "balancetriple", "balancetriplelock"}
DeliveryStatus == {"none", "PENDING", "CONFIRMED", "REFUNDED", "PARTIALLY_REFUNDED"}

\* balanceactivity.source, in the order pay_success writes them, and the
\* column of account a row of each source is posted to (balancetype).
Source == {"commission",          \* 售课奖励
           "conversion",          \* 转化订单奖励
           "earnest",             \* 意向金返还(余额)
           "earnestDebt",         \* 意向金返还(剩余意向金)
           "fee",                 \* 微信支付手续费0.7%
           "crossAward",          \* 售课跨级奖励
           "crossEarnest",        \* 跨级意向金返还(余额)
           "crossEarnestDebt",    \* 跨级意向金返还(剩余意向金)
           "extensionL",          \* 售课扩展奖:L区
           "extensionR",          \* 售课扩展奖:R区
           "delivery"}            \* 服务供应商分成

ColumnOf(src) ==
    CASE src \in {"earnestDebt", "crossEarnestDebt"} -> "pendingreturn"
      [] src = "extensionL" -> "balanceleft"
      [] src = "extensionR" -> "balanceright"
      [] OTHER -> "balance"

\* A balanceactivity row of an order.  revoke_pay marks the rows it undoes
\* 【已撤销】 ("revoked") and posts their opposites marked 【撤销】 ("reversal").
Row == [orderid : Order, accountid : Account, source : Source, amount : Int,
        mark : {"plain", "revoked", "reversal"}]

OrderRow == [status : Status, studentid : Student, productid : Product,
             price : Nat \cup {NULL}, paymentmethod : Method,
             couponcode : Coupon \cup {NULL}]

PartitionAward == [orderid : Order, accountid : Account, amount : Int,
                   partition : {"L", "R"}]

ASSUME PricingAssumption ==
    /\ Pricing \in [Product -> [
           finalprice : Nat,
           purchaselimit : Nat \cup {NULL},
           purchase : [AgentType \cup {"HEAD_QUARTER"} -> Nat],
           direct : [AgentType -> Nat],
           conversion : Nat,          \* 'conversion-award'
           extension : Nat,           \* 'cross-level-award-base' * 'award-z-ratio'
           earnest : Nat,             \* 'earnest-return'
           delivery : Nat,            \* 'external-delivery-price'
           deliveryaccount : Account, \* 'external-delivery-account'
           validdays : [EntitlementType -> Nat]]]
    /\ CouponTerms \in [Coupon -> [
           agentid : Account,
           discount : Nat,
           studentid : Student \cup {NULL},
           productid : Product \cup {NULL},
           maxcount : Nat \cup {NULL},
           startdate : Nat \cup {NULL},
           duedate : Nat \cup {NULL}]]
    /\ NULL \notin Coupon \cup PaymentMethod \cup InventoryMethod \cup OnlineMethod
                    \cup Product \cup Order \cup Nat
    /\ NULL \notin OrderRow

ASSUME BoundsAssumption ==
    /\ MaxDay \in Nat \ {0}
    /\ Price \subseteq Nat /\ Refund \subseteq Nat \ {0}
    /\ PaymentMethod \subseteq STRING
    /\ FreshViews \in BOOLEAN /\ QianliaoPool \in Nat
    /\ VideoCourse \in EntitlementType \cup {NULL}

\* An award whose pendingreturn is still positive is locked.
ASSUME OpeningAssumption ==
    /\ Linked \subseteq Agent
    /\ AwardAmount \in [Linked -> Nat] /\ OpeningAward \in [Linked -> Int]
    /\ OpeningAccount \in [Account -> [Column -> Int]]
    /\ OpeningStock \in [Agent -> [Product -> Nat]]

\* The accounts and the orders are rows of tables.
ASSUME FiniteAssumption == IsFiniteSet(Agent) /\ IsFiniteSet(Order)

VARIABLES
    db,     \* the tables
    today   \* CURRENT_DATE

vars == <<db, today>>

Database == [
    orders : [Order -> OrderRow \cup {NULL}],
    account : [Account -> [Column -> Int]],
    activity : SUBSET Row,
    partitionaward : SUBSET PartitionAward,
    award : [Linked -> [pendingreturn : Int, lastorderid : Order \cup {NULL}]],
    awardhistory : [Linked -> [Order -> Int]],
    inventory : [Agent -> [Product -> Int]],
    entitlement : [Student -> [EntitlementType -> Int]],
    qianliao : SUBSET Student,
    delivery : [Order -> DeliveryStatus],
    auditlog : SUBSET Order]   \* of the audited updates: see Audited

-----------------------------------------------------------------------------
\* The tables before the first order.  An entitlement that was never granted
\* counts as expired on day 0, the day before the first.
Init ==
    /\ db = [orders |-> [o \in Order |-> NULL],
             account |-> OpeningAccount,
             activity |-> {},
             partitionaward |-> {},
             award |-> [a \in Linked |->
                          [pendingreturn |-> OpeningAward[a], lastorderid |-> NULL]],
             awardhistory |-> [a \in Linked |-> [o \in Order |-> 0]],
             inventory |-> OpeningStock,
             entitlement |-> [s \in Student |-> [t \in EntitlementType |-> 0]],
             qianliao |-> {},
             delivery |-> [o \in Order |-> "none"],
             auditlog |-> {}]
    /\ today = 1

Generated(d) == {o \in Order : d.orders[o] # NULL}
StatusOf(d, o) == d.orders[o].status
OrdersIn(d, statuses) == {o \in Generated(d) : StatusOf(d, o) \in statuses}

\* The orders of the student of o for the product of o.
SamePurchase(d, o) ==
    {x \in Generated(d) : /\ d.orders[x].studentid = d.orders[o].studentid
                          /\ d.orders[x].productid = d.orders[o].productid}

RowsOf(d, o) == {r \in d.activity : r.orderid = o}

\* Mutant: the extension awards are forgotten.
RevocableRows_NoExtension(d, o) ==
    {r \in RowsOf(d, o) : r.mark = "plain" /\ ColumnOf(r.source) \in {"balance", "pendingreturn"}
                          /\ r.source # "delivery"}

\* The rows revoke_pay undoes: source not like '【%' and not 服务供应商分成.
RevocableRows(d, o) == {r \in RowsOf(d, o) : r.mark = "plain" /\ r.source # "delivery"}

-----------------------------------------------------------------------------
(***************************************************************************)
(* Statements                                                              *)
(***************************************************************************)

\* The amount R posts to account a under source src; a payment writes at most
\* one row for each.
Posted(R, a, src) ==
    LET rows == {r \in R : r.accountid = a /\ r.source = src}
    IN  IF rows = {} THEN 0 ELSE (CHOOSE r \in rows : TRUE).amount

\* What the rows R post to column c of account a.
Inflow(R, a, c) ==
    CASE c = "balance" ->
            Posted(R, a, "commission") + Posted(R, a, "conversion")
            + Posted(R, a, "earnest") + Posted(R, a, "fee")
            + Posted(R, a, "crossAward") + Posted(R, a, "crossEarnest")
            + Posted(R, a, "delivery")
      [] c = "pendingreturn" ->
            Posted(R, a, "earnestDebt") + Posted(R, a, "crossEarnestDebt")
      [] c = "balanceleft"  -> Posted(R, a, "extensionL")
      [] c = "balanceright" -> Posted(R, a, "extensionR")
      [] OTHER -> 0

\* UPDATE account SET column = column + amount, for the rows R.
Credit(account, R) ==
    [a \in Account |-> [c \in Column |-> account[a][c] + Inflow(R, a, c)]]

\* Mutant: the earnest debt is not put back.
Debit_KeepsDebt(account, R) ==
    [a \in Account |-> [c \in Column |->
        account[a][c] - IF c = "pendingreturn" THEN 0 ELSE Inflow(R, a, c)]]

\* UPDATE account SET column = column - amount, for the rows R.
Debit(account, R) ==
    [a \in Account |-> [c \in Column |-> account[a][c] - Inflow(R, a, c)]]

\* Mutant: off by one, the limit has to be exceeded.
LimitReached_Exceeded(limit, count) == limit # NULL /\ limit > 0 /\ limit < count

\* The purchase limit of reset_orderstatus_reaching_limit.
LimitReached(limit, count) == limit # NULL /\ limit > 0 /\ limit <= count

\* UPDATE orders SET status = st WHERE id = o, with its two triggers: a purchase
\* that reaches the purchase limit fails the student's other open orders for the
\* product (reset_orderstatus_reaching_limit), and an order that fails or is
\* declined gives its coupon back (reset_couponcode_on_failed_status).
SetStatus(d, o, st) ==
    LET was == StatusOf(d, o)
        d1 == [d EXCEPT !.orders[o].status = st]
        limit == Pricing[d.orders[o].productid].purchaselimit
        bought == SamePurchase(d1, o) \cap OrdersIn(d1, PurchasedStatus \cup {"uncommisioned"})
        crowded == IF /\ was \in OpenStatus /\ st \in PurchasedStatus
                      /\ LimitReached(limit, Cardinality(bought))
                   THEN (SamePurchase(d1, o) \cap OrdersIn(d1, OpenStatus)) \ {o}
                   ELSE {}
        died == IF st \in DeadStatus /\ st # was THEN {o} ELSE {}
    IN  [d1 EXCEPT !.orders = [x \in Order |->
            IF x \in crowded THEN [@[x] EXCEPT !.status = "failed", !.couponcode = NULL]
            ELSE IF x \in died THEN [@[x] EXCEPT !.couponcode = NULL]
            ELSE @[x]]]

\* Mutant: ON CONFLICT sets the expiry as the insert does.
ExtendedTo_Overwrites(expiresat, days) == today + days

\* The expiry of an entitlement that is granted for days more days.
ExtendedTo(expiresat, days) ==
    IF expiresat < today THEN today + days ELSE expiresat + days

\* Activating what the product of o grants, as any payment but the forced
\* settlement of a paid order does: the entitlements, a qianliao coupon if a video
\* course comes with the product and one is left, and an external delivery.
Entitle(d, o) ==
    LET s == d.orders[o].studentid
        p == Pricing[d.orders[o].productid]
        Extended(t) ==
            IF p.validdays[t] = 0 THEN d.entitlement[s][t]
            ELSE ExtendedTo(d.entitlement[s][t], p.validdays[t])
        assigned == IF /\ VideoCourse \in EntitlementType /\ p.validdays[VideoCourse] > 0
                       /\ Cardinality(d.qianliao) < QianliaoPool
                    THEN {s} ELSE {}
    IN  [d EXCEPT !.entitlement[s] = [t \in EntitlementType |-> Extended(t)],
                  !.qianliao = @ \cup assigned,
                  !.delivery[o] = IF p.delivery > 0 THEN "PENDING" ELSE @]

\* price * 0.007 in cents, rounded by numeric(10,2).
WechatFee(price) == (7 * price + 500) \div 1000

\* The rows pay_success inserts for o.  Nothing is paid out for an order that
\* costs nothing (a null price does not count as nothing) or whose student hangs
\* under the head quarter, and only the fee is recorded when it is zero.
PayoutRows(d, o) ==
    LET order == d.orders[o]
        s == order.studentid
        p == Pricing[order.productid]
        u == Upstream[s]
        stocked == order.paymentmethod \in InventoryMethod
        Paid(a, src, amount) ==
            [orderid |-> o, accountid |-> a, source |-> src, amount |-> amount,
             mark |-> "plain"]
        Indebted(a) == d.account[a]["pendingreturn"] > 0
        cross == {a \in Agent : CrossLevel(s, a)}
        rows ==
            (IF stocked \/ order.price = NULL THEN {}
             ELSE {Paid(u, "commission", order.price - p.purchase[AccountType[u]])})
            \cup (IF stocked \/ order.couponcode = NULL THEN {}
                  ELSE {Paid(CouponTerms[order.couponcode].agentid, "conversion", p.conversion)})
            \cup (IF Indebted(u)
                  THEN {Paid(u, "earnest", p.earnest), Paid(u, "earnestDebt", -p.earnest)}
                  ELSE {})
            \cup (IF order.paymentmethod = "wechatpay" /\ order.price # NULL
                  THEN {Paid(u, "fee", -WechatFee(order.price))} ELSE {})
            \cup {Paid(a, "crossAward", p.direct[AccountType[a]]) : a \in cross}
            \cup {Paid(a, "crossEarnest", p.earnest) : a \in {b \in cross : Indebted(b)}}
            \cup {Paid(a, "crossEarnestDebt", -p.earnest) : a \in {b \in cross : Indebted(b)}}
            \cup {Paid(a, "extensionL", p.extension) : a \in {b \in Agent : ExtensionSide(s, b, "L")}}
            \cup {Paid(a, "extensionR", p.extension) : a \in {b \in Agent : ExtensionSide(s, b, "R")}}
    IN  IF order.price = 0 \/ ~ HasDirectAgent(s) THEN {}
        ELSE {r \in rows : r.amount # 0 \/ r.source = "fee"}

\* The partitionaward copy of the extension rows.
PartitionAwards(R) ==
    {[orderid |-> r.orderid, accountid |-> r.accountid, amount |-> r.amount,
      partition |-> IF r.source = "extensionL" THEN "L" ELSE "R"] :
        r \in {x \in R : x.source \in {"extensionL", "extensionR"}}}

\* Mutant: an award that is exactly returned stays locked.
Freed_Strict(old, new, amount) ==
    IF old > 0 /\ new < 0 THEN amount
    ELSE IF old <= 0 /\ new > 0 THEN -amount
    ELSE 0

\* What an award of that amount frees when its pendingreturn moves.
Freed(old, new, amount) ==
    IF old > 0 /\ new <= 0 THEN amount
    ELSE IF old <= 0 /\ new > 0 THEN -amount
    ELSE 0

\* An amount moves from the locked to the free triple balance of account a
\* (update_account_balance_locks).
Unlock(account, a, amount) ==
    [account EXCEPT ![a]["balancetriple"] = @ + amount,
                    ![a]["balancetriplelock"] = @ - amount]

\* A change of the award of a is logged under an order (log_triple_award_history).
Logged(history, a, o, delta) == [history EXCEPT ![a][o] = @ + delta]

\* UPDATE triplecycleaward SET pendingreturn = pendingreturn + delta of the award
\* linked to agent a, with its triggers: the change is logged under the award's
\* last order, and when pendingreturn crosses zero the award is freed, or locked
\* again, for its owner, the upstream of a.
MoveAward(d, a, delta) ==
    LET old == d.award[a].pendingreturn
        new == old + delta
    IN  [d EXCEPT !.award[a].pendingreturn = new,
                  !.awardhistory = Logged(@, a, d.award[a].lastorderid, delta),
                  !.account = Unlock(@, Upstream[a], Freed(old, new, AwardAmount[a]))]

\* The award linked to the direct upstream unlocks by the earnest money it got
\* back; the update is inside the branch that returns it.
UnlockTriple(d, o, R) ==
    LET u == Upstream[d.orders[o].studentid]
        returned == Posted(R, u, "earnest")
    IN  IF u \in Linked /\ returned # 0
        THEN MoveAward([d EXCEPT !.award[u].lastorderid = o], u, -returned)
        ELSE d

\* Mutant: only the orders agents place themselves take a unit.
TakesStock_AgentOnly(d, o) ==
    /\ d.orders[o].paymentmethod = "inventory_agent"
    /\ d.orders[o].price # 0
    /\ HasDirectAgent(d.orders[o].studentid)

\* The row 2 of an inventory order takes a unit of its agent's stock.
TakesStock(d, o) ==
    /\ d.orders[o].paymentmethod \in InventoryMethod
    /\ d.orders[o].price # 0
    /\ HasDirectAgent(d.orders[o].studentid)

\* The back-to-back settlement: stock, balances, balanceactivity, partitionaward
\* and the triple-cycle award.
Distribute(d, o) ==
    LET u == Upstream[d.orders[o].studentid]
        R == PayoutRows(d, o)
        taken == IF TakesStock(d, o)
                 THEN [d EXCEPT !.inventory[u][d.orders[o].productid] = @ - 1]
                 ELSE d
        posted == [taken EXCEPT !.account = Credit(@, R),
                                !.activity = @ \cup R,
                                !.partitionaward = @ \cup PartitionAwards(R)]
    IN  UnlockTriple(posted, o, R)

\* Every update of an order is logged with the row it changes (orders_audit_trigger).
\* Kept of the log are the orders from stock it shows settled at price zero: they left
\* the loop before they took a unit, and today's price no longer tells.
Audited(d, o) ==
    [d EXCEPT !.auditlog = IF /\ d.orders[o].paymentmethod \in InventoryMethod
                              /\ d.orders[o].price = 0
                           THEN @ \cup {o} ELSE @]

\* An order of the liuliu gateway is settled only when it is forced.
Distributes(d, o, force) == d.orders[o].paymentmethod # "liuliupay" \/ force

-----------------------------------------------------------------------------
(***************************************************************************)
(* pay_success, revoke_pay, confirm_delivery and revoke_delivery           *)
(***************************************************************************)

\* Mutant: rows that were revoked do not count as activity.
HasActivity_LiveOnly(d, o) == {r \in RowsOf(d, o) : r.mark = "plain"} # {}

\* EXISTS (SELECT FROM balanceactivity WHERE orderid = order_id)
HasActivity(d, o) == RowsOf(d, o) # {}

CanPay(d, o, force) ==
    LET order == d.orders[o]
        s == order.studentid
        p == Pricing[order.productid]
        stocked == order.paymentmethod \in InventoryMethod
    IN  /\ ~ HasActivity(d, o)
        /\ order.status \notin FinalStatus
        /\ order.status = "paid" => force
        /\ UpstreamReady(s)
        /\ ~ (order.couponcode = NULL /\ order.price \in Nat \ {0} /\ p.conversion > 0)
        /\ Distributes(d, o, force) /\ order.price # 0 /\ HasDirectAgent(s) =>
               \* 库存不足
               /\ stocked => d.inventory[Upstream[s]][order.productid] >= 1
               \* balanceactivity.accountid and amount are NOT NULL
               /\ ~ stocked /\ p.conversion # 0 => order.couponcode # NULL
               /\ order.price = NULL => order.paymentmethod # "wechatpay"

\* The status pay_success ends with.
PaidStatus(method, force) ==
    IF method \in OnlineMethod /\ ~ force THEN "paid" ELSE "settled"

Pay(d, o, force) ==
    LET granted == IF StatusOf(d, o) = "paid" THEN d ELSE Entitle(d, o)
        settled == IF Distributes(d, o, force) THEN Distribute(granted, o) ELSE granted
    IN  SetStatus(Audited(settled, o), o, PaidStatus(d.orders[o].paymentmethod, force))

\* Mutant: the row and the balance are written, the status of the delivery is not.
PostDelivery_KeepsStatus(d, o, amount, mark, st) ==
    LET R == {[orderid |-> o, source |-> "delivery", amount |-> amount, mark |-> mark,
               accountid |-> Pricing[d.orders[o].productid].deliveryaccount]}
    IN  [d EXCEPT !.account = Credit(@, R), !.activity = @ \cup R]

\* Paying the delivery partner of o an amount, or taking it back.
PostDelivery(d, o, amount, mark, st) ==
    LET R == {[orderid |-> o, source |-> "delivery", amount |-> amount, mark |-> mark,
               accountid |-> Pricing[d.orders[o].productid].deliveryaccount]}
    IN  [d EXCEPT !.account = Credit(@, R), !.activity = @ \cup R, !.delivery[o] = st]

\* Mutant: the delivery is marked refunded and its partner keeps the money.
RevokeDeliveryOf_Unpaid(d, o) ==
    IF d.delivery[o] = "none" THEN d ELSE [d EXCEPT !.delivery[o] = "REFUNDED"]

\* Mutant: retain_delivery is true.
RevokeDeliveryOf_Retained(d, o) == d

\* revoke_delivery of the whole price; an order without a delivery has none.
RevokeDeliveryOf(d, o) ==
    IF d.delivery[o] = "none" THEN d
    ELSE PostDelivery(d, o, -Pricing[d.orders[o].productid].delivery, "reversal", "REFUNDED")

\* A delivery that is not confirmed makes revoke_delivery raise, and with it
\* revoke_pay, which the server always calls with retain_delivery = false.
CanRevoke(d, o) ==
    /\ StatusOf(d, o) = "settled"
    /\ d.orders[o].price # 0
    /\ d.delivery[o] \in {"none", "CONFIRMED"}

\* Mutant: the sign is forgotten.
Reversal_SameSign(r) == [r EXCEPT !.mark = "reversal"]

\* The row 【撤销】 that undoes r.
Reversal(r) == [r EXCEPT !.mark = "reversal", !.amount = -r.amount]

\* Mutant: the redundant rows are not deleted.
DropPartitionAwards_None(awards, o) == awards

\* DELETE FROM partitionaward WHERE orderid = o
DropPartitionAwards(awards, o) == {x \in awards : x.orderid # o}

ReverseRows(d, o) ==
    LET live == RevocableRows(d, o) IN
    [d EXCEPT !.account = Debit(@, live),
              !.activity = (@ \ live) \cup {[r EXCEPT !.mark = "revoked"] : r \in live}
                                      \cup {Reversal(r) : r \in live},
              !.partitionaward = DropPartitionAwards(@, o)]

\* 根据冗余表的audit进行回滚: the logged changes of the award are added again, and
\* logged again under the last order of the award.
RollBackTriple(d, o) ==
    LET u == Upstream[d.orders[o].studentid] IN
    IF u \in Linked /\ d.awardhistory[u][o] # 0
    THEN MoveAward(d, u, d.awardhistory[u][o])
    ELSE d

\* 撤销权限, 取消优惠券, 还一个库存回去
WithdrawEntitlement(d, o) ==
    LET order == d.orders[o]
        s == order.studentid
        p == order.productid
        gives == order.paymentmethod \in InventoryMethod /\ HasDirectAgent(s)
        d1 == [d EXCEPT !.entitlement[s] =
                            [t \in EntitlementType |-> @[t] - Pricing[p].validdays[t]],
                        !.orders[o].couponcode = NULL]
    IN  IF gives THEN [d1 EXCEPT !.inventory[Upstream[s]][p] = @ + 1] ELSE d1

Revoke(d, o, retain) ==
    LET reversed == RollBackTriple(ReverseRows(d, o), o)
        withdrawn == IF retain THEN reversed ELSE WithdrawEntitlement(reversed, o)
    IN  SetStatus(RevokeDeliveryOf(withdrawn, o), o,
                  IF retain THEN "uncommisioned" ELSE "refunded")

-----------------------------------------------------------------------------
(***************************************************************************)
(* Transactions.  Pages show a status that may be out of date by the time  *)
(* the user acts on it, and the server checks it in none of the updates    *)
(* below that are guarded by Seen.                                         *)
(***************************************************************************)

Seen(o, statuses) == FreshViews => StatusOf(db, o) \in statuses

\* The coupon checks of generate_simple_order: dates, student, product, the
\* profit of the direct upstream after discount and fee, and the use count.
CouponValid(d, c, s, pid) ==
    LET terms == CouponTerms[c]
        p == Pricing[pid]
        purchase == p.purchase[IF HasDirectAgent(s) THEN AccountType[Upstream[s]]
                               ELSE "HEAD_QUARTER"]
        uses == {o \in Generated(d) : d.orders[o].couponcode = c}
    IN  /\ terms.startdate # NULL => today >= terms.startdate
        /\ terms.duedate # NULL => today <= terms.duedate
        /\ terms.studentid \in {NULL, s}
        /\ terms.productid \in {NULL, pid}
        /\ 1000 * (p.finalprice - purchase - terms.discount)
               >= 7 * (p.finalprice - terms.discount)
        /\ terms.maxcount # NULL => Cardinality(uses) < terms.maxcount

\* v_coupon IS NOT NULL: true of a record only when none of its columns is null, so a
\* coupon that leaves one of its terms open gives no discount.
Discounts(c) ==
    /\ c # NULL
    /\ NULL \notin {CouponTerms[c].studentid, CouponTerms[c].productid, CouponTerms[c].maxcount,
                    CouponTerms[c].startdate, CouponTerms[c].duedate}

\* generate_simple_order, called by CreateOrder (no method, with or without a
\* coupon) and GenerateSimpleOrderWithPaymentMethod (an inventory method).  An
\* order the agent takes from its stock, or that costs nothing, is paid at once.
GenerateSimpleOrder(o, s, pid, c, method) ==
    LET p == Pricing[pid]
        bought == {x \in OrdersIn(db, PurchasedStatus) :
                      db.orders[x].studentid = s /\ db.orders[x].productid = pid}
        price == IF method # NULL THEN NULL
                 ELSE IF p.finalprice > 0 /\ Discounts(c)
                      THEN p.finalprice - CouponTerms[c].discount
                 ELSE p.finalprice
        d1 == [db EXCEPT !.orders[o] =
                  [status |-> "created", studentid |-> s, productid |-> pid,
                   price |-> price, paymentmethod |-> method, couponcode |-> c]]
    IN  /\ o \notin Generated(db)
        /\ UpstreamReady(s)
        /\ method # NULL => c = NULL /\ HasDirectAgent(s)
        /\ ~ (c = NULL /\ p.finalprice > 0 /\ method = NULL /\ p.conversion # 0)
        /\ c # NULL => CouponValid(db, c, s, pid)
        /\ p.purchaselimit # NULL => Cardinality(bought) < p.purchaselimit
        /\ IF method = "inventory_agent" \/ price = 0
           THEN CanPay(d1, o, FALSE) /\ db' = Pay(d1, o, FALSE)
           ELSE db' = d1
        /\ UNCHANGED today

\* The payment drawer of the student, which opens on an order it just generated
\* without a method, sets the method, or NULL when it is closed.
UpdatePaymentMethod(o, method) ==
    /\ o \in Generated(db) /\ Seen(o, OpenStatus)
    /\ db.orders[o].paymentmethod \notin InventoryMethod
    /\ db' = [db EXCEPT !.orders[o].paymentmethod = method]
    /\ UNCHANGED today

\* The student says an offline payment was made.
ReportOfflinePayment(o) ==
    /\ o \in Generated(db) /\ Seen(o, OpenStatus)
    /\ db.orders[o].paymentmethod \notin InventoryMethod
    /\ db' = SetStatus(db, o, "pending_confirmation")
    /\ UNCHANGED today

\* The agent enters what an inventory order sold for.
UpdateOrderPrice(o, price) ==
    /\ o \in Generated(db)
    /\ db.orders[o].paymentmethod \in InventoryMethod
    /\ db' = [db EXCEPT !.orders[o].price = price]
    /\ UNCHANGED today

\* The student's page asking after a wechat payment, and the agent approving a
\* student's inventory order.  Neither handler looks at the method, which may have been
\* changed since the payment was opened.
PaySuccess(o) ==
    /\ o \in Generated(db)
    /\ CanPay(db, o, FALSE)
    /\ db' = Pay(db, o, FALSE)
    /\ UNCHANGED today

\* The head quarter approves or force settles an order, with the method it picks;
\* revokePay leaves the student with the entitlement and nobody with an award.
ConfirmOfflineOrderSucceeded(o, method, revokePay, forceSettle) ==
    LET d1 == [db EXCEPT !.orders[o].paymentmethod = method]
        d2 == Pay(d1, o, forceSettle)
    IN  /\ o \in Generated(db)
        /\ CanPay(d1, o, forceSettle)
        /\ IF revokePay
           THEN CanRevoke(d2, o) /\ db' = Revoke(d2, o, TRUE)
           ELSE db' = d2
        /\ UNCHANGED today

\* A statement of the liuliu gateway that matches an order by student, amount and
\* time.  The method changes even when pay_success raises: the exception is caught.
InsertLiuliuStatement(o) ==
    LET d1 == [db EXCEPT !.orders[o].paymentmethod = "liuliupay"]
    IN  /\ o \in OrdersIn(db, OpenStatus \cup {"paid"})
        /\ db.orders[o].price # NULL
        /\ db' = IF CanPay(d1, o, TRUE) THEN Pay(d1, o, TRUE) ELSE d1
        /\ UNCHANGED today

\* The head quarter declines an order: its page offers it for every status but
\* three.
DeclineOrder(o) ==
    /\ o \in Generated(db) /\ Seen(o, Status \ {"declined", "settled", "failed"})
    /\ db' = SetStatus(db, o, "declined")
    /\ UNCHANGED today

\* The agent declines a student's inventory order, unless its page calls it done.
SimpleDeclineOrder(o) ==
    /\ o \in Generated(db) /\ Seen(o, Status \ {"declined", "settled"})
    /\ db.orders[o].paymentmethod = "inventory_student"
    /\ db' = SetStatus(db, o, "declined")
    /\ UNCHANGED today

\* The student leaves the wechat cashier.
ClosePayment(o) ==
    /\ o \in Generated(db) /\ Seen(o, OpenStatus)
    /\ db.orders[o].paymentmethod = "wechatpay"
    /\ db' = SetStatus(db, o, "failed")
    /\ UNCHANGED today

RevokePay(o, retain) ==
    /\ o \in Generated(db)
    /\ CanRevoke(db, o)
    /\ db' = Revoke(db, o, retain)
    /\ UNCHANGED today

ConfirmDelivery(o) ==
    /\ db.delivery[o] = "PENDING"
    /\ db' = PostDelivery(db, o, Pricing[db.orders[o].productid].delivery, "plain", "CONFIRMED")
    /\ UNCHANGED today

\* revoke_delivery called for itself: amount NULL refunds the whole price.
RevokeDelivery(o, amount) ==
    /\ db.delivery[o] = "CONFIRMED"
    /\ IF amount = NULL
       THEN db' = RevokeDeliveryOf(db, o)
       ELSE /\ amount <= Pricing[db.orders[o].productid].delivery
            /\ db' = PostDelivery(db, o, -amount, "reversal", "PARTIALLY_REFUNDED")
    /\ UNCHANGED today

NextDay == today < MaxDay /\ today' = today + 1 /\ UNCHANGED db

Next ==
    \/ \E o \in Order, s \in Student, pid \in Product, c \in Coupon \cup {NULL},
          method \in InventoryMethod \cup {NULL} :
          GenerateSimpleOrder(o, s, pid, c, method)
    \/ \E o \in Order, method \in (PaymentMethod \ InventoryMethod) \cup {NULL} :
          UpdatePaymentMethod(o, method)
    \/ \E o \in Order : ReportOfflinePayment(o)
    \/ \E o \in Order, price \in Price : UpdateOrderPrice(o, price)
    \/ \E o \in Order : PaySuccess(o)
    \/ \E o \in Order, method \in PaymentMethod, revokePay, forceSettle \in BOOLEAN :
          ConfirmOfflineOrderSucceeded(o, method, revokePay, forceSettle)
    \/ \E o \in Order : InsertLiuliuStatement(o)
    \/ \E o \in Order : DeclineOrder(o)
    \/ \E o \in Order : SimpleDeclineOrder(o)
    \/ \E o \in Order : ClosePayment(o)
    \/ \E o \in Order, retain \in BOOLEAN : RevokePay(o, retain)
    \/ \E o \in Order : ConfirmDelivery(o)
    \/ \E o \in Order, amount \in Refund \cup {NULL} : RevokeDelivery(o, amount)
    \/ NextDay

Spec == Init /\ [][Next]_vars

-----------------------------------------------------------------------------
(***************************************************************************)
(* Properties                                                              *)
(***************************************************************************)

\* The tables keep their column types.
TypeOK == db \in Database /\ today \in 1 .. MaxDay

\* What rows of balanceactivity come to.
Total(rows) == SumFunction([r \in rows |-> r.amount])

\* Every balance that is paid out of an order (all but the triple-cycle ones) is
\* what it was at the start plus the balanceactivity rows posted to its column,
\* through any mix of payments, reversals, deliveries and partial refunds: no
\* UPDATE account without its row, no row without its UPDATE.
LedgerExplainsBalances ==
    \A a \in Account, c \in Column \ {"balancetriple", "balancetriplelock"} :
        db.account[a][c] = OpeningAccount[a][c]
            + Total({r \in db.activity : r.accountid = a /\ ColumnOf(r.source) = c})

\* An order that was refunded or whose awards were revoked pays nobody any more:
\* whatever was done to it before and after revoke_pay, no live award is left
\* (settled deliveries aside, which have a status of their own).
RevokedOrdersPayNobody ==
    \A r \in db.activity :
        StatusOf(db, r.orderid) \in {"refunded", "uncommisioned"} =>
            r.mark # "plain" \/ r.source = "delivery"

\* Every row marked 【已撤销】 has exactly its opposite marked 【撤销】 and the other
\* way round, so the rows of a revoked order cancel account by account and column
\* by column.
ReversalsMatch ==
    \A r \in db.activity : r.source # "delivery" =>
        /\ r.mark = "revoked" =>
               [r EXCEPT !.mark = "reversal", !.amount = -r.amount] \in db.activity
        /\ r.mark = "reversal" =>
               [r EXCEPT !.mark = "revoked", !.amount = -r.amount] \in db.activity

\* An order has at most one row that is not a reversal for an account and source,
\* over all its payments and revocations: an order is never distributed twice.
PaidOnce ==
    \A r1, r2 \in db.activity :
        /\ r1.orderid = r2.orderid /\ r1.accountid = r2.accountid
        /\ r1.source = r2.source
        /\ r1.mark # "reversal" /\ r2.mark # "reversal"
        => r1 = r2

\* partitionaward, the copy the partition pages read, holds exactly the extension
\* awards that are still live in balanceactivity.
PartitionAwardMatchesLedger ==
    db.partitionaward = PartitionAwards({r \in db.activity : r.mark = "plain"})

\* The delivery partner of an order has been paid what the delivery's status says:
\* nothing before it is confirmed and after it is refunded, its price once it is
\* confirmed, a part of it after a partial refund.
DeliveryPaidByStatus ==
    \A o \in Generated(db) :
        LET paid == Total({r \in RowsOf(db, o) : r.source = "delivery"})
            price == Pricing[db.orders[o].productid].delivery
        IN  CASE db.delivery[o] = "CONFIRMED" -> paid = price
              [] db.delivery[o] = "PARTIALLY_REFUNDED" -> paid \in 0 .. price - 1
              [] OTHER -> paid = 0

\* A student never holds more paid and settled orders of a product than its
\* purchase limit, although orders are generated freely before any is paid.
WithinPurchaseLimit ==
    \A o \in OrdersIn(db, PurchasedStatus) :
        LET limit == Pricing[db.orders[o].productid].purchaselimit IN
        limit # NULL =>
            Cardinality(SamePurchase(db, o) \cap OrdersIn(db, PurchasedStatus)) <= limit

\* The orders of product pid that the students of agent a have from its stock.
FromStock(d, a, pid, statuses) ==
    {o \in OrdersIn(d, statuses) : /\ d.orders[o].paymentmethod \in InventoryMethod
                                   /\ d.orders[o].productid = pid
                                   /\ Upstream[d.orders[o].studentid] = a}

\* No unit of stock is sold twice or given back twice: what an agent has left and
\* the orders of its students that took a unit and hold never exceed what it started
\* with, and stock never runs below zero -- but for the orders approved at price zero,
\* which take no unit: each that is refunded, having been given a price by then, gives
\* back a unit that was never taken, and one only.  (The head quarter's page offers to
\* decline an uncommisioned order, which keeps its unit, and a refunded one: hence not
\* an equality.)
StockNotMinted ==
    \A a \in Agent, pid \in Product :
        /\ db.inventory[a][pid] >= 0
        /\ db.inventory[a][pid] +
               Cardinality(FromStock(db, a, pid, {"settled", "uncommisioned"}) \ db.auditlog)
           <= OpeningStock[a][pid] +
               Cardinality(FromStock(db, a, pid, {"refunded", "declined"}) \cap db.auditlog)

\* The triple balances of an agent have moved by the awards that were locked before the
\* first order and are not now, and by those it is the other way round with, however
\* often an award crosses zero in either direction.
TripleBalancesMatchLocks ==
    \A a \in Account :
        LET owned == {x \in Linked : Upstream[x] = a}
            before == {x \in owned : OpeningAward[x] > 0}
            locked == {x \in owned : db.award[x].pendingreturn > 0}
            Worth(S) == SumFunctionOnSet(AwardAmount, S)
            moved == Worth(before) - Worth(locked)
        IN  /\ db.account[a]["balancetriple"] = OpeningAccount[a]["balancetriple"] + moved
            /\ db.account[a]["balancetriplelock"] = OpeningAccount[a]["balancetriplelock"] - moved

\* While no day passes, a student's entitlement runs for at least the days bought
\* with the orders that hold and bring it: a refund takes back its own days and no
\* other's.
EntitlementCoversOrders ==
    \A s \in Student, t \in EntitlementType :
        LET Days(o) == Pricing[db.orders[o].productid].validdays[t]
            held == {o \in OrdersIn(db, PurchasedStatus \cup {"uncommisioned"}) :
                        db.orders[o].studentid = s /\ Days(o) > 0}
        IN  today = 1 /\ held # {}
                => db.entitlement[s][t] >= 1 + SumFunction([o \in held |-> Days(o)])

\* A refunded order leaves its delivery partner unpaid and its student without
\* coupon; an order whose awards alone were revoked keeps its coupon in use.
RefundReleasesOrder ==
    \A o \in OrdersIn(db, {"refunded"}) :
        /\ db.delivery[o] \in {"none", "REFUNDED"}
        /\ db.orders[o].couponcode = NULL

\* Rows and deliveries are those of orders that exist, and the partner of a delivery
\* is paid only once the delivery is confirmed.
NoOrphans ==
    /\ \A r \in db.activity : r.orderid \in Generated(db)
    /\ \A o \in Order : db.delivery[o] # "none" => o \in Generated(db)
    /\ \A r \in db.activity :
           r.source = "delivery" /\ r.mark # "reversal"
               => db.delivery[r.orderid] \notin {"none", "PENDING"}

\* The inductive invariant behind the theorems of SettlementProofs.
Consistent ==
    /\ TypeOK /\ NoOrphans
    /\ RevokedOrdersPayNobody /\ ReversalsMatch /\ PaidOnce /\ RefundReleasesOrder

\* The awards of an order in force, and the orders whose awards were taken back.
Award == [accountid : Account, source : Source, amount : Int]

AwardsOf(d, o) ==
    {[accountid |-> r.accountid, source |-> r.source, amount |-> r.amount] :
        r \in {x \in RowsOf(d, o) : x.mark = "plain" /\ x.source # "delivery"}}

TakenBack(d) ==
    {o \in Order : \E r \in RowsOf(d, o) : r.mark # "plain" /\ r.source # "delivery"}

Book == INSTANCE AwardBook
            WITH live <- [o \in Order |-> AwardsOf(db, o)], closed <- TakenBack(db)

\* Through every mix of payments, statements, approvals and revocations, on pages
\* however stale, the awards of an order are handed out all together and once, and
\* taken back all together and for good.
ImplementsBook == Book!Spec
=============================================================================
